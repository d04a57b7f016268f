----------------------------- MODULE MemoryWrite -----------------------------
(***************************************************************************)
(* Long-term memory of one user: extraction runs that write it             *)
(* (agents/memory.py, memory/decay.py, memory/store.py) and retrievals     *)
(* that read it through a cache (memory/retrieval.py, memory/cache.py).    *)
(* Runs come from the chat's Celery task, the idle-session flush, the      *)
(* /memory/extract endpoint and the profiler (memory/profiler.py), and     *)
(* nothing excludes two.                                                   *)
(*                                                                         *)
(* A fact is the text of a memory; a memory is an object of the Weaviate   *)
(* collection.  The LLM is taken at its best: it names a memory to         *)
(* supersede whenever one it was shown contradicts what it extracts.       *)
(* Every await of the code is a step boundary.                             *)
(***************************************************************************)
EXTENDS Naturals, Sequences

CONSTANTS
  Fact,          \* texts a memory can have
  Contradicts,   \* pairs of facts that exclude each other
  Memory,        \* objects that can be inserted (a bound)
  Writer,        \* extraction runs (a bound)
  Reader,        \* retrievals (a bound)
  Query,         \* cache keys of the user
  MaxBatch,      \* facts one run can extract (a bound)
  NoFact, NoMemory, Miss

ASSUME MemoryConstants ==
  /\ NoFact \notin Fact /\ NoMemory \notin Memory
  /\ Contradicts \subseteq Fact \X Fact
  /\ Query # {} /\ MaxBatch \in Nat

VARIABLES
  text,    \* text[m]: what object m was inserted with, NoFact before
  replaces,   \* replaces[m]: the supersedes_id it was inserted with
  live,    \* the objects in the collection
  hashes,  \* facts f whose memory_hash:{f} key is set
  cache,   \* cache[q]: the collection the cached result was searched in, or Miss
  writer,  \* writer[w]: an extraction run
  reader,  \* reader[r]: a retrieval
  mishap   \* what has happened so far that the code does not guard against

vars == <<text, replaces, live, hashes, cache, writer, reader, mishap>>

\* Two runs overlap, a retrieval that misses overlaps a run, a call of a run
\* fails or its process dies, a dedup key outlives its 30 days, an extracted fact
\* contradicts several of the memories shown, of which it supersedes one, or one that
\* the LLM was not shown.
Mishap == {"two runs", "read beside", "failure", "expiry", "several", "unseen"}

\* An extracted memory: its text and the memory it supersedes, if any.
Item == [fact : Fact, old : Memory \union {NoMemory}]

WriterState ==
  [pc : {"idle", "extract", "dedup", "embed", "supersede", "upsert", "mark",
         "invalidate", "done", "failed"},
   shown : SUBSET Memory,     \* memories the LLM is shown
   todo  : Seq(Item),         \* still to be looked up in Redis
   keep  : Seq(Item),         \* to be stored
   new   : SUBSET Memory]     \* stored_ids

ReaderState ==
  [pc : {"idle", "search", "set", "done"},
   query : Query, got : SUBSET Memory]

TypeOK ==
  /\ text \in [Memory -> Fact \union {NoFact}]
  /\ replaces \in [Memory -> Memory \union {NoMemory}]
  /\ live \in SUBSET Memory
  /\ hashes \in SUBSET Fact
  /\ cache \in [Query -> (SUBSET Memory) \union {Miss}]
  /\ writer \in [Writer -> WriterState]
  /\ reader \in [Reader -> ReaderState]
  /\ mishap \in SUBSET Mishap

AnyQuery == CHOOSE q \in Query : TRUE

Init ==
  /\ text = [m \in Memory |-> NoFact]
  /\ replaces = [m \in Memory |-> NoMemory]
  /\ live = {}
  /\ hashes = {}
  /\ cache = [q \in Query |-> Miss]
  /\ writer = [w \in Writer |-> [pc |-> "idle", shown |-> {}, 
                                  todo |-> <<>>, keep |-> <<>>, new |-> {}]]
  /\ reader = [r \in Reader |-> [pc |-> "idle", query |-> AnyQuery, got |-> {}]]
  /\ mishap = {}

Running(w) == writer[w].pc \notin {"idle", "done", "failed"}
Reading(r) == reader[r].pc \in {"search", "set"}

-----------------------------------------------------------------------------
(* run_extraction and persist_memories.                                    *)

\* What the LLM can be shown: the preferences nearest to the transcript, at most five
\* of what the collection holds; by the profiler, which does not search, nothing.
Exhibits == SUBSET live

Begin(w) ==
  /\ writer[w].pc = "idle"
  /\ \E near \in Exhibits :
       writer' = [writer EXCEPT ![w].pc = "extract", ![w].shown = near]
  /\ mishap' = (mishap \union {x \in {"two runs"} : \E v \in Writer : Running(v)})
                       \union {x \in {"read beside"} : \E r \in Reader : Reading(r)}
  /\ UNCHANGED <<text, replaces, live, hashes, cache, reader>>

Clash(f, g) == <<f, g>> \in Contradicts \/ <<g, f>> \in Contradicts

\* What is left of a reply: its valid entries, none if it holds no array.
Parsed == UNION {[1..n -> Item] : n \in 0..MaxBatch}

\* What the LLM can answer: facts that do not contradict one another, each
\* with one of the shown memories it contradicts, if there is one.
Olds(w, f) == {m \in writer[w].shown : Clash(f, text[m])}

Answers(w) ==
  {items \in Parsed :
     /\ \A i \in DOMAIN items :
          IF Olds(w, items[i].fact) = {} THEN items[i].old = NoMemory
          ELSE items[i].old \in Olds(w, items[i].fact)
     /\ \A i, j \in DOMAIN items : ~Clash(items[i].fact, items[j].fact)}

Unseen(w, f) == \E m \in live \ writer[w].shown : Clash(f, text[m])

\* An LLM error answers with no item.  An item names one memory, even if it
\* contradicts another.
Extract(w) ==
  /\ writer[w].pc = "extract"
  /\ \E items \in Answers(w) :
       /\ writer' = [writer EXCEPT ![w].pc = "dedup", ![w].todo = items]
       /\ mishap' = (mishap
            \union {x \in {"several"} :
                      \E i \in DOMAIN items : \E m, n \in Olds(w, items[i].fact) : m # n})
            \union {x \in {"unseen"} : \E i \in DOMAIN items : Unseen(w, items[i].fact)}
  /\ UNCHANGED <<text, replaces, live, hashes, cache, reader>>

\* EXISTS memory_hash for the next item; a repeat within the batch is dropped.
Dedup(w) ==
  LET item == Head(writer[w].todo)
      repeat == \E i \in DOMAIN writer[w].keep : writer[w].keep[i].fact = item.fact
  IN
  /\ writer[w].pc = "dedup" /\ writer[w].todo # <<>>
  /\ writer' = [writer EXCEPT ![w].todo = Tail(@),
       ![w].keep = IF repeat \/ item.fact \in hashes THEN @ ELSE Append(@, item)]
  /\ UNCHANGED <<text, replaces, live, hashes, cache, reader, mishap>>

\* Nothing to store, or one batched embedding call.
Embed(w) ==
  /\ writer[w].pc = "dedup" /\ writer[w].todo = <<>>
  /\ writer' = [writer EXCEPT ![w].pc =
                  IF writer[w].keep = <<>> THEN "done" ELSE "supersede"]
  /\ UNCHANGED <<text, replaces, live, hashes, cache, reader, mishap>>

\* Fault: the superseded memory is left in the collection.
Supersede_Keep(w) ==
  /\ writer[w].pc = "supersede" /\ writer[w].keep # <<>>
  /\ writer' = [writer EXCEPT ![w].pc = "upsert"]
  /\ UNCHANGED <<text, replaces, live, hashes, cache, reader, mishap>>

\* apply_supersede, idempotent: a memory already gone is skipped.
Supersede(w) ==
  /\ writer[w].pc = "supersede" /\ writer[w].keep # <<>>
  /\ live' = live \ {Head(writer[w].keep).old}
  /\ writer' = [writer EXCEPT ![w].pc = "upsert"]
  /\ UNCHANGED <<text, replaces, hashes, cache, reader, mishap>>

\* Fault: the dedup key is set before the object is inserted.
Upsert_MarkFirst(w) ==
  /\ writer[w].pc = "upsert"
  /\ hashes' = hashes \union {Head(writer[w].keep).fact}
  /\ writer' = [writer EXCEPT ![w].pc = "mark"]
  /\ UNCHANGED <<text, replaces, live, cache, reader, mishap>>

\* upsert_memory always inserts a new object, with its supersedes_id.
Upsert(w) ==
  /\ writer[w].pc = "upsert"
  /\ \E m \in Memory :
       /\ text[m] = NoFact
       /\ text' = [text EXCEPT ![m] = Head(writer[w].keep).fact]
       /\ replaces' = [replaces EXCEPT ![m] = Head(writer[w].keep).old]
       /\ live' = live \union {m}
       /\ writer' = [writer EXCEPT ![w].pc = "mark", ![w].new = @ \union {m}]
  /\ UNCHANGED <<hashes, cache, reader, mishap>>

\* Fault: the dedup key is never set.
Mark_Not(w) ==
  /\ writer[w].pc = "mark"
  /\ writer' = [writer EXCEPT ![w].keep = Tail(@),
       ![w].pc = IF Len(writer[w].keep) = 1 THEN "invalidate" ELSE "supersede"]
  /\ UNCHANGED <<text, replaces, live, hashes, cache, reader, mishap>>

\* SETEX memory_hash, then the next item.
Mark(w) ==
  /\ writer[w].pc = "mark"
  /\ hashes' = hashes \union {Head(writer[w].keep).fact}
  /\ writer' = [writer EXCEPT ![w].keep = Tail(@),
       ![w].pc = IF Len(writer[w].keep) = 1 THEN "invalidate" ELSE "supersede"]
  /\ UNCHANGED <<text, replaces, live, cache, reader, mishap>>

\* Fault: the cache is left as it is.
Invalidate_Not(w) ==
  /\ writer[w].pc = "invalidate"
  /\ writer' = [writer EXCEPT ![w].pc = "done"]
  /\ UNCHANGED <<text, replaces, live, hashes, cache, reader, mishap>>

\* invalidate_user swallows its errors.
Invalidate(w) ==
  /\ writer[w].pc = "invalidate"
  /\ \/ cache' = [q \in Query |-> Miss] /\ UNCHANGED mishap
     \/ mishap' = mishap \union {"failure"} /\ UNCHANGED cache
  /\ writer' = [writer EXCEPT ![w].pc = "done"]
  /\ UNCHANGED <<text, replaces, live, hashes, reader>>

\* Any other call raises: the run ends where it stands.
Fail(w) ==
  /\ Running(w) /\ writer[w].pc # "invalidate"
  /\ writer' = [writer EXCEPT ![w].pc = "failed"]
  /\ mishap' = mishap \union {"failure"}
  /\ UNCHANGED <<text, replaces, live, hashes, cache, reader>>

-----------------------------------------------------------------------------
(* retrieve_memories.                                                      *)

\* A cache error is a miss.
Get(r, q) ==
  /\ reader[r].pc = "idle"
  /\ \/ /\ cache[q] # Miss
        /\ reader' = [reader EXCEPT ![r] = [pc |-> "done", query |-> q, got |-> cache[q]]]
        /\ UNCHANGED mishap
     \/ /\ reader' = [reader EXCEPT ![r] = [pc |-> "search", query |-> q, got |-> {}]]
        /\ mishap' = mishap \union {x \in {"read beside"} : \E w \in Writer : Running(w)}
  /\ UNCHANGED <<text, replaces, live, hashes, cache, writer>>

\* The best for the query of what the collection holds now.
Search(r) ==
  /\ reader[r].pc = "search"
  /\ reader' = [reader EXCEPT ![r].pc = "set", ![r].got = live]
  /\ UNCHANGED <<text, replaces, live, hashes, cache, writer, mishap>>

\* set_cached swallows its errors.
Set(r) ==
  /\ reader[r].pc = "set"
  /\ \/ cache' = [cache EXCEPT ![reader[r].query] = reader[r].got]
     \/ UNCHANGED cache
  /\ reader' = [reader EXCEPT ![r].pc = "done"]
  /\ UNCHANGED <<text, replaces, live, hashes, writer, mishap>>

\* TTLs: retrieval_cache_ttl of a result, 30 days of a dedup key.
Expire(q) ==
  /\ cache[q] # Miss
  /\ cache' = [cache EXCEPT ![q] = Miss]
  /\ UNCHANGED <<text, replaces, live, hashes, writer, reader, mishap>>

ExpireHash(f) ==
  /\ f \in hashes
  /\ \A w \in Writer : ~Running(w)
  /\ hashes' = hashes \ {f}
  /\ mishap' = mishap \union {"expiry"}
  /\ UNCHANGED <<text, replaces, live, cache, writer, reader>>

WriterStep(w) ==
  \/ Begin(w) \/ Extract(w) \/ Dedup(w) \/ Embed(w) \/ Supersede(w)
  \/ Upsert(w) \/ Mark(w) \/ Invalidate(w) \/ Fail(w)

ReaderStep(r) == Search(r) \/ Set(r) \/ \E q \in Query : Get(r, q)

Next ==
  \/ \E w \in Writer : WriterStep(w)
  \/ \E r \in Reader : ReaderStep(r)
  \/ \E q \in Query : Expire(q)
  \/ \E f \in Fact : ExpireHash(f)

Spec == Init /\ [][Next]_vars

-----------------------------------------------------------------------------
(* Properties.                                                             *)

\* A fact is only taken for a duplicate if it was stored once: the key is set
\* after the object is inserted, so no crash or failure in between makes every
\* later run skip a fact the collection never had.
MarkedWasStored == \A f \in hashes : \E m \in Memory : text[m] = f

\* The collection does not hold the same text twice, unless two runs have
\* overlapped, a run has died between insert and mark, or a mark expired.
NoDuplicates ==
  mishap \intersect {"two runs", "failure", "expiry"} = {} =>
    \A m, n \in live : text[m] = text[n] => m = n

\* "the collection never contains both sides of a contradiction": a memory never stands
\* beside the one it was stored to supersede, however runs overlap and wherever they stop;
\* and of runs one after the other none leaves two memories that contradict each other,
\* unless a fact contradicts several, since it can supersede only one, or one that the
\* LLM was not shown.
OneSide ==
  /\ \A m \in live : replaces[m] \notin live
  /\ mishap \intersect {"two runs", "several", "unseen"} = {} =>
       \A m, n \in live : ~Clash(text[m], text[n])

\* "a freshly-learned preference is never hidden behind a stale cache entry":
\* what a run that is over has stored was there when any cached result was searched,
\* unless a run failed or a retrieval read beside one.
NeverHidden ==
  mishap \intersect {"read beside", "failure"} = {} =>
    \A q \in Query : cache[q] # Miss =>
      \A w \in Writer : ~Running(w) => writer[w].new \intersect live \subseteq cache[q]
=============================================================================
