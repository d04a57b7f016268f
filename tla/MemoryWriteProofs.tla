-------------------------- MODULE MemoryWriteProofs --------------------------
(***************************************************************************)
(* MemoryWrite, for any number of runs and retrievals: type correctness;   *)
(* a fact is never taken for a duplicate of one the collection never had,  *)
(* whatever overlaps or fails; no text twice, no two sides of a            *)
(* contradiction and no fresh memory behind a stale result, each under the *)
(* mishaps it names.                                                       *)
(***************************************************************************)
EXTENDS MemoryWrite, SequenceTheorems, TLAPS

Pcs == {"idle", "extract", "dedup", "embed", "supersede", "upsert", "mark",
        "invalidate", "done", "failed"}

\* A run between supersede and mark has an item in hand; between upsert and
\* mark that item's text has been inserted.
InHand ==
  \A w \in Writer :
    /\ writer[w].pc \in {"upsert", "mark"} => writer[w].keep # <<>>
    /\ writer[w].pc = "mark" => \E m \in Memory : text[m] = Head(writer[w].keep).fact

Inv == TypeOK /\ InHand /\ MarkedWasStored

LEMMA WriterFields ==
  ASSUME TypeOK, NEW w \in Writer
  PROVE  /\ writer[w].pc \in Pcs /\ writer[w].todo \in Seq(Item)
         /\ writer[w].keep \in Seq(Item) /\ writer[w].new \in SUBSET Memory
         /\ writer[w].shown \in SUBSET Memory
  BY DEF TypeOK, WriterState, Pcs

LEMMA ItemSeq ==
  ASSUME NEW q \in Seq(Item)
  PROVE  /\ \A e \in Item : Append(q, e) \in Seq(Item)
         /\ q # <<>> => /\ Head(q) \in Item /\ Tail(q) \in Seq(Item)
                        /\ Head(q).fact \in Fact /\ Head(q).old \in Memory \union {NoMemory}
                        /\ Len(q) # 1 => Tail(q) # <<>>
<1>1. \A e \in Item : Append(q, e) \in Seq(Item)
  OBVIOUS
<1>2. ASSUME q # <<>>
      PROVE  /\ Head(q) \in Item /\ Tail(q) \in Seq(Item)
             /\ Head(q).fact \in Fact /\ Head(q).old \in Memory \union {NoMemory}
             /\ Len(q) # 1 => Tail(q) # <<>>
  <2>1. Head(q) \in Item /\ Tail(q) \in Seq(Item) /\ Len(Tail(q)) = Len(q) - 1
    BY <1>2, HeadTailProperties
  <2>2. Head(q).fact \in Fact /\ Head(q).old \in Memory \union {NoMemory}
    BY <2>1 DEF Item
  <2>3. Len(q) # 1 => Tail(q) # <<>>
    BY <2>1, EmptySeq, LenProperties
  <2>. QED BY <2>1, <2>2, <2>3
<1>. QED BY <1>1, <1>2

\* A step of run w: the pc and the lists of w, and nothing else of it.
LEMMA WriterMoves ==
  ASSUME TypeOK, NEW w \in Writer, NEW x \in WriterState,
         writer' = [writer EXCEPT ![w] = x]
  PROVE  /\ writer' \in [Writer -> WriterState]
         /\ writer'[w] = x /\ \A v \in Writer : v # w => writer'[v] = writer[v]
  BY DEF TypeOK

\* The runs other than w, and what is already marked, stand while objects are
\* only ever added.
LEMMA Keeps ==
  ASSUME Inv, TypeOK', NEW w \in Writer,
         \A v \in Writer : v # w => writer'[v] = writer[v],
         \A m \in Memory : text[m] # NoFact => text'[m] = text[m],
         writer'[w].pc \in {"upsert", "mark"} => writer'[w].keep # <<>>,
         writer'[w].pc = "mark" => \E m \in Memory : text'[m] = Head(writer'[w].keep).fact,
         \A f \in hashes' \ hashes : \E m \in Memory : text'[m] = f
  PROVE  Inv'
<1>1. \A f \in Fact : (\E m \in Memory : text[m] = f) => (\E m \in Memory : text'[m] = f)
  BY MemoryConstants DEF MemoryConstants
<1>2. \A v \in Writer : writer[v].keep # <<>> => Head(writer[v].keep).fact \in Fact
  BY WriterFields, ItemSeq DEF Inv
<1>3. ASSUME NEW v \in Writer
      PROVE  /\ writer'[v].pc \in {"upsert", "mark"} => writer'[v].keep # <<>>
             /\ writer'[v].pc = "mark" =>
                  \E m \in Memory : text'[m] = Head(writer'[v].keep).fact
  <2>1. CASE v = w
    BY <2>1
  <2>2. CASE v # w
    <3>1. writer'[v] = writer[v]
      BY <2>2
    <3>. QED BY <3>1, <1>1, <1>2 DEF Inv, InHand
  <2>. QED BY <2>1, <2>2
<1>4. InHand'
  BY <1>3 DEF InHand
<1>5. MarkedWasStored'
  BY <1>1 DEF Inv, MarkedWasStored, TypeOK
<1>. QED BY <1>4, <1>5 DEF Inv

\* A mishap is one of those named.
LEMMA MishapsNamed == ASSUME TypeOK, [Next]_vars PROVE mishap' \in SUBSET Mishap
<1>1. ASSUME NEW w \in Writer, WriterStep(w) PROVE mishap' \in SUBSET Mishap
  <2>1. CASE Begin(w)
    BY <2>1 DEF Begin, Exhibits, TypeOK, Mishap
  <2>2. CASE Invalidate(w) \/ Fail(w)
    BY <2>2 DEF Invalidate, Fail, TypeOK, Mishap
  <2>3. CASE Extract(w)
    BY <2>3 DEF Extract, TypeOK, Mishap
  <2>4. CASE Dedup(w) \/ Embed(w) \/ Supersede(w) \/ Upsert(w) \/ Mark(w)
    BY <2>4 DEF Dedup, Embed, Supersede, Upsert, Mark, TypeOK
  <2>. QED BY <1>1, <2>1, <2>2, <2>3, <2>4 DEF WriterStep
<1>2. ASSUME NEW r \in Reader, ReaderStep(r) PROVE mishap' \in SUBSET Mishap
  BY <1>2 DEF ReaderStep, Get, Search, Set, TypeOK, Mishap
<1>3. CASE \/ \E q \in Query : Expire(q)
           \/ \E f \in Fact : ExpireHash(f)
           \/ UNCHANGED vars
  BY <1>3 DEF Expire, ExpireHash, vars, TypeOK, Mishap
<1>. QED BY <1>1, <1>2, <1>3 DEF Next

LEMMA WriterStepKeeps == ASSUME Inv, NEW w \in Writer, WriterStep(w) PROVE Inv'
<1>0. TypeOK
  BY DEF Inv
<1>a. mishap' \in SUBSET Mishap
  <2>1. Next
    BY DEF Next
  <2>. QED BY <1>0, <2>1, MishapsNamed
<1> DEFINE y == writer[w]
<1>1. CASE Begin(w)
  <2>0. PICK near \in SUBSET live :
          writer' = [writer EXCEPT ![w].pc = "extract", ![w].shown = near]
    BY <1>1 DEF Begin, Exhibits
  <2> DEFINE x == [y EXCEPT !.pc = "extract", !.shown = near]
  <2>1. x \in WriterState /\ x.pc = "extract"
    BY <1>0 DEF TypeOK, WriterState
  <2>2. writer' = [writer EXCEPT ![w] = x]
    BY <1>0, <2>0 DEF TypeOK
  <2>. HIDE DEF x
  <2>. QED BY <1>0, <1>a, <1>1, <2>1, <2>2, WriterMoves, Keeps DEF Begin, TypeOK
<1>2. CASE Extract(w)
  <2>1. PICK items \in Answers(w) :
          writer' = [writer EXCEPT ![w].pc = "dedup", ![w].todo = items]
    BY <1>2 DEF Extract
  <2>2. items \in Seq(Item)
    <3>1. PICK n \in 0..MaxBatch : items \in [1..n -> Item]
      BY DEF Answers, Parsed
    <3>2. n \in Nat
      BY <3>1, MemoryConstants DEF MemoryConstants
    <3>. QED BY <3>1, <3>2
  <2> DEFINE x == [y EXCEPT !.pc = "dedup", !.todo = items]
  <2>3. x \in WriterState /\ x.pc = "dedup"
    BY <1>0, <2>2 DEF TypeOK, WriterState
  <2>4. writer' = [writer EXCEPT ![w] = x]
    BY <1>0, <2>1 DEF TypeOK
  <2>. HIDE DEF x
  <2>. QED BY <1>0, <1>a, <1>2, <2>3, <2>4, WriterMoves, Keeps DEF Extract, TypeOK
<1>3. CASE Dedup(w)
  <2>1. PICK k \in Seq(Item) :
          writer' = [writer EXCEPT ![w].todo = Tail(y.todo), ![w].keep = k]
    <3>1. y.keep \in Seq(Item) /\ Append(y.keep, Head(y.todo)) \in Seq(Item)
      BY <1>0, <1>3, WriterFields, ItemSeq DEF Dedup
    <3>. QED BY <1>3, <3>1 DEF Dedup
  <2>2. Tail(y.todo) \in Seq(Item)
    BY <1>0, <1>3, WriterFields, ItemSeq DEF Dedup
  <2> DEFINE x == [y EXCEPT !.todo = Tail(y.todo), !.keep = k]
  <2>3. x \in WriterState /\ x.pc = "dedup"
    BY <1>0, <1>3, <2>2 DEF TypeOK, WriterState, Dedup
  <2>4. writer' = [writer EXCEPT ![w] = x]
    BY <1>0, <2>1 DEF TypeOK
  <2>. HIDE DEF x
  <2>. QED BY <1>0, <1>a, <1>3, <2>3, <2>4, WriterMoves, Keeps DEF Dedup, TypeOK
<1>4. CASE Embed(w) \/ Supersede(w) \/ Fail(w)
  <2>1. PICK pc \in {"done", "supersede", "upsert", "failed"} :
          writer' = [writer EXCEPT ![w].pc = pc]
    BY <1>4 DEF Embed, Supersede, Fail
  <2> DEFINE x == [y EXCEPT !.pc = pc]
  <2>2. x \in WriterState /\ x.pc = pc /\ x.keep = y.keep
    BY <1>0 DEF TypeOK, WriterState
  <2>3. writer' = [writer EXCEPT ![w] = x]
    BY <1>0, <2>1 DEF TypeOK
  <2>4. pc = "upsert" => y.keep # <<>>
    BY <1>0, <1>4, <2>2, <2>3, WriterMoves DEF Embed, Supersede, Fail, TypeOK, WriterState
  <2>5. UNCHANGED <<text, replaces, hashes, cache, reader>> /\ live' \in SUBSET Memory
    BY <1>0, <1>4 DEF Embed, Supersede, Fail, TypeOK
  <2>. HIDE DEF x
  <2>. QED BY <1>0, <1>a, <2>2, <2>3, <2>4, <2>5, WriterMoves, Keeps DEF TypeOK
<1>5. CASE Upsert(w)
  <2>1. PICK m \in Memory :
          /\ text[m] = NoFact
          /\ text' = [text EXCEPT ![m] = Head(y.keep).fact]
          /\ replaces' = [replaces EXCEPT ![m] = Head(y.keep).old]
          /\ live' = live \union {m}
          /\ writer' = [writer EXCEPT ![w].pc = "mark", ![w].new = @ \union {m}]
    BY <1>5 DEF Upsert
  <2> DEFINE x == [y EXCEPT !.pc = "mark", !.new = y.new \union {m}]
  <2>2. x \in WriterState /\ x.pc = "mark" /\ x.keep = y.keep
    BY <1>0 DEF TypeOK, WriterState
  <2>3. writer' = [writer EXCEPT ![w] = x]
    BY <1>0, <2>1 DEF TypeOK
  <2>4. /\ y.keep # <<>> /\ Head(y.keep).fact \in Fact
        /\ Head(y.keep).old \in Memory \union {NoMemory}
    BY <1>0, <1>5, WriterFields, ItemSeq DEF Upsert, Inv, InHand
  <2>5. /\ text'[m] = Head(y.keep).fact
        /\ \A n \in Memory : text[n] # NoFact => text'[n] = text[n]
    BY <1>0, <2>1 DEF TypeOK
  <2>. HIDE DEF x
  <2>6. TypeOK'
    BY <1>0, <1>a, <1>5, <2>1, <2>2, <2>3, <2>4, WriterMoves DEF Upsert, TypeOK
  <2>7. writer'[w] = x /\ \A v \in Writer : v # w => writer'[v] = writer[v]
    BY <1>0, <2>2, <2>3, WriterMoves
  <2>8. hashes' = hashes
    BY <1>5 DEF Upsert
  <2>9. /\ writer'[w].keep # <<>>
        /\ \E n \in Memory : text'[n] = Head(writer'[w].keep).fact
    BY <2>2, <2>4, <2>5, <2>7
  <2>10. \A f \in hashes' \ hashes : \E n \in Memory : text'[n] = f
    BY <2>8
  <2>. QED BY <2>5, <2>6, <2>7, <2>9, <2>10, Keeps
<1>6. CASE Mark(w)
  <2>1. PICK pc \in {"invalidate", "supersede"} :
          writer' = [writer EXCEPT ![w].keep = Tail(@), ![w].pc = pc]
    BY <1>6 DEF Mark
  <2>2. /\ y.keep # <<>> /\ Head(y.keep).fact \in Fact /\ Tail(y.keep) \in Seq(Item)
        /\ \E m \in Memory : text[m] = Head(y.keep).fact
    BY <1>0, <1>6, WriterFields, ItemSeq DEF Mark, Inv, InHand
  <2> DEFINE x == [y EXCEPT !.keep = Tail(y.keep), !.pc = pc]
  <2>3. x \in WriterState /\ x.pc = pc
    BY <1>0, <2>2 DEF TypeOK, WriterState
  <2>4. writer' = [writer EXCEPT ![w] = x]
    BY <1>0, <2>1 DEF TypeOK
  <2>. HIDE DEF x
  <2>5. TypeOK'
    BY <1>0, <1>a, <1>6, <2>2, <2>3, <2>4, WriterMoves DEF Mark, TypeOK
  <2>6. writer'[w].pc = pc /\ \A v \in Writer : v # w => writer'[v] = writer[v]
    BY <1>0, <2>3, <2>4, WriterMoves
  <2>7. text' = text /\ hashes' = hashes \union {Head(y.keep).fact}
    BY <1>6 DEF Mark
  <2>8. \A f \in hashes' \ hashes : \E m \in Memory : text'[m] = f
    BY <2>2, <2>7
  <2>9. writer'[w].pc \notin {"upsert", "mark"}
    BY <2>6
  <2>10. \A m \in Memory : text[m] # NoFact => text'[m] = text[m]
    BY <2>7
  <2>. QED BY <2>5, <2>6, <2>8, <2>9, <2>10, Keeps
<1>7. CASE Invalidate(w)
  <2> DEFINE x == [y EXCEPT !.pc = "done"]
  <2>1. x \in WriterState /\ x.pc = "done"
    BY <1>0 DEF TypeOK, WriterState
  <2>2. writer' = [writer EXCEPT ![w] = x]
    BY <1>0, <1>7 DEF Invalidate, TypeOK
  <2>3. cache' \in [Query -> (SUBSET Memory) \union {Miss}]
    <3>1. CASE cache' = [q \in Query |-> Miss]
      BY <3>1
    <3>2. CASE cache' = cache
      BY <1>0, <3>2 DEF TypeOK
    <3>. QED BY <1>7, <3>1, <3>2 DEF Invalidate
  <2>. HIDE DEF x
  <2>. QED BY <1>0, <1>a, <1>7, <2>1, <2>2, <2>3, WriterMoves, Keeps DEF Invalidate, TypeOK
<1>. QED BY <1>1, <1>2, <1>3, <1>4, <1>5, <1>6, <1>7 DEF WriterStep

\* What leaves the runs alone and adds neither objects nor keys.
LEMMA QuietKeeps ==
  ASSUME Inv, TypeOK', UNCHANGED <<text, writer>>, hashes' \subseteq hashes
  PROVE  Inv'
  BY DEF Inv, InHand, MarkedWasStored

LEMMA InvInductive == Spec => []Inv
<1>1. Init => Inv
  <2> SUFFICES ASSUME Init PROVE Inv
    OBVIOUS
  <2>1. writer \in [Writer -> WriterState]
    <3>1. <<>> \in Seq(Item)
      OBVIOUS
    <3>. QED BY <3>1 DEF Init, WriterState
  <2>2. reader \in [Reader -> ReaderState]
    <3>1. AnyQuery \in Query
      BY MemoryConstants DEF MemoryConstants, AnyQuery
    <3>. QED BY <3>1 DEF Init, ReaderState
  <2>3. TypeOK
    BY <2>1, <2>2 DEF Init, TypeOK
  <2>. QED BY <2>3 DEF Init, Inv, InHand, MarkedWasStored
<1>2. Inv /\ [Next]_vars => Inv'
  <2> SUFFICES ASSUME Inv, [Next]_vars PROVE Inv'
    OBVIOUS
  <2>0. mishap' \in SUBSET Mishap
    BY MishapsNamed DEF Inv
  <2>1. ASSUME NEW w \in Writer, WriterStep(w) PROVE Inv'
    BY <2>1, WriterStepKeeps
  <2>2. ASSUME NEW r \in Reader, ReaderStep(r) PROVE Inv'
    <3>1. reader' \in [Reader -> ReaderState]
      <4>1. ASSUME NEW q \in Query, Get(r, q) PROVE reader' \in [Reader -> ReaderState]
        <5>1. \E x \in ReaderState : reader' = [reader EXCEPT ![r] = x]
          BY <4>1 DEF Get, Inv, TypeOK, ReaderState
        <5>. QED BY <5>1 DEF Inv, TypeOK
      <4>. QED BY <2>2, <4>1 DEF ReaderStep, Search, Set, Inv, TypeOK, ReaderState
    <3>2. cache' \in [Query -> (SUBSET Memory) \union {Miss}]
      <4>1. CASE cache' = [cache EXCEPT ![reader[r].query] = reader[r].got]
        BY <4>1 DEF Inv, TypeOK, ReaderState
      <4>2. CASE cache' = cache
        BY <4>2 DEF Inv, TypeOK
      <4>. QED BY <2>2, <4>1, <4>2 DEF ReaderStep, Get, Search, Set
    <3>3. UNCHANGED <<text, replaces, live, hashes, writer>>
      BY <2>2 DEF ReaderStep, Get, Search, Set
    <3>4. TypeOK'
      BY <2>0, <3>1, <3>2, <3>3 DEF Inv, TypeOK
    <3>. QED BY <3>3, <3>4, QuietKeeps
  <2>3. ASSUME NEW q \in Query, Expire(q) PROVE Inv'
    <3>1. TypeOK'
      <4>1. cache' \in [Query -> (SUBSET Memory) \union {Miss}]
        BY <2>3 DEF Expire, Inv, TypeOK
      <4>. QED BY <2>0, <2>3, <4>1 DEF Expire, Inv, TypeOK
    <3>. QED BY <2>3, <3>1, QuietKeeps DEF Expire
  <2>4. ASSUME NEW f \in Fact, ExpireHash(f) PROVE Inv'
    <3>1. TypeOK'
      BY <2>0, <2>4 DEF ExpireHash, Inv, TypeOK
    <3>. QED BY <2>4, <3>1, QuietKeeps DEF ExpireHash
  <2>5. CASE UNCHANGED vars
    BY <2>5 DEF vars, Inv, TypeOK, InHand, MarkedWasStored
  <2>. QED BY <2>1, <2>2, <2>3, <2>4, <2>5 DEF Next
<1>. QED BY <1>1, <1>2, PTL DEF Spec

\* Every variable keeps its type.
THEOREM TypeCorrect == Spec => []TypeOK
<1>1. Inv => TypeOK
  BY DEF Inv
<1>. QED BY <1>1, InvInductive, PTL

\* The dedup keys are sound: what is skipped as seen before was once stored,
\* however runs overlap and wherever they fail.
THEOREM DedupSound == Spec => []MarkedWasStored
<1>1. Inv => MarkedWasStored
  BY DEF Inv
<1>. QED BY <1>1, InvInductive, PTL

-----------------------------------------------------------------------------
(* What each step of a run does to it, field by field.                     *)

LEMMA Effects ==
  ASSUME TypeOK, NEW w \in Writer
  PROVE  /\ Begin(w) => /\ writer'[w].pc = "extract" /\ writer'[w].shown \subseteq live
                        /\ writer'[w].todo = writer[w].todo
                        /\ writer'[w].keep = writer[w].keep
                        /\ writer'[w].new = writer[w].new
         /\ Dedup(w) => /\ writer'[w].pc = "dedup"
                        /\ writer'[w].todo = Tail(writer[w].todo)
                        /\ writer'[w].new = writer[w].new
                        /\ \/ writer'[w].keep = writer[w].keep
                           \/ /\ writer'[w].keep
                                   = Append(writer[w].keep, Head(writer[w].todo))
                              /\ Head(writer[w].todo).fact \notin hashes
                              /\ \A i \in DOMAIN writer[w].keep :
                                   writer[w].keep[i].fact # Head(writer[w].todo).fact
         /\ Embed(w) => /\ writer'[w].pc = "supersede" \/
                               (writer'[w].pc = "done" /\ writer[w].keep = <<>>)
                        /\ writer'[w].todo = writer[w].todo
                        /\ writer'[w].keep = writer[w].keep
                        /\ writer'[w].new = writer[w].new
         /\ Supersede(w) => /\ writer'[w].pc = "upsert"
                            /\ writer'[w].todo = writer[w].todo
                            /\ writer'[w].keep = writer[w].keep
                            /\ writer'[w].new = writer[w].new
         /\ Upsert(w) => \E m \in Memory :
              /\ text[m] = NoFact /\ text'[m] = Head(writer[w].keep).fact
              /\ \A n \in Memory : n # m => text'[n] = text[n]
              /\ replaces' = [replaces EXCEPT ![m] = Head(writer[w].keep).old]
              /\ live' = live \union {m}
              /\ writer'[w].pc = "mark"
              /\ writer'[w].todo = writer[w].todo
              /\ writer'[w].keep = writer[w].keep
              /\ writer'[w].new = writer[w].new \union {m}
         /\ Mark(w) => /\ writer'[w].pc \in {"invalidate", "supersede"}
                       /\ writer'[w].todo = writer[w].todo
                       /\ writer'[w].keep = Tail(writer[w].keep)
                       /\ writer'[w].new = writer[w].new
         /\ Invalidate(w) => writer'[w].pc = "done" /\ writer'[w].new = writer[w].new
         /\ Fail(w) => writer'[w].pc = "failed" /\ writer'[w].new = writer[w].new
<1>1. ASSUME Begin(w)
      PROVE  /\ writer'[w].pc = "extract" /\ writer'[w].shown \subseteq live
             /\ writer'[w].todo = writer[w].todo /\ writer'[w].keep = writer[w].keep
             /\ writer'[w].new = writer[w].new
  <2>1. PICK near \in SUBSET live :
          writer' = [writer EXCEPT ![w].pc = "extract", ![w].shown = near]
    BY <1>1 DEF Begin, Exhibits
  <2>. QED BY <2>1 DEF TypeOK, WriterState
<1>2. ASSUME Dedup(w)
      PROVE  /\ writer'[w].pc = "dedup" /\ writer'[w].todo = Tail(writer[w].todo)
             /\ writer'[w].new = writer[w].new
             /\ \/ writer'[w].keep = writer[w].keep
                \/ /\ writer'[w].keep = Append(writer[w].keep, Head(writer[w].todo))
                   /\ Head(writer[w].todo).fact \notin hashes
                   /\ \A i \in DOMAIN writer[w].keep :
                        writer[w].keep[i].fact # Head(writer[w].todo).fact
  <2>1. PICK k \in {writer[w].keep, Append(writer[w].keep, Head(writer[w].todo))} :
          /\ writer' = [writer EXCEPT ![w].todo = Tail(writer[w].todo), ![w].keep = k]
          /\ k = writer[w].keep
             \/ /\ Head(writer[w].todo).fact \notin hashes
                /\ \A i \in DOMAIN writer[w].keep :
                     writer[w].keep[i].fact # Head(writer[w].todo).fact
    BY <1>2 DEF Dedup
  <2>2. /\ writer'[w].pc = writer[w].pc /\ writer'[w].todo = Tail(writer[w].todo)
        /\ writer'[w].keep = k /\ writer'[w].new = writer[w].new
    BY <2>1 DEF TypeOK, WriterState
  <2>. QED BY <1>2, <2>1, <2>2 DEF Dedup
<1>3. Embed(w) => /\ writer'[w].pc = "supersede" \/
                         (writer'[w].pc = "done" /\ writer[w].keep = <<>>)
                  /\ writer'[w].todo = writer[w].todo
                  /\ writer'[w].keep = writer[w].keep
                  /\ writer'[w].new = writer[w].new
  BY DEF Embed, TypeOK, WriterState
<1>4. Supersede(w) => /\ writer'[w].pc = "upsert"
                      /\ writer'[w].todo = writer[w].todo
                      /\ writer'[w].keep = writer[w].keep
                      /\ writer'[w].new = writer[w].new
  BY DEF Supersede, TypeOK, WriterState
<1>5. ASSUME Upsert(w)
      PROVE  \E m \in Memory :
               /\ text[m] = NoFact /\ text'[m] = Head(writer[w].keep).fact
               /\ \A n \in Memory : n # m => text'[n] = text[n]
               /\ replaces' = [replaces EXCEPT ![m] = Head(writer[w].keep).old]
               /\ live' = live \union {m}
               /\ writer'[w].pc = "mark"
               /\ writer'[w].todo = writer[w].todo
               /\ writer'[w].keep = writer[w].keep
               /\ writer'[w].new = writer[w].new \union {m}
  <2>1. PICK m \in Memory :
          /\ text[m] = NoFact
          /\ text' = [text EXCEPT ![m] = Head(writer[w].keep).fact]
          /\ replaces' = [replaces EXCEPT ![m] = Head(writer[w].keep).old]
          /\ live' = live \union {m}
          /\ writer' = [writer EXCEPT ![w].pc = "mark", ![w].new = @ \union {m}]
    BY <1>5 DEF Upsert
  <2>. QED BY <2>1 DEF TypeOK, WriterState
<1>6. Mark(w) => /\ writer'[w].pc \in {"invalidate", "supersede"}
                 /\ writer'[w].todo = writer[w].todo
                 /\ writer'[w].keep = Tail(writer[w].keep)
                 /\ writer'[w].new = writer[w].new
  BY DEF Mark, TypeOK, WriterState
<1>7. /\ Invalidate(w) => writer'[w].pc = "done" /\ writer'[w].new = writer[w].new
      /\ Fail(w) => writer'[w].pc = "failed" /\ writer'[w].new = writer[w].new
  BY DEF Invalidate, Fail, TypeOK, WriterState
<1>. QED BY <1>1, <1>2, <1>3, <1>4, <1>5, <1>6, <1>7

\* What the LLM answers, and what of it the code does not guard against.
LEMMA Extracts ==
  ASSUME TypeOK, NEW w \in Writer, Extract(w)
  PROVE  /\ writer'[w].pc = "dedup" /\ writer'[w].todo \in Answers(w)
         /\ writer'[w].keep = writer[w].keep /\ writer'[w].new = writer[w].new
         /\ "several" \notin mishap' =>
              \A i \in DOMAIN writer'[w].todo :
                \A m, n \in Olds(w, writer'[w].todo[i].fact) : m = n
         /\ "unseen" \notin mishap' =>
              \A i \in DOMAIN writer'[w].todo : ~Unseen(w, writer'[w].todo[i].fact)
<1>1. PICK items \in Answers(w) :
        /\ writer' = [writer EXCEPT ![w].pc = "dedup", ![w].todo = items]
        /\ (\E i \in DOMAIN items : \E m, n \in Olds(w, items[i].fact) : m # n)
             => "several" \in mishap'
        /\ (\E i \in DOMAIN items : Unseen(w, items[i].fact)) => "unseen" \in mishap'
  BY DEF Extract
<1>2. /\ writer'[w].pc = "dedup" /\ writer'[w].todo = items
      /\ writer'[w].keep = writer[w].keep /\ writer'[w].new = writer[w].new
  BY <1>1 DEF TypeOK, WriterState
<1>. QED BY <1>1, <1>2

\* Other runs stand, and what has happened has happened.
LEMMA StepOf ==
  ASSUME TypeOK, NEW w \in Writer, WriterStep(w)
  PROVE  /\ \A v \in Writer : v # w => writer'[v] = writer[v]
         /\ reader' = reader /\ mishap \subseteq mishap'
         /\ Begin(w) \/ Running(w)
<1>1. CASE Begin(w) \/ Extract(w)
  BY <1>1 DEF Begin, Extract, TypeOK, Running
<1>2. CASE Dedup(w) \/ Embed(w) \/ Supersede(w)
  BY <1>2 DEF Dedup, Embed, Supersede, TypeOK, Running
<1>3. CASE Upsert(w) \/ Mark(w) \/ Invalidate(w) \/ Fail(w)
  BY <1>3 DEF Upsert, Mark, Invalidate, Fail, TypeOK, Running
<1>. QED BY <1>1, <1>2, <1>3 DEF WriterStep

\* Retrievals and expiries leave the collection and the runs alone.
LEMMA Elsewhere ==
  ASSUME [Next]_vars, \A w \in Writer : ~WriterStep(w)
  PROVE  /\ UNCHANGED <<text, replaces, live, writer>> /\ mishap \subseteq mishap'
         /\ hashes' = hashes \/ "expiry" \in mishap'
  BY DEF Next, ReaderStep, Get, Search, Set, Expire, ExpireHash, vars
-----------------------------------------------------------------------------
(* Runs one after the other.                                               *)

Alone ==
  "two runs" \notin mishap =>
    \A v, w \in Writer : Running(v) /\ Running(w) => v = w

\* Only objects that were inserted are in the collection or in stored_ids, and a
\* run has kept and stored nothing before its look-ups.
Shelved ==
  /\ \A m \in live : text[m] # NoFact
  /\ \A w \in Writer :
       /\ \A m \in writer[w].new : text[m] # NoFact
       /\ writer[w].pc \in {"idle", "extract"} => writer[w].keep = <<>>
       /\ writer[w].pc \in {"idle", "extract", "dedup"} => writer[w].new = {}

Base == Inv /\ Alone /\ Shelved

LEMMA AloneKept ==
  ASSUME TypeOK, Alone, [Next]_vars
  PROVE  Alone'
<1>1. ASSUME NEW w \in Writer, WriterStep(w), "two runs" \notin mishap'
      PROVE  \A v \in Writer : v # w => ~Running(v)'
  <2>1. "two runs" \notin mishap
    BY <1>1, StepOf
  <2>2. CASE Begin(w)
    <3>1. \A v \in Writer : ~Running(v)
      BY <1>1, <2>2 DEF Begin
    <3>. QED BY <1>1, <3>1, StepOf DEF Running
  <2>3. CASE Running(w)
    BY <1>1, <2>1, <2>3, StepOf DEF Alone, Running
  <2>. QED BY <1>1, <2>2, <2>3, StepOf
<1>2. CASE \E w \in Writer : WriterStep(w)
  BY <1>1, <1>2 DEF Alone
<1>3. CASE \A w \in Writer : ~WriterStep(w)
  BY <1>3, Elsewhere DEF Alone, Running
<1>. QED BY <1>2, <1>3

\* The step of a run that overlaps no other: the others are over or not begun.
LEMMA Solo ==
  ASSUME TypeOK, Alone, NEW w \in Writer, WriterStep(w), "two runs" \notin mishap'
  PROVE  /\ "two runs" \notin mishap
         /\ \A v \in Writer : v # w =>
              ~Running(v) /\ ~Running(v)' /\ writer'[v] = writer[v]
         /\ Begin(w) => \A v \in Writer : ~Running(v)
<1>1. "two runs" \notin mishap
  BY StepOf
<1>2. Begin(w) => \A v \in Writer : ~Running(v)
  BY DEF Begin
<1>3. \A v \in Writer : v # w => ~Running(v)
  BY <1>1, <1>2, StepOf DEF Alone
<1>. QED BY <1>1, <1>2, <1>3, StepOf DEF Running

LEMMA ShelvedKept ==
  ASSUME Inv, Shelved, [Next]_vars
  PROVE  Shelved'
<1>0. TypeOK
  BY DEF Inv
<1>1. ASSUME NEW w \in Writer, WriterStep(w) PROVE Shelved'
  <2>0. /\ \A v \in Writer : v # w => writer'[v] = writer[v]
        /\ writer[w].new \in SUBSET Memory /\ live \in SUBSET Memory
    BY <1>0, <1>1, StepOf, WriterFields DEF TypeOK
  <2>1. CASE Upsert(w)
    <3>1. PICK m \in Memory :
            /\ text[m] = NoFact /\ text'[m] = Head(writer[w].keep).fact
            /\ \A n \in Memory : n # m => text'[n] = text[n]
            /\ live' = live \union {m}
            /\ writer'[w].pc = "mark"
            /\ writer'[w].new = writer[w].new \union {m}
      BY <1>0, <2>1, Effects
    <3>2. text'[m] # NoFact
      <4>1. writer[w].keep # <<>>
        BY <2>1 DEF Upsert, Inv, InHand
      <4>. QED BY <1>0, <3>1, <4>1, WriterFields, ItemSeq, MemoryConstants
               DEF MemoryConstants
    <3>3. \A v \in Writer : writer[v].new \in SUBSET Memory
      BY <1>0, WriterFields
    <3>4. \A n \in Memory : text[n] # NoFact => text'[n] # NoFact
      BY <3>1, <3>2
    <3>5. \A n \in live' : text'[n] # NoFact
      BY <2>0, <3>1, <3>2, <3>4 DEF Shelved
    <3>6. \A v \in Writer : \A n \in writer'[v].new : text'[n] # NoFact
      BY <2>0, <3>1, <3>2, <3>3, <3>4 DEF Shelved
    <3>. QED BY <2>0, <3>1, <3>5, <3>6 DEF Shelved
  <2>2. CASE ~Upsert(w)
    <3>1. text' = text /\ live' \subseteq live
      BY <1>1, <2>2 DEF WriterStep, Begin, Extract, Dedup, Embed, Supersede, Mark,
                        Invalidate, Fail
    <3>2. writer'[w].new = writer[w].new
      BY <1>0, <1>1, <2>2, Effects, Extracts DEF WriterStep
    <3>3. writer'[w].pc \in {"idle", "extract"} => writer'[w].keep = <<>>
      <4>1. CASE Begin(w)
        BY <1>0, <4>1, Effects DEF Begin, Shelved
      <4>2. CASE ~Begin(w)
        <5>1. writer'[w].pc \notin {"idle", "extract"}
          BY <1>0, <1>1, <2>2, <4>2, Effects, Extracts DEF WriterStep
        <5>. QED BY <5>1
      <4>. QED BY <4>1, <4>2
    <3>4. writer'[w].pc \in {"idle", "extract", "dedup"} => writer'[w].new = {}
      <4>1. CASE Begin(w) \/ Extract(w) \/ Dedup(w)
        BY <3>2, <4>1 DEF Begin, Extract, Dedup, Shelved
      <4>2. CASE ~(Begin(w) \/ Extract(w) \/ Dedup(w))
        <5>1. writer'[w].pc \notin {"idle", "extract", "dedup"}
          BY <1>0, <1>1, <2>2, <4>2, Effects DEF WriterStep
        <5>. QED BY <5>1
      <4>. QED BY <4>1, <4>2
    <3>. QED BY <2>0, <3>1, <3>2, <3>3, <3>4 DEF Shelved
  <2>. QED BY <2>1, <2>2
<1>2. CASE \A w \in Writer : ~WriterStep(w)
  BY <1>2, Elsewhere DEF Shelved
<1>. QED BY <1>1, <1>2

LEMMA BaseInductive == Spec => []Base
<1>1. Init => Alone /\ Shelved
  BY DEF Init, Alone, Running, Shelved
<1>2. Inv /\ Base /\ [Next]_vars => Alone' /\ Shelved'
  BY AloneKept, ShelvedKept DEF Base, Inv
<1>3. Inv /\ Alone /\ Shelved => Base
  BY DEF Base
<1>. QED BY <1>1, <1>2, <1>3, InvInductive, PTL DEF Spec, Base

-----------------------------------------------------------------------------
(* No text twice.                                                          *)

\* The facts of a list are distinct and none of them is in h.
Distinct(q, h) ==
  \A i, j \in DOMAIN q : q[i].fact \notin h /\ (q[i].fact = q[j].fact => i = j)

\* What is in the collection is marked, or in the hand of the run that is about
\* to mark it; what a run is to store is neither marked nor repeated.
Once ==
  mishap \intersect {"two runs", "failure", "expiry"} = {} =>
    /\ \A m \in live :
         \/ text[m] \in hashes
         \/ \E w \in Writer : writer[w].pc = "mark" /\ text[m] = Head(writer[w].keep).fact
    /\ \A w \in Writer : Running(w) => Distinct(writer[w].keep, hashes)

LEMMA DistinctAppend ==
  ASSUME NEW q \in Seq(Item), NEW e \in Item, NEW h, Distinct(q, h), e.fact \notin h,
         \A i \in DOMAIN q : q[i].fact # e.fact
  PROVE  Distinct(Append(q, e), h)
<1>1. /\ DOMAIN q = 1..Len(q) /\ DOMAIN Append(q, e) = 1..(Len(q) + 1) /\ Len(q) \in Nat
      /\ \A i \in 1..Len(q) : Append(q, e)[i] = q[i]
      /\ Append(q, e)[Len(q) + 1] = e
  BY AppendProperties, LenProperties
<1>2. \A i \in 1..(Len(q) + 1) : i \in 1..Len(q) \/ i = Len(q) + 1
  BY <1>1
<1>. QED BY <1>1, <1>2 DEF Distinct

LEMMA DistinctTail ==
  ASSUME NEW q \in Seq(Item), NEW h, Distinct(q, h), q # <<>>
  PROVE  Head(q).fact \notin h /\ Distinct(Tail(q), h \union {Head(q).fact})
<1>1. /\ DOMAIN q = 1..Len(q) /\ Len(q) \in Nat /\ Len(q) >= 1 /\ Head(q) = q[1]
      /\ DOMAIN Tail(q) = 1..(Len(q) - 1)
      /\ \A i \in 1..(Len(q) - 1) : Tail(q)[i] = q[i+1]
  BY HeadTailProperties, LenProperties, EmptySeq
<1>2. \A i \in 1..(Len(q) - 1) : i + 1 \in 1..Len(q) /\ i + 1 # 1
  BY <1>1
<1>3. 1 \in 1..Len(q)
  BY <1>1
<1>4. \A i, j \in 1..(Len(q) - 1) : i + 1 = j + 1 => i = j
  OBVIOUS
<1>. QED BY <1>1, <1>2, <1>3, <1>4 DEF Distinct

LEMMA OnceKept ==
  ASSUME Base, Once, NoDuplicates, [Next]_vars
  PROVE  Once' /\ NoDuplicates'
<1>0. Inv /\ TypeOK /\ Alone
  BY DEF Base, Inv
<1> DEFINE Clean == mishap \intersect {"two runs", "failure", "expiry"} = {}
<1>1. ASSUME NEW w \in Writer, WriterStep(w), Clean'
      PROVE  /\ \A m \in live' : \/ text'[m] \in hashes'
                                 \/ writer'[w].pc = "mark" /\ text'[m] = Head(writer'[w].keep).fact
             /\ Running(w)' => Distinct(writer'[w].keep, hashes')
             /\ \A m, n \in live' : text'[m] = text'[n] => m = n
  <2>1. /\ Clean /\ "two runs" \notin mishap'
        /\ \A v \in Writer : v # w => ~Running(v)
    BY <1>0, <1>1, StepOf, Solo
  <2>2. /\ \A m \in live : \/ text[m] \in hashes
                           \/ writer[w].pc = "mark" /\ text[m] = Head(writer[w].keep).fact
        /\ Running(w) => Distinct(writer[w].keep, hashes)
        /\ \A m, n \in live : text[m] = text[n] => m = n
    BY <2>1 DEF Once, NoDuplicates, Running
  <2>3. writer[w].keep \in Seq(Item) /\ writer[w].todo \in Seq(Item)
    BY <1>0, WriterFields
  <2>4. CASE Begin(w)
    <3>1. writer'[w].keep = <<>>
      BY <1>0, <2>4, Effects DEF Begin, Base, Shelved
    <3>2. \A h : Distinct(<<>>, h)
      BY DEF Distinct
    <3>. QED BY <2>2, <2>4, <3>1, <3>2 DEF Begin
  <2>5. CASE Extract(w)
    BY <1>0, <2>2, <2>5, Extracts DEF Extract, Running
  <2>6. CASE Dedup(w)
    <3>1. Distinct(writer'[w].keep, hashes)
      <4>1. Head(writer[w].todo) \in Item
        BY <2>3, <2>6, ItemSeq DEF Dedup
      <4>2. Distinct(writer[w].keep, hashes)
        BY <2>2, <2>6 DEF Dedup, Running
      <4>. QED BY <1>0, <2>3, <2>6, <4>1, <4>2, Effects, DistinctAppend
    <3>. QED BY <2>2, <2>6, <3>1 DEF Dedup
  <2>7. CASE Embed(w) \/ Supersede(w)
    <3>1. writer'[w].keep = writer[w].keep
      BY <1>0, <2>7, Effects
    <3>2. live' \subseteq live /\ text' = text /\ hashes' = hashes
      BY <2>7 DEF Embed, Supersede
    <3>. QED BY <2>2, <2>7, <3>1, <3>2 DEF Embed, Supersede, Running
  <2>8. CASE Upsert(w)
    <3>1. PICK m \in Memory :
            /\ text[m] = NoFact /\ text'[m] = Head(writer[w].keep).fact
            /\ \A n \in Memory : n # m => text'[n] = text[n]
            /\ live' = live \union {m}
            /\ writer'[w].pc = "mark"
            /\ writer'[w].keep = writer[w].keep
      BY <1>0, <2>8, Effects
    <3>2. hashes' = hashes /\ writer[w].pc = "upsert"
      BY <2>8 DEF Upsert
    <3>3. Distinct(writer[w].keep, hashes)
      BY <2>2, <3>2 DEF Running
    <3>4. Head(writer[w].keep).fact \notin hashes
      BY <1>0, <2>3, <3>2, <3>3, DistinctTail DEF Inv, InHand
    <3>5. \A n \in live : n # m /\ n \in Memory /\ text[n] \in hashes
      BY <1>0, <2>2, <3>1, <3>2 DEF Base, Shelved, TypeOK
    <3>. QED BY <2>2, <3>1, <3>2, <3>3, <3>4, <3>5
  <2>9. CASE Mark(w)
    <3>1. /\ hashes' = hashes \union {Head(writer[w].keep).fact}
          /\ writer[w].pc = "mark" /\ live' = live /\ text' = text
          /\ writer'[w].keep = Tail(writer[w].keep)
      BY <1>0, <2>9, Effects DEF Mark
    <3>2. Distinct(writer'[w].keep, hashes')
      BY <1>0, <2>2, <2>3, <3>1, DistinctTail DEF Inv, InHand, Running
    <3>. QED BY <2>2, <3>1, <3>2
  <2>10. CASE Invalidate(w)
    <3>1. ~Running(w)'
      BY <1>0, <2>10, Effects DEF Running
    <3>2. text' = text /\ live' = live /\ hashes' = hashes /\ writer[w].pc = "invalidate"
      BY <2>10 DEF Invalidate
    <3>. QED BY <2>2, <3>1, <3>2
  <2>11. CASE Fail(w)
    BY <1>1, <2>11 DEF Fail
  <2>. QED BY <1>1, <2>4, <2>5, <2>6, <2>7, <2>8, <2>9, <2>10, <2>11 DEF WriterStep
<1>2. ASSUME NEW w \in Writer, WriterStep(w) PROVE Once' /\ NoDuplicates'
  <2>1. Clean' => \A v \in Writer : v # w => ~Running(v)'
    BY <1>0, <1>2, Solo
  <2>2. Once'
    <3> SUFFICES ASSUME Clean'
                 PROVE  /\ \A m \in live' : \/ text'[m] \in hashes'
                                            \/ \E v \in Writer : /\ writer'[v].pc = "mark"
                                                                 /\ text'[m] = Head(writer'[v].keep).fact
                        /\ \A v \in Writer : Running(v)' => Distinct(writer'[v].keep, hashes')
      BY DEF Once, Distinct
    <3>. QED BY <1>1, <1>2, <2>1
  <2>. QED BY <1>1, <1>2, <2>2 DEF NoDuplicates
<1>3. CASE \A w \in Writer : ~WriterStep(w)
  <2>1. /\ UNCHANGED <<text, replaces, live, writer>> /\ mishap \subseteq mishap'
        /\ hashes' = hashes \/ "expiry" \in mishap'
    BY <1>3, Elsewhere
  <2>2. Clean' => Clean /\ hashes' = hashes
    BY <2>1
  <2>3. Clean' => /\ \A m \in live' : \/ text'[m] \in hashes'
                                      \/ \E w \in Writer : /\ writer'[w].pc = "mark"
                                                           /\ text'[m] = Head(writer'[w].keep).fact
                  /\ \A w \in Writer : Running(w)' => Distinct(writer'[w].keep, hashes')
    BY <2>1, <2>2 DEF Once, Running
  <2>4. Once'
    BY <2>3 DEF Once, Distinct
  <2>5. NoDuplicates'
    BY <2>1, <2>2 DEF NoDuplicates
  <2>. QED BY <2>4, <2>5
<1>. QED BY <1>2, <1>3

\* The collection does not hold the same text twice, unless two runs have
\* overlapped, a run has died between insert and mark, or a mark expired.
THEOREM NoTextTwice == Spec => []NoDuplicates
<1>1. Init => Once /\ NoDuplicates
  BY DEF Init, Once, NoDuplicates, Running
<1>2. Base /\ Once /\ NoDuplicates /\ [Next]_vars => Once' /\ NoDuplicates'
  BY OnceKept
<1>. QED BY <1>1, <1>2, BaseInductive, PTL DEF Spec

-----------------------------------------------------------------------------
(* No contradiction.                                                       *)

Listed(q) == {q[i] : i \in DOMAIN q}

\* What a run still has to look up or to store.
Items(w) == Listed(writer[w].todo) \union Listed(writer[w].keep)

\* What contradicts an item of the run is the memory the item supersedes, gone
\* before the item is stored; the items do not contradict one another.
SidedBy(w) ==
  /\ writer[w].pc \in {"dedup", "supersede", "upsert", "mark"} =>
       \A e \in Items(w) :
         /\ \A m \in live : Clash(text[m], e.fact) => m = e.old
         /\ \A f \in Items(w) : ~Clash(e.fact, f.fact)
  /\ writer[w].pc = "upsert" => Head(writer[w].keep).old \notin live

NoClash ==
  mishap \intersect {"two runs", "several", "unseen"} = {} =>
    \A m, n \in live : ~Clash(text[m], text[n])

Sided ==
  mishap \intersect {"two runs", "several", "unseen"} = {} => \A w \in Writer : SidedBy(w)

LEMMA ListedParts ==
  ASSUME NEW q \in Seq(Item)
  PROVE  /\ \A e \in Item : Listed(Append(q, e)) \subseteq Listed(q) \union {e}
         /\ q # <<>> => Head(q) \in Listed(q) /\ Listed(Tail(q)) \subseteq Listed(q)
<1>1. ASSUME NEW e \in Item PROVE Listed(Append(q, e)) \subseteq Listed(q) \union {e}
  <2>1. /\ DOMAIN q = 1..Len(q) /\ DOMAIN Append(q, e) = 1..(Len(q) + 1) /\ Len(q) \in Nat
        /\ \A i \in 1..Len(q) : Append(q, e)[i] = q[i]
        /\ Append(q, e)[Len(q) + 1] = e
    BY AppendProperties, LenProperties
  <2>2. \A i \in 1..(Len(q) + 1) : i \in 1..Len(q) \/ i = Len(q) + 1
    BY <2>1
  <2>. QED BY <2>1, <2>2 DEF Listed
<1>2. ASSUME q # <<>> PROVE Head(q) \in Listed(q) /\ Listed(Tail(q)) \subseteq Listed(q)
  <2>1. /\ DOMAIN q = 1..Len(q) /\ Len(q) \in Nat /\ Len(q) >= 1 /\ Head(q) = q[1]
        /\ DOMAIN Tail(q) = 1..(Len(q) - 1)
        /\ \A i \in 1..(Len(q) - 1) : Tail(q)[i] = q[i+1]
    BY <1>2, HeadTailProperties, LenProperties, EmptySeq
  <2>2. 1 \in 1..Len(q) /\ \A i \in 1..(Len(q) - 1) : i + 1 \in 1..Len(q)
    BY <2>1
  <2>. QED BY <2>1, <2>2 DEF Listed
<1>. QED BY <1>1, <1>2

LEMMA ListedItems ==
  ASSUME NEW q \in Seq(Item), NEW e \in Listed(q)
  PROVE  e \in Item /\ e.old \in Memory \union {NoMemory}
<1>1. PICK i \in DOMAIN q : e = q[i]
  BY DEF Listed
<1>2. e \in Item
  BY <1>1, LenProperties
<1>. QED BY <1>2 DEF Item

\* A look-up leaves a run with no item it did not have.
LEMMA DedupTakes ==
  ASSUME TypeOK, NEW w \in Writer, Dedup(w)
  PROVE  Items(w)' \subseteq Items(w)
<1>0. writer[w].keep \in Seq(Item) /\ writer[w].todo \in Seq(Item)
  BY WriterFields
<1>1. /\ Head(writer[w].todo) \in Item
      /\ Head(writer[w].todo) \in Listed(writer[w].todo)
      /\ Listed(Tail(writer[w].todo)) \subseteq Listed(writer[w].todo)
  BY <1>0, ItemSeq, ListedParts DEF Dedup
<1>2. Listed(Append(writer[w].keep, Head(writer[w].todo)))
        \subseteq Listed(writer[w].keep) \union {Head(writer[w].todo)}
  BY <1>0, <1>1, ListedParts
<1>3. /\ writer'[w].todo = Tail(writer[w].todo)
      /\ \/ writer'[w].keep = writer[w].keep
         \/ writer'[w].keep = Append(writer[w].keep, Head(writer[w].todo))
  BY Effects
<1>4. Listed(writer[w].todo)' = Listed(writer'[w].todo)
      /\ Listed(writer[w].keep)' = Listed(writer'[w].keep)
  BY DEF Listed
<1>. QED BY <1>1, <1>2, <1>3, <1>4 DEF Items

\* A run that moves on with no more than it had, the collection no larger.
LEMMA SidedStays ==
  ASSUME NEW w \in Writer, SidedBy(w), text' = text, live' \subseteq live,
         writer[w].pc \in {"dedup", "supersede", "upsert", "mark"},
         Items(w)' \subseteq Items(w), writer'[w].pc # "extract",
         writer'[w].pc = "upsert" => Head(writer'[w].keep).old \notin live'
  PROVE  SidedBy(w)'
  BY DEF SidedBy, Clash

LEMMA SidedKept ==
  ASSUME Base, Sided, NoClash, [Next]_vars
  PROVE  Sided' /\ NoClash'
<1>0. Inv /\ TypeOK /\ Alone
  BY DEF Base, Inv
<1> DEFINE Clean == mishap \intersect {"two runs", "several", "unseen"} = {}
<1>1. ASSUME NEW w \in Writer, WriterStep(w), Clean'
      PROVE  SidedBy(w)' /\ \A m, n \in live' : ~Clash(text'[m], text'[n])
  <2>1. /\ Clean /\ "two runs" \notin mishap'
        /\ "several" \notin mishap' /\ "unseen" \notin mishap'
    BY <1>0, <1>1, StepOf
  <2>2. SidedBy(w) /\ \A m, n \in live : ~Clash(text[m], text[n])
    BY <2>1 DEF Sided, NoClash
  <2>3. writer[w].keep \in Seq(Item) /\ writer[w].todo \in Seq(Item)
    BY <1>0, WriterFields
  <2>4. CASE Begin(w)
    <3>1. writer'[w].pc = "extract" /\ live' = live /\ text' = text
      BY <1>0, <2>4, Effects DEF Begin
    <3>. QED BY <2>2, <3>1 DEF SidedBy
  <2>5. CASE Extract(w)
    <3>1. /\ writer'[w].pc = "dedup" /\ writer'[w].todo \in Answers(w)
          /\ writer'[w].keep = writer[w].keep
          /\ \A i \in DOMAIN writer'[w].todo :
               /\ \A m, n \in Olds(w, writer'[w].todo[i].fact) : m = n
               /\ ~Unseen(w, writer'[w].todo[i].fact)
      BY <1>0, <2>1, <2>5, Extracts
    <3>2. writer[w].keep = <<>> /\ live' = live /\ text' = text
      BY <2>5 DEF Extract, Base, Shelved
    <3>3. \A e \in Items(w)' : \E i \in DOMAIN writer'[w].todo : e = writer'[w].todo[i]
      BY <3>1, <3>2 DEF Items, Listed
    <3>4. ASSUME NEW e \in Items(w)', NEW m \in live, Clash(text[m], e.fact) PROVE m = e.old
      <4>1. PICK i \in DOMAIN writer'[w].todo : e = writer'[w].todo[i]
        BY <3>3
      <4>2. m \in Olds(w, e.fact)
        BY <3>1, <3>4, <4>1 DEF Olds, Unseen, Clash
      <4>3. e.old \in Olds(w, e.fact)
        BY <3>1, <4>1, <4>2 DEF Answers
      <4>. QED BY <3>1, <4>1, <4>2, <4>3
    <3>5. \A e, f \in Items(w)' : ~Clash(e.fact, f.fact)
      BY <3>1, <3>3 DEF Answers
    <3>. QED BY <2>2, <3>1, <3>2, <3>4, <3>5 DEF SidedBy
  <2>6. CASE Dedup(w)
    <3>1. Items(w)' \subseteq Items(w)
      BY <1>0, <2>6, DedupTakes
    <3>2. /\ writer[w].pc = "dedup" /\ writer'[w].pc = "dedup"
          /\ text' = text /\ live' = live
      BY <1>0, <2>6, Effects DEF Dedup
    <3>. QED BY <2>2, <3>1, <3>2, SidedStays
  <2>7. CASE Embed(w) \/ Supersede(w)
    <3>1. writer'[w].keep = writer[w].keep /\ writer'[w].todo = writer[w].todo
      BY <1>0, <2>7, Effects
    <3>2. Items(w)' \subseteq Items(w)
      BY <3>1 DEF Items, Listed
    <3>3. text' = text /\ live' \subseteq live /\ writer[w].pc \in {"dedup", "supersede"}
      BY <2>7 DEF Embed, Supersede
    <3>4. \/ writer'[w].pc \notin {"extract", "upsert"}
          \/ writer'[w].pc = "upsert" /\ live' = live \ {Head(writer[w].keep).old}
      BY <1>0, <2>7, Effects DEF Supersede
    <3>. QED BY <2>2, <3>1, <3>2, <3>3, <3>4, SidedStays
  <2>8. CASE Upsert(w)
    <3>1. PICK m \in Memory :
            /\ text[m] = NoFact /\ text'[m] = Head(writer[w].keep).fact
            /\ \A n \in Memory : n # m => text'[n] = text[n]
            /\ live' = live \union {m}
            /\ writer'[w].pc = "mark"
            /\ writer'[w].keep = writer[w].keep /\ writer'[w].todo = writer[w].todo
      BY <1>0, <2>8, Effects
    <3> DEFINE h == Head(writer[w].keep)
    <3>2. writer[w].pc = "upsert" /\ writer[w].keep # <<>>
      BY <2>8 DEF Upsert, Base, Inv, InHand
    <3>3. h \in Items(w) /\ h.old \notin live
      BY <2>2, <2>3, <3>2, ListedParts DEF Items, SidedBy
    <3>4. Items(w)' = Items(w)
      BY <3>1 DEF Items, Listed
    <3>5. \A n \in live : n # m /\ text'[n] = text[n]
      BY <1>0, <3>1 DEF Base, Shelved, TypeOK
    <3>6. /\ \A e \in Items(w), n \in live : Clash(text[n], e.fact) => n = e.old
          /\ \A e, f \in Items(w) : ~Clash(e.fact, f.fact)
      BY <2>2, <3>2 DEF SidedBy
    <3>. HIDE DEF h
    <3>7. text'[m] = h.fact
      BY <3>1 DEF h
    <3>8. \A e \in Items(w), n \in live' : Clash(text'[n], e.fact) => n = e.old
      BY <3>1, <3>3, <3>5, <3>6, <3>7
    <3>9. \A n \in live : ~Clash(text[n], h.fact) /\ ~Clash(h.fact, text[n])
      BY <3>3, <3>6 DEF Clash
    <3>10. \A n, o \in live' : ~Clash(text'[n], text'[o])
      BY <2>2, <3>1, <3>3, <3>5, <3>6, <3>7, <3>9
    <3>. QED BY <3>1, <3>4, <3>6, <3>8, <3>10 DEF SidedBy
  <2>9. CASE Mark(w)
    <3>1. /\ writer'[w].pc \in {"invalidate", "supersede"}
          /\ writer'[w].todo = writer[w].todo /\ writer'[w].keep = Tail(writer[w].keep)
          /\ text' = text /\ live' = live /\ writer[w].pc = "mark"
      BY <1>0, <2>9, Effects DEF Mark
    <3>2. Listed(Tail(writer[w].keep)) \subseteq Listed(writer[w].keep)
      BY <2>3, <3>1, ListedParts DEF Base, Inv, InHand
    <3>3. Items(w)' \subseteq Items(w)
      BY <3>1, <3>2 DEF Items, Listed
    <3>. QED BY <2>2, <3>1, <3>3, SidedStays
  <2>10. CASE Invalidate(w) \/ Fail(w)
    <3>1. writer'[w].pc \in {"done", "failed"} /\ text' = text /\ live' = live
      BY <1>0, <2>10, Effects DEF Invalidate, Fail
    <3>. QED BY <2>2, <3>1 DEF SidedBy
  <2>. QED BY <1>1, <2>4, <2>5, <2>6, <2>7, <2>8, <2>9, <2>10 DEF WriterStep
<1>2. ASSUME NEW w \in Writer, WriterStep(w) PROVE Sided' /\ NoClash'
  <2>1. ASSUME Clean', NEW v \in Writer, v # w PROVE SidedBy(v)'
    <3>1. ~Running(v)'
      BY <1>0, <1>2, <2>1, Solo
    <3>. QED BY <3>1 DEF Running, SidedBy
  <2>2. Sided'
    BY <1>1, <1>2, <2>1 DEF Sided
  <2>3. NoClash'
    <3>1. Clean' => \A m, n \in live' : ~Clash(text[m], text[n])'
      BY <1>1, <1>2 DEF Clash
    <3>. QED BY <3>1 DEF NoClash
  <2>. QED BY <2>2, <2>3
<1>3. CASE \A w \in Writer : ~WriterStep(w)
  <2>1. UNCHANGED <<text, replaces, live, writer>> /\ mishap \subseteq mishap'
    BY <1>3, Elsewhere
  <2>2. Clean' => Clean
    BY <2>1
  <2>3. \A w \in Writer : SidedBy(w)' <=> SidedBy(w)
    BY <2>1 DEF SidedBy, Items, Listed, Clash
  <2>4. NoClash'
    BY <2>1, <2>2 DEF NoClash, Clash
  <2>. QED BY <2>2, <2>3, <2>4 DEF Sided
<1>. QED BY <1>2, <1>3

\* What was shown to the LLM or is named by an item was inserted once, and so is never
\* inserted again; the memory an item supersedes is out before the item is stored.
Known ==
  /\ \A m \in Memory : replaces[m] = NoMemory \/ text[replaces[m]] # NoFact
  /\ \A w \in Writer :
       /\ \A m \in writer[w].shown : text[m] # NoFact
       /\ \A e \in Items(w) : e.old = NoMemory \/ text[e.old] # NoFact
       /\ writer[w].pc = "upsert" => Head(writer[w].keep).old \notin live

Replaced == \A m \in live : replaces[m] \notin live

\* The runs other than w, which keep what they know while objects are only added and none
\* they are to replace comes back.
LEMMA KnownElsewhere ==
  ASSUME TypeOK, Known, NEW v \in Writer, writer'[v] = writer[v],
         \A m \in Memory : text[m] # NoFact => text'[m] # NoFact,
         live' \subseteq live \union {m \in Memory : text[m] = NoFact}
  PROVE  /\ \A m \in writer'[v].shown : text'[m] # NoFact
         /\ \A e \in Items(v)' : e.old = NoMemory \/ text'[e.old] # NoFact
         /\ writer'[v].pc = "upsert" /\ writer[v].keep # <<>>
              => Head(writer'[v].keep).old \notin live'
<1>1. writer[v].shown \in SUBSET Memory /\ writer[v].todo \in Seq(Item)
      /\ writer[v].keep \in Seq(Item)
  BY WriterFields
<1>2. Items(v)' = Items(v)
  BY DEF Items, Listed
<1>3. \A e \in Items(v) : e.old \in Memory \union {NoMemory}
  BY <1>1, ListedItems DEF Items
<1>4. ASSUME writer[v].pc = "upsert", writer[v].keep # <<>>
      PROVE  Head(writer[v].keep).old \notin live'
  <2>1. Head(writer[v].keep) \in Items(v)
    BY <1>1, <1>4, ListedParts DEF Items
  <2>2. Head(writer[v].keep).old \notin live
    BY <1>4 DEF Known
  <2>3. Head(writer[v].keep).old \notin Memory \/ text[Head(writer[v].keep).old] # NoFact
    BY <1>3, <2>1, MemoryConstants DEF Known, MemoryConstants
  <2>. QED BY <2>2, <2>3
<1>. QED BY <1>1, <1>2, <1>3, <1>4 DEF Known

LEMMA KnownKept ==
  ASSUME Base, Known, Replaced, [Next]_vars
  PROVE  Known' /\ Replaced'
<1>0. Inv /\ TypeOK
  BY DEF Base, Inv
<1>1. ASSUME NEW w \in Writer, WriterStep(w) PROVE Known' /\ Replaced'
  <2>0. /\ \A v \in Writer : v # w => writer'[v] = writer[v]
        /\ writer[w].keep \in Seq(Item) /\ writer[w].todo \in Seq(Item)
    BY <1>0, <1>1, StepOf, WriterFields
  <2>1. CASE Upsert(w)
    <3>1. PICK m \in Memory :
            /\ text[m] = NoFact /\ text'[m] = Head(writer[w].keep).fact
            /\ \A n \in Memory : n # m => text'[n] = text[n]
            /\ replaces' = [replaces EXCEPT ![m] = Head(writer[w].keep).old]
            /\ live' = live \union {m}
            /\ writer'[w].pc = "mark"
            /\ writer'[w].keep = writer[w].keep /\ writer'[w].todo = writer[w].todo
      BY <1>0, <2>1, Effects
    <3> DEFINE h == Head(writer[w].keep)
    <3>2. writer[w].pc = "upsert" /\ writer[w].keep # <<>>
      BY <2>1 DEF Upsert, Base, Inv, InHand
    <3>3. h \in Items(w) /\ h.old \notin live /\ h.old \in Memory \union {NoMemory}
          /\ h.fact \in Fact
      BY <2>0, <3>2, ListedParts, ItemSeq DEF Items, Known
    <3>4. h.old = NoMemory \/ text[h.old] # NoFact
      BY <3>3 DEF Known
    <3>. HIDE DEF h
    <3>5. \A n \in Memory : text[n] # NoFact => text'[n] # NoFact /\ n # m
      BY <3>1
    <3>6. /\ h.old # m /\ (h.old = NoMemory \/ text'[h.old] # NoFact)
      BY <3>1, <3>3, <3>4, <3>5, MemoryConstants DEF MemoryConstants
    <3>7. replaces'[m] = h.old /\ \A n \in Memory : n # m => replaces'[n] = replaces[n]
      BY <1>0, <3>1 DEF TypeOK, h
    <3>8. \A n \in Memory : replaces[n] \in Memory \union {NoMemory}
      BY <1>0 DEF TypeOK
    <3>9. \A n \in Memory : n # m =>
            replaces[n] # m /\ (replaces[n] = NoMemory \/ text'[replaces[n]] # NoFact)
      BY <3>1, <3>5, <3>8, MemoryConstants DEF Known, MemoryConstants
    <3>10. \A n \in Memory : replaces'[n] = NoMemory \/ text'[replaces'[n]] # NoFact
      BY <3>6, <3>7, <3>9
    <3>11. live \in SUBSET Memory /\ m \notin live
      BY <1>0, <3>1 DEF TypeOK, Base, Shelved
    <3>12. Replaced'
      BY <3>1, <3>3, <3>6, <3>7, <3>9, <3>11 DEF Replaced
    <3>13. writer'[w].shown = writer[w].shown
      BY <1>0, <2>1 DEF Upsert, TypeOK, WriterState
    <3>14. /\ \A n \in writer'[w].shown : text'[n] # NoFact
           /\ \A e \in Items(w)' : e.old = NoMemory \/ text'[e.old] # NoFact
      <4>1. Items(w)' = Items(w)
        BY <3>1 DEF Items, Listed
      <4>2. writer[w].shown \in SUBSET Memory /\ \A e \in Items(w) : e.old \in Memory \union {NoMemory}
        BY <1>0, <2>0, WriterFields, ListedItems DEF Items
      <4>. QED BY <3>5, <3>13, <4>1, <4>2 DEF Known
    <3>15. ASSUME NEW v \in Writer, v # w
           PROVE  /\ \A n \in writer'[v].shown : text'[n] # NoFact
                  /\ \A e \in Items(v)' : e.old = NoMemory \/ text'[e.old] # NoFact
                  /\ writer'[v].pc = "upsert" => Head(writer'[v].keep).old \notin live'
      <4>1. writer'[v] = writer[v] /\ (writer[v].pc = "upsert" => writer[v].keep # <<>>)
        BY <2>0, <3>15 DEF Base, Inv, InHand
      <4>. QED BY <1>0, <3>1, <3>5, <4>1, KnownElsewhere
    <3>. QED BY <3>1, <3>10, <3>12, <3>14, <3>15 DEF Known
  <2>2. CASE ~Upsert(w)
    <3>1. text' = text /\ replaces' = replaces /\ live' \subseteq live
      BY <1>1, <2>2 DEF WriterStep, Begin, Extract, Dedup, Embed, Supersede, Mark,
                        Invalidate, Fail
    <3>2. Replaced'
      BY <3>1 DEF Replaced
    <3>3. \A m \in writer'[w].shown : text[m] # NoFact
      <4>1. CASE Begin(w)
        BY <1>0, <4>1, Effects DEF Base, Shelved
      <4>2. CASE ~Begin(w)
        <5>1. writer'[w].shown = writer[w].shown
          BY <1>0, <1>1, <2>2, <4>2
          DEF WriterStep, Extract, Dedup, Embed, Supersede, Mark, Invalidate, Fail, TypeOK,
              WriterState
        <5>. QED BY <5>1 DEF Known
      <4>. QED BY <4>1, <4>2
    <3>4. \A e \in Items(w)' : e.old = NoMemory \/ text[e.old] # NoFact
      <4>1. CASE Extract(w)
        <5>1. writer'[w].todo \in Answers(w) /\ writer'[w].keep = <<>>
          BY <1>0, <4>1, Extracts DEF Extract, Base, Shelved
        <5>2. ASSUME NEW e \in Items(w)' PROVE e.old = NoMemory \/ text[e.old] # NoFact
          <6>1. PICK i \in DOMAIN writer'[w].todo : e = writer'[w].todo[i]
            BY <5>1 DEF Items, Listed
          <6>2. e.old = NoMemory \/ e.old \in Olds(w, e.fact)
            BY <5>1, <6>1 DEF Answers
          <6>. QED BY <6>2 DEF Olds, Known
        <5>. QED BY <5>2
      <4>2. CASE Dedup(w)
        <5>1. Items(w)' \subseteq Items(w)
          BY <1>0, <4>2, DedupTakes
        <5>. QED BY <5>1 DEF Known
      <4>3. CASE Mark(w)
        <5>1. writer'[w].todo = writer[w].todo /\ writer'[w].keep = Tail(writer[w].keep)
              /\ writer[w].keep # <<>>
          BY <1>0, <4>3, Effects DEF Mark, Base, Inv, InHand
        <5>2. Listed(Tail(writer[w].keep)) \subseteq Listed(writer[w].keep)
          BY <2>0, <5>1, ListedParts
        <5>. QED BY <5>1, <5>2 DEF Items, Listed, Known
      <4>4. CASE ~(Extract(w) \/ Dedup(w) \/ Mark(w))
        <5>1. writer'[w].todo = writer[w].todo /\ writer'[w].keep = writer[w].keep
          <6>1. Begin(w) \/ Embed(w) \/ Supersede(w)
                  => writer'[w].todo = writer[w].todo /\ writer'[w].keep = writer[w].keep
            BY <1>0, Effects
          <6>2. Invalidate(w) \/ Fail(w)
                  => writer'[w].todo = writer[w].todo /\ writer'[w].keep = writer[w].keep
            BY <1>0 DEF Invalidate, Fail, TypeOK, WriterState
          <6>. QED BY <1>1, <2>2, <4>4, <6>1, <6>2 DEF WriterStep
        <5>2. Items(w)' = Items(w)
          BY <5>1 DEF Items, Listed
        <5>. QED BY <5>2 DEF Known
      <4>. QED BY <4>1, <4>2, <4>3, <4>4
    <3>5. writer'[w].pc = "upsert" => Head(writer'[w].keep).old \notin live'
      <4>1. CASE Supersede(w)
        BY <1>0, <4>1, Effects DEF Supersede
      <4>2. CASE ~Supersede(w)
        <5>1. writer'[w].pc # "upsert"
          BY <1>0, <1>1, <2>2, <4>2, Effects, Extracts DEF WriterStep
        <5>. QED BY <5>1
      <4>. QED BY <4>1, <4>2
    <3>6. ASSUME NEW v \in Writer, v # w
          PROVE  /\ \A n \in writer'[v].shown : text'[n] # NoFact
                 /\ \A e \in Items(v)' : e.old = NoMemory \/ text'[e.old] # NoFact
                 /\ writer'[v].pc = "upsert" => Head(writer'[v].keep).old \notin live'
      <4>1. writer'[v] = writer[v] /\ (writer[v].pc = "upsert" => writer[v].keep # <<>>)
        BY <2>0, <3>6 DEF Base, Inv, InHand
      <4>. QED BY <1>0, <3>1, <4>1, KnownElsewhere
    <3>7. \A m \in Memory : replaces'[m] = NoMemory \/ text'[replaces'[m]] # NoFact
      BY <3>1 DEF Known
    <3>. QED BY <3>1, <3>2, <3>3, <3>4, <3>5, <3>6, <3>7 DEF Known
  <2>. QED BY <2>1, <2>2
<1>2. CASE \A w \in Writer : ~WriterStep(w)
  <2>1. UNCHANGED <<text, replaces, live, writer>>
    BY <1>2, Elsewhere
  <2>. QED BY <2>1 DEF Known, Replaced, Items, Listed
<1>. QED BY <1>1, <1>2

\* "the collection never contains both sides of a contradiction": a memory never stands
\* beside the one it was stored to supersede, whatever overlaps, fails and expires; and
\* runs one after the other leave no contradiction, unless a fact contradicts several
\* memories or one that the LLM was not shown.
THEOREM NeverBothSides == Spec => []OneSide
<1>1. Init => Sided /\ NoClash /\ Known /\ Replaced
  BY DEF Init, Sided, SidedBy, NoClash, Known, Replaced, Items, Listed
<1>2. Base /\ Sided /\ NoClash /\ [Next]_vars => Sided' /\ NoClash'
  BY SidedKept
<1>3. Base /\ Known /\ Replaced /\ [Next]_vars => Known' /\ Replaced'
  BY KnownKept
<1>4. NoClash /\ Replaced => OneSide
  BY DEF NoClash, Replaced, OneSide
<1>. QED BY <1>1, <1>2, <1>3, <1>4, BaseInductive, PTL DEF Spec

-----------------------------------------------------------------------------
(* No fresh memory behind a stale result.                                  *)

\* No retrieval that missed is under way beside a run, and what it is about to
\* cache is what the collection holds.
Cached ==
  mishap \intersect {"read beside", "failure"} = {} => \A r \in Reader :
    /\ \A w \in Writer : ~(Reading(r) /\ Running(w))
    /\ reader[r].pc = "set" => reader[r].got = live

\* What the runs that are over have stored is in result c.
Shows(c) ==
  c # Miss => \A w \in Writer : ~Running(w) => writer[w].new \intersect live \subseteq c

LEMMA CachedByWriter ==
  ASSUME Base, Cached, NeverHidden, NEW w \in Writer, WriterStep(w),
         (mishap \intersect {"read beside", "failure"} = {})'
  PROVE  /\ \A r \in Reader : /\ \A v \in Writer : ~(Reading(r) /\ Running(v))'
                              /\ reader'[r].pc = "set" => reader'[r].got = live'
         /\ \A q \in Query : Shows(cache[q])'
<1>0. Inv /\ TypeOK /\ Alone
  BY DEF Base, Inv
<1>1. /\ reader' = reader /\ mishap \subseteq mishap'
      /\ \A v \in Writer : v # w => writer'[v] = writer[v]
  BY <1>0, StepOf
<1>2. /\ \A r \in Reader : /\ \A v \in Writer : ~(Reading(r) /\ Running(v))
                           /\ reader[r].pc = "set" => reader[r].got = live
      /\ \A q \in Query : Shows(cache[q])
  <2>1. mishap \intersect {"read beside", "failure"} = {}
    BY <1>1
  <2>. QED BY <2>1 DEF Cached, NeverHidden, Shows
<1>3. \A r \in Reader : ~Reading(r)
  BY <1>0, <1>2, StepOf DEF Begin
<1>4. \A r \in Reader : ~Reading(r)'
  BY <1>1, <1>3 DEF Reading
<1>5. ASSUME NEW q \in Query PROVE Shows(cache[q])'
  <2>1. CASE Begin(w) \/ Extract(w) \/ Dedup(w) \/ Embed(w) \/ Supersede(w) \/ Mark(w)
    <3>1. cache' = cache /\ live' \subseteq live
      BY <2>1 DEF Begin, Extract, Dedup, Embed, Supersede, Mark
    <3>2. writer'[w].new = writer[w].new
      BY <1>0, <2>1, Effects, Extracts
    <3>3. ~Running(w)' => writer'[w].new = {}
      <4>1. CASE Begin(w) \/ Extract(w) \/ Dedup(w) \/ Supersede(w) \/ Mark(w)
        BY <1>0, <4>1, Effects, Extracts DEF Running
      <4>2. CASE Embed(w)
        BY <3>2, <4>2 DEF Embed, Base, Shelved
      <4>. QED BY <2>1, <4>1, <4>2
    <3>4. \A v \in Writer : v # w /\ ~Running(v)' => ~Running(v)
      BY <1>1 DEF Running
    <3>. QED BY <1>1, <1>2, <3>1, <3>3, <3>4 DEF Shows
  <2>2. CASE Upsert(w)
    <3>1. PICK m \in Memory :
            /\ text[m] = NoFact /\ live' = live \union {m} /\ writer'[w].pc = "mark"
      BY <1>0, <2>2, Effects
    <3>2. cache' = cache /\ Running(w)'
      BY <2>2, <3>1 DEF Upsert, Running
    <3>3. \A v \in Writer : m \notin writer[v].new
      BY <3>1 DEF Base, Shelved
    <3>4. \A v \in Writer : v # w /\ ~Running(v)' => ~Running(v)
      BY <1>1 DEF Running
    <3>. QED BY <1>1, <1>2, <3>1, <3>2, <3>3, <3>4 DEF Shows
  <2>3. CASE Invalidate(w)
    BY <2>3 DEF Invalidate, Shows
  <2>4. CASE Fail(w)
    BY <2>4 DEF Fail
  <2>. QED BY <2>1, <2>2, <2>3, <2>4 DEF WriterStep
<1>6. \A r \in Reader : reader'[r].pc # "set"
  BY <1>4 DEF Reading
<1>. QED BY <1>4, <1>5, <1>6

LEMMA CachedByReader ==
  ASSUME Base, Cached, NeverHidden, NEW r \in Reader, ReaderStep(r),
         (mishap \intersect {"read beside", "failure"} = {})'
  PROVE  /\ \A s \in Reader : /\ \A v \in Writer : ~(Reading(s) /\ Running(v))'
                              /\ reader'[s].pc = "set" => reader'[s].got = live'
         /\ \A q \in Query : Shows(cache[q])'
<1>0. TypeOK
  BY DEF Base, Inv
<1>1. UNCHANGED <<live, writer>> /\ mishap \subseteq mishap'
  BY DEF ReaderStep, Get, Search, Set
<1>2. /\ \A s \in Reader : /\ \A v \in Writer : ~(Reading(s) /\ Running(v))
                           /\ reader[s].pc = "set" => reader[s].got = live
      /\ \A q \in Query : Shows(cache[q])
  <2>1. mishap \intersect {"read beside", "failure"} = {}
    BY <1>1
  <2>. QED BY <2>1 DEF Cached, NeverHidden, Shows
<1>3. \A s \in Reader : s # r => reader'[s] = reader[s]
  BY <1>0 DEF ReaderStep, Get, Search, Set, TypeOK
<1>4. /\ \A v \in Writer : ~(Reading(r) /\ Running(v))'
      /\ reader'[r].pc = "set" => reader'[r].got = live'
  <2>1. ASSUME NEW q \in Query, Get(r, q)
        PROVE  /\ reader'[r].pc \in {"search", "done"}
               /\ reader'[r].pc = "search" => \A v \in Writer : ~Running(v)
    <3>1. CASE reader' = [reader EXCEPT ![r] = [pc |-> "done", query |-> q, got |-> cache[q]]]
      <4>1. reader'[r].pc = "done"
        BY <1>0, <3>1 DEF TypeOK
      <4>. QED BY <4>1
    <3>2. CASE /\ reader' = [reader EXCEPT ![r] = [pc |-> "search", query |-> q, got |-> {}]]
               /\ mishap' = mishap \union {x \in {"read beside"} : \E v \in Writer : Running(v)}
      <4>1. reader'[r].pc = "search"
        BY <1>0, <3>2 DEF TypeOK
      <4>2. \A v \in Writer : ~Running(v)
        BY <3>2
      <4>. QED BY <4>1, <4>2
    <3>. QED BY <2>1, <3>1, <3>2 DEF Get
  <2>2. CASE Search(r)
    <3>1. reader'[r].pc = "set" /\ reader'[r].got = live /\ Reading(r)
      BY <1>0, <2>2 DEF Search, TypeOK, ReaderState, Reading
    <3>. QED BY <1>1, <1>2, <3>1 DEF Running
  <2>3. CASE Set(r)
    <3>1. reader'[r].pc = "done"
      BY <1>0, <2>3 DEF Set, TypeOK, ReaderState
    <3>. QED BY <3>1 DEF Reading
  <2>. QED BY <1>1, <2>1, <2>2, <2>3 DEF ReaderStep, Reading, Running
<1>5. ASSUME NEW q \in Query PROVE Shows(cache'[q])
  <2>1. CASE cache' = cache
    BY <1>2, <2>1
  <2>2. CASE cache' # cache
    <3>1. Set(r) /\ cache' = [cache EXCEPT ![reader[r].query] = reader[r].got]
      BY <2>2 DEF ReaderStep, Get, Search, Set
    <3>2. reader[r].got = live
      BY <1>2, <3>1 DEF Set
    <3>3. cache'[q] = live \/ cache'[q] = cache[q]
      BY <1>0, <3>1, <3>2 DEF TypeOK
    <3>. QED BY <1>2, <3>3 DEF Shows
  <2>. QED BY <2>1, <2>2
<1>6. \A q \in Query : Shows(cache'[q]) => Shows(cache[q])'
  BY <1>1 DEF Shows, Running
<1>. QED BY <1>1, <1>2, <1>3, <1>4, <1>5, <1>6 DEF Reading, Running

LEMMA CachedKept ==
  ASSUME Base, Cached, NeverHidden, [Next]_vars
  PROVE  Cached' /\ NeverHidden'
<1> DEFINE Clean == mishap \intersect {"read beside", "failure"} = {}
<1>1. ASSUME Clean'
      PROVE  /\ \A r \in Reader : /\ \A w \in Writer : ~(Reading(r) /\ Running(w))'
                                  /\ reader'[r].pc = "set" => reader'[r].got = live'
             /\ \A q \in Query : Shows(cache[q])'
  <2>1. CASE \E w \in Writer : WriterStep(w)
    BY <1>1, <2>1, CachedByWriter
  <2>2. CASE \E r \in Reader : ReaderStep(r)
    BY <1>1, <2>2, CachedByReader
  <2>3. CASE \/ \E q \in Query : Expire(q)
             \/ \E f \in Fact : ExpireHash(f)
             \/ UNCHANGED vars
    <3>1. /\ UNCHANGED <<live, writer, reader>> /\ mishap \subseteq mishap'
          /\ \A q \in Query : cache'[q] = cache[q] \/ cache'[q] = Miss
      BY <2>3 DEF Expire, ExpireHash, vars, Base, Inv, TypeOK
    <3>2. /\ \A r \in Reader : /\ \A w \in Writer : ~(Reading(r) /\ Running(w))
                               /\ reader[r].pc = "set" => reader[r].got = live
          /\ \A q \in Query : Shows(cache[q])
      <4>1. Clean
        BY <1>1, <3>1
      <4>. QED BY <4>1 DEF Cached, NeverHidden, Shows
    <3>. QED BY <3>1, <3>2 DEF Reading, Running, Shows
  <2>. QED BY <2>1, <2>2, <2>3 DEF Next
<1>2. Cached'
  BY <1>1 DEF Cached
<1>3. NeverHidden'
  BY <1>1 DEF NeverHidden, Shows
<1>. QED BY <1>2, <1>3

\* "a freshly-learned preference is never hidden behind a stale cache entry":
\* what a run that is over has stored is in every cached result, unless a run
\* failed or a retrieval read beside one.
THEOREM FreshIsShown == Spec => []NeverHidden
<1>1. Init => Cached /\ NeverHidden
  BY DEF Init, Cached, NeverHidden, Running, Reading
<1>2. Base /\ Cached /\ NeverHidden /\ [Next]_vars => Cached' /\ NeverHidden'
  BY CachedKept
<1>. QED BY <1>1, <1>2, BaseInductive, PTL DEF Spec

=============================================================================
