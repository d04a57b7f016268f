----------------------------- MODULE MCChatTurn -----------------------------
(* Messages and decisions that take every path of a turn. *)
EXTENDS ChatTurn

MCStreaming == TRUE

\* One message of each kind: a field is varied where something else depends on it.
MCRequest ==
  {r \in RequestType :
     /\ r.keyword \in {"none", "music_queue", "artist_info", "general"}
     /\ r.nowPlaying => r.keyword = "none" /\ r.user /\ ~r.fresh /\ ~r.artist
     /\ r.verb = (r.keyword = "music_queue")
     /\ r.playVerb => r.verb
     /\ r.outdoors = (r.keyword = "music_queue" /\ r.playVerb)
     /\ r.artist => r.keyword = "artist_info" \/ (r.keyword = "none" /\ r.fresh)
     /\ r.fresh => r.keyword = "none"
     /\ r.short => r.keyword = "none" /\ ~r.fresh /\ ~r.nowPlaying
     /\ ~r.user => r.keyword = "none" /\ ~r.short}

\* The fields an intent ignores are fixed, but for those it must ignore.
MCDecision ==
  {PlainChat} \union
  {[PlainChat EXCEPT !.intent = "music_queue", !.play = p] : p \in BOOLEAN}
  \union {[PlainChat EXCEPT !.intent = "music_find", !.play = TRUE, !.titled = t,
                               !.literal = l] :
            t \in BOOLEAN, l \in BOOLEAN}
  \union {[PlainChat EXCEPT !.intent = "artist_info", !.music = TRUE, !.play = TRUE],
          [PlainChat EXCEPT !.intent = "mood_check"],
          [PlainChat EXCEPT !.search = TRUE],
          [PlainChat EXCEPT !.intent = "mixed", !.search = TRUE],
          [PlainChat EXCEPT !.intent = "mixed", !.music = TRUE, !.artist = TRUE]}
=============================================================================
