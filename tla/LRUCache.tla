------------------------------- MODULE LRUCache -------------------------------
(***************************************************************************)
(* What a cache simulator promises: a set-associative cache with least     *)
(* recently used replacement, and the three counts of printSummary.        *)
(***************************************************************************)
EXTENDS Integers

CONSTANTS Sets, Tags, E   (* E: lines per set.                             *)

VARIABLES
  held,   (* The tags in each set.                                         *)
  room,   (* How many lines each set has left.                             *)
  used,   (* When each tag of a set was last used, 0 for never.            *)
  hits, misses, evictions

lruVars == <<held, room, used, hits, misses, evictions>>

Init ==
  /\ held = [s \in Sets |-> {}]
  /\ room = [s \in Sets |-> E]
  /\ used = [s \in Sets |-> [t \in Tags |-> 0]]
  /\ hits = 0 /\ misses = 0 /\ evictions = 0

\* An access to tag t of set s; `extra' is the store of a modify, which hits.
\* The accesses so far are the time.
Use(s, t) == used' = [used EXCEPT ![s] = [@ EXCEPT ![t] = hits' + misses']]

Hit(s, t, extra) ==
  /\ t \in held[s]
  /\ hits' = hits + 1 + extra
  /\ Use(s, t)
  /\ UNCHANGED <<held, room, misses, evictions>>

Fill(s, t, extra) ==
  /\ t \notin held[s] /\ room[s] > 0
  /\ room' = [room EXCEPT ![s] = @ - 1]
  /\ held' = [held EXCEPT ![s] = @ \cup {t}]
  /\ hits' = hits + extra /\ misses' = misses + 1
  /\ Use(s, t)
  /\ UNCHANGED evictions

Replace(s, t, extra) ==
  /\ t \notin held[s] /\ room[s] = 0
  /\ \E v \in held[s] :
       /\ \A u \in held[s] : used[s][v] <= used[s][u]
       /\ held' = [held EXCEPT ![s] = (@ \ {v}) \cup {t}]
  /\ hits' = hits + extra /\ misses' = misses + 1 /\ evictions' = evictions + 1
  /\ Use(s, t)
  /\ UNCHANGED room

Next ==
  \E s \in Sets, t \in Tags, extra \in {0, 1} :
    Hit(s, t, extra) \/ Fill(s, t, extra) \/ Replace(s, t, extra)

Spec == Init /\ [][Next]_lruVars
=============================================================================
