------------------------------- MODULE CacheSim -------------------------------
(***************************************************************************)
(* The cache simulator, labs/cachelab-handout/csim.c: the sets of lines    *)
(* with their `lru' ages, visitCache, its variant visitCache2 and the      *)
(* three counters.                                                         *)
(*                                                                         *)
(* An address is the pair of its set index and its tag; the block offset   *)
(* changes nothing.  A line of the trace that sscanf cannot read repeats   *)
(* the operation and the address before it, and an instruction load        *)
(* changes nothing, so every trace is a sequence of Access and Modify.     *)
(* The ages and counters are unbounded here; in C they are int.            *)
(***************************************************************************)
EXTENDS Integers, FiniteSets

CONSTANTS
  Sets,        (* Set indexes.                                             *)
  Tags,
  NoTag,       (* The tag of a line that was never filled.                 *)
  E,           (* Lines per set.                                           *)
  MaxAccesses  (* Bound on the length of the trace.                        *)

ASSUME SetsAssumption == IsFiniteSet(Sets)
ASSUME TagsAssumption == NoTag \notin Tags
ASSUME EAssumption == E \in Nat \ {0}
ASSUME MaxAccessesAssumption == MaxAccesses \in Nat

VARIABLES
  cache, hits, misses, evictions,
  (* history: *)
  accesses,    (* Data accesses of the trace so far, a modify being two.   *)
  used         (* Per set, the access each tag was last used by, or 0.     *)

counters == <<hits, misses, evictions>>
vars     == <<cache, counters, accesses, used>>

Lines == 0 .. E - 1
Line  == [valid : BOOLEAN, lru : Nat, tag : Tags \cup {NoTag}]

TypeOK ==
  /\ cache \in [Sets -> [Lines -> Line]]
  /\ hits \in Nat /\ misses \in Nat /\ evictions \in Nat /\ accesses \in Nat
  /\ used \in [Sets -> [Tags -> Nat]]

\* calloc.
Init ==
  /\ cache = [s \in Sets |-> [i \in Lines |-> [valid |-> FALSE, lru |-> 0, tag |-> NoTag]]]
  /\ hits = 0 /\ misses = 0 /\ evictions = 0
  /\ accesses = 0
  /\ used = [s \in Sets |-> [t \in Tags |-> 0]]

-----------------------------------------------------------------------------
(* visitCache on a set.                                                    *)

Matches(set, i, t) == set[i].valid /\ set[i].tag = t

\* A fault: only the first line is looked at.
FirstLineFound(set, t) == Matches(set, 0, t)

Found(set, t) == \E i \in Lines : Matches(set, i, t)

\* The scan stops at a hit: the valid lines before it grow older, the ones
\* after it do not.
Aged(set, t) ==
  [i \in Lines |->
     IF set[i].valid /\ \A j \in 0 .. i : ~Matches(set, j, t)
     THEN [set[i] EXCEPT !.lru = @ + 1] ELSE set[i]]

Used(t) == [valid |-> TRUE, lru |-> 1, tag |-> t]

\* The last line that is not valid.
Empty(set) ==
  CHOOSE i \in Lines : ~set[i].valid /\ \A j \in Lines : ~set[j].valid => j <= i

\* visitCache compares with < and keeps the first of the oldest lines,
\* visitCache2 with <= and keeps the last.
FirstOldest(set) ==
  CHOOSE i \in Lines : \A j \in Lines :
    set[j].lru < set[i].lru \/ (set[j].lru = set[i].lru /\ i <= j)

LastOldest(set) ==
  CHOOSE i \in Lines : \A j \in Lines :
    set[j].lru < set[i].lru \/ (set[j].lru = set[i].lru /\ j <= i)

Put(s, set, i, t) == cache' = [cache EXCEPT ![s] = [set EXCEPT ![i] = Used(t)]]

\* `extra' is the hit simulate counts for the store of a modify.
visitHit(s, t, extra) ==
  /\ Found(cache[s], t)
  /\ \E i \in Lines :
       /\ Matches(cache[s], i, t) /\ \A j \in 0 .. i - 1 : ~Matches(cache[s], j, t)
       /\ Put(s, Aged(cache[s], t), i, t)
  /\ hits' = hits + 1 + extra
  /\ UNCHANGED <<misses, evictions>>

visitFill(s, t, extra) ==
  LET set == Aged(cache[s], t) IN
  /\ ~Found(cache[s], t) /\ \E i \in Lines : ~set[i].valid
  /\ Put(s, set, Empty(set), t)
  /\ hits' = hits + extra
  /\ misses' = misses + 1
  /\ UNCHANGED evictions

\* A fault: a replaced line is not counted as an eviction.
visitReplaceUncounted(s, t, extra, victim) ==
  LET set == Aged(cache[s], t) IN
  /\ ~Found(cache[s], t) /\ \A i \in Lines : set[i].valid
  /\ Put(s, set, victim, t)
  /\ hits' = hits + extra
  /\ misses' = misses + 1
  /\ UNCHANGED evictions

visitReplace(s, t, extra, victim) ==
  LET set == Aged(cache[s], t) IN
  /\ ~Found(cache[s], t) /\ \A i \in Lines : set[i].valid
  /\ Put(s, set, victim, t)
  /\ hits' = hits + extra
  /\ misses' = misses + 1
  /\ evictions' = evictions + 1

visit(s, t, extra, victim) ==
  visitHit(s, t, extra) \/ visitFill(s, t, extra) \/ visitReplace(s, t, extra, victim)

visitCache(s, t, extra)  == visit(s, t, extra, FirstOldest(Aged(cache[s], t)))

visitCache2(s, t, extra) == visit(s, t, extra, LastOldest(Aged(cache[s], t)))

-----------------------------------------------------------------------------
(* simulate.                                                               *)

Note(s, t, n) ==
  /\ accesses + n <= MaxAccesses
  /\ accesses' = accesses + n
  /\ used' = [used EXCEPT ![s] = [@ EXCEPT ![t] = accesses + n]]

\* A load or a store, then a modify, with visitCache.
Access(s, t) == visitCache(s, t, 0) /\ Note(s, t, 1)
Modify(s, t) == visitCache(s, t, 1) /\ Note(s, t, 2)

Next == \E s \in Sets, t \in Tags : Access(s, t) \/ Modify(s, t)

Spec == Init /\ [][Next]_vars

\* The same trace with visitCache2.
Access2(s, t) == visitCache2(s, t, 0) /\ Note(s, t, 1)
Modify2(s, t) == visitCache2(s, t, 1) /\ Note(s, t, 2)

Next2 == \E s \in Sets, t \in Tags : Access2(s, t) \/ Modify2(s, t)

Spec2 == Init /\ [][Next2]_vars

-----------------------------------------------------------------------------
(* Properties.                                                             *)

\* No tag is in two lines of its set, although the scan, the fill and the
\* replacement of visitCache never compare one line with another.
TagsDistinct ==
  \A s \in Sets : \A i, j \in Lines :
    cache[s][i].valid /\ cache[s][j].valid /\ cache[s][i].tag = cache[s][j].tag => i = j

Filled == {p \in Sets \X Lines : cache[p[1]][p[2]].valid}

\* The summary adds up: every access of the trace is one hit or one miss, and
\* the misses that were not evictions are the lines in use.
SummaryAddsUp ==
  /\ hits + misses = accesses
  /\ Cardinality(Filled) = misses - evictions

\* The tags in set s, and its lines in use.
Held(s)  == {t \in Tags : Found(cache[s], t)}
InUse(s) == {i \in Lines : cache[s][i].valid}

\* Least recently used replacement: each set holds the tags the abstract cache
\* holds, and the counts of the summary are its counts.
LRU == INSTANCE LRUCache WITH
         held <- [s \in Sets |-> Held(s)],
         room <- [s \in Sets |-> E - Cardinality(InUse(s))]

ImplementsLRU == LRU!Spec
=============================================================================
