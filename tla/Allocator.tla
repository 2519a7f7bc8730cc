------------------------------ MODULE Allocator ------------------------------
(***************************************************************************)
(* What an allocator promises its client (labs/malloclab-handout/mm.h and  *)
(* mdriver.c): the areas handed out are inside the heap, aligned to two    *)
(* words and disjoint.  Any request may be refused.                        *)
(***************************************************************************)
EXTENDS Naturals

CONSTANTS
  Ids,     (* The client's names for what it holds.                        *)
  MaxHeap  (* Words of memory.                                             *)

VARIABLE live  \* Per name, where its area starts and its words; 0 for none.

Nothing == [at |-> 0, words |-> 0]

\* Inside the heap, and aligned.
Areas ==
  {a \in [at : 1 .. MaxHeap, words : 0 .. MaxHeap] :
     a.at % 2 = 0 /\ a.at + a.words - 1 <= MaxHeap}

WordsOf(a) == a.at .. a.at + a.words - 1

\* No word of area a belongs to what another name than i holds.
Separate(i, a) == \A j \in Ids \ {i} : WordsOf(a) \cap WordsOf(live[j]) = {}

Init == live = [i \in Ids |-> Nothing]

\* malloc, and realloc to a smaller or a larger size.
Grant(i) ==
  /\ live'[i] \in Areas /\ Separate(i, live'[i])
  /\ live' = [live EXCEPT ![i] = live'[i]]

\* free, and realloc to nothing.
Release(i) == live' = [live EXCEPT ![i] = Nothing]

Next == \E i \in Ids : Grant(i) \/ Release(i)

Spec == Init /\ [][Next]_live
=============================================================================
