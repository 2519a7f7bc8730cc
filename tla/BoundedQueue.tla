----------------------------- MODULE BoundedQueue -----------------------------
(***************************************************************************)
(* What sbuf.c promises, a "bounded, shared FIFO buffer with n slots": a   *)
(* queue that threads put what they hold into and take what they hold next *)
(* from, in one step each, and that is never longer than its capacity.     *)
(***************************************************************************)
EXTENDS Naturals, Sequences

CONSTANTS Threads, Items, None

VARIABLES
  capacity,  (* Chosen at the start.                                       *)
  queue,
  hold       (* What each thread holds, or None.                           *)

queueVars == <<capacity, queue, hold>>

Init == capacity \in Nat \ {0} /\ queue = <<>> /\ hold = [t \in Threads |-> None]

\* The thread gets an item, or is done with the one it had.
Bring(t) == \E x \in Items : hold[t] = None /\ hold' = [hold EXCEPT ![t] = x] /\ UNCHANGED <<capacity, queue>>
Drop(t)  == hold[t] # None /\ hold' = [hold EXCEPT ![t] = None] /\ UNCHANGED <<capacity, queue>>

Put(t) ==
  /\ hold[t] # None /\ Len(queue) < capacity
  /\ queue' = Append(queue, hold[t])
  /\ hold' = [hold EXCEPT ![t] = None]
  /\ UNCHANGED capacity

Get(t) ==
  /\ hold[t] = None /\ queue # <<>>
  /\ hold' = [hold EXCEPT ![t] = Head(queue)]
  /\ queue' = Tail(queue)
  /\ UNCHANGED capacity

Next == \E t \in Threads : Bring(t) \/ Drop(t) \/ Put(t) \/ Get(t)

Spec == Init /\ [][Next]_queueVars
=============================================================================
