--------------------------------- MODULE Sbuf ---------------------------------
(***************************************************************************)
(* The bounded buffer of csapp-master/conc/sbuf.c: an array, two indexes   *)
(* and three semaphores.  P(&s) and V(&s) are one step each, everything    *)
(* else a step per access to the shared memory, so that threads interleave *)
(* inside the critical sections unless the semaphores forbid it.           *)
(*                                                                         *)
(* front and rear are only ever used modulo n and compared nowhere; they   *)
(* are kept modulo 2n, so that an empty buffer and a full one differ.  (In *)
(* C they are ints that grow, and would overflow after 2^31 items.)        *)
(***************************************************************************)
EXTENDS Naturals, Sequences, FiniteSets

CONSTANTS
  Threads, Items,
  None,     (* The item of a thread that has none.                         *)
  Sizes     (* Sizes a buffer is made with.                                *)

ASSUME SbufAssumption == Sizes \subseteq Nat \ {0} /\ None \notin Items /\ IsFiniteSet(Threads)

VARIABLES
  n,                    (* sp->n, set by sbuf_init.                        *)
  buf, front, rear,
  mutex, slots, items,  (* Semaphores.                                     *)
  at,                   (* Where in sbuf_insert or sbuf_remove a thread is. *)
  item,                 (* Its item.                                       *)
  idx                   (* The index its ++rear or ++front gave; 0 if none. *)

sbufVars == <<n, buf, front, rear, mutex, slots, items, at, item, idx>>

Inserting == {"P(slots)", "P(mutex) insert", "++rear", "store", "V(mutex) insert", "V(items)"}
Removing  == {"P(items)", "P(mutex) remove", "++front", "load", "V(mutex) remove", "V(slots)"}

sbuf_init ==
  /\ n \in Sizes
  /\ buf = [i \in 0 .. n - 1 |-> None]
  /\ front = 0 /\ rear = 0
  /\ mutex = 1 /\ slots = n /\ items = 0
  /\ at = [t \in Threads |-> "out"]
  /\ item = [t \in Threads |-> None]
  /\ idx = [t \in Threads |-> 0]

\* Thread t goes from one point of its call to the next.
Go(t, from, to) == at[t] = from /\ at' = [at EXCEPT ![t] = to]

-----------------------------------------------------------------------------
(* sbuf_insert.                                                            *)

\* The call, with item x.
InsertCall(t, x) ==
  /\ Go(t, "out", "P(slots)")
  /\ item' = [item EXCEPT ![t] = x]
  /\ UNCHANGED <<n, buf, front, rear, mutex, slots, items, idx>>

WaitSlot(t) ==
  /\ Go(t, "P(slots)", "P(mutex) insert")
  /\ slots > 0 /\ slots' = slots - 1
  /\ UNCHANGED <<n, buf, front, rear, mutex, items, item, idx>>

LockInsert(t) ==
  /\ Go(t, "P(mutex) insert", "++rear")
  /\ mutex > 0 /\ mutex' = mutex - 1
  /\ UNCHANGED <<n, buf, front, rear, slots, items, item, idx>>

AdvanceRear(t) ==
  /\ Go(t, "++rear", "store")
  /\ rear' = (rear + 1) % (2 * n)
  /\ idx' = [idx EXCEPT ![t] = rear']
  /\ UNCHANGED <<n, buf, front, mutex, slots, items, item>>

Store(t) ==
  /\ Go(t, "store", "V(mutex) insert")
  /\ buf' = [buf EXCEPT ![idx[t] % n] = item[t]]
  /\ item' = [item EXCEPT ![t] = None] /\ idx' = [idx EXCEPT ![t] = 0]
  /\ UNCHANGED <<n, front, rear, mutex, slots, items>>

UnlockInsert(t) ==
  /\ Go(t, "V(mutex) insert", "V(items)")
  /\ mutex' = mutex + 1
  /\ UNCHANGED <<n, buf, front, rear, slots, items, item, idx>>

PostItem(t) ==
  /\ Go(t, "V(items)", "out")
  /\ items' = items + 1
  /\ UNCHANGED <<n, buf, front, rear, mutex, slots, item, idx>>

-----------------------------------------------------------------------------
(* sbuf_remove.                                                            *)

RemoveCall(t) ==
  /\ Go(t, "out", "P(items)")
  /\ UNCHANGED <<n, buf, front, rear, mutex, slots, items, item, idx>>

\* A fault: the test of the semaphore does not take the item.
WaitItemOnly(t) ==
  /\ Go(t, "P(items)", "P(mutex) remove")
  /\ items > 0
  /\ UNCHANGED <<n, buf, front, rear, mutex, slots, items, item, idx>>

WaitItem(t) ==
  /\ Go(t, "P(items)", "P(mutex) remove")
  /\ items > 0 /\ items' = items - 1
  /\ UNCHANGED <<n, buf, front, rear, mutex, slots, item, idx>>

LockRemove(t) ==
  /\ Go(t, "P(mutex) remove", "++front")
  /\ mutex > 0 /\ mutex' = mutex - 1
  /\ UNCHANGED <<n, buf, front, rear, slots, items, item, idx>>

AdvanceFront(t) ==
  /\ Go(t, "++front", "load")
  /\ front' = (front + 1) % (2 * n)
  /\ idx' = [idx EXCEPT ![t] = front']
  /\ UNCHANGED <<n, buf, rear, mutex, slots, items, item>>

Load(t) ==
  /\ Go(t, "load", "V(mutex) remove")
  /\ item' = [item EXCEPT ![t] = buf[idx[t] % n]] /\ idx' = [idx EXCEPT ![t] = 0]
  /\ UNCHANGED <<n, buf, front, rear, mutex, slots, items>>

UnlockRemove(t) ==
  /\ Go(t, "V(mutex) remove", "V(slots)")
  /\ mutex' = mutex + 1
  /\ UNCHANGED <<n, buf, front, rear, slots, items, item, idx>>

\* A fault: the slot is not announced.
PostSlotLost(t) ==
  /\ Go(t, "V(slots)", "out")
  /\ UNCHANGED <<n, buf, front, rear, mutex, slots, items, item, idx>>

PostSlot(t) ==
  /\ Go(t, "V(slots)", "out")
  /\ slots' = slots + 1
  /\ UNCHANGED <<n, buf, front, rear, mutex, items, item, idx>>

\* The steps that can wait, and those that cannot.
Waits(t) == WaitSlot(t) \/ LockInsert(t) \/ WaitItem(t) \/ LockRemove(t)

Runs(t) ==
  \/ AdvanceRear(t) \/ Store(t) \/ UnlockInsert(t) \/ PostItem(t)
  \/ AdvanceFront(t) \/ Load(t) \/ UnlockRemove(t) \/ PostSlot(t)

-----------------------------------------------------------------------------
(* The queue in the buffer: an insertion happens at its store, a removal   *)
(* at its load.                                                            *)

Pending(point) == Cardinality({t \in Threads : at[t] = point})

Removed  == (front + 2 * n - Pending("load")) % (2 * n)
Inserted == (rear + 2 * n - Pending("store")) % (2 * n)
Count    == (Inserted + 2 * n - Removed) % (2 * n)

Contents == [i \in 1 .. Count |-> buf[(Removed + i) % n]]

Q == INSTANCE BoundedQueue WITH queue <- Contents, hold <- item, capacity <- n

\* The buffer is a bounded queue: items come out in the order they went in,
\* each once, whichever threads insert and remove at the same time.
ImplementsQueue == Q!Spec
=============================================================================
