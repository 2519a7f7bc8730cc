------------------------------- MODULE Barrier -------------------------------
(***************************************************************************)
(* The barrier of csapp-master/mem/memperf/par.c, between processes that   *)
(* begin_parallel forked: one semaphore per process.  Who arrives adds one *)
(* to every semaphore, one after another, then takes par_npes from its     *)
(* own.  The same semaphores serve one barrier after another, and a fast   *)
(* process may be in the next one while a slow one still posts.            *)
(***************************************************************************)
EXTENDS Naturals

CONSTANTS
  Npes,        (* par_npes.                                                *)
  MaxBarriers  (* Bound on the barriers a process goes through.            *)

ASSUME BarrierAssumption == Npes \in Nat \ {0} /\ MaxBarriers \in Nat

Procs == 0 .. Npes - 1

VARIABLES
  psem,      (* The semaphores.                                            *)
  inside,    (* Is the process in barrier()?                               *)
  s,         (* The semaphore it posts next; Npes when it waits.           *)
  arrived, passed  (* History: the barriers it arrived at, and passed.     *)

barrierVars == <<psem, inside, s, arrived, passed>>

BarrierTypeOK ==
  /\ psem \in [Procs -> 0 .. 2 * Npes]
  /\ inside \in [Procs -> BOOLEAN] /\ s \in [Procs -> 0 .. Npes]
  /\ arrived \in [Procs -> 0 .. MaxBarriers] /\ passed \in [Procs -> 0 .. MaxBarriers]

\* semget.
BarrierInit ==
  /\ psem = [p \in Procs |-> 0]
  /\ inside = [p \in Procs |-> FALSE] /\ s = [p \in Procs |-> 0]
  /\ arrived = [p \in Procs |-> 0] /\ passed = [p \in Procs |-> 0]

\* The call, from begin_parallel and from memop.
Arrive(p) ==
  /\ ~inside[p] /\ arrived[p] < MaxBarriers
  /\ inside' = [inside EXCEPT ![p] = TRUE]
  /\ s' = [s EXCEPT ![p] = 0]
  /\ arrived' = [arrived EXCEPT ![p] = @ + 1]
  /\ UNCHANGED <<psem, passed>>

\* sem_num = s, sem_op = 1.
Post(p) ==
  /\ inside[p] /\ s[p] < Npes
  /\ psem' = [psem EXCEPT ![s[p]] = @ + 1]
  /\ s' = [s EXCEPT ![p] = @ + 1]
  /\ UNCHANGED <<inside, arrived, passed>>

\* A fault: sem_op = -1, one post is enough.
PassOne(p) ==
  /\ inside[p] /\ s[p] = Npes
  /\ psem[p] >= 1
  /\ psem' = [psem EXCEPT ![p] = @ - 1]
  /\ inside' = [inside EXCEPT ![p] = FALSE]
  /\ passed' = [passed EXCEPT ![p] = @ + 1]
  /\ UNCHANGED <<s, arrived>>

\* A fault: sem_num = 0, all wait for the same semaphore.
PassFirst(p) ==
  /\ inside[p] /\ s[p] = Npes
  /\ psem[0] >= Npes
  /\ psem' = [psem EXCEPT ![0] = @ - Npes]
  /\ inside' = [inside EXCEPT ![p] = FALSE]
  /\ passed' = [passed EXCEPT ![p] = @ + 1]
  /\ UNCHANGED <<s, arrived>>

\* sem_num = par_cid, sem_op = -par_npes.
Pass(p) ==
  /\ inside[p] /\ s[p] = Npes
  /\ psem[p] >= Npes
  /\ psem' = [psem EXCEPT ![p] = @ - Npes]
  /\ inside' = [inside EXCEPT ![p] = FALSE]
  /\ passed' = [passed EXCEPT ![p] = @ + 1]
  /\ UNCHANGED <<s, arrived>>

BarrierStep(p) == Arrive(p) \/ Post(p) \/ Pass(p)

BarrierNext == \E p \in Procs : BarrierStep(p)

BarrierSpec == BarrierInit /\ [][BarrierNext]_barrierVars

\* Processes run, and every one of them goes through the same barriers.
BarrierFairness == \A p \in Procs : WF_barrierVars(BarrierStep(p))

-----------------------------------------------------------------------------
(* Properties.                                                             *)

\* Nobody passes a barrier before everybody has arrived at it, although a post
\* does not say from whom it is nor for which barrier.
NobodyPassesAlone == \A p, q \in Procs : passed[p] <= arrived[q]

\* Everybody who arrives passes.
EverybodyPasses == \A p \in Procs : inside[p] ~> ~inside[p]
=============================================================================
