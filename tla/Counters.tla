------------------------------- MODULE Counters -------------------------------
(***************************************************************************)
(* The programs of csapp-master/conc in which threads add to shared        *)
(* memory: badcnt.c and goodcnt.c, where each adds 1 to cnt niters times,  *)
(* without and with a semaphore, and psum-mutex.c, psum-array.c and        *)
(* psum-local.c, where each adds up its share of 0 .. nelems-1: into a sum *)
(* under a semaphore, into an element of its own, or into a local variable *)
(* it stores there.  An addition to memory is a load and a store.          *)
(***************************************************************************)
EXTENDS Naturals, FiniteSets

CONSTANTS
  Nthreads,
  PerThread   (* niters, or nelems_per_thread.                             *)

ASSUME CountersAssumption == Nthreads \in Nat \ {0} /\ PerThread \in Nat \ {0}

Ids == 0 .. Nthreads - 1

VARIABLES
  prog,
  cell,      (* cnt or gsum, at 0, or psum.                                *)
  sem,       (* The semaphore of goodcnt and psum-mutex.                   *)
  tpc, ti,   (* Of each thread: where it is, and its i.                    *)
  treg,      (* What it loaded, or its local sum.                          *)
  joined,    (* Threads main has joined.                                   *)
  result     (* What main compares at the end.                             *)

counterVars == <<prog, cell, sem, tpc, ti, treg, joined, result>>

Programs == {"badcnt", "goodcnt", "psum-mutex", "psum-array", "psum-local"}
Locked   == {"goodcnt", "psum-mutex"}
Counting == {"badcnt", "goodcnt"}
OwnCell  == {"psum-array", "psum-local"}

Cell(t)  == IF prog \in OwnCell THEN t ELSE 0
Start(t) == IF prog \in Counting THEN 0 ELSE t * PerThread
Adds(t)  == IF prog \in Counting THEN 1 ELSE ti[t]

\* 2 * niters, and (nelems * (nelems-1)) / 2.
Total == LET m == Nthreads * PerThread IN IF prog \in Counting THEN m ELSE (m * (m - 1)) \div 2

ThreadAt == {"start", "loop", "load", "store", "unlock", "publish", "returned"}

CountersTypeOK ==
  /\ prog \in Programs
  /\ cell \in [Ids -> 0 .. Total] /\ sem \in 0 .. 1
  /\ tpc \in [Ids -> ThreadAt] /\ ti \in [Ids -> 0 .. Nthreads * PerThread]
  /\ treg \in [Ids -> 0 .. Total]
  /\ joined \in 0 .. Nthreads /\ result \in 0 .. Total

CountersInit ==
  /\ prog \in Programs
  /\ cell = [t \in Ids |-> 0] /\ sem = 1
  /\ tpc = [t \in Ids |-> "start"] /\ ti = [t \in Ids |-> 0] /\ treg = [t \in Ids |-> 0]
  /\ joined = 0 /\ result = 0

\* A thread goes on; its pc, i and register.
Moves(t, from, to, i, r) ==
  /\ tpc[t] = from
  /\ tpc' = [tpc EXCEPT ![t] = to] /\ ti' = [ti EXCEPT ![t] = i] /\ treg' = [treg EXCEPT ![t] = r]
  /\ UNCHANGED <<prog, joined, result>>

Begin(t) == Moves(t, "start", "loop", Start(t), 0) /\ UNCHANGED <<cell, sem>>

\* The head of the loop, with P(&mutex) where there is one.
LoopHead(t) ==
  /\ ti[t] < Start(t) + PerThread
  /\ prog # "psum-local"
  /\ IF prog \in Locked THEN sem > 0 /\ sem' = sem - 1 ELSE UNCHANGED sem
  /\ Moves(t, "loop", "load", ti[t], 0)
  /\ UNCHANGED cell

LoadCell(t) == Moves(t, "load", "store", ti[t], cell[Cell(t)]) /\ UNCHANGED <<cell, sem>>

StoreCell(t) ==
  /\ cell' = [cell EXCEPT ![Cell(t)] = treg[t] + Adds(t)]
  /\ IF prog \in Locked THEN Moves(t, "store", "unlock", ti[t], 0)
                        ELSE Moves(t, "store", "loop", ti[t] + 1, 0)
  /\ UNCHANGED sem

\* V(&mutex).
UnlockCell(t) == Moves(t, "unlock", "loop", ti[t] + 1, 0) /\ sem' = sem + 1 /\ UNCHANGED cell

\* psum-local: sum += i.
AddLocal(t) ==
  /\ prog = "psum-local" /\ ti[t] < Start(t) + PerThread
  /\ Moves(t, "loop", "loop", ti[t] + 1, treg[t] + ti[t])
  /\ UNCHANGED <<cell, sem>>

LoopEnd(t) ==
  /\ ti[t] >= Start(t) + PerThread
  /\ Moves(t, "loop", IF prog = "psum-local" THEN "publish" ELSE "returned", ti[t], treg[t])
  /\ UNCHANGED <<cell, sem>>

\* psum[myid] = sum.
Publish(t) ==
  /\ Moves(t, "publish", "returned", ti[t], 0)
  /\ cell' = [cell EXCEPT ![Cell(t)] = treg[t]]
  /\ UNCHANGED sem

\* A fault: the partial sums are added up before the join.
JoinNobody ==
  /\ joined < Nthreads
  /\ joined' = joined + 1
  /\ result' = IF prog \in OwnCell \/ joined = 0 THEN result + cell[joined] ELSE cell[0]
  /\ UNCHANGED <<prog, cell, sem, tpc, ti, treg>>

\* main joins the threads in order; the sums of psum-array and psum-local are
\* added up after that.
Join ==
  /\ joined < Nthreads /\ tpc[joined] = "returned"
  /\ joined' = joined + 1
  /\ result' = IF prog \in OwnCell THEN result + cell[joined] ELSE cell[0]
  /\ UNCHANGED <<prog, cell, sem, tpc, ti, treg>>

CountersNext ==
  \/ \E t \in Ids :
       \/ Begin(t) \/ LoopHead(t) \/ LoadCell(t) \/ StoreCell(t) \/ UnlockCell(t)
       \/ AddLocal(t) \/ LoopEnd(t) \/ Publish(t)
  \/ Join

CountersSpec == CountersInit /\ [][CountersNext]_counterVars

-----------------------------------------------------------------------------
(* Properties.                                                             *)

\* With the semaphore, or with memory of its own for each thread, main finds
\* the sum it checks for.
SumIsRight == joined = Nthreads /\ prog # "badcnt" => result = Total

\* Without it updates are lost, but how many is bounded: with two iterations
\* or more per thread the counter ends at 2 at least, and never above the sum.
BadCountBounds ==
  joined = Nthreads /\ prog = "badcnt" /\ Nthreads > 1 /\ PerThread > 1 =>
    result \in 2 .. Total

\* Both: what main compares, in all five programs.
ResultIsRight == SumIsRight /\ BadCountBounds
=============================================================================
