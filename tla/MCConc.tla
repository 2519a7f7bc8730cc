-------------------------------- MODULE MCConc --------------------------------
(***************************************************************************)
(* The concurrent programs that promise progress, side by side: a          *)
(* behaviour is one of the program chosen at the start, while the          *)
(* variables of the others keep one initial value.                         *)
(***************************************************************************)
EXTENDS EchoServer, EchoPool, ReadersWriters, Barrier

LOCAL Seqs == INSTANCE SequencesExt

VARIABLE program

concVars == <<program, echoVars, poolVars, rwVars, barrierVars>>

ConcInit ==
  /\ program \in {"echo server", "echo pool", "readers and writers", "barrier"}
  /\ program = "echo server" \/ n = 1
  /\ program = "readers and writers" \/ solution = "rw0"
  /\ EchoInit /\ init_pool /\ RWInit /\ BarrierInit

InEcho    == program = "echo server" /\ UNCHANGED <<program, poolVars, rwVars, barrierVars>>
InPool    == program = "echo pool" /\ UNCHANGED <<program, echoVars, rwVars, barrierVars>>
InRW      == program = "readers and writers" /\ UNCHANGED <<program, echoVars, poolVars, barrierVars>>
InBarrier == program = "barrier" /\ UNCHANGED <<program, echoVars, poolVars, rwVars>>

ConcNext ==
  \/ InEcho /\ EchoNext
  \/ InPool /\ PoolNext
  \/ InRW /\ RWNext
  \/ InBarrier /\ BarrierNext

-----------------------------------------------------------------------------
(* EchoFairness, PoolFairness, RWFairness and BarrierFairness, process by  *)
(* process: the k-th process of the program that runs.  (A step that stays *)
(* enabled until it is taken is as well off with SF as with WF.)           *)

EchoOrder    == Seqs!SetToSeq(Threads)
RWOrder      == Seqs!SetToSeq(Readers \cup Writers)
BarrierOrder == Seqs!SetToSeq(Procs)

RWStep(t) == IF t \in Readers THEN reader(t) ELSE writer(t)

ProcessStep(k) ==
  \/ InEcho /\ ~exited /\ k <= Len(EchoOrder) /\ Step(EchoOrder[k])
  \/ InPool /\ k = 1 /\ where # "exited" /\ Server
  \/ InRW /\ k <= Len(RWOrder) /\ RWStep(RWOrder[k])
  \/ InBarrier /\ k <= Len(BarrierOrder) /\ BarrierStep(BarrierOrder[k])

Processes == 1 .. Max({Len(EchoOrder), Len(RWOrder), Len(BarrierOrder)})

ConcFairness == \A k \in Processes : SF_concVars(ProcessStep(k))

ConcSpec == ConcInit /\ [][ConcNext]_concVars /\ ConcFairness

\* Readers get in for ever, and writers in rw0 and rw3, of readers and writers.
EverybodyGetsIn == program = "readers and writers" => ReadersGetIn /\ WritersGetIn
=============================================================================
