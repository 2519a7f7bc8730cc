---------------------------- MODULE ReadersWriters ----------------------------
(***************************************************************************)
(* The four readers-writers solutions of csapp-master/conc: rw0.c, one     *)
(* semaphore for all; rw1.c, where the first reader in and the last one    *)
(* out speak for all of them; rw2.c, where writers queue behind another    *)
(* semaphore first; rw3.c, where a reader takes one of N permits and a     *)
(* writer all of them.  A run chooses one; P and V are one step each, and  *)
(* every thread loops for ever.                                            *)
(***************************************************************************)
EXTENDS Naturals, FiniteSets

CONSTANTS
  Readers, Writers,
  N           (* Permits of rw3: "at most N" active readers.               *)

ASSUME RWAssumption ==
  /\ IsFiniteSet(Readers) /\ IsFiniteSet(Writers) /\ Readers \cap Writers = {}
  /\ N \in Nat \ {0} /\ Cardinality(Readers) <= N

VARIABLES
  solution,   (* The file.                                                 *)
  sems,       (* Its semaphores.                                           *)
  readcnt,
  pc,
  taken       (* Permits a writer of rw3 has, its loop variable i.         *)

rwVars == <<solution, sems, readcnt, pc, taken>>

Solutions  == {"rw0", "rw1", "rw2", "rw3"}
Semaphores == {"mutex", "w", "wg", "sem", "wmutex"}

ReaderAt == {"out", "count", "first", "counted", "reading", "uncount", "last", "uncounted"}
WriterAt == {"out", "guarded", "collect", "collected", "writing", "return", "unguard"}

RWTypeOK ==
  /\ solution \in Solutions
  /\ sems \in [Semaphores -> 0 .. N]
  /\ readcnt \in 0 .. Cardinality(Readers)
  /\ pc \in [Readers \cup Writers -> ReaderAt \cup WriterAt]
  /\ taken \in [Writers -> 0 .. N]

RWInit ==
  /\ solution \in Solutions
  /\ sems = [s \in Semaphores |-> IF s = "sem" THEN N ELSE 1]
  /\ readcnt = 0
  /\ pc = [t \in Readers \cup Writers |-> "out"]
  /\ taken = [t \in Writers |-> 0]

P(s) == sems[s] > 0 /\ sems' = [sems EXCEPT ![s] = @ - 1]
V(s) == sems' = [sems EXCEPT ![s] = @ + 1]

RWGo(t, from, to) == pc[t] = from /\ pc' = [pc EXCEPT ![t] = to]

-----------------------------------------------------------------------------
(* reader.                                                                 *)

\* rw0 and rw3: P, read, V, of w or of a permit.
Permit == IF solution = "rw3" THEN "sem" ELSE "w"

EnterPlain(r) ==
  /\ solution \in {"rw0", "rw3"}
  /\ RWGo(r, "out", "reading") /\ P(Permit)
  /\ UNCHANGED <<solution, readcnt, taken>>

LeavePlain(r) ==
  /\ solution \in {"rw0", "rw3"}
  /\ RWGo(r, "reading", "out") /\ V(Permit)
  /\ UNCHANGED <<solution, readcnt, taken>>

\* rw1 and rw2: P(&mutex); readcnt++; if (readcnt == 1) P(&w); V(&mutex).
EnterLock(r) ==
  /\ solution \in {"rw1", "rw2"}
  /\ RWGo(r, "out", "count") /\ P("mutex")
  /\ UNCHANGED <<solution, readcnt, taken>>

EnterCount(r) ==
  /\ RWGo(r, "count", IF readcnt = 0 THEN "first" ELSE "counted")
  /\ readcnt' = readcnt + 1
  /\ UNCHANGED <<solution, sems, taken>>

FirstIn(r) ==
  /\ RWGo(r, "first", "counted") /\ P("w")
  /\ UNCHANGED <<solution, readcnt, taken>>

EnterUnlock(r) ==
  /\ RWGo(r, "counted", "reading") /\ V("mutex")
  /\ UNCHANGED <<solution, readcnt, taken>>

\* P(&mutex); readcnt--; if (readcnt == 0) V(&w); V(&mutex).
LeaveLock(r) ==
  /\ solution \in {"rw1", "rw2"}
  /\ RWGo(r, "reading", "uncount") /\ P("mutex")
  /\ UNCHANGED <<solution, readcnt, taken>>

\* A fault: the last one out is taken to be the one that finds itself alone.
LeaveCountLate(r) ==
  /\ RWGo(r, "uncount", IF readcnt = 2 THEN "last" ELSE "uncounted")
  /\ readcnt' = readcnt - 1
  /\ UNCHANGED <<solution, sems, taken>>

LeaveCount(r) ==
  /\ RWGo(r, "uncount", IF readcnt = 1 THEN "last" ELSE "uncounted")
  /\ readcnt' = readcnt - 1
  /\ UNCHANGED <<solution, sems, taken>>

LastOut(r) ==
  /\ RWGo(r, "last", "uncounted") /\ V("w")
  /\ UNCHANGED <<solution, readcnt, taken>>

LeaveUnlock(r) ==
  /\ RWGo(r, "uncounted", "out") /\ V("mutex")
  /\ UNCHANGED <<solution, readcnt, taken>>

reader(r) ==
  \/ EnterPlain(r) \/ LeavePlain(r)
  \/ EnterLock(r) \/ EnterCount(r) \/ FirstIn(r) \/ EnterUnlock(r)
  \/ LeaveLock(r) \/ LeaveCount(r) \/ LastOut(r) \/ LeaveUnlock(r)

-----------------------------------------------------------------------------
(* writer.                                                                 *)

\* rw2 takes wg, and rw3 wmutex, before anything else.
WriterGuard(t) ==
  /\ \/ solution = "rw2" /\ RWGo(t, "out", "guarded") /\ P("wg")
     \/ solution = "rw3" /\ RWGo(t, "out", "collect") /\ P("wmutex")
  /\ UNCHANGED <<solution, readcnt, taken>>

WriterEnter(t) ==
  /\ \/ solution \in {"rw0", "rw1"} /\ RWGo(t, "out", "writing")
     \/ solution = "rw2" /\ RWGo(t, "guarded", "writing")
  /\ P("w")
  /\ UNCHANGED <<solution, readcnt, taken>>

\* A fault: the permits are collected without wmutex held.
CollectUnguarded(t) ==
  /\ RWGo(t, "collect", IF taken[t] + 1 = N THEN "collected" ELSE "collect")
  /\ sems["sem"] > 0
  /\ sems' = [sems EXCEPT !["sem"] = @ - 1, !["wmutex"] = 1]
  /\ taken' = [taken EXCEPT ![t] = @ + 1]
  /\ UNCHANGED <<solution, readcnt>>

\* for (i=0; i<N; i++) P(&sem).
Collect(t) ==
  /\ RWGo(t, "collect", IF taken[t] + 1 = N THEN "collected" ELSE "collect")
  /\ P("sem")
  /\ taken' = [taken EXCEPT ![t] = @ + 1]
  /\ UNCHANGED <<solution, readcnt>>

Collected(t) ==
  /\ RWGo(t, "collected", "writing") /\ V("wmutex")
  /\ UNCHANGED <<solution, readcnt, taken>>

WriterLeave(t) ==
  /\ \/ solution \in {"rw0", "rw1"} /\ RWGo(t, "writing", "out") /\ V("w") /\ UNCHANGED taken
     \/ solution = "rw2" /\ RWGo(t, "writing", "unguard") /\ V("w") /\ UNCHANGED taken
     \/ /\ solution = "rw3" /\ V("sem")
        /\ pc[t] \in {"writing", "return"}
        /\ pc' = [pc EXCEPT ![t] = IF taken[t] = 1 THEN "out" ELSE "return"]
        /\ taken' = [taken EXCEPT ![t] = @ - 1]
  /\ UNCHANGED <<solution, readcnt>>

WriterUnguard(t) ==
  /\ RWGo(t, "unguard", "out") /\ V("wg")
  /\ UNCHANGED <<solution, readcnt, taken>>

writer(t) ==
  \/ WriterGuard(t) \/ WriterEnter(t) \/ Collect(t) \/ Collected(t)
  \/ WriterLeave(t) \/ WriterUnguard(t)

RWNext == (\E r \in Readers : reader(r)) \/ (\E t \in Writers : writer(t))

RWSpec == RWInit /\ [][RWNext]_rwVars

\* A thread that waits for a semaphore posted again and again gets it at some
\* time; nothing orders the threads that wait.
RWFairness == \A t \in Readers \cup Writers : SF_rwVars(reader(t) \/ writer(t))

-----------------------------------------------------------------------------
(* Properties.                                                             *)

Reading == {r \in Readers : pc[r] = "reading"}
Writing == {t \in Writers : pc[t] = "writing"}

\* While a writer writes nobody else writes or reads, in all four solutions.
WritersAreExclusive == Writing # {} => Reading = {} /\ Cardinality(Writing) = 1

\* rw2: of the writers one at most is ahead of wg, so that a reader that waits
\* for w competes with at most one writer ("strong reader priority").
WritersQueueAside ==
  solution = "rw2" => Cardinality({t \in Writers : pc[t] \in {"guarded", "writing", "unguard"}}) <= 1

\* Both: whatever the solution, writers write one after another, with no reader
\* inside, and in rw2 they compete with readers one at a time.
WritersTakeTurns == WritersAreExclusive /\ WritersQueueAside

\* Readers get in for ever, whatever the solution ...
ReadersGetIn == \A r \in Readers : (pc[r] = "out") ~> (pc[r] = "reading")

\* ... and in rw3 ("fair to both readers and writers"), as in rw0, writers do
\* too.  In rw1 and rw2 readers that overlap keep them out.
WritersGetIn ==
  \A t \in Writers : (solution \in {"rw0", "rw3"} /\ pc[t] = "out") ~> (pc[t] = "writing")
=============================================================================
