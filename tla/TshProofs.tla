------------------------------ MODULE TshProofs ------------------------------
(***************************************************************************)
(* Proofs about the tiny shell, for every size of the job table, every set *)
(* of process ids and every number of key strokes.                         *)
(***************************************************************************)
EXTENDS Tsh, SequenceTheorems, FiniteSetTheorems, TLAPS

\* While the main program is inside a command, which entry may be FG: the one
\* just added, the one just written through `job', the one waited for.
FGHasItsCommand ==
  \A i \in Slots : jobs[i].state = "FG" =>
    /\ mpc \notin {"read", "add", "kill", "set"}
    /\ mpc = "unblock" => mstate = "FG" /\ jobs[i].pid = mpid
    /\ mpc = "load" => mslot = i
    /\ mpc = "wait" => jobs[i].pid = mpid

SlotIsAnEntry == mpc \in {"kill", "set", "load"} => mslot \in Slots

\* A handler about to look up or to signal its foreground job has one.
TargetKnown == \A s \in Signals : hpc[s] \in {"check", "kill"} => fpid[s] \in Pids

IInv == TypeOK /\ AtMostOneFG /\ FGHasItsCommand /\ SlotIsAnEntry /\ TargetKnown

-----------------------------------------------------------------------------
\* With one FG entry at most, the first one that fgpid finds is that entry.
LEMMA FgPid ==
  ASSUME JobTypeOK, AtMostOneFG
  PROVE  /\ fgpid(jobs) \in Pids \cup {0}
         /\ \A i \in Slots : jobs[i].state = "FG" => fgpid(jobs) = jobs[i].pid
<1>1. CASE FGSlots(jobs) # {}
  <2> DEFINE j == CHOOSE k \in FGSlots(jobs) : IsFirst(k, FGSlots(jobs))
  <2>1. PICK i \in Slots : jobs[i].state = "FG"
    BY <1>1 DEF FGSlots
  <2>2. FGSlots(jobs) = {i}
    BY <2>1 DEF AtMostOneFG, FGSlots
  <2>3. IsFirst(i, FGSlots(jobs))
    BY <2>1, <2>2 DEF IsFirst, Slots
  <2>4. j = i
    BY <2>2, <2>3
  <2>5. fgpid(jobs) = jobs[i].pid
    BY <1>1, <2>4 DEF fgpid
  <2> QED
    BY <2>1, <2>5 DEF AtMostOneFG, JobTypeOK, Job
<1>2. CASE FGSlots(jobs) = {}
  BY <1>2 DEF fgpid, FGSlots
<1> QED
  BY <1>1, <1>2

\* addjob fills a free entry, or leaves the table as it is.
LEMMA AddJobEffect ==
  ASSUME JobTypeOK, NEW p \in Pids \cup {0}, NEW st \in {"FG", "BG"}, addjob(p, st)
  PROVE  /\ JobTypeOK'
         /\ \/ UNCHANGED jobs
            \/ \E i \in Slots :
                 /\ jobs'[i] = [pid |-> p, jid |-> nextjid, state |-> st]
                 /\ \A k \in Slots \ {i} : jobs'[k] = jobs[k]
<1>1. CASE UNCHANGED jobVars
  BY <1>1 DEF jobVars, JobTypeOK
<1>2. CASE ~UNCHANGED jobVars
  <2>1. PICK i \in Slots :
          /\ jobs' = [jobs EXCEPT ![i] = [pid |-> p, jid |-> nextjid, state |-> st]]
          /\ nextjid' = IF nextjid + 1 > MAXJOBS THEN 1 ELSE nextjid + 1
    BY <1>2 DEF addjob, IsFirst
  <2>2. [pid |-> p, jid |-> nextjid, state |-> st] \in Job
    BY DEF JobTypeOK, Job, JobStates
  <2> QED
    BY <2>1, <2>2 DEF JobTypeOK
<1> QED
  BY <1>1, <1>2

\* deletejob clears entries and fills none.
LEMMA DeleteJobEffect ==
  ASSUME JobTypeOK, NEW p, deletejob(p)
  PROVE  /\ JobTypeOK'
         /\ \A i \in Slots : jobs'[i] = jobs[i] \/ jobs'[i] = NoJob
<1>1. CASE UNCHANGED jobVars
  BY <1>1 DEF jobVars, JobTypeOK
<1>2. CASE ~UNCHANGED jobVars
  <2>1. PICK i \in Slots : jobs' = [jobs EXCEPT ![i] = NoJob]
    BY <1>2 DEF deletejob, getjobpid, IsFirst
  <2>2. NoJob \in Job
    BY DEF NoJob, Job, JobStates
  <2>3. jobs' \in [Slots -> Job]
    BY <2>1, <2>2 DEF JobTypeOK
  <2>4. PICK m \in {jobs'[k].jid : k \in Slots} \cup {0} : nextjid' = m + 1
    BY <1>2 DEF deletejob, NextJid
  <2>5. m \in Nat
    BY <2>3, <2>4 DEF Job
  <2> QED
    BY <2>1, <2>3, <2>4, <2>5 DEF JobTypeOK
<1> QED
  BY <1>1, <1>2

\* A write of job->state keeps the rest of the table.
LEMMA SetStateEffect ==
  ASSUME JobTypeOK, NEW i \in Slots, NEW st \in JobStates, setstate(i, st), UNCHANGED nextjid
  PROVE  /\ JobTypeOK'
         /\ jobs'[i].pid = jobs[i].pid /\ jobs'[i].state = st
         /\ \A k \in Slots \ {i} : jobs'[k] = jobs[k]
<1>1. [pid |-> jobs[i].pid, jid |-> jobs[i].jid, state |-> st] \in Job
  BY DEF JobTypeOK, Job
<1> QED
  BY <1>1 DEF setstate, JobTypeOK

\* Whatever sigchld_handler does to the table, an entry that is FG after it
\* was the same entry before.
LEMMA ChldApplyEffect ==
  ASSUME JobTypeOK, ChldApply
  PROVE  /\ JobTypeOK'
         /\ \A i \in Slots : jobs'[i].state = "FG" => jobs'[i] = jobs[i]
<1>1. CASE Ended(event.status) /\ deletejob(event.pid)
  BY <1>1, DeleteJobEffect DEF NoJob
<1>2. CASE (\E i \in Slots : setstate(i, "ST")) /\ UNCHANGED nextjid
  <2>1. PICK i \in Slots : setstate(i, "ST")
    BY <1>2
  <2>2. "ST" \in JobStates
    BY DEF JobStates
  <2>3. jobs'[i].state = "ST" /\ JobTypeOK' /\ \A k \in Slots \ {i} : jobs'[k] = jobs[k]
    BY <1>2, <2>1, <2>2, SetStateEffect
  <2> QED
    BY <2>3
<1>3. CASE UNCHANGED jobVars
  BY <1>3 DEF jobVars, JobTypeOK
<1> QED
  BY <1>1, <1>2, <1>3 DEF ChldApply

-----------------------------------------------------------------------------
\* A step that leaves the table and the main program alone keeps everything
\* IInv says of them.
LEMMA TableAndMainUnchanged ==
  ASSUME IInv, UNCHANGED <<jobVars, mainVars>>
  PROVE  /\ JobTypeOK' /\ AtMostOneFG' /\ FGHasItsCommand' /\ SlotIsAnEntry'
         /\ mpc' \in MainPCs /\ mpid' \in Pids \cup {0} /\ mslot' \in Slots \cup {0}
         /\ mstate' \in {"FG", "BG"}
BY DEF IInv, TypeOK, JobTypeOK, AtMostOneFG, FGHasItsCommand, SlotIsAnEntry, jobVars, mainVars

\* What a return does to the stack and to the program counters of the handlers.
LEMMA PopTyped ==
  ASSUME stack \in Seq(Signals), hpc \in [Signals -> HandlerPCs], stack # <<>>,
         NEW s \in Signals, Pop(s)
  PROVE  /\ stack' \in Seq(Signals) /\ hpc' \in [Signals -> HandlerPCs]
         /\ hpc' = [hpc EXCEPT ![s] = "find"]
BY DEF Pop, HandlerPCs

\* The commands and the steps of the main program.
LEMMA MainPreserves ==
  ASSUME IInv, Command \/ MainStep
  PROVE  IInv'
<1> USE DEF IInv, TypeOK, TargetKnown, MainPCs, Main, frameVars, kernelVars, jobVars
<1>1. ASSUME NEW st \in {"FG", "BG"}, Fork(st)
      PROVE  IInv'
  <2>1. child' \in [Pids -> ChildStates] /\ mpid' \in Pids
    BY <1>1 DEF Fork, ChildStates, Live
  <2> QED
    BY <1>1, <2>1 DEF Fork, BlockChld, JobTypeOK, AtMostOneFG, FGHasItsCommand, SlotIsAnEntry
<1>2. ASSUME NEW st \in {"FG", "BG"}, BgFg(st)
      PROVE  IInv'
  <2>1. PICK i \in Slots : mslot' = i /\ mpid' = jobs[i].pid
    BY <1>2 DEF BgFg
  <2> QED
    BY <1>2, <2>1 DEF BgFg, JobTypeOK, Job, AtMostOneFG, FGHasItsCommand, SlotIsAnEntry
<1>3. CASE ForkFails
  BY <1>3, TableAndMainUnchanged DEF ForkFails, BlockChld
<1>4. CASE Quit
  BY <1>4 DEF Quit, JobTypeOK, AtMostOneFG, FGHasItsCommand, SlotIsAnEntry
<1>5. CASE AddJob
  <2>1. addjob(mpid, mstate) /\ mpc = "add" /\ mpc' = "unblock"
        /\ UNCHANGED <<mpid, mslot, mstate, frameVars, kernelVars, keys>>
    BY <1>5 DEF AddJob
  <2>2. JobTypeOK'
        /\ \/ UNCHANGED jobs
           \/ \E i \in Slots :
                /\ jobs'[i] = [pid |-> mpid, jid |-> nextjid, state |-> mstate]
                /\ \A k \in Slots \ {i} : jobs'[k] = jobs[k]
    BY <2>1, AddJobEffect
  <2>3. \A i \in Slots : jobs[i].state # "FG"
    BY <2>1 DEF FGHasItsCommand
  <2>4. AtMostOneFG' /\ FGHasItsCommand'
    BY <2>1, <2>2, <2>3 DEF AtMostOneFG, FGHasItsCommand
  <2> QED
    BY <2>1, <2>2, <2>4 DEF SlotIsAnEntry
<1>6. CASE Unblock
  BY <1>6 DEF Unblock, Prompt, JobTypeOK, AtMostOneFG, FGHasItsCommand, SlotIsAnEntry
<1>7. CASE Continue
  <2>1. /\ child' \in [Pids -> ChildStates]
        /\ queued' \in SUBSET Pids
        /\ pending' \in SUBSET Signals
    BY <1>7 DEF Continue, KillCont, ChildStates, Live, Zombie, Signals
  <2> QED
    BY <1>7, <2>1 DEF Continue, JobTypeOK, AtMostOneFG, FGHasItsCommand, SlotIsAnEntry
<1>8. CASE SetState
  <2>1. /\ mslot \in Slots /\ mstate \in JobStates
        /\ setstate(mslot, mstate) /\ UNCHANGED nextjid
    BY <1>8 DEF SetState, SlotIsAnEntry, JobStates
  <2>2. JobTypeOK' /\ jobs'[mslot].state = mstate
        /\ \A k \in Slots \ {mslot} : jobs'[k] = jobs[k]
    BY <2>1, SetStateEffect
  <2>3. \A i \in Slots : jobs[i].state # "FG"
    BY <1>8 DEF SetState, FGHasItsCommand
  <2> QED
    BY <1>8, <2>1, <2>2, <2>3
    DEF SetState, Prompt, AtMostOneFG, FGHasItsCommand, SlotIsAnEntry
<1>9. CASE LoadPid
  BY <1>9 DEF LoadPid, JobTypeOK, Job, AtMostOneFG, FGHasItsCommand, SlotIsAnEntry
<1>10. CASE WaitFg
  <2>1. \A i \in Slots : jobs[i].state # "FG"
    BY <1>10, FgPid DEF WaitFg, FGHasItsCommand
  <2> QED
    BY <1>10, <2>1 DEF WaitFg, Prompt, JobTypeOK, AtMostOneFG, FGHasItsCommand, SlotIsAnEntry
<1> QED
  BY <1>1, <1>2, <1>3, <1>4, <1>5, <1>6, <1>7, <1>8, <1>9, <1>10 DEF Command, MainStep

\* The handlers: only sigchld_handler writes to the table, and only
\* sigtstp_handler can end the main program.
LEMMA HandlersPreserve ==
  ASSUME IInv, HandlerStep \/ \E s \in Signals : Deliver(s)
  PROVE  IInv'
<1> USE DEF IInv, TypeOK, TargetKnown, frameVars, kernelVars
<1>1. CASE ChldOuter
  <2>1. child' \in [Pids -> ChildStates]
    BY <1>1 DEF ChldOuter, waitpid, ChildStates, Live, Zombie
  <2>2. stack' \in Seq(Signals) /\ hpc' \in [Signals -> HandlerPCs]
    BY <1>1, PopTyped DEF ChldOuter, Handler, HandlerPCs, Signals
  <2>3. TargetKnown'
    BY <1>1 DEF ChldOuter, Pop
  <2> QED
    BY <1>1, <2>1, <2>2, <2>3, TableAndMainUnchanged DEF ChldOuter
<1>2. CASE ChldInner
  <2>1. child' \in [Pids -> ChildStates]
    BY <1>2 DEF ChldInner, waitpid, ChildStates, Live, Zombie
  <2>2. event' \in [pid : Pids \cup {0}, status : ChildStates]
    BY <1>2 DEF ChldInner
  <2>3. hpc' \in [Signals -> HandlerPCs] /\ TargetKnown'
    BY <1>2 DEF ChldInner, HandlerPCs
  <2> QED
    BY <1>2, <2>1, <2>2, <2>3, TableAndMainUnchanged DEF ChldInner
<1>3. CASE ChldApply
  <2>1. JobTypeOK' /\ \A i \in Slots : jobs'[i].state = "FG" => jobs'[i] = jobs[i]
    BY <1>3, ChldApplyEffect
  <2>2. /\ event' = NoEvent
        /\ hpc' = [hpc EXCEPT !["chld"] = "inner"]
        /\ UNCHANGED <<mainVars, stack, fpid, kernelVars, keys>>
    BY <1>3 DEF ChldApply
  <2>3. NoEvent \in [pid : Pids \cup {0}, status : ChildStates]
    BY DEF NoEvent, ChildStates
  <2>4. hpc' \in [Signals -> HandlerPCs] /\ TargetKnown'
    BY <2>2 DEF HandlerPCs
  <2>5. AtMostOneFG' /\ FGHasItsCommand' /\ SlotIsAnEntry'
    BY <2>1, <2>2 DEF AtMostOneFG, FGHasItsCommand, SlotIsAnEntry, mainVars
  <2> QED
    BY <2>1, <2>2, <2>3, <2>4, <2>5 DEF mainVars
<1>4. ASSUME NEW s \in {"int", "tstp"}, FindFg(s)
      PROVE  IInv'
  <2>1. fgpid(jobs) \in Pids \cup {0}
    BY FgPid
  <2>2. s \in Signals
    BY DEF Signals
  <2>3. fpid' \in [Signals -> Pids \cup {0}]
    BY <1>4, <2>1, <2>2 DEF FindFg
  <2>4. stack' \in Seq(Signals) /\ hpc' \in [Signals -> HandlerPCs]
    BY <1>4, <2>2, PopTyped DEF FindFg, Handler, HandlerPCs
  <2>5. TargetKnown'
    BY <1>4, <2>1, <2>2 DEF FindFg, Pop
  <2> QED
    BY <1>4, <2>3, <2>4, <2>5, TableAndMainUnchanged DEF FindFg
<1>5. CASE TstpCheck
  <2>1. "tstp" \in Signals
    BY DEF Signals
  <2>2. stack' \in Seq(Signals) /\ hpc' \in [Signals -> HandlerPCs]
    BY <1>5, <2>1, PopTyped DEF TstpCheck, Handler, HandlerPCs
  <2>3. fpid' \in [Signals -> Pids \cup {0}] /\ mpc' \in {mpc, "segv"}
    BY <1>5, <2>1 DEF TstpCheck
  <2>4. UNCHANGED <<jobVars, mpid, mslot, mstate, event, kernelVars, keys>> /\ TargetKnown'
    BY <1>5, <2>1 DEF TstpCheck, Pop, Handler
  <2>5. AtMostOneFG' /\ FGHasItsCommand' /\ SlotIsAnEntry'
    BY <2>3, <2>4 DEF AtMostOneFG, FGHasItsCommand, SlotIsAnEntry, jobVars
  <2> QED
    BY <2>2, <2>3, <2>4, <2>5 DEF JobTypeOK, jobVars, MainPCs
<1>6. ASSUME NEW s \in {"int", "tstp"}, Forward(s)
      PROVE  IInv'
  <2>1. s \in Signals
    BY DEF Signals
  <2>2. stack' \in Seq(Signals) /\ hpc' \in [Signals -> HandlerPCs]
    BY <1>6, <2>1, PopTyped DEF Forward, Handler
  <2>3. KillInt(fpid[s]) \/ KillTstp(fpid[s])
    BY <1>6 DEF Forward
  <2>4. /\ child' \in [Pids -> ChildStates]
        /\ pending' \in SUBSET Signals
    <3>1. \E b \in {"killed", "stopping"} :
            child' = [child EXCEPT ![fpid[s]] = IF child[fpid[s]] = "running" THEN b ELSE child[fpid[s]]]
      BY <2>3 DEF KillInt, KillTstp
    <3>2. PICK b \in ChildStates :
            child' = [child EXCEPT ![fpid[s]] = IF child[fpid[s]] = "running" THEN b ELSE child[fpid[s]]]
      BY <3>1 DEF ChildStates, Live, Zombie
    <3>3. pending' \in SUBSET Signals
      BY <2>3 DEF KillInt, KillTstp, Signals
    <3>4. child \in [Pids -> ChildStates]
      BY DEF TypeOK
    <3>5. child' \in [Pids -> ChildStates]
      BY <3>2, <3>4
    <3>. QED  BY <3>3, <3>5
  <2>5. queued' \in SUBSET Pids
    BY <1>6, <2>1, <2>3 DEF Forward, Handler, KillInt, KillTstp
  <2>6. fpid' \in [Signals -> Pids \cup {0}] /\ TargetKnown'
    BY <1>6, <2>1 DEF Forward, Pop
  <2> QED
    BY <1>6, <2>2, <2>4, <2>5, <2>6, TableAndMainUnchanged DEF Forward
<1>7. ASSUME NEW s \in Signals, Deliver(s)
      PROVE  IInv'
  <2>1. stack' \in Seq(Signals)
    BY <1>7 DEF Deliver
  <2>2. hpc' \in [Signals -> HandlerPCs] /\ TargetKnown'
    BY <1>7 DEF Deliver, HandlerPCs
  <2> QED
    BY <1>7, <2>1, <2>2, TableAndMainUnchanged DEF Deliver
<1> QED
  BY <1>1, <1>2, <1>3, <1>4, <1>5, <1>6, <1>7 DEF HandlerStep

\* Children, the keyboard and SIGQUIT.
LEMMA EnvironmentPreserves ==
  ASSUME IInv, Environment
  PROVE  IInv'
<1> USE DEF IInv, TypeOK, TargetKnown, frameVars
<1>1. CASE Sigquit
  BY <1>1 DEF Sigquit, MainPCs, jobVars, kernelVars, JobTypeOK, AtMostOneFG, FGHasItsCommand, SlotIsAnEntry
<1>2. ASSUME NEW p \in Pids, Exec(p) \/ ChildEnds(p) \/ ChildStops(p)
      PROVE  IInv'
  <2>1. child' \in [Pids -> ChildStates]
    BY <1>2 DEF Exec, ChildEnds, ChildStops, ChildStates, Live, Zombie
  <2>2. World /\ UNCHANGED keys
    BY <1>2 DEF Exec, ChildEnds, ChildStops
  <2>3. queued' \in SUBSET Pids /\ pending' \in SUBSET Signals
    BY <1>2 DEF Exec, ChildEnds, ChildStops, Signals
  <2> QED
    BY <2>1, <2>2, <2>3, TableAndMainUnchanged DEF World
<1>3. ASSUME NEW s \in {"int", "tstp"}, Key(s)
      PROVE  IInv'
  <2>1. pending' \in SUBSET Signals /\ keys' \in 0 .. MaxKeys
    BY <1>3, MaxKeysAssumption DEF Key, Signals
  <2> QED
    BY <1>3, <2>1, TableAndMainUnchanged DEF Key, World
<1> QED
  BY <1>1, <1>2, <1>3 DEF Environment

-----------------------------------------------------------------------------
\* The variables keep their types, one job at most is in the foreground, and
\* an FG entry belongs to the command the main program is in.
THEOREM Invariance == Spec => []IInv
<1>1. Init => IInv
  <2> SUFFICES ASSUME Init PROVE IInv
    OBVIOUS
  <2>1. NoJob \in Job
    BY DEF NoJob, Job, JobStates
  <2>2. JobTypeOK
    BY <2>1 DEF Init, initjobs, JobTypeOK
  <2>3. NoEvent \in [pid : Pids \cup {0}, status : ChildStates]
    BY DEF NoEvent, ChildStates
  <2>4. "none" \in ChildStates /\ "find" \in HandlerPCs /\ "read" \in MainPCs
    BY DEF ChildStates, HandlerPCs, MainPCs
  <2>5. /\ stack \in Seq(Signals) /\ hpc \in [Signals -> HandlerPCs]
        /\ fpid \in [Signals -> Pids \cup {0}] /\ child \in [Pids -> ChildStates]
    BY <2>4 DEF Init
  <2>6. mpc \in MainPCs /\ mpid = 0 /\ mslot = 0 /\ mstate = "BG" /\ event = NoEvent
    BY <2>4 DEF Init
  <2>7. queued = {} /\ pending = {} /\ blocked = FALSE /\ keys \in 0 .. MaxKeys
    BY MaxKeysAssumption DEF Init
  <2>8. TypeOK
    BY <2>2, <2>3, <2>5, <2>6, <2>7 DEF TypeOK
  <2> QED
    BY <2>8
    DEF Init, initjobs, NoJob, IInv, AtMostOneFG, FGHasItsCommand, SlotIsAnEntry, TargetKnown
<1>2. IInv /\ [Next]_vars => IInv'
  <2> SUFFICES ASSUME IInv, [Next]_vars PROVE IInv'
    OBVIOUS
  <2>1. CASE UNCHANGED vars
    BY <2>1, TableAndMainUnchanged DEF vars, frameVars, kernelVars, IInv, TypeOK, TargetKnown
  <2> QED
    BY <2>1, MainPreserves, HandlersPreserve, EnvironmentPreserves DEF Next
<1> QED
  BY <1>1, <1>2, PTL DEF Spec

\* The job table and the variables of the handlers stay within their types:
\* addjob, deletejob and the handlers never store a job id or a slot that is
\* not one, for every MAXJOBS and every set of process ids.
THEOREM TypeCorrect == Spec => []TypeOK
<1>1. IInv => TypeOK
  BY DEF IInv
<1> QED
  BY <1>1, Invariance, PTL

\* No two entries are FG, although eval, do_bgfg (through a pointer that may
\* be stale) and sigchld_handler write states of the same table.
THEOREM OneForegroundJob == Spec => []AtMostOneFG
<1>1. IInv => AtMostOneFG
  BY DEF IInv
<1> QED
  BY <1>1, Invariance, PTL

\* main reads a command only when fgpid would find no job: waitfg returned
\* because a handler took the FG state away, and no handler gives it back.
THEOREM PromptWithoutFG == Spec => []PromptHasNoFG
<1>1. IInv => PromptHasNoFG
  BY DEF IInv, FGHasItsCommand, PromptHasNoFG
<1> QED
  BY <1>1, Invariance, PTL

-----------------------------------------------------------------------------
(* What the job table says of the processes, although the main program and *)
(* the handlers, which interrupt it and each other, all write to it.       *)

\* A process has one entry at most, ...
UniquePids ==
  \A i, k \in Slots : jobs[i].pid = jobs[k].pid /\ jobs[i].pid # 0 => i = k

\* ... and was forked.
EntriesForked == \A i \in Slots : jobs[i].pid # 0 => child[jobs[i].pid] # "none"

\* From the fork to addjob SIGCHLD is blocked and its handler does not run,
\* so the new process has not been reaped.
NewJob ==
  mpc = "add" =>
    /\ mpid \in Pids /\ ~Listed(jobs, mpid) /\ child[mpid] \notin {"none", "gone"}
    /\ blocked /\ \A k \in 1 .. Len(stack) : stack[k] # "chld"

\* A handler that found its job has not returned ...
Keyboard == {"int", "tstp"}

HandlerOnStack ==
  \A s \in Keyboard : hpc[s] \in {"check", "kill"} => \E k \in 1 .. Len(stack) : stack[k] = s

\* ... and the main program, which alone makes a job BG, waits for it.
TargetNotBG ==
  \A s \in Keyboard, i \in Slots :
    hpc[s] \in {"check", "kill"} /\ jobs[i].pid = fpid[s] => jobs[i].state # "BG"

\* A job is deleted for a process that has been reaped.
EventGone == event.status \in Zombie => event.pid \in Pids /\ child[event.pid] = "gone"

LiveListed ==
  ~Halted /\ Cardinality(Pids) <= MAXJOBS =>
    \A p \in Pids : child[p] \in Live /\ ~(mpc = "add" /\ mpid = p) => Listed(jobs, p)

TInv ==
  /\ UniquePids /\ EntriesForked /\ NewJob /\ HandlerOnStack /\ TargetNotBG
  /\ EventGone /\ LiveListed

-----------------------------------------------------------------------------
\* What any step but a fork does to a process.
ChildOnward ==
  \A p \in Pids :
    /\ child[p] = "gone" => child'[p] = "gone"
    /\ child[p] # "none" => child'[p] # "none"
    /\ child'[p] \in Live => child[p] \in Live

\* A step that reaps nothing.
NothingReaped == \A p \in Pids : child'[p] = "gone" => child[p] = "gone"

LEMMA KillOnward ==
  ASSUME TypeOK, NEW p \in Pids \cup {0}, KillInt(p) \/ KillTstp(p) \/ KillCont(p)
  PROVE  ChildOnward /\ NothingReaped
  BY DEF KillInt, KillTstp, KillCont, ChildOnward, NothingReaped, Live, TypeOK

LEMMA WaitOnward ==
  ASSUME TypeOK, NEW p \in Pids, waitpid(p)
  PROVE  ChildOnward /\ (child[p] \in Zombie => child'[p] = "gone")
  BY DEF waitpid, Waitable, ChildOnward, Live, Zombie, TypeOK

\* A step that leaves the table and the command alone.
LEMMA TableKept ==
  ASSUME IInv, TInv, UNCHANGED <<jobs, mpc, mpid>>, ChildOnward
  PROVE  UniquePids' /\ EntriesForked' /\ LiveListed'
  <1>1. UniquePids'
    BY DEF TInv, UniquePids
  <1>2. EntriesForked'
    <2>1. \A i \in Slots : jobs[i].pid \in Pids \cup {0}
      BY DEF IInv, TypeOK, JobTypeOK, Job
    <2>. QED  BY <2>1 DEF TInv, EntriesForked, ChildOnward
  <1>3. LiveListed'
    BY DEF TInv, LiveListed, Halted, Listed, ChildOnward
  <1>. QED  BY <1>1, <1>2, <1>3

\* A return, and a delivery.
LEMMA PopStack ==
  ASSUME TypeOK, NEW s \in Signals, stack # <<>>, stack[Len(stack)] = s, Pop(s)
  PROVE  /\ \A k \in 1 .. Len(stack') : k \in 1 .. Len(stack) /\ stack'[k] = stack[k]
         /\ \A k \in 1 .. Len(stack) : stack[k] # s => k \in 1 .. Len(stack') /\ stack'[k] = stack[k]
         /\ hpc' = [hpc EXCEPT ![s] = "find"]
  <1>1. stack \in Seq(Signals) /\ Len(stack) \in Nat /\ Len(stack) > 0
    BY DEF TypeOK
  <1>2. stack' = SubSeq(stack, 1, Len(stack) - 1)
    BY DEF Pop
  <1>3. Len(stack') = Len(stack) - 1 /\ \A k \in 1 .. Len(stack) - 1 : stack'[k] = stack[k]
    <2>0. PICK n \in Nat : n = Len(stack) - 1
      BY <1>1
    <2>1. n \in Int /\ 1 \in Int /\ \A k \in 1 .. n : stack[k] \in Signals
      BY <1>1, <2>0
    <2>2. /\ Len(SubSeq(stack, 1, n)) = IF 1 <= n THEN n - 1 + 1 ELSE 0
          /\ \A k \in 1 .. n - 1 + 1 : SubSeq(stack, 1, n)[k] = stack[1 + k - 1]
      BY <2>1, SubSeqProperties
    <2>3. Len(SubSeq(stack, 1, n)) = n
      BY <2>2
    <2>4. ASSUME NEW k \in 1 .. n PROVE SubSeq(stack, 1, n)[k] = stack[k]
      <3>1. k \in 1 .. n - 1 + 1 /\ 1 + k - 1 = k
        OBVIOUS
      <3>. QED  BY <2>2, <3>1
    <2>. QED  BY <2>0, <2>3, <2>4, <1>2
  <1>. QED  BY <1>1, <1>3 DEF Pop

LEMMA AppendStack ==
  ASSUME TypeOK, NEW s \in Signals, stack' = Append(stack, s)
  PROVE  /\ \A k \in 1 .. Len(stack) : k \in 1 .. Len(stack') /\ stack'[k] = stack[k]
         /\ \A k \in 1 .. Len(stack') : k \notin 1 .. Len(stack) => stack'[k] = s
         /\ \E k \in 1 .. Len(stack') : stack'[k] = s
  <1>1. stack \in Seq(Signals) /\ Len(stack) \in Nat
    BY DEF TypeOK
  <1>2. Len(stack') = Len(stack) + 1 /\ stack'[Len(stack) + 1] = s
        /\ \A k \in 1 .. Len(stack) : stack'[k] = stack[k]
    BY <1>1
  <1>. QED  BY <1>1, <1>2

\* The main program runs when no handler does.
LEMMA NoHandler ==
  ASSUME IInv, TInv, stack = <<>>
  PROVE  \A s \in Keyboard : hpc[s] \notin {"check", "kill"}
  <1>1. Len(stack) = 0
    OBVIOUS
  <1>. QED  BY <1>1 DEF TInv, HandlerOnStack

-----------------------------------------------------------------------------
(* The main program.                                                       *)

\* addjob finds room when the table holds as many jobs as there are processes.
LEMMA RoomForAll ==
  ASSUME IInv, TInv, IsFiniteSet(Pids), Cardinality(Pids) <= MAXJOBS, mpc = "add"
  PROVE  \E i \in Slots : jobs[i].pid = 0
  <1>. SUFFICES ASSUME \A i \in Slots : jobs[i].pid # 0 PROVE FALSE
    OBVIOUS
  <1>. DEFINE Others == Pids \ {mpid}
              f == [i \in Slots |-> jobs[i].pid]
  <1>1. mpid \in Pids /\ ~Listed(jobs, mpid) /\ mpid # 0
    BY PidsAssumption DEF TInv, NewJob
  <1>2. IsFiniteSet(Slots) /\ Cardinality(Slots) = MAXJOBS
    <2>1. IsFiniteSet(1 .. MAXJOBS) /\ Cardinality(1 .. MAXJOBS) = MAXJOBS
      BY MaxJobsAssumption, FS_Interval
    <2>. QED  BY <2>1 DEF Slots
  <1>3. Cardinality(Pids) \in Nat
    BY FS_CardinalityType
  <1>4. IsFiniteSet(Others) /\ Cardinality(Others) = Cardinality(Pids) - 1
    BY <1>1, FS_RemoveElement
  <1>5. f \in [Slots -> Others]
    BY <1>1 DEF IInv, TypeOK, JobTypeOK, Job, Listed
  <1>6. Cardinality(Others) < Cardinality(Slots)
    BY <1>2, <1>3, <1>4, MaxJobsAssumption
  <1>. HIDE DEF Others, f
  <1>7. \E x, y \in Slots : x # y /\ f[x] = f[y]
    BY <1>2, <1>4, <1>5, <1>6, FS_PigeonHole
  <1>. QED  BY <1>7 DEF f, TInv, UniquePids

LEMMA MainKeepsTable ==
  ASSUME IInv, TInv, IsFiniteSet(Pids), Command \/ MainStep
  PROVE  TInv'
  <1>. USE DEF IInv, TInv, Main, frameVars, kernelVars, jobVars, mainVars
  <1>0. (stack = <<>> => \A s \in Keyboard : hpc[s] \notin {"check", "kill"}) /\ 0 \notin Pids
        /\ (stack = <<>> => Len(stack) = 0)
    BY NoHandler, PidsAssumption
  <1>1. ASSUME NEW st \in {"FG", "BG"}, Fork(st) PROVE TInv'
    <2>1. PICK p \in Pids : child[p] = "none" /\ child' = [child EXCEPT ![p] = "fresh"] /\ mpid' = p
      BY <1>1 DEF Fork
    <2>2. /\ mpc = "read" /\ mpc' = "add" /\ blocked' = TRUE /\ stack = <<>>
          /\ UNCHANGED <<jobs, stack, hpc, event, fpid>>
      BY <1>1 DEF Fork, BlockChld
    <2>3. ~Listed(jobs, p)
      BY <2>1, PidsAssumption DEF EntriesForked, Listed
    <2>4. UniquePids' /\ HandlerOnStack' /\ TargetNotBG'
      BY <2>2, <1>0 DEF UniquePids, HandlerOnStack, TargetNotBG
    <2>5. EntriesForked'
      BY <2>1, <2>2 DEF EntriesForked, TypeOK, JobTypeOK, Job
    <2>6. NewJob'
      BY <2>1, <2>2, <2>3, <1>0 DEF NewJob, Listed, TypeOK
    <2>7. EventGone'
      BY <2>1, <2>2 DEF EventGone, TypeOK
    <2>8. LiveListed'
      BY <2>1, <2>2 DEF LiveListed, Halted, Listed, TypeOK, Live
    <2>. QED  BY <2>4, <2>5, <2>6, <2>7, <2>8
  <1>2. CASE AddJob
    <2>1. /\ mpc = "add" /\ mpc' = "unblock" /\ addjob(mpid, mstate) /\ stack = <<>> /\ mpid' = mpid
          /\ UNCHANGED <<stack, hpc, event, fpid, child>> /\ mpid \in Pids /\ ~Listed(jobs, mpid)
      BY <1>2 DEF AddJob, NewJob
    <2>2. \/ /\ UNCHANGED jobs /\ \A i \in Slots : jobs[i].pid # 0
          \/ \E i \in Slots :
               /\ jobs[i].pid = 0 /\ jobs'[i].pid = mpid
               /\ \A k \in Slots \ {i} : jobs'[k] = jobs[k]
      BY <2>1 DEF addjob, IsFirst, TypeOK, JobTypeOK
    <2>3. UniquePids' /\ EntriesForked'
      BY <2>1, <2>2, <1>0 DEF UniquePids, EntriesForked, NewJob, Listed
    <2>4. NewJob' /\ HandlerOnStack' /\ TargetNotBG' /\ EventGone'
      BY <2>1, <1>0 DEF NewJob, HandlerOnStack, TargetNotBG, EventGone
    <2>5. ASSUME Cardinality(Pids) <= MAXJOBS, NEW p \in Pids, child[p] \in Live
          PROVE  Listed(jobs', p)
      <3>1. \E i \in Slots : jobs[i].pid = 0
        BY <2>1, <2>5, RoomForAll
      <3>2. PICK i \in Slots : /\ jobs[i].pid = 0 /\ jobs'[i].pid = mpid
                               /\ \A k \in Slots \ {i} : jobs'[k] = jobs[k]
        BY <2>2, <3>1
      <3>3. CASE p = mpid
        BY <3>2, <3>3, <1>0 DEF Listed
      <3>4. CASE p # mpid
        <4>1. PICK k \in Slots : jobs[k].pid = p
          BY <3>4, <2>1, <2>5 DEF LiveListed, Halted, Listed
        <4>2. k # i /\ p # 0
          BY <4>1, <3>2, <1>0
        <4>. QED  BY <4>1, <4>2, <3>2 DEF Listed
      <3>. QED  BY <3>3, <3>4
    <2>6. LiveListed'
      BY <2>1, <2>5 DEF LiveListed
    <2>. QED  BY <2>3, <2>4, <2>6
  <1>3. CASE SetState
    <2>1. /\ mpc = "set" /\ stack = <<>> /\ mpc' \in {"load", "read"} /\ mslot \in Slots
          /\ setstate(mslot, mstate) /\ UNCHANGED <<stack, hpc, event, fpid, child>>
      BY <1>3 DEF SetState, Prompt, SlotIsAnEntry
    <2>2. \A i \in Slots : jobs'[i].pid = jobs[i].pid
      BY <2>1 DEF setstate, TypeOK, JobTypeOK
    <2>. QED  BY <2>1, <2>2, <1>0 DEF UniquePids, EntriesForked, NewJob, HandlerOnStack,
           TargetNotBG, EventGone, LiveListed, Halted, Listed
  <1>4. CASE Continue
    <2>1. /\ mpc = "kill" /\ stack = <<>> /\ mpc' = "set"
          /\ UNCHANGED <<jobs, stack, hpc, event, fpid, mpid>>
          /\ UNCHANGED child \/ (KillCont(mpid) /\ mpid \in Pids)
      BY <1>4 DEF Continue, TypeOK
    <2>2. ChildOnward
      BY <2>1, KillOnward DEF ChildOnward
    <2>3. UniquePids' /\ NewJob' /\ HandlerOnStack' /\ TargetNotBG'
      BY <2>1, <1>0 DEF UniquePids, NewJob, HandlerOnStack, TargetNotBG
    <2>4. EntriesForked'
      BY <2>1, <2>2 DEF EntriesForked, ChildOnward, TypeOK, JobTypeOK, Job
    <2>5. EventGone' /\ LiveListed'
      BY <2>1, <2>2 DEF EventGone, LiveListed, ChildOnward, Halted, Listed
    <2>. QED  BY <2>3, <2>4, <2>5
  <1>5. CASE ForkFails
    <2>1. UNCHANGED <<jobs, mpc, mpid, stack, hpc, event, fpid, child>> /\ mpc = "read"
      BY <1>5 DEF ForkFails
    <2>. QED  BY <2>1 DEF UniquePids, EntriesForked, NewJob, HandlerOnStack,
           TargetNotBG, EventGone, LiveListed, Halted, Listed
  \* The other steps move the main program from one place to another.
  <1>6. CASE Unblock \/ LoadPid \/ WaitFg \/ Quit \/ \E st \in {"FG", "BG"} : BgFg(st)
    <2>1. /\ UNCHANGED <<jobs, stack, hpc, event, fpid, child>>
          /\ mpc \in {"unblock", "load", "wait", "read"} /\ mpc' \in {"read", "wait", "halt", "kill"}
      BY <1>6 DEF Unblock, LoadPid, WaitFg, Quit, BgFg, Prompt
    <2>. QED  BY <2>1 DEF UniquePids, EntriesForked, NewJob, HandlerOnStack,
           TargetNotBG, EventGone, LiveListed, Halted, Listed
  <1>. QED  BY <1>1, <1>2, <1>3, <1>4, <1>5, <1>6 DEF Command, MainStep

-----------------------------------------------------------------------------
(* The handlers and the world.                                             *)

LEMMA HandlersKeepTable ==
  ASSUME IInv, TInv, HandlerStep \/ \E s \in Signals : Deliver(s)
  PROVE  TInv'
  <1>. USE DEF IInv, TInv
  <1>0. 0 \notin Pids /\ Keyboard \subseteq Signals /\ "chld" \in Signals /\ "chld" \notin Keyboard
    BY PidsAssumption DEF Keyboard, Signals
  \* While the handler of SIGCHLD runs, the main program is not at addjob.
  <1>c. ASSUME NEW pc, Handler("chld", pc) PROVE mpc # "add" /\ ~Halted
    <2>1. stack \in Seq(Signals) /\ Len(stack) \in 1 .. Len(stack)
      BY <1>c DEF Handler, TypeOK
    <2>. QED  BY <1>c, <2>1 DEF Handler, NewJob
  <1>1. CASE ChldOuter
    <2>1. /\ Handler("chld", "outer") /\ UNCHANGED <<jobs, mpc, mpid, event, fpid>> /\ mpc # "add"
      BY <1>1, <1>c DEF ChldOuter, jobVars, mainVars
    <2>2. ChildOnward
      BY <1>1, WaitOnward DEF ChldOuter, ChildOnward
    <2>3. \A s \in Keyboard : hpc'[s] = hpc[s]
      BY <1>1, <1>0 DEF ChldOuter, Pop, TypeOK
    <2>4. HandlerOnStack'
      <3>1. CASE UNCHANGED stack
        BY <3>1, <2>3 DEF HandlerOnStack
      <3>2. CASE Pop("chld")
        BY <3>2, <2>1, <2>3, <1>0, PopStack DEF HandlerOnStack, Handler
      <3>. QED  BY <3>1, <3>2, <1>1 DEF ChldOuter
    <2>5. NewJob' /\ TargetNotBG' /\ EventGone'
      BY <2>1, <2>2, <2>3 DEF NewJob, TargetNotBG, EventGone, ChildOnward
    <2>. QED  BY <2>1, <2>2, <2>4, <2>5, TableKept
  <1>2. CASE ChldInner
    <2>1. /\ UNCHANGED <<jobs, mpc, mpid, stack, fpid>> /\ mpc # "add"
      BY <1>2, <1>c DEF ChldInner, jobVars, mainVars
    <2>2. ChildOnward /\ EventGone'
      <3>1. CASE UNCHANGED <<event, child>>
        BY <3>1 DEF ChildOnward, EventGone
      <3>2. CASE \E p \in Pids : waitpid(p) /\ event' = [pid |-> p, status |-> child[p]]
        BY <3>2, WaitOnward DEF EventGone
      <3>. QED  BY <3>1, <3>2, <1>2 DEF ChldInner
    <2>3. \A s \in Keyboard : hpc'[s] = hpc[s]
      BY <1>2, <1>0 DEF ChldInner, TypeOK
    <2>4. NewJob' /\ TargetNotBG' /\ HandlerOnStack'
      BY <2>1, <2>3 DEF NewJob, TargetNotBG, HandlerOnStack
    <2>. QED  BY <2>1, <2>2, <2>4, TableKept
  <1>3. CASE ChldApply
    <2>1. /\ UNCHANGED <<mpc, mpid, stack, fpid, child>> /\ mpc # "add" /\ event' = NoEvent
      BY <1>3, <1>c DEF ChldApply, kernelVars, mainVars
    <2>2. \A s \in Keyboard : hpc'[s] = hpc[s]
      BY <1>3, <1>0 DEF ChldApply, TypeOK
    <2>3. ASSUME NEW i \in Slots
          PROVE  \/ jobs'[i] = jobs[i]
                 \/ jobs'[i].pid = 0
                 \/ jobs'[i].pid = jobs[i].pid /\ jobs'[i].state = "ST"
      BY <1>3 DEF ChldApply, deletejob, setstate, jobVars, TypeOK, JobTypeOK, NoJob
    <2>4. UniquePids' /\ EntriesForked'
      BY <2>1, <2>3 DEF UniquePids, EntriesForked
    <2>5. NewJob' /\ HandlerOnStack' /\ EventGone'
      BY <2>1, <2>2 DEF NewJob, HandlerOnStack, EventGone, NoEvent, Zombie
    <2>6. TargetNotBG'
      <3>. SUFFICES ASSUME NEW s \in Keyboard, NEW i \in Slots, hpc[s] \in {"check", "kill"},
                           jobs'[i].pid = fpid[s]
                    PROVE  jobs'[i].state # "BG"
        BY <2>1, <2>2 DEF TargetNotBG
      <3>1. fpid[s] \in Pids
        BY <1>0 DEF TargetKnown
      <3>. QED  BY <3>1, <2>3, <1>0 DEF TargetNotBG
    <2>7. ASSUME NEW p \in Pids, child[p] \in Live, Listed(jobs, p) PROVE Listed(jobs', p)
      <3>1. PICK k \in Slots : jobs[k].pid = p /\ p # 0
        BY <2>7 DEF Listed
      <3>2. CASE Ended(event.status) /\ deletejob(event.pid)
        <4>1. event.pid # p
          BY <3>2, <2>7 DEF Ended, EventGone, Live
        <4>2. jobs'[k] = jobs[k]
          BY <3>1, <3>2, <4>1 DEF deletejob, getjobpid, IsFirst, jobVars, TypeOK, JobTypeOK
        <4>. QED  BY <3>1, <4>2 DEF Listed
      <3>3. CASE ~Ended(event.status)
        <4>1. jobs'[k].pid = jobs[k].pid
          BY <1>3, <3>3 DEF ChldApply, setstate, jobVars, TypeOK, JobTypeOK
        <4>. QED  BY <3>1, <4>1 DEF Listed
      <3>4. Ended(event.status) => deletejob(event.pid)
        BY <1>3 DEF ChldApply, Ended, Zombie
      <3>. QED  BY <3>2, <3>3, <3>4
    <2>8. LiveListed'
      BY <2>1, <2>7 DEF LiveListed, Halted
    <2>. QED  BY <2>4, <2>5, <2>6, <2>8
  <1>4. ASSUME NEW s \in Keyboard, FindFg(s) PROVE TInv'
    <2>1. UNCHANGED <<jobs, mpc, mpid, event, child, blocked>> /\ Handler(s, "find")
      BY <1>4 DEF FindFg, jobVars, mainVars, kernelVars
    <2>2. stack # <<>> /\ stack[Len(stack)] = s /\ s \in Signals /\ Len(stack) \in 1 .. Len(stack)
      BY <2>1, <1>0 DEF Handler, TypeOK
    <2>3. ChildOnward
      BY <2>1 DEF ChildOnward
    <2>4. CASE UNCHANGED stack /\ fgpid(jobs) # 0
      <3>1. /\ fpid' = [fpid EXCEPT ![s] = fgpid(jobs)]
            /\ hpc' = [hpc EXCEPT ![s] = IF s = "int" THEN "kill" ELSE "check"]
        BY <1>4, <2>4 DEF FindFg
      <3>2. NewJob' /\ HandlerOnStack' /\ EventGone'
        BY <2>1, <2>2, <2>4, <3>1, <1>0 DEF NewJob, HandlerOnStack, EventGone, TypeOK
      <3>3. PICK k \in Slots : jobs[k].state = "FG" /\ jobs[k].pid = fgpid(jobs)
        BY <2>4, FgPid DEF fgpid, FGSlots, TypeOK
      <3>4. TargetNotBG'
        <4>. SUFFICES ASSUME NEW u \in Keyboard, NEW i \in Slots, hpc'[u] \in {"check", "kill"},
                             jobs[i].pid = fpid'[u]
                      PROVE  jobs[i].state # "BG"
          BY <2>1 DEF TargetNotBG
        <4>1. CASE u = s
          <5>1. jobs[i].pid = jobs[k].pid /\ jobs[i].pid # 0
            BY <4>1, <3>1, <3>3, <2>2, <2>4 DEF TypeOK
          <5>. QED  BY <5>1, <3>3 DEF UniquePids
        <4>2. CASE u # s
          BY <4>2, <3>1, <2>2, <1>0 DEF TargetNotBG, TypeOK
        <4>. QED  BY <4>1, <4>2
      <3>. QED  BY <2>1, <2>3, <3>2, <3>4, TableKept
    <2>5. CASE Pop(s) /\ UNCHANGED fpid
      <3>1. /\ \A k \in 1 .. Len(stack') : k \in 1 .. Len(stack) /\ stack'[k] = stack[k]
            /\ \A k \in 1 .. Len(stack) : stack[k] # s => k \in 1 .. Len(stack') /\ stack'[k] = stack[k]
            /\ hpc' = [hpc EXCEPT ![s] = "find"]
        BY <2>2, <2>5, PopStack
      <3>2. NewJob' /\ EventGone' /\ TargetNotBG'
        BY <2>1, <2>2, <2>5, <3>1, <1>0 DEF NewJob, EventGone, TargetNotBG, TypeOK
      <3>3. HandlerOnStack'
        BY <2>1, <2>2, <3>1, <1>0 DEF HandlerOnStack, TypeOK
      <3>. QED  BY <2>1, <2>3, <3>2, <3>3, TableKept
    <2>. QED  BY <2>4, <2>5, <1>4 DEF FindFg
  <1>5. CASE TstpCheck
    <2>1. /\ UNCHANGED <<jobs, mpid, event, child, blocked>> /\ Handler("tstp", "check")
          /\ mpc' = mpc \/ mpc' = "segv"
      BY <1>5 DEF TstpCheck, jobVars, kernelVars
    <2>2. stack # <<>> /\ stack[Len(stack)] = "tstp" /\ "tstp" \in Signals /\ "tstp" \in Keyboard
          /\ Len(stack) \in 1 .. Len(stack)
      BY <2>1, <1>0 DEF Handler, TypeOK, Keyboard, Signals
    <2>3. UniquePids' /\ EntriesForked' /\ LiveListed' /\ EventGone'
      BY <2>1 DEF UniquePids, EntriesForked, LiveListed, EventGone, Halted, Listed
    <2>4. CASE hpc' = [hpc EXCEPT !["tstp"] = "kill"] /\ UNCHANGED <<mpc, stack, fpid>>
      BY <2>1, <2>2, <2>3, <2>4 DEF NewJob, HandlerOnStack, TargetNotBG, Handler, TypeOK
    <2>5. CASE Pop("tstp") /\ fpid' = [fpid EXCEPT !["tstp"] = 0]
      <3>1. /\ \A k \in 1 .. Len(stack') : k \in 1 .. Len(stack) /\ stack'[k] = stack[k]
            /\ \A k \in 1 .. Len(stack) : stack[k] # "tstp" => k \in 1 .. Len(stack') /\ stack'[k] = stack[k]
            /\ hpc' = [hpc EXCEPT !["tstp"] = "find"]
        BY <2>2, <2>5, PopStack
      <3>2. NewJob' /\ HandlerOnStack' /\ TargetNotBG'
        BY <2>1, <2>2, <2>5, <3>1, <1>0 DEF NewJob, HandlerOnStack, TargetNotBG, TypeOK
      <3>. QED  BY <2>3, <3>2
    <2>6. CASE mpc' = "segv" /\ UNCHANGED <<stack, hpc, fpid>>
      BY <2>1, <2>3, <2>6 DEF NewJob, HandlerOnStack, TargetNotBG
    <2>. QED  BY <2>4, <2>5, <2>6, <1>5 DEF TstpCheck
  <1>6. ASSUME NEW s \in Keyboard, Forward(s) PROVE TInv'
    <2>1. /\ UNCHANGED <<jobs, mpc, mpid, event, blocked>> /\ Handler(s, "kill") /\ Pop(s)
          /\ fpid' = [fpid EXCEPT ![s] = 0] /\ (KillInt(fpid[s]) \/ KillTstp(fpid[s]))
      BY <1>6 DEF Forward, jobVars, mainVars
    <2>2. stack # <<>> /\ stack[Len(stack)] = s /\ s \in Signals
      BY <2>1, <1>0 DEF Handler
    <2>3. ChildOnward /\ NothingReaped
      BY <2>1, <2>2, KillOnward DEF TypeOK
    <2>4. /\ \A k \in 1 .. Len(stack') : k \in 1 .. Len(stack) /\ stack'[k] = stack[k]
          /\ \A k \in 1 .. Len(stack) : stack[k] # s => k \in 1 .. Len(stack') /\ stack'[k] = stack[k]
          /\ hpc' = [hpc EXCEPT ![s] = "find"]
      BY <2>1, <2>2, PopStack
    <2>5. HandlerOnStack' /\ TargetNotBG' /\ EventGone'
      BY <2>1, <2>2, <2>3, <2>4, <1>0 DEF HandlerOnStack, EventGone, TargetNotBG, TypeOK, ChildOnward
    <2>6. NewJob'
      BY <2>1, <2>3, <2>4 DEF NewJob, ChildOnward, NothingReaped
    <2>. QED  BY <2>1, <2>3, <2>5, <2>6, TableKept
  <1>7. ASSUME NEW s \in Signals, Deliver(s) PROVE TInv'
    <2>1. /\ UNCHANGED <<jobs, mpc, mpid, event, fpid, child, blocked>> /\ stack' = Append(stack, s)
          /\ hpc' = [hpc EXCEPT ![s] = IF s = "chld" THEN "outer" ELSE "find"]
          /\ (s = "chld" => ~blocked)
      BY <1>7 DEF Deliver, jobVars, mainVars
    <2>2. ChildOnward
      BY <2>1 DEF ChildOnward
    <2>3. /\ \A k \in 1 .. Len(stack) : k \in 1 .. Len(stack') /\ stack'[k] = stack[k]
          /\ \A k \in 1 .. Len(stack') : k \notin 1 .. Len(stack) => stack'[k] = s
      BY <2>1, AppendStack
    <2>4. NewJob'
      BY <2>1, <2>3 DEF NewJob
    <2>5. HandlerOnStack' /\ TargetNotBG' /\ EventGone'
      BY <2>1, <2>3, <1>0 DEF HandlerOnStack, TargetNotBG, EventGone, TypeOK
    <2>. QED  BY <2>1, <2>2, <2>4, <2>5, TableKept
  <1>. QED  BY <1>1, <1>2, <1>3, <1>4, <1>5, <1>6, <1>7 DEF HandlerStep, Keyboard

LEMMA WorldKeepsTable ==
  ASSUME IInv, TInv, Environment
  PROVE  TInv'
  <1>. USE DEF IInv, TInv
  <1>1. CASE Sigquit
    <2>1. mpc' = "halt" /\ UNCHANGED <<jobs, stack, hpc, event, fpid, child>>
      BY <1>1 DEF Sigquit, jobVars, frameVars, kernelVars
    <2>. QED  BY <2>1 DEF UniquePids, EntriesForked, NewJob, HandlerOnStack,
           TargetNotBG, EventGone, LiveListed, Halted
  <1>2. ASSUME NEW p \in Pids, Exec(p) \/ ChildEnds(p) \/ ChildStops(p) PROVE TInv'
    <2>1. UNCHANGED <<jobs, mpc, mpid, stack, hpc, event, fpid, blocked>>
      BY <1>2 DEF Exec, ChildEnds, ChildStops, World, jobVars, mainVars, frameVars
    <2>2. ChildOnward /\ NothingReaped
      BY <1>2 DEF Exec, ChildEnds, ChildStops, ChildOnward, NothingReaped, Live, Zombie, TypeOK
    <2>3. NewJob' /\ HandlerOnStack' /\ TargetNotBG' /\ EventGone'
      BY <2>1, <2>2 DEF NewJob, HandlerOnStack, TargetNotBG, EventGone, ChildOnward, NothingReaped
    <2>. QED  BY <2>1, <2>2, <2>3, TableKept
  <1>3. ASSUME NEW s \in {"int", "tstp"}, Key(s) PROVE TInv'
    <2>1. UNCHANGED <<jobs, mpc, mpid, stack, hpc, event, fpid, blocked, child>>
      BY <1>3 DEF Key, World, jobVars, mainVars, frameVars
    <2>. QED  BY <2>1 DEF UniquePids, EntriesForked, NewJob, HandlerOnStack,
           TargetNotBG, EventGone, LiveListed, Halted
  <1>. QED  BY <1>1, <1>2, <1>3 DEF Environment

-----------------------------------------------------------------------------
\* The table and the processes agree.
THEOREM TableInvariance == ASSUME IsFiniteSet(Pids) PROVE Spec => []TInv
  <1>1. Init => TInv
    <2>. SUFFICES ASSUME Init PROVE TInv
      OBVIOUS
    <2>1. Len(stack) = 0
      BY DEF Init
    <2>2. UniquePids /\ EntriesForked /\ NewJob
      BY DEF Init, initjobs, NoJob, UniquePids, EntriesForked, NewJob
    <2>3. HandlerOnStack /\ TargetNotBG
      BY DEF Init, HandlerOnStack, TargetNotBG, Keyboard, Signals
    <2>4. EventGone /\ LiveListed
      BY DEF Init, NoEvent, EventGone, LiveListed, Live, Zombie
    <2>. QED  BY <2>2, <2>3, <2>4 DEF TInv
  <1>2. IInv /\ TInv /\ [Next]_vars => TInv'
    <2>. SUFFICES ASSUME IInv, TInv, [Next]_vars PROVE TInv'
      OBVIOUS
    <2>1. CASE UNCHANGED vars
      <3>1. UNCHANGED <<jobs, mpc, mpid, stack, hpc, event, fpid, blocked, child>>
        BY <2>1 DEF vars, jobVars, mainVars, frameVars, kernelVars
      <3>. QED  BY <3>1 DEF TInv, UniquePids, EntriesForked, NewJob, HandlerOnStack,
             TargetNotBG, EventGone, LiveListed, Halted
    <2>. QED  BY <2>1, MainKeepsTable, HandlersKeepTable, WorldKeepsTable DEF Next
  <1>. QED  BY <1>1, <1>2, Invariance, PTL DEF Spec

\* As long as the table has room for all processes, every process that has
\* not died is a job the user can name: no handler of tsh.c deletes the entry
\* of a process that lives, and addjob finds a free one.
THEOREM LiveProcessesListed == ASSUME IsFiniteSet(Pids) PROVE Spec => []LiveProcessIsJob
  <1>1. TInv => LiveProcessIsJob
    BY DEF TInv, LiveListed, LiveProcessIsJob
  <1>. QED  BY <1>1, TableInvariance, PTL

\* Between fgpid and kill, sigint_handler and sigtstp_handler hold the number
\* of a job that never turns into a background job, for every size of the
\* table and whatever interrupts them.
THEOREM BackgroundSpared == ASSUME IsFiniteSet(Pids) PROVE Spec => []KeySparesBackground
  <1>1. TInv => KeySparesBackground
    BY DEF TInv, TargetNotBG, KeySparesBackground, Keyboard
  <1>. QED  BY <1>1, TableInvariance, PTL

\* eval enters a job in the table before its process can have been reaped.
THEOREM EnteredBeforeReaped == ASSUME IsFiniteSet(Pids) PROVE Spec => AddedBeforeReaped
  <1>1. IInv /\ TInv /\ [Next]_vars =>
          [\A p \in Pids : ~Listed(jobs, p) /\ Listed(jobs', p) => child[p] # "gone"]_vars
    <2>. SUFFICES ASSUME IInv, TInv, Next, NEW p \in Pids, ~Listed(jobs, p), Listed(jobs', p)
                  PROVE  child[p] # "gone"
      OBVIOUS
    <2>1. PICK i \in Slots : jobs'[i].pid = p /\ jobs[i].pid # p
      BY DEF Listed
    <2>2. AddJob
      <3>1. CASE SetState
        BY <3>1, <2>1 DEF SetState, setstate, IInv, TypeOK, JobTypeOK
      <3>2. CASE ChldApply
        <4>1. p # 0
          BY PidsAssumption
        <4>. QED  BY <3>2, <4>1, <2>1 DEF ChldApply, deletejob, setstate, jobVars, IInv, TypeOK, JobTypeOK, NoJob
      <3>3. jobs' = jobs \/ AddJob \/ SetState \/ ChldApply
        BY DEF Next, Command, MainStep, HandlerStep, Environment, Fork, BgFg, ForkFails, Quit,
               Unblock, Continue, LoadPid, WaitFg, ChldOuter, ChldInner, TstpCheck, FindFg, Forward,
               Sigquit, Exec, ChildEnds, ChildStops, Key, World, Deliver, jobVars
      <3>. QED  BY <3>1, <3>2, <3>3, <2>1
    <2>3. p = mpid /\ mpc = "add"
      <3>1. mpc = "add" /\ addjob(mpid, mstate) /\ mpid \in Pids \cup {0} /\ mstate \in {"FG", "BG"}
        BY <2>2 DEF AddJob, Main, IInv, TypeOK
      <3>2. \/ UNCHANGED jobs
            \/ \E k \in Slots :
                 /\ jobs'[k] = [pid |-> mpid, jid |-> nextjid, state |-> mstate]
                 /\ \A l \in Slots \ {k} : jobs'[l] = jobs[l]
        BY <3>1, AddJobEffect DEF IInv, TypeOK
      <3>. QED  BY <2>1, <3>1, <3>2
    <2>. QED  BY <2>3 DEF TInv, NewJob
  <1>. QED  BY <1>1, Invariance, TableInvariance, PTL DEF Spec, AddedBeforeReaped
=============================================================================
