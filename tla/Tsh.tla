--------------------------------- MODULE Tsh ---------------------------------
(***************************************************************************)
(* The tiny shell, labs/shlab-handout/tsh.c: its main program, its three   *)
(* signal handlers and the children it starts, sharing the job table of    *)
(* module JobList.                                                         *)
(*                                                                         *)
(* There is one thread.  A signal interrupts it between any two steps and  *)
(* runs a handler, which another signal may interrupt in turn (Signal      *)
(* installs handlers that mask their own signal only), so the running code *)
(* is the handler on top of `stack', and the main program when the stack   *)
(* is empty.  Children and the keyboard move at any time.                  *)
(*                                                                         *)
(* eval calls no parseline and reads `args' and `first_cmd' uninitialized: *)
(* which command a line runs, and whether in the foreground, is therefore  *)
(* a free choice here.  Commands that change nothing (jobs, an unknown     *)
(* command, a refused bg or fg) are stuttering steps.                      *)
(*                                                                         *)
(* The kernel and the programs the shell runs are external: process ids    *)
(* are not reused, a program keeps the default action of every signal,     *)
(* and a stopped program runs again only when the shell continues it.      *)
(***************************************************************************)
EXTENDS JobList, Sequences, FiniteSets

CONSTANTS
  MaxKeys,      (* Bound: how often the user types ctrl-c or ctrl-z.       *)
  ForkMayFail   (* Whether fork() can return -1 (the process table is full) *)

ASSUME MaxKeysAssumption == MaxKeys \in Nat
ASSUME ForkAssumption == ForkMayFail \in BOOLEAN

VARIABLES
  (* the main program *)
  mpc,      (* What it does next.                                          *)
  mpid,     (* eval's and do_bgfg's `pid', then the argument of waitfg.    *)
  mslot,    (* do_bgfg's `job', as the index of the entry it points to.    *)
  mstate,   (* The state the command gives its job.                        *)
  (* the handlers *)
  stack,    (* The running handlers, the innermost last.                   *)
  hpc,      (* What each of them does next.                                *)
  event,    (* sigchld_handler's `pid' and `status'.                       *)
  fpid,     (* The `fpid' of sigint_handler and of sigtstp_handler.        *)
  (* the kernel *)
  child,    (* What has become of each process.                            *)
  queued,   (* Stopped processes with a SIGINT to take when they continue. *)
  pending,  (* The signals raised for the shell and not yet delivered.     *)
  blocked,  (* Whether the shell blocks SIGCHLD.                           *)
  keys      (* Key strokes left.                                           *)

mainVars   == <<mpc, mpid, mslot, mstate>>
frameVars  == <<stack, hpc, event, fpid>>
kernelVars == <<child, queued, pending, blocked>>
vars       == <<jobVars, mainVars, frameVars, kernelVars, keys>>

Signals == {"chld", "int", "tstp"}

(* fresh: forked, exec not reached, so still running the shell's code with *)
(* the shell's handlers; shell: exec failed and the child reads commands   *)
(* as a second shell; stopping: stopped, the parent not told yet; exited,  *)
(* killed: zombies; gone: reaped.                                          *)
Live   == {"fresh", "running", "shell", "stopping", "stopped"}
Zombie == {"exited", "killed"}
ChildStates == {"none", "gone"} \cup Live \cup Zombie

MainPCs    == {"read", "add", "unblock", "kill", "set", "load", "wait", "halt", "segv"}
HandlerPCs == {"outer", "inner", "apply", "find", "check", "kill"}
NoEvent    == [pid |-> 0, status |-> "none"]

TypeOK ==
  /\ JobTypeOK
  /\ mpc \in MainPCs
  /\ mpid \in Pids \cup {0}
  /\ mslot \in Slots \cup {0}
  /\ mstate \in {"FG", "BG"}
  /\ stack \in Seq(Signals)
  /\ hpc \in [Signals -> HandlerPCs]
  /\ event \in [pid : Pids \cup {0}, status : ChildStates]
  /\ fpid \in [Signals -> Pids \cup {0}]
  /\ child \in [Pids -> ChildStates]
  /\ queued \in SUBSET Pids
  /\ pending \in SUBSET Signals
  /\ blocked \in BOOLEAN
  /\ keys \in 0 .. MaxKeys

Init ==
  /\ initjobs
  /\ mpc = "read" /\ mpid = 0 /\ mslot = 0 /\ mstate = "BG"
  /\ stack = <<>>
  /\ hpc = [s \in Signals |-> "find"]
  /\ event = NoEvent
  /\ fpid = [s \in Signals |-> 0]
  /\ child = [p \in Pids |-> "none"]
  /\ queued = {} /\ pending = {} /\ blocked = FALSE
  /\ keys = MaxKeys

Halted == mpc \in {"halt", "segv"}
Main(pc) == mpc = pc /\ stack = <<>>
Handler(s, pc) ==
  /\ ~Halted
  /\ stack # <<>> /\ stack[Len(stack)] = s
  /\ hpc[s] = pc

-----------------------------------------------------------------------------
(* The kernel's side of kill(-p, SIGINT), kill(-p, SIGTSTP) and            *)
(* kill(-p, SIGCONT).  A fresh child has no process group of its own, and  *)
(* it and a second shell catch the keyboard's signals.                     *)

KillInt(p) ==
  /\ child' = [child EXCEPT ![p] = IF @ = "running" THEN "killed" ELSE @]
  /\ queued' = IF child[p] \in {"stopping", "stopped"} THEN queued \cup {p} ELSE queued
  /\ pending' = IF child[p] = "running" THEN pending \cup {"chld"} ELSE pending

KillTstp(p) ==
  /\ child' = [child EXCEPT ![p] = IF @ = "running" THEN "stopping" ELSE @]
  /\ pending' = IF child[p] = "running" THEN pending \cup {"chld"} ELSE pending
  /\ UNCHANGED queued

KillCont(p) ==
  \/ /\ child[p] \in {"stopping", "stopped"}
     /\ child' = [child EXCEPT ![p] = IF p \in queued THEN "killed" ELSE "running"]
     /\ queued' = queued \ {p}
     /\ pending' = pending \cup {"chld"}
  \/ /\ child[p] \notin {"stopping", "stopped"}
     /\ UNCHANGED <<child, queued, pending>>

(* waitpid(-1, &status, WUNTRACED | WNOHANG) takes a child that died, or   *)
(* that stopped since the last report; it returns 0 or -1 without one.     *)
Waitable == {p \in Pids : child[p] \in Zombie \cup {"stopping"}}

\* A fault: without WNOHANG waitpid gives up only when there is no child.
NoChildLeft == \A p \in Pids : child[p] \in {"none", "gone"}

NoneWaitable == Waitable = {}

waitpid(p) ==
  /\ p \in Waitable
  /\ child' = [child EXCEPT ![p] = IF @ = "stopping" THEN "stopped" ELSE "gone"]

-----------------------------------------------------------------------------
(* The main program: eval, do_bgfg, waitfg.                                *)

\* A fault: SIGCHLD stays deliverable from the fork to addjob.
BlockNothing == UNCHANGED blocked

\* sigprocmask(SIG_BLOCK, {SIGCHLD}).
BlockChld == blocked' = TRUE

\* eval blocks SIGCHLD and forks; the kernel hands out the next process id.
Fork(st) ==
  /\ Main("read")
  /\ \E p \in Pids :
       /\ child[p] = "none"
       /\ \A q \in Pids : q < p => child[q] # "none"
       /\ child' = [child EXCEPT ![p] = "fresh"]
       /\ mpid' = p
  /\ mpc' = "add" /\ mstate' = st /\ BlockChld
  /\ UNCHANGED <<jobVars, mslot, frameVars, queued, pending, keys>>

\* fork returns -1: eval returns and leaves SIGCHLD blocked.
ForkFails ==
  /\ ForkMayFail
  /\ Main("read")
  /\ BlockChld
  /\ UNCHANGED <<jobVars, mainVars, frameVars, child, queued, pending, keys>>

AddJob ==
  /\ Main("add")
  /\ addjob(mpid, mstate)
  /\ mpc' = "unblock"
  /\ UNCHANGED <<mpid, mslot, mstate, frameVars, kernelVars, keys>>

\* The command is over: main prints the prompt and reads the next line.
Prompt == mpc' = "read" /\ mpid' = 0 /\ mslot' = 0 /\ mstate' = "BG"

\* sigprocmask(SIG_UNBLOCK), then waitfg or the message.
Unblock ==
  /\ Main("unblock")
  /\ blocked' = FALSE
  /\ \/ mstate = "FG" /\ mpc' = "wait" /\ UNCHANGED <<mpid, mslot, mstate>>
     \/ mstate = "BG" /\ Prompt
  /\ UNCHANGED <<jobVars, frameVars, child, queued, pending, keys>>

\* bg or fg finds its job by job id or by process id.  The entry is read
\* again for its pid; had a handler cleared it by then, SIGCONT would go to
\* the shell's own group and change nothing, as it does to a dead process.
BgFg(st) ==
  /\ Main("read")
  /\ \E i \in Slots :
       /\ getjobjid(jobs, jobs[i].jid, i) \/ getjobpid(jobs, jobs[i].pid, i)
       /\ mslot' = i /\ mpid' = jobs[i].pid
  /\ mpc' = "kill" /\ mstate' = st
  /\ UNCHANGED <<jobVars, frameVars, kernelVars, keys>>

\* kill(-pid, SIGCONT).
Continue ==
  /\ Main("kill")
  /\ IF mpid = 0 THEN UNCHANGED <<child, queued, pending>> ELSE KillCont(mpid)
  /\ mpc' = "set"
  /\ UNCHANGED <<jobVars, mpid, mslot, mstate, frameVars, blocked, keys>>

\* job->state = BG or FG, through the pointer found two steps ago.
SetState ==
  /\ Main("set")
  /\ setstate(mslot, mstate)
  /\ \/ mstate = "FG" /\ mpc' = "load" /\ UNCHANGED <<mpid, mslot, mstate>>
     \/ mstate = "BG" /\ Prompt
  /\ UNCHANGED <<nextjid, frameVars, kernelVars, keys>>

\* A fault: fg does not wait.
LoadPidAndReturn ==
  /\ Main("load")
  /\ Prompt
  /\ UNCHANGED <<jobVars, frameVars, kernelVars, keys>>

\* waitfg(job->pid): the entry is read once more.
LoadPid ==
  /\ Main("load")
  /\ mpid' = jobs[mslot].pid
  /\ mpc' = "wait"
  /\ UNCHANGED <<jobVars, mslot, mstate, frameVars, kernelVars, keys>>

\* A fault: waitfg looks once and returns.
WaitFgOnce ==
  /\ Main("wait")
  /\ Prompt
  /\ UNCHANGED <<jobVars, frameVars, kernelVars, keys>>

\* waitfg returns when the pid is not the foreground job's; else it sleeps.
WaitFg ==
  /\ Main("wait")
  /\ mpid # fgpid(jobs)
  /\ Prompt
  /\ UNCHANGED <<jobVars, frameVars, kernelVars, keys>>

\* `quit', the end of the input, or the crash of a read through `args'.
Quit ==
  /\ Main("read")
  /\ mpc' = "halt"
  /\ UNCHANGED <<jobVars, mpid, mslot, mstate, frameVars, kernelVars, keys>>

\* sigquit_handler calls exit wherever the shell is.
Sigquit ==
  /\ ~Halted
  /\ mpc' = "halt"
  /\ UNCHANGED <<jobVars, mpid, mslot, mstate, frameVars, kernelVars, keys>>

-----------------------------------------------------------------------------
(* The handlers.                                                           *)

Deliver(s) ==
  /\ ~Halted
  /\ s \in pending
  /\ \A k \in 1 .. Len(stack) : stack[k] # s
  /\ s = "chld" => ~blocked
  /\ pending' = pending \ {s}
  /\ stack' = Append(stack, s)
  /\ hpc' = [hpc EXCEPT ![s] = IF s = "chld" THEN "outer" ELSE "find"]
  /\ UNCHANGED <<jobVars, mainVars, event, fpid, child, queued, blocked, keys>>

\* The innermost handler returns.
Pop(s) ==
  /\ stack' = SubSeq(stack, 1, Len(stack) - 1)
  /\ hpc' = [hpc EXCEPT ![s] = "find"]

\* A fault: one child for one SIGCHLD.
ChldOnce ==
  /\ Handler("chld", "outer")
  /\ (\E p \in Pids : waitpid(p)) \/ (NoneWaitable /\ UNCHANGED child)
  /\ Pop("chld")
  /\ UNCHANGED <<jobVars, mainVars, event, fpid, queued, pending, blocked, keys>>

\* The condition of sigchld_handler's first while: what it reaps is not looked at.
ChldOuter ==
  /\ Handler("chld", "outer")
  /\ \/ /\ \E p \in Pids : waitpid(p)
        /\ hpc' = [hpc EXCEPT !["chld"] = "inner"]
        /\ UNCHANGED stack
     \/ NoneWaitable /\ Pop("chld") /\ UNCHANGED child
  /\ UNCHANGED <<jobVars, mainVars, event, fpid, queued, pending, blocked, keys>>

\* The condition of the second while.
ChldInner ==
  /\ Handler("chld", "inner")
  /\ \/ /\ \E p \in Pids : waitpid(p) /\ event' = [pid |-> p, status |-> child[p]]
        /\ hpc' = [hpc EXCEPT !["chld"] = "apply"]
     \/ /\ NoneWaitable
        /\ hpc' = [hpc EXCEPT !["chld"] = "outer"]
        /\ UNCHANGED <<event, child>>
  /\ UNCHANGED <<jobVars, mainVars, stack, fpid, queued, pending, blocked, keys>>

\* A fault: a job that stopped is taken for one that ended.
EndedOrStopped(status) == status # "none"

\* WIFEXITED(status) || WIFSIGNALED(status).
Ended(status) == status \in Zombie

\* The body: a child that ended loses its entry, a stopped one becomes ST.
ChldApply ==
  /\ Handler("chld", "apply")
  /\ \/ Ended(event.status) /\ deletejob(event.pid)
     \/ /\ event.status = "stopping"
        /\ \E i \in Slots : getjobpid(jobs, event.pid, i) /\ setstate(i, "ST")
        /\ UNCHANGED nextjid
     \/ event.status = "stopping" /\ ~Listed(jobs, event.pid) /\ UNCHANGED jobVars
  /\ hpc' = [hpc EXCEPT !["chld"] = "inner"]
  /\ event' = NoEvent
  /\ UNCHANGED <<mainVars, stack, fpid, kernelVars, keys>>

\* fpid = fgpid(jobs) in sigint_handler and sigtstp_handler.
FindFg(s) ==
  /\ Handler(s, "find")
  /\ \/ /\ fgpid(jobs) # 0
        /\ fpid' = [fpid EXCEPT ![s] = fgpid(jobs)]
        /\ hpc' = [hpc EXCEPT ![s] = IF s = "int" THEN "kill" ELSE "check"]
        /\ UNCHANGED stack
     \/ fgpid(jobs) = 0 /\ Pop(s) /\ UNCHANGED fpid
  /\ UNCHANGED <<jobVars, mainVars, event, kernelVars, keys>>

\* fjob = getjobpid(jobs, fpid); fjob->state: no entry is a null dereference.
TstpCheck ==
  /\ Handler("tstp", "check")
  /\ \/ /\ \E i \in Slots : getjobpid(jobs, fpid["tstp"], i) /\ jobs[i].state # "ST"
        /\ hpc' = [hpc EXCEPT !["tstp"] = "kill"]
        /\ UNCHANGED <<mpc, stack, fpid>>
     \/ /\ \E i \in Slots : getjobpid(jobs, fpid["tstp"], i) /\ jobs[i].state = "ST"
        /\ Pop("tstp") /\ fpid' = [fpid EXCEPT !["tstp"] = 0]
        /\ UNCHANGED mpc
     \/ /\ ~Listed(jobs, fpid["tstp"])
        /\ mpc' = "segv"
        /\ UNCHANGED <<stack, hpc, fpid>>
  /\ UNCHANGED <<jobVars, mpid, mslot, mstate, event, kernelVars, keys>>

\* kill(-fpid, sig).
Forward(s) ==
  /\ Handler(s, "kill")
  /\ IF s = "int" THEN KillInt(fpid[s]) ELSE KillTstp(fpid[s])
  /\ fpid' = [fpid EXCEPT ![s] = 0]
  /\ Pop(s)
  /\ UNCHANGED <<jobVars, mainVars, event, blocked, keys>>

-----------------------------------------------------------------------------
(* The world: children and the keyboard.                                   *)

World == UNCHANGED <<jobVars, mainVars, frameVars, blocked>>

\* execve in the child succeeds, or fails and the child goes on as a shell.
Exec(p) ==
  /\ ~Halted
  /\ child[p] = "fresh"
  /\ \E c \in {"running", "shell"} : child' = [child EXCEPT ![p] = c]
  /\ World /\ UNCHANGED <<queued, pending, keys>>

\* A program or a second shell exits; any process may be killed from outside.
ChildEnds(p) ==
  /\ ~Halted
  /\ child[p] \in Live
  /\ \E c \in Zombie :
       /\ c = "exited" => child[p] \in {"running", "shell"}
       /\ child' = [child EXCEPT ![p] = c]
  /\ queued' = queued \ {p}
  /\ pending' = pending \cup {"chld"}
  /\ World /\ UNCHANGED keys

\* A program stops itself, or is stopped from outside.
ChildStops(p) ==
  /\ ~Halted
  /\ child[p] = "running"
  /\ child' = [child EXCEPT ![p] = "stopping"]
  /\ pending' = pending \cup {"chld"}
  /\ World /\ UNCHANGED <<queued, keys>>

\* ctrl-c or ctrl-z at the keyboard.
Key(s) ==
  /\ ~Halted
  /\ keys > 0 /\ keys' = keys - 1
  /\ pending' = pending \cup {s}
  /\ World /\ UNCHANGED <<child, queued>>

-----------------------------------------------------------------------------
Command  == (\E st \in {"FG", "BG"} : Fork(st) \/ BgFg(st)) \/ ForkFails \/ Quit
MainStep == AddJob \/ Unblock \/ Continue \/ SetState \/ LoadPid \/ WaitFg
HandlerStep ==
  \/ ChldOuter \/ ChldInner \/ ChldApply \/ TstpCheck
  \/ \E s \in {"int", "tstp"} : FindFg(s) \/ Forward(s)
Environment ==
  \/ Sigquit
  \/ \E p \in Pids : Exec(p) \/ ChildEnds(p) \/ ChildStops(p)
  \/ \E s \in {"int", "tstp"} : Key(s)

Next ==
  \/ Command \/ MainStep \/ HandlerStep \/ Environment
  \/ \E s \in Signals : Deliver(s)

Spec == Init /\ [][Next]_vars

(* The shell's own code runs on, and a signal that stays deliverable, or   *)
(* becomes so again and again, is delivered: the kernel does that whenever *)
(* the shell returns to user mode.  Nothing is assumed of the user and of  *)
(* the programs.                                                           *)
FairSpec ==
  /\ Spec
  /\ WF_vars(MainStep) /\ WF_vars(HandlerStep)
  /\ \A s \in Signals : SF_vars(Deliver(s))

-----------------------------------------------------------------------------
(* Properties.                                                             *)

\* "At most 1 job can be in the FG state" (the comment on the job states).
AtMostOneFG ==
  \A i, k \in Slots : jobs[i].state = "FG" /\ jobs[k].state = "FG" => i = k

\* The shell reads a command only when no job is in the foreground: eval and
\* do_bgfg come back from waitfg only then, whatever the handlers did to the
\* table in the meantime.
PromptHasNoFG == mpc = "read" => \A i \in Slots : jobs[i].state # "FG"

\* A job is entered before its process can have been reaped: that is what
\* eval blocks SIGCHLD for from the fork to addjob ("to prevent a race").
AddedBeforeReaped ==
  [][\A p \in Pids : ~Listed(jobs, p) /\ Listed(jobs', p) => child[p] # "gone"]_vars

\* Every process that has not died is a job the user can name, once eval has
\* entered it and as long as the table has room for all of them: no handler
\* drops the entry of a process that only stopped or still runs.
LiveProcessIsJob ==
  ~Halted /\ Cardinality(Pids) <= MAXJOBS =>
    \A p \in Pids : child[p] \in Live /\ ~(mpc = "add" /\ mpid = p) => Listed(jobs, p)

\* ctrl-c and ctrl-z go "to the foreground job" (the comments on the two
\* handlers): between the lookup and the kill another handler may stop that
\* job or delete it, but it never becomes a background job.
KeySparesBackground ==
  \A s \in {"int", "tstp"}, i \in Slots :
    hpc[s] = "kill" /\ jobs[i].pid = fpid[s] => jobs[i].state # "BG"

\* "doesn't wait for any other currently running children to terminate"
\* (the comment on sigchld_handler).
ChldHandlerReturns ==
  (\E k \in 1 .. Len(stack) : stack[k] = "chld")
    ~> (Halted \/ \A k \in 1 .. Len(stack) : stack[k] # "chld")

\* "The handler reaps all available zombie children": several children may
\* die while one SIGCHLD is pending, and none of them stays a zombie.
ZombiesAreReaped ==
  \A p \in Pids : (child[p] \in Zombie) ~> (child[p] = "gone" \/ Halted)

-----------------------------------------------------------------------------
(* What the comments of tsh.c say and the code does not do.                *)

\* "Block until process pid is no longer the foreground process" (waitfg):
\* when that process is gone, waitfg returns.
WaitFgReturns ==
  (mpc = "wait" /\ mpid # 0 /\ child[mpid] = "gone") ~> mpc # "wait"

\* "restarts <job> by sending it a SIGCONT signal and then runs it" (do_bgfg):
\* what waitfg then waits for is a job.
WaitsForAJob == mpc = "wait" => mpid # 0

\* "Catch it and suspend the foreground job" (sigtstp_handler): the handler
\* does not bring the shell down.
CtrlZSurvives == mpc # "segv"
=============================================================================
