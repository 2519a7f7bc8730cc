------------------------------- MODULE JobList -------------------------------
(***************************************************************************)
(* The job table of the tiny shell, labs/shlab-handout/tsh.c: the array    *)
(* `jobs' of MAXJOBS entries and the counter `nextjid', with the helper    *)
(* routines that change them.  A free entry has pid 0.  The command line   *)
(* kept in an entry is not modelled: nothing branches on it.               *)
(*                                                                         *)
(* The helpers are written as relations between the table before and the   *)
(* table after, so that module Tsh can use them inside its own actions.    *)
(***************************************************************************)
EXTENDS Naturals

CONSTANTS
  MAXJOBS,  (* The number of entries of the table.                         *)
  Pids      (* The process ids the kernel hands out.                       *)

ASSUME MaxJobsAssumption == MAXJOBS \in Nat \ {0}
ASSUME PidsAssumption == Pids \subseteq Nat \ {0}

VARIABLES
  jobs,     (* The table.                                                  *)
  nextjid   (* The job id the next job gets.                               *)

jobVars == <<jobs, nextjid>>

Slots     == 1 .. MAXJOBS
JobStates == {"UNDEF", "FG", "BG", "ST"}
Job       == [pid : Pids \cup {0}, jid : Nat, state : JobStates]
NoJob     == [pid |-> 0, jid |-> 0, state |-> "UNDEF"]

JobTypeOK ==
  /\ jobs \in [Slots -> Job]
  /\ nextjid \in Nat \ {0}

-----------------------------------------------------------------------------
(* What the lookups return.  Each scans the table from its first entry.    *)

\* i is the first of the entries S.
IsFirst(i, S) == i \in S /\ \A k \in S : i <= k

\* getjobpid and getjobjid return entry i; no entry matches: NULL.
getjobpid(js, p, i) == p # 0 /\ IsFirst(i, {k \in Slots : js[k].pid = p})
getjobjid(js, j, i) == j # 0 /\ IsFirst(i, {k \in Slots : js[k].jid = j})
Listed(js, p)       == p # 0 /\ \E i \in Slots : js[i].pid = p

\* A fault: a background job is taken for the foreground one.
RunningSlots(js) == {k \in Slots : js[k].state \in {"FG", "BG"}}

\* The pid in the first entry that is FG, 0 if there is none.  (An FG entry
\* with pid 0 gives 0 as well.)
FGSlots(js) == {k \in Slots : js[k].state = "FG"}

fgpid(js) ==
  IF FGSlots(js) = {} THEN 0
  ELSE js[CHOOSE i \in FGSlots(js) : IsFirst(i, FGSlots(js))].pid

\* m is the largest job id of js, 0 when every entry is free.
maxjid(js, m) ==
  /\ m = 0 \/ \E i \in Slots : js[i].jid = m
  /\ \A i \in Slots : js[i].jid <= m

-----------------------------------------------------------------------------
(* The routines that change the table.                                     *)

initjobs ==
  /\ jobs = [i \in Slots |-> NoJob]
  /\ nextjid = 1

\* The first free entry takes the job; a full table leaves it out.
addjob(p, st) ==
  \/ \E i \in Slots :
       /\ IsFirst(i, {k \in Slots : jobs[k].pid = 0})
       /\ jobs' = [jobs EXCEPT ![i] = [pid |-> p, jid |-> nextjid, state |-> st]]
       /\ nextjid' = IF nextjid + 1 > MAXJOBS THEN 1 ELSE nextjid + 1
  \/ /\ \A i \in Slots : jobs[i].pid # 0
     /\ UNCHANGED jobVars

\* job->state = st, through a pointer to entry i.
setstate(i, st) ==
  jobs' = [jobs EXCEPT ![i] = [pid |-> jobs[i].pid, jid |-> jobs[i].jid, state |-> st]]

\* A fault: the job id that follows is off by one.
SameJid(m) == m

NextJid(m) == m + 1

\* The first entry with pid p is cleared and nextjid recomputed.
deletejob(p) ==
  \/ \E i \in Slots :
       /\ getjobpid(jobs, p, i)
       /\ jobs' = [jobs EXCEPT ![i] = NoJob]
       /\ \E m \in {jobs'[k].jid : k \in Slots} \cup {0} :
            maxjid(jobs', m) /\ nextjid' = NextJid(m)
  \/ ~Listed(jobs, p) /\ UNCHANGED jobVars
=============================================================================
