------------------------------ MODULE EchoServer ------------------------------
(***************************************************************************)
(* The prethreaded echo server of csapp-master/conc: echoservert_pre.c,    *)
(* whose main thread accepts connections into an sbuf that the worker      *)
(* threads take them from, and echo_cnt.c, which echoes the lines of a     *)
(* connection and counts their bytes under a semaphore initialised once.   *)
(*                                                                         *)
(* The kernel may give a descriptor out again as soon as it is closed.     *)
(* Every line is one byte long; byte_cnt and its history count modulo      *)
(* Wrap.  A client sends any number of lines, then closes, or resets the   *)
(* connection, which ends the whole process: the wrappers of csapp.c exit. *)
(***************************************************************************)
EXTENDS Sbuf

CONSTANTS
  Main, Workers,
  Wrap

ASSUME EchoAssumption == Threads = {Main} \cup Workers /\ Main \notin Workers /\ Wrap \in Nat \ {0}

VARIABLES
  open,       (* Descriptors of open connections.                          *)
  todo,       (* What a worker does next, outside the buffer.              *)
  once,       (* The pthread_once_t.                                       *)
  cntMutex, byte_cnt,
  reg,        (* The byte_cnt a worker has loaded, 0 when it has none.     *)
  exited,
  counted     (* History: the bytes counted.                               *)

serverVars == <<open, todo, once, cntMutex, byte_cnt, reg, exited, counted>>
echoVars   == <<sbufVars, serverVars>>

Todo == {"remove", "once", "sem_init", "byte_cnt = 0", "readline", "P(mutex)",
         "load", "store", "V(mutex)", "writen", "close"}

EchoTypeOK ==
  /\ n \in Sizes
  /\ buf \in [0 .. n - 1 -> Items \cup {None}]
  /\ front \in 0 .. 2 * n - 1 /\ rear \in 0 .. 2 * n - 1
  /\ mutex \in 0 .. 1 /\ slots \in 0 .. n /\ items \in 0 .. n
  /\ at \in [Threads -> {"out"} \cup Inserting \cup Removing]
  /\ item \in [Threads -> Items \cup {None}] /\ idx \in [Threads -> 0 .. 2 * n - 1]
  /\ open \subseteq Items /\ todo \in [Workers -> Todo]
  /\ once \in {"no", "running", "done"} /\ cntMutex \in 0 .. 1
  /\ byte_cnt \in 0 .. Wrap - 1 /\ counted \in 0 .. Wrap - 1
  /\ reg \in [Workers -> 0 .. Wrap - 1] /\ exited \in BOOLEAN

EchoInit ==
  /\ sbuf_init
  /\ open = {}
  /\ todo = [t \in Workers |-> "remove"]
  /\ once = "no" /\ cntMutex = 0 /\ byte_cnt = 0 /\ counted = 0
  /\ reg = [t \in Workers |-> 0]
  /\ exited = FALSE

\* A worker outside the buffer goes on to what it does next.
Does(t, now, next) == at[t] = "out" /\ todo[t] = now /\ todo' = [todo EXCEPT ![t] = next]

\* main: Accept gives a descriptor that is not open.
AcceptInsert(fd) ==
  /\ fd \notin open /\ open' = open \cup {fd}
  /\ InsertCall(Main, fd)
  /\ UNCHANGED <<todo, once, cntMutex, byte_cnt, reg, exited, counted>>

Remove(t) ==
  /\ Does(t, "remove", "once")
  /\ RemoveCall(t)
  /\ UNCHANGED <<open, once, cntMutex, byte_cnt, reg, exited, counted>>

\* A fault: only a finished initialisation is waited for, not a running one.
OnceUnguarded(t) ==
  /\ \/ once # "done" /\ once' = "running" /\ Does(t, "once", "sem_init")
     \/ once = "done" /\ UNCHANGED once /\ Does(t, "once", "readline")
  /\ UNCHANGED <<sbufVars, open, cntMutex, byte_cnt, reg, exited, counted>>

\* Pthread_once: the first thread initialises, the others wait for it.
Once(t) ==
  /\ \/ once = "no" /\ once' = "running" /\ Does(t, "once", "sem_init")
     \/ once = "done" /\ UNCHANGED once /\ Does(t, "once", "readline")
  /\ UNCHANGED <<sbufVars, open, cntMutex, byte_cnt, reg, exited, counted>>

\* init_echo_cnt.
InitMutex(t) ==
  /\ Does(t, "sem_init", "byte_cnt = 0")
  /\ cntMutex' = 1
  /\ UNCHANGED <<sbufVars, open, once, byte_cnt, reg, exited, counted>>

InitCount(t) ==
  /\ Does(t, "byte_cnt = 0", "readline")
  /\ byte_cnt' = 0 /\ once' = "done"
  /\ UNCHANGED <<sbufVars, open, cntMutex, reg, exited, counted>>

\* Rio_readlineb: a line, the end of the input, or an error.
ReadLine(t) ==
  /\ Does(t, "readline", "P(mutex)")
  /\ UNCHANGED <<sbufVars, open, once, cntMutex, byte_cnt, reg, exited, counted>>

Eof(t) ==
  /\ Does(t, "readline", "close")
  /\ UNCHANGED <<sbufVars, open, once, cntMutex, byte_cnt, reg, exited, counted>>

\* unix_error, or SIGPIPE for a write to a closed connection.
Reset(t) ==
  /\ at[t] = "out" /\ todo[t] \in {"readline", "writen"}
  /\ exited' = TRUE
  /\ UNCHANGED <<sbufVars, open, todo, once, cntMutex, byte_cnt, reg, counted>>

\* A fault: the semaphore is not waited for.
LockCountOpen(t) ==
  /\ Does(t, "P(mutex)", "load")
  /\ cntMutex' = 0
  /\ UNCHANGED <<sbufVars, open, once, byte_cnt, reg, exited, counted>>

LockCount(t) ==
  /\ Does(t, "P(mutex)", "load")
  /\ cntMutex > 0 /\ cntMutex' = cntMutex - 1
  /\ UNCHANGED <<sbufVars, open, once, byte_cnt, reg, exited, counted>>

LoadCount(t) ==
  /\ Does(t, "load", "store")
  /\ reg' = [reg EXCEPT ![t] = byte_cnt]
  /\ UNCHANGED <<sbufVars, open, once, cntMutex, byte_cnt, exited, counted>>

StoreCount(t) ==
  /\ Does(t, "store", "V(mutex)")
  /\ byte_cnt' = (reg[t] + 1) % Wrap
  /\ reg' = [reg EXCEPT ![t] = 0]
  /\ counted' = (counted + 1) % Wrap
  /\ UNCHANGED <<sbufVars, open, once, cntMutex, exited>>

UnlockCount(t) ==
  /\ Does(t, "V(mutex)", "writen")
  /\ cntMutex' = cntMutex + 1
  /\ UNCHANGED <<sbufVars, open, once, byte_cnt, reg, exited, counted>>

Echo(t) ==
  /\ Does(t, "writen", "readline")
  /\ UNCHANGED <<sbufVars, open, once, cntMutex, byte_cnt, reg, exited, counted>>

\* A fault: the descriptor is closed before the lines are read.
CloseEarly(t) ==
  /\ Does(t, "close", "remove")
  /\ open' = open \ {item[t]}
  /\ UNCHANGED <<sbufVars, once, cntMutex, byte_cnt, reg, exited, counted>>

\* The end of echo_cnt, and Close.
Close(t) ==
  /\ Does(t, "close", "remove")
  /\ open' = open \ {item[t]}
  /\ item' = [item EXCEPT ![t] = None]
  /\ UNCHANGED <<n, buf, front, rear, mutex, slots, items, at, idx>>
  /\ UNCHANGED <<once, cntMutex, byte_cnt, reg, exited, counted>>

WorkerRuns(t) ==
  \/ Remove(t) \/ Once(t) \/ InitMutex(t) \/ InitCount(t)
  \/ LoadCount(t) \/ StoreCount(t) \/ UnlockCount(t) \/ Close(t)

\* The calls that return when the client of the worker sends, ends or reads.
ClientActs(t) == ReadLine(t) \/ Eof(t) \/ Echo(t)

Step(t) ==
  \/ (Waits(t) \/ Runs(t)) /\ UNCHANGED serverVars
  \/ t \in Workers /\ (WorkerRuns(t) \/ LockCount(t))

EchoNext ==
  /\ ~exited
  /\ \/ \E fd \in Items : AcceptInsert(fd)
     \/ \E t \in Threads : Step(t)
     \/ \E t \in Workers : ClientActs(t) \/ Reset(t)

EchoSpec == EchoInit /\ [][EchoNext]_echoVars

\* Threads run, and one that waits for a semaphore posted again and again gets
\* it at some time.  Nothing makes clients connect, send, read, end or reset: a
\* worker inside Rio_readlineb or Rio_writen waits as long as its client likes.
EchoFairness == \A t \in Threads : SF_echoVars(~exited /\ Step(t))

-----------------------------------------------------------------------------
(* Properties.                                                             *)

Places(fd) ==
  Cardinality({t \in Threads : item[t] = fd}) + Cardinality({i \in 1 .. Count : Contents[i] = fd})

\* An open descriptor is in one place: with main, in the buffer or with one
\* worker.  So no two workers serve a connection, and none is lost, although
\* the kernel gives closed descriptors out again.
OneOwner == \A fd \in Items : Places(fd) = IF fd \in open THEN 1 ELSE 0

\* byte_cnt is the number of bytes counted: no update is lost, and the
\* initialisation does not run again or late.
CountIsTotal == byte_cnt = counted

WithClient(t) == at[t] = "out" /\ todo[t] \in {"readline", "writen"}

\* From some time on every worker has a connection, which does not end, and
\* waits for its client, for ever or again and again.
ClientsKeepTheWorkers ==
  <>[](\A t \in Workers : item[t] # None) /\ \A t \in Workers : []<>WithClient(t)

\* An accepted connection is served, also when it had to wait for a slot, unless
\* another one ends the process or all workers of the pool (NTHREADS of them)
\* are kept for ever by clients, idle ones for example.  A connection never
\* waits for ever for another reason: a post that is lost, an initialisation
\* that does not end, a count that is locked.
AcceptedIsServed ==
  \/ ClientsKeepTheWorkers
  \/ \A fd \in Items :
       (item[Main] = fd) ~> (exited \/ \E t \in Workers : item[t] = fd)
=============================================================================
