-------------------------------- MODULE EchoPool --------------------------------
(***************************************************************************)
(* The event-driven echo server of csapp-master/conc, echoservers.c: one   *)
(* process, a select over the listening descriptor and the clients, and a  *)
(* pool with a slot per client.                                            *)
(*                                                                         *)
(* What a client sends is counted in lines.  check_clients works on a copy *)
(* of the slot's rio_t: what rio_readlineb reads ahead of the first line   *)
(* goes with the copy, and the lines in it are lost.  When there is no     *)
(* whole line yet, rio_readlineb waits for the rest of it, and with it the *)
(* server and everybody else.                                              *)
(***************************************************************************)
EXTENDS Integers, FiniteSets, FiniteSetsExt

CONSTANTS
  Fds,        (* Descriptors accept can give: above the listening one.     *)
  Slots,      (* FD_SETSIZE.                                               *)
  MaxLines    (* Bound on the lines on their way from a client.            *)

ASSUME PoolAssumption ==
  /\ Fds \subseteq Nat \ (0 .. 3) /\ IsFiniteSet(Fds)
  /\ Slots \in Nat \ {0} /\ MaxLines \in Nat

LISTENFD == 3
SlotIds  == 0 .. Slots - 1

VARIABLES
  clientfd, read_set, ready_set, nready, maxi, maxfd,  (* The pool.        *)
  where,     (* "select", "accept", "check", or "exited".                  *)
  slot,      (* check_clients' i.                                          *)
  knocking,  (* Is there a connection to accept?                           *)
  conns,     (* Connections that are open on the server's side.            *)
  lines,     (* Per descriptor: whole lines on their way,                  *)
  part,      (* whether a part of a line is behind them,                   *)
  hungup     (* and whether the client has closed its end.                 *)

poolVars == <<clientfd, read_set, ready_set, nready, maxi, maxfd, where, slot,
              knocking, conns, lines, part, hungup>>
clientSide == <<lines, part, hungup>>
pool       == <<clientfd, read_set, ready_set, nready, maxi, maxfd>>

PoolTypeOK ==
  /\ clientfd \in [SlotIds -> Fds \cup {-1}]
  /\ read_set \subseteq Fds \cup {LISTENFD} /\ ready_set \subseteq Fds \cup {LISTENFD}
  /\ nready \in 0 .. Cardinality(Fds) + 1
  /\ maxi \in -1 .. Slots - 1 /\ maxfd \in Fds \cup {LISTENFD}
  /\ where \in {"select", "accept", "check", "exited"} /\ slot \in 0 .. Slots
  /\ knocking \in BOOLEAN /\ conns \subseteq Fds
  /\ lines \in [Fds -> 0 .. MaxLines] /\ part \in [Fds -> BOOLEAN] /\ hungup \in [Fds -> BOOLEAN]

init_pool ==
  /\ clientfd = [s \in SlotIds |-> -1] /\ maxi = -1
  /\ read_set = {LISTENFD} /\ ready_set = {} /\ nready = 0 /\ maxfd = LISTENFD
  /\ where = "select" /\ slot = 0
  /\ knocking = FALSE /\ conns = {}
  /\ lines = [f \in Fds |-> 0] /\ part = [f \in Fds |-> FALSE] /\ hungup = [f \in Fds |-> FALSE]

-----------------------------------------------------------------------------
(* The clients.                                                            *)

Knock ==
  /\ ~knocking /\ knocking' = TRUE
  /\ UNCHANGED <<pool, where, slot, conns, clientSide>>

SendPart(f) ==
  /\ f \in conns /\ ~hungup[f] /\ ~part[f]
  /\ part' = [part EXCEPT ![f] = TRUE]
  /\ UNCHANGED <<pool, where, slot, knocking, conns, lines, hungup>>

SendLine(f) ==
  /\ f \in conns /\ ~hungup[f] /\ lines[f] < MaxLines
  /\ lines' = [lines EXCEPT ![f] = @ + 1] /\ part' = [part EXCEPT ![f] = FALSE]
  /\ UNCHANGED <<pool, where, slot, knocking, conns, hungup>>

HangUp(f) ==
  /\ f \in conns /\ ~hungup[f]
  /\ hungup' = [hungup EXCEPT ![f] = TRUE]
  /\ UNCHANGED <<pool, where, slot, knocking, conns, lines, part>>

-----------------------------------------------------------------------------
(* The server.                                                             *)

Readable(f) == lines[f] > 0 \/ part[f] \/ hungup[f]

Ready == {f \in read_set : f <= maxfd /\ IF f = LISTENFD THEN knocking ELSE Readable(f)}

Select ==
  /\ where = "select" /\ Ready # {}
  /\ ready_set' = Ready /\ nready' = Cardinality(Ready)
  /\ where' = "accept"
  /\ UNCHANGED <<clientfd, read_set, maxi, maxfd, slot, knocking, conns, clientSide>>

NoNewClient ==
  /\ where = "accept" /\ LISTENFD \notin ready_set
  /\ where' = "check" /\ slot' = 0
  /\ UNCHANGED <<pool, knocking, conns, clientSide>>

FreeSlots == {s \in SlotIds : clientfd[s] < 0}

\* A fault: the highwater mark stays.
AddedLow(f, s) ==
  /\ clientfd' = [clientfd EXCEPT ![s] = f]
  /\ read_set' = read_set \cup {f}
  /\ maxfd' = Max({maxfd, f}) /\ maxi' = IF maxi < 0 THEN s ELSE maxi

Added(f, s) ==
  /\ clientfd' = [clientfd EXCEPT ![s] = f]
  /\ read_set' = read_set \cup {f}
  /\ maxfd' = Max({maxfd, f}) /\ maxi' = Max({maxi, s})

\* A fault: the new client is not counted off.
AfterAcceptSame == nready

AfterAccept == nready - 1

\* Accept, which gives the lowest descriptor that is not open, and add_client.
AcceptClient ==
  /\ where = "accept" /\ LISTENFD \in ready_set
  /\ Fds # conns /\ knocking' = FALSE
  /\ LET f == Min(Fds \ conns) IN
       /\ conns' = conns \cup {f}
       /\ lines' = [lines EXCEPT ![f] = 0] /\ part' = [part EXCEPT ![f] = FALSE]
       /\ hungup' = [hungup EXCEPT ![f] = FALSE]
       /\ IF FreeSlots # {}
            THEN /\ Added(f, Min(FreeSlots)) /\ where' = "check"
            ELSE where' = "exited" /\ UNCHANGED <<clientfd, read_set, maxi, maxfd>>
  /\ nready' = AfterAccept /\ slot' = 0
  /\ UNCHANGED ready_set

Checking == where = "check" /\ slot <= maxi /\ nready > 0

fd == clientfd[slot]

NotReady ==
  /\ Checking /\ ~(fd > 0 /\ fd \in ready_set)
  /\ slot' = slot + 1
  /\ UNCHANGED <<pool, where, knocking, conns, clientSide>>

\* A line comes back; those read with it are lost, a part of one too.
EchoLine ==
  /\ Checking /\ fd > 0 /\ fd \in ready_set /\ lines[fd] > 0
  /\ nready' = nready - 1 /\ slot' = slot + 1
  /\ \E m \in 1 .. lines[fd] :
       /\ lines' = [lines EXCEPT ![fd] = @ - m]
       /\ \E rest \in {part[fd], part[fd] /\ m < lines[fd]} : part' = [part EXCEPT ![fd] = rest]
  /\ UNCHANGED <<clientfd, read_set, ready_set, maxi, maxfd, where, knocking, conns, hungup>>

\* What is left of a line when the client hangs up is echoed too.
EchoRest ==
  /\ Checking /\ fd > 0 /\ fd \in ready_set
  /\ lines[fd] = 0 /\ part[fd] /\ hungup[fd]
  /\ nready' = nready - 1 /\ slot' = slot + 1
  /\ part' = [part EXCEPT ![fd] = FALSE]
  /\ UNCHANGED <<clientfd, read_set, ready_set, maxi, maxfd, where, knocking, conns, lines, hungup>>

\* "EOF detected, remove descriptor from pool".
CloseClient ==
  /\ Checking /\ fd > 0 /\ fd \in ready_set
  /\ lines[fd] = 0 /\ ~part[fd] /\ hungup[fd]
  /\ nready' = nready - 1 /\ slot' = slot + 1
  /\ conns' = conns \ {fd}
  /\ read_set' = read_set \ {fd} /\ clientfd' = [clientfd EXCEPT ![slot] = -1]
  /\ UNCHANGED <<ready_set, maxi, maxfd, where, knocking, clientSide>>

Checked ==
  /\ where = "check" /\ ~(slot <= maxi /\ nready > 0)
  /\ where' = "select"
  /\ UNCHANGED <<pool, slot, knocking, conns, clientSide>>

\* A connection is reset, or its client gone before the echo: the wrappers exit.
ResetClient ==
  /\ Checking /\ fd > 0 /\ fd \in ready_set
  /\ where' = "exited"
  /\ UNCHANGED <<pool, slot, knocking, conns, clientSide>>

Server == Select \/ NoNewClient \/ AcceptClient \/ NotReady \/ CloseClient \/ Checked

\* rio_writen returns when the client has read what it needs to.
EchoClient == EchoLine \/ EchoRest

PoolNext ==
  /\ where # "exited"
  /\ \/ Knock \/ \E f \in Fds : SendPart(f) \/ SendLine(f) \/ HangUp(f)
     \/ Server \/ EchoClient \/ ResetClient

PoolSpec == init_pool /\ [][PoolNext]_poolVars

\* The server runs; nothing makes clients connect, send, read or hang up.
PoolFairness == WF_poolVars(where # "exited" /\ Server)

-----------------------------------------------------------------------------
(* Properties.                                                             *)

Pooled == {clientfd[s] : s \in SlotIds} \ {-1}

\* nready is what is left to serve: check_clients ends early without leaving
\* out a descriptor that select reported, also when the accept before it filled
\* a slot, or a close took a descriptor that is then given out again.
ReportedAreServed ==
  where = "check" =>
    nready = Cardinality({s \in SlotIds : s >= slot /\ clientfd[s] \in ready_set})

\* The parts of the pool agree: every open connection is in one slot, up to
\* the highwater mark, and in the read set, below the largest descriptor; no
\* closed one is, although descriptors and slots are used again; and nready is
\* what is left to serve.
PoolAgrees ==
  where # "exited" =>
    /\ Pooled = conns /\ read_set = conns \cup {LISTENFD}
    /\ \A s, s2 \in SlotIds : clientfd[s] = clientfd[s2] /\ s # s2 => clientfd[s] = -1
    /\ \A s \in SlotIds : clientfd[s] # -1 => s <= maxi /\ clientfd[s] <= maxfd
    /\ ReportedAreServed

\* check_clients waits for ever for one client: for the rest of a line, or for
\* the client to read the echo.
StaysWithAClient == <>[](Checking /\ fd > 0 /\ fd \in ready_set)

\* Unless one client keeps the server inside check_clients, nobody who has sent
\* lines waits for ever for a turn, however often those in the slots before its
\* own send.
TurnsCome ==
  \/ StaysWithAClient
  \/ \A f \in Fds :
       (lines[f] > 0) ~> (where = "exited" \/ (Checking /\ fd = f /\ f \in ready_set))
=============================================================================
