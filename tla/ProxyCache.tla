------------------------------ MODULE ProxyCache ------------------------------
(***************************************************************************)
(* The web proxy, labs/proxylab-handout/proxy.c: one detached thread per   *)
(* connection, and the cache of CACHE_OBJS_COUNT blocks they share.  Each  *)
(* block has a readers-writers lock made of the semaphores rdcntmutex and  *)
(* wmutex and the counter readcnt (readers first).                         *)
(*                                                                         *)
(* A thread moves between the places of its code (`at') where it works on  *)
(* one block (`blk'), and inside a place through the stages of the lock    *)
(* (`stage').  The short section under rdcntmutex is one step, unless the  *)
(* first reader has to wait for wmutex inside it.  A URL stands for the    *)
(* request and for the answer of its server; a cached object is the URL it *)
(* answers and whether it is that answer byte for byte.                    *)
(*                                                                         *)
(* Clients and servers are external.  writecnt, wtcntmutex and queue are   *)
(* initialized by the code and never used.                                 *)
(***************************************************************************)
EXTENDS Integers, FiniteSets

CONSTANTS
  Threads,   (* One per connection the proxy accepts.                      *)
  N,         (* CACHE_OBJS_COUNT.                                          *)
  Urls,
  NoUrl,     (* What a cache_url holds before its first write.             *)
  Faults     (* Whether clients hang up and servers are unreachable.       *)

ASSUME ThreadsAssumption == IsFiniteSet(Threads)
ASSUME NAssumption == N \in Nat \ {0}
ASSUME UrlsAssumption == NoUrl \notin Urls
ASSUME FaultsAssumption == Faults \in BOOLEAN

VARIABLES
  (* the cache, per block *)
  url, obj, isEmpty, stamp,
  readcnt,     (* Readers counted in.                                      *)
  rdcntmutex,  (* Semaphores, by their value.                              *)
  wmutex,
  (* the threads *)
  want,        (* The URL the client asks for.                             *)
  at,          (* The function the thread is in.                           *)
  stage,       (* How far it is with the lock of its block.                *)
  blk,         (* The loop index i.                                        *)
  idx,         (* The block found, or the victim; 0 is the code's -1.      *)
  top,         (* max_stamp.                                               *)
  held,        (* cache_find broke out of its loop as a reader of idx.     *)
  alive        (* The process has not exited.                              *)

dataVars   == <<url, obj, isEmpty, stamp>>
lockVars   == <<readcnt, rdcntmutex, wmutex>>
threadVars == <<want, at, stage, blk, idx, top, held>>
vars       == <<dataVars, lockVars, threadVars, alive>>

Blocks      == 1 .. N
ReaderSites == {"find", "hit", "evict"}
WriterSites == {"store", "touch", "age"}
Sites       == {"idle", "headers", "spin", "fetch", "done"} \cup ReaderSites \cup WriterSites
Stages      == {"pre", "first", "in", "claim", "post", "last", "obj", "look"}
Object      == [of : Urls \cup {NoUrl}, intact : BOOLEAN]

TypeOK ==
  /\ url \in [Blocks -> Urls \cup {NoUrl}]
  /\ obj \in [Blocks -> Object]
  /\ isEmpty \in [Blocks -> BOOLEAN]
  /\ stamp \in [Blocks -> {-1} \cup Nat]
  /\ readcnt \in [Blocks -> Nat]
  /\ rdcntmutex \in [Blocks -> {0, 1}]
  /\ wmutex \in [Blocks -> {0, 1}]
  /\ want \in [Threads -> Urls \cup {NoUrl}]
  /\ at \in [Threads -> Sites]
  /\ stage \in [Threads -> Stages]
  /\ blk \in [Threads -> Blocks]
  /\ idx \in [Threads -> Blocks \cup {0}]
  /\ top \in [Threads -> {-2, -1} \cup Nat]
  /\ held \in [Threads -> BOOLEAN]
  /\ alive \in BOOLEAN

\* cache_init, with the arrays of the static Cache zeroed.
Init ==
  /\ url = [i \in Blocks |-> NoUrl]
  /\ obj = [i \in Blocks |-> [of |-> NoUrl, intact |-> TRUE]]
  /\ isEmpty = [i \in Blocks |-> TRUE]
  /\ stamp = [i \in Blocks |-> -1]
  /\ readcnt = [i \in Blocks |-> 0]
  /\ rdcntmutex = [i \in Blocks |-> 1]
  /\ wmutex = [i \in Blocks |-> 1]
  /\ want = [t \in Threads |-> NoUrl]
  /\ at = [t \in Threads |-> "idle"]
  /\ stage = [t \in Threads |-> "pre"]
  /\ blk = [t \in Threads |-> 1]
  /\ idx = [t \in Threads |-> 0]
  /\ top = [t \in Threads |-> -2]
  /\ held = [t \in Threads |-> FALSE]
  /\ alive = TRUE

At(t, site, st) == alive /\ at[t] = site /\ stage[t] = st

\* The thread goes on in place s with block i, at stage st.
Goto(t, s, st, i) ==
  /\ at' = [at EXCEPT ![t] = s]
  /\ stage' = [stage EXCEPT ![t] = st]
  /\ blk' = [blk EXCEPT ![t] = i]

Stage(t, st) == Goto(t, at[t], st, blk[t])

-----------------------------------------------------------------------------
(* The lock of a block.                                                    *)

\* A fault: the first reader does not take wmutex.
NeverFirst(i) == FALSE

FirstIn(i) == readcnt[i] = 0

\* A fault: every reader that leaves gives wmutex back.
AnyOut(i) == TRUE

LastOut(i) == readcnt[i] = 1

readerPre(t) ==
  LET i == blk[t] IN
  /\ alive /\ at[t] \in ReaderSites
  /\ \/ /\ stage[t] = "pre" /\ rdcntmutex[i] > 0
        /\ readcnt' = [readcnt EXCEPT ![i] = @ + 1]
        /\ IF FirstIn(i)
           THEN Stage(t, "first") /\ rdcntmutex' = [rdcntmutex EXCEPT ![i] = @ - 1]
           ELSE Stage(t, "in") /\ UNCHANGED rdcntmutex
        /\ UNCHANGED wmutex
     \/ /\ stage[t] = "first" /\ wmutex[i] > 0
        /\ wmutex' = [wmutex EXCEPT ![i] = @ - 1]
        /\ rdcntmutex' = [rdcntmutex EXCEPT ![i] = @ + 1]
        /\ Stage(t, "in")
        /\ UNCHANGED readcnt
  /\ UNCHANGED <<dataVars, want, idx, top, held, alive>>

readerAfter(t) ==
  LET i == blk[t] IN
  /\ rdcntmutex[i] > 0
  /\ readcnt' = [readcnt EXCEPT ![i] = @ - 1]
  /\ wmutex' = IF LastOut(i) THEN [wmutex EXCEPT ![i] = @ + 1] ELSE wmutex
  /\ UNCHANGED rdcntmutex

writerPre(t) ==
  LET i == blk[t] IN
  /\ alive /\ at[t] \in WriterSites /\ stage[t] = "pre"
  /\ wmutex[i] > 0
  /\ wmutex' = [wmutex EXCEPT ![i] = @ - 1]
  /\ Stage(t, "in")
  /\ UNCHANGED <<dataVars, readcnt, rdcntmutex, want, idx, top, held, alive>>

\* A fault: the writer keeps the block.
writerKeeps(i) == UNCHANGED lockVars

writerAfter(i) ==
  /\ wmutex' = [wmutex EXCEPT ![i] = @ + 1]
  /\ UNCHANGED <<readcnt, rdcntmutex>>

-----------------------------------------------------------------------------
(* doit and cache_find.                                                    *)

\* The request line: nothing read, or not a GET, ends the connection.
Request(t) ==
  /\ alive /\ at[t] = "idle"
  /\ \/ Goto(t, "done", "pre", 1) /\ UNCHANGED want
     \/ Goto(t, "find", "pre", 1) /\ \E u \in Urls : want' = [want EXCEPT ![t] = u]
  /\ UNCHANGED <<dataVars, lockVars, idx, top, held, alive>>

\* A fault: cache_find gives the lock back before it returns the block.
FindLookAndRelease(t) ==
  LET i == blk[t] IN
  /\ At(t, "find", "in")
  /\ \/ /\ ~isEmpty[i] /\ url[i] = want[t]
        /\ readerAfter(t)
        /\ idx' = [idx EXCEPT ![t] = i]
        /\ Goto(t, "hit", "pre", i)
     \/ /\ isEmpty[i] \/ url[i] # want[t]
        /\ Stage(t, "post")
        /\ UNCHANGED <<lockVars, idx>>
  /\ UNCHANGED <<dataVars, want, top, held, alive>>

\* cache_find compares; on a match it leaves the loop without readerAfter.
FindLook(t) ==
  LET i == blk[t] IN
  /\ At(t, "find", "in")
  /\ \/ /\ ~isEmpty[i] /\ url[i] = want[t]
        /\ held' = [held EXCEPT ![t] = TRUE]
        /\ idx' = [idx EXCEPT ![t] = i]
        /\ Goto(t, "hit", "pre", i)
     \/ /\ isEmpty[i] \/ url[i] # want[t]
        /\ Stage(t, "post")
        /\ UNCHANGED <<held, idx>>
  /\ UNCHANGED <<dataVars, lockVars, want, top, alive>>

FindNext(t) ==
  /\ At(t, "find", "post")
  /\ readerAfter(t)
  /\ IF blk[t] < N THEN Goto(t, "find", "pre", blk[t] + 1) ELSE Goto(t, "headers", "pre", 1)
  /\ UNCHANGED <<dataVars, want, idx, top, held, alive>>

\* Rio_writen of the cached object to the client.
HitSend(t) ==
  /\ At(t, "hit", "in")
  /\ Stage(t, "post")
  /\ UNCHANGED <<dataVars, lockVars, want, idx, top, held, alive>>

HitDone(t) ==
  /\ At(t, "hit", "post")
  /\ readerAfter(t)
  /\ Goto(t, "touch", "pre", blk[t])
  /\ UNCHANGED <<dataVars, want, idx, top, held, alive>>

-----------------------------------------------------------------------------
(* connect_to_server.                                                      *)

\* Open_clientfd and the request headers, up to the blank line.  When the
\* client hangs up before it, the last line read is sent over and over.
Headers(t) ==
  /\ alive /\ at[t] = "headers"
  /\ \/ Goto(t, "fetch", "pre", 1)
     \/ Faults /\ Goto(t, "spin", "pre", 1)
  /\ UNCHANGED <<dataVars, lockVars, want, idx, top, held, alive>>

\* The answer has gone to the client: too big for a block, or to be cached.
Fetch(t) ==
  /\ alive /\ at[t] = "fetch"
  /\ Goto(t, "done", "pre", 1) \/ Goto(t, "evict", "pre", 1)
  /\ UNCHANGED <<dataVars, lockVars, want, idx, top, held, alive>>

\* Open_clientfd and the rio wrappers exit the process when a call fails.
NetworkFails(t) ==
  /\ Faults /\ alive
  /\ at[t] \in {"idle", "headers", "spin", "fetch"} \/ At(t, "hit", "in")
  /\ alive' = FALSE
  /\ UNCHANGED <<dataVars, lockVars, threadVars>>

-----------------------------------------------------------------------------
(* cache_url and cache_eviction.                                           *)

\* A fault: max_stamp starts at -1, the stamp of a block claimed but not written.
OlderThanMinusOne(t, i) == stamp[i] > top[t] /\ stamp[i] > -1

Older(t, i) == stamp[i] > top[t]

\* Under the read lock: an empty block ends the search; otherwise remember
\* the largest stamp.
EvictLook(t) ==
  LET i == blk[t] IN
  /\ At(t, "evict", "in")
  /\ \/ /\ isEmpty[i]
        /\ idx' = [idx EXCEPT ![t] = i]
        /\ Stage(t, "claim")
        /\ UNCHANGED top
     \/ /\ ~isEmpty[i] /\ Older(t, i)
        /\ idx' = [idx EXCEPT ![t] = i]
        /\ top' = [top EXCEPT ![t] = stamp[i]]
        /\ Stage(t, "post")
     \/ /\ ~isEmpty[i] /\ ~Older(t, i)
        /\ Stage(t, "post")
        /\ UNCHANGED <<idx, top>>
  /\ UNCHANGED <<dataVars, lockVars, want, held, alive>>

\* isEmpty = 0, still as a reader.
EvictClaim(t) ==
  /\ At(t, "evict", "claim")
  /\ isEmpty' = [isEmpty EXCEPT ![blk[t]] = FALSE]
  /\ Stage(t, "last")
  /\ UNCHANGED <<url, obj, stamp, lockVars, want, idx, top, held, alive>>

EvictNext(t) ==
  /\ alive /\ at[t] = "evict"
  /\ readerAfter(t)
  /\ \/ stage[t] = "post" /\ blk[t] < N /\ Goto(t, "evict", "pre", blk[t] + 1)
     \/ /\ stage[t] = "last" \/ (stage[t] = "post" /\ blk[t] = N)
        /\ Goto(t, "store", "pre", idx[t])
  /\ UNCHANGED <<dataVars, want, idx, top, held, alive>>

\* strcpy of the URL.
StoreUrl(t) ==
  /\ At(t, "store", "in")
  /\ url' = [url EXCEPT ![blk[t]] = want[t]]
  /\ Stage(t, "obj")
  /\ UNCHANGED <<obj, isEmpty, stamp, lockVars, want, idx, top, held, alive>>

\* strcpy of cache_buf.  The lines of the answer were appended with strcat to
\* a buffer that is never initialized, so what it holds need not be the
\* answer.
StoreObj(t) ==
  /\ At(t, "store", "obj")
  /\ \E b \in BOOLEAN : obj' = [obj EXCEPT ![blk[t]] = [of |-> want[t], intact |-> b]]
  /\ isEmpty' = [isEmpty EXCEPT ![blk[t]] = FALSE]
  /\ writerAfter(blk[t])
  /\ Goto(t, "touch", "pre", blk[t])
  /\ UNCHANGED <<url, stamp, want, idx, top, held, alive>>

-----------------------------------------------------------------------------
(* cache_update_stamp, then Close.                                         *)

Touch(t) ==
  /\ At(t, "touch", "in")
  /\ stamp' = [stamp EXCEPT ![blk[t]] = 0]
  /\ writerAfter(blk[t])
  /\ Goto(t, "age", "look", 1)
  /\ UNCHANGED <<url, obj, isEmpty, want, idx, top, held, alive>>

AgeNext(t) ==
  IF blk[t] < N THEN Goto(t, "age", "look", blk[t] + 1) ELSE Goto(t, "done", "pre", 1)

\* isEmpty is read without a lock.
AgeLook(t) ==
  /\ At(t, "age", "look")
  /\ IF blk[t] # idx[t] /\ ~isEmpty[blk[t]] THEN Stage(t, "pre") ELSE AgeNext(t)
  /\ UNCHANGED <<dataVars, lockVars, want, idx, top, held, alive>>

Age(t) ==
  /\ At(t, "age", "in")
  /\ stamp' = [stamp EXCEPT ![blk[t]] = @ + 1]
  /\ writerAfter(blk[t])
  /\ AgeNext(t)
  /\ UNCHANGED <<url, obj, isEmpty, want, idx, top, held, alive>>

-----------------------------------------------------------------------------
\* What a thread does without waiting for its client or its server.
CacheStep(t) ==
  \/ readerPre(t) \/ writerPre(t)
  \/ FindLook(t) \/ FindNext(t) \/ HitDone(t)
  \/ EvictLook(t) \/ EvictClaim(t) \/ EvictNext(t) \/ StoreUrl(t) \/ StoreObj(t)
  \/ Touch(t) \/ AgeLook(t) \/ Age(t)

ThreadStep(t) == CacheStep(t) \/ Request(t) \/ HitSend(t) \/ Headers(t) \/ Fetch(t)

Next == \E t \in Threads : ThreadStep(t) \/ NetworkFails(t)

Spec == Init /\ [][Next]_vars

(* Every thread is scheduled, and nothing makes clients and servers send,  *)
(* read or answer.  A thread waits for a semaphore only against the other  *)
(* connections, which are finitely many here, so weak fairness is enough.  *)
FairSpec == Spec /\ \A t \in Threads : WF_vars(CacheStep(t))

-----------------------------------------------------------------------------
(* Properties.                                                             *)

Reading(t) == at[t] \in ReaderSites /\ stage[t] \in {"in", "claim", "post", "last"}
Writing(t) == at[t] \in WriterSites /\ stage[t] \in {"in", "obj"}

\* While a thread is inside a block as a writer no other thread is inside it,
\* as a reader or as a writer: what rdcntmutex, readcnt and wmutex are for.
WritersAreAlone ==
  \A t, u \in Threads :
    Writing(t) /\ t # u /\ blk[t] = blk[u] => ~Writing(u) /\ ~Reading(u)

\* A hit sends the object of the URL the client asked for: between cache_find
\* and the second readerPre of doit no other thread evicts or rewrites the
\* block.
HitServesItsUrl ==
  \A t \in Threads :
    at[t] = "hit" /\ stage[t] = "in" => url[blk[t]] = want[t] /\ obj[blk[t]].of = want[t]

\* cache_eviction always finds a block, so that cache_url never indexes the
\* array with -1: not even when every block is claimed and none is written.
VictimFound == \A t \in Threads : at[t] = "store" => idx[t] # 0

\* The blocks of the cache never wedge the proxy on their own: as long as no
\* request finds its URL in the cache, every search ends, and every answer is
\* cached and its connection closed, while other clients and servers are silent.
MissesComplete ==
  [](\A t \in Threads : ~held[t]) =>
    \A t \in Threads :
      /\ at[t] = "find" ~> at[t] = "headers"
      /\ at[t] = "evict" ~> at[t] = "done"

-----------------------------------------------------------------------------
(* What the comments of proxy.c say and the code does not do.              *)

\* "handle 1 HTTP request connection" (doit), hits included: when the object has
\* gone to the client, the thread gets to the end of doit and closes the
\* connection.
HitsComplete == \A t \in Threads : (held[t] /\ at[t] = "touch") ~> at[t] = "done"

\* "find an available block" (cache_eviction): two threads do not both find
\* the same empty block available.
EmptyBlockFoundOnce ==
  \A t, u \in Threads :
    /\ at[t] = "evict" /\ stage[t] = "claim"
    /\ at[u] = "evict" /\ stage[u] = "claim"
    /\ blk[t] = blk[u]
    => t = u

\* "cache the current HTTP response" (connect_to_server): the object in a
\* block nobody is writing is the response of its URL.
CacheHoldsResponses == \A i \in Blocks : obj[i].intact

\* "failed to connect to the remote server" (connect_to_server): the request
\* ends there, and the proxy goes on serving the others.
ProxySurvives == alive
=============================================================================
