------------------------------ MODULE ConcProofs ------------------------------
(***************************************************************************)
(* Proofs about the concurrent programs of csapp-master.  Of conc, first   *)
(* the programs in which threads add to shared memory (Counters): for any  *)
(* number of threads and any share of each, what main compares at the end. *)
(* Then the pool of the event-driven server (EchoPool), for any number of  *)
(* slots and descriptors, and rw0.c to rw3.c (ReadersWriters), for any     *)
(* sets of readers and writers and any number of permits: the types, and   *)
(* that a writer writes alone.  Last the barrier of mem/memperf/par.c, for *)
(* any number of processes and of barriers: nobody passes alone, and no    *)
(* semaphore counts more than two barriers' posts.                         *)
(***************************************************************************)
EXTENDS Counters, EchoPool, ReadersWriters, Barrier, Integers, FiniteSetTheorems, WellFoundedInduction, TLAPS

\* A nonempty set of natural numbers has a least element.
LEMMA Least ==
  ASSUME NEW S, S \subseteq Nat, S # {}
  PROVE  \E n \in S : \A k \in S : n <= k
<1>1. IsWellFoundedOn(OpToRel(<, Nat), Nat)
  BY NatLessThanWellFounded
<1>2. PICK n \in S : \A k \in S : ~(<<k, n>> \in OpToRel(<, Nat))
  BY <1>1, WFMin
<1>3. ASSUME NEW k \in S
      PROVE  n <= k
  <2>1. k \in Nat /\ n \in Nat
    OBVIOUS
  <2>2. ~(k < n)
    BY <1>2, <2>1 DEF OpToRel
  <2> QED BY <2>1, <2>2
<1> QED BY <1>3

\* Induction, as a statement about sets.
LEMMA AllOfNat ==
  ASSUME NEW M, 0 \in M, \A k \in Nat : k \in M => k + 1 \in M
  PROVE  Nat \subseteq M
<1> SUFFICES ASSUME Nat \ M # {} PROVE FALSE
  OBVIOUS
<1>1. PICK n \in Nat \ M : \A k \in Nat \ M : n <= k
  BY Least
<1>2. n # 0
  OBVIOUS
<1>3. n - 1 \in Nat /\ n - 1 + 1 = n /\ ~(n <= n - 1)
  BY <1>2
<1>4. n - 1 \in M
  BY <1>1, <1>3
<1> QED BY <1>3, <1>4

-----------------------------------------------------------------------------
(* Counters: the invariant.                                                *)

\* Up to which i thread t has stored its sums.
Upto == [t \in Ids |-> IF tpc[t] = "unlock" THEN ti[t] + 1 ELSE ti[t]]

\* The additions that have been stored, if up says how far each thread is.
StoredSums(up) == {x \in Ids \X Nat : Start(x[1]) <= x[2] /\ x[2] < up[x[1]]}

\* As many pairs as the sum of the numbers that have been stored.
Below(up) ==
  {x \in Nat \X Nat : x[2] < x[1] /\ \E t \in Ids : Start(t) <= x[1] /\ x[1] < up[t]}

AddingSums == {"load", "store", "unlock"}

CTypes ==
  /\ prog \in Programs
  /\ cell \in [Ids -> Nat] /\ sem \in Nat
  /\ tpc \in [Ids -> ThreadAt] /\ ti \in [Ids -> Nat] /\ treg \in [Ids -> Nat]
  /\ joined \in 0 .. Nthreads /\ result \in Nat

\* Where a thread may be, and with which i.
Ranges ==
  \A t \in Ids :
    /\ tpc[t] = "start" => ti[t] = 0
    /\ tpc[t] # "start" => Start(t) <= ti[t] /\ ti[t] <= Start(t) + PerThread
    /\ tpc[t] \in AddingSums => ti[t] < Start(t) + PerThread /\ prog # "psum-local"
    /\ tpc[t] \in {"publish", "returned"} => ti[t] = Start(t) + PerThread
    /\ tpc[t] = "publish" => prog = "psum-local"
    /\ tpc[t] = "unlock" => prog \in Locked

\* One thread at most is between P and V, and what it loaded is still there.
OneInside ==
  prog \in Locked =>
    /\ sem \in {0, 1}
    /\ sem = 1 => \A t \in Ids : tpc[t] \notin AddingSums
    /\ \A t, u \in Ids : tpc[t] \in AddingSums /\ tpc[u] \in AddingSums => t = u
    /\ \A t \in Ids : tpc[t] = "store" => treg[t] = cell[0]

JoinedReturned == \A t \in Ids : t < joined => tpc[t] = "returned"

CBase == CTypes /\ Ranges /\ OneInside /\ JoinedReturned

\* Twice the sum of the numbers below m, and of those below i in the share of t.
Sq(m) == m * (m - 1)

Twice(t, i) == Sq(i) - Sq(Start(t))

SharedSums ==
  /\ prog = "goodcnt" => IsFiniteSet(StoredSums(Upto)) /\ cell[0] = Cardinality(StoredSums(Upto))
  /\ prog = "psum-mutex" => IsFiniteSet(Below(Upto)) /\ cell[0] = Cardinality(Below(Upto))

OwnSums ==
  \A t \in Ids :
    /\ prog = "psum-array" =>
         /\ tpc[t] = "start" => cell[t] = 0
         /\ tpc[t] # "start" => 2 * cell[t] = Twice(t, ti[t])
         /\ tpc[t] = "store" => treg[t] = cell[t]
    /\ prog = "psum-local" =>
         /\ tpc[t] \in {"loop", "publish"} => 2 * treg[t] = Twice(t, ti[t])
         /\ tpc[t] = "returned" => 2 * cell[t] = Twice(t, ti[t])

\* A store may fall behind, but never to less than 1 once there was one, nor to
\* less than 2 by a thread that has stored before.
LostUpdates ==
  prog = "badcnt" =>
    /\ IsFiniteSet(StoredSums(Upto)) /\ cell[0] <= Cardinality(StoredSums(Upto))
    /\ \A t \in Ids : tpc[t] = "store" => treg[t] <= Cardinality(StoredSums(Upto))
    /\ \A t \in Ids : ti[t] >= 1 => cell[0] >= 1
    /\ \A t \in Ids : tpc[t] = "store" /\ ti[t] >= 1 => treg[t] >= 1
    /\ cell[0] < 2 => \E t \in Ids : ti[t] < 2

Results ==
  /\ prog \in OwnCell => 2 * result = Sq(joined * PerThread)
  /\ prog \notin OwnCell /\ joined = Nthreads => result = cell[0]

CInv == CBase /\ SharedSums /\ OwnSums /\ LostUpdates /\ Results

LEMMA ShareFacts ==
  ASSUME CTypes
  PROVE  /\ \A t \in Ids : Start(t) \in Nat /\ Start(t) + PerThread \in Nat /\ t \in Nat
         /\ 0 \in Ids /\ PerThread >= 1 /\ PerThread \in Nat /\ Nthreads \in Nat
         /\ \A t \in Ids : Cell(t) \in Ids
<1>1. 0 \in Ids /\ PerThread >= 1 /\ PerThread \in Nat /\ Nthreads \in Nat /\ \A t \in Ids : t \in Nat
  BY CountersAssumption DEF Ids
<1>2. ASSUME NEW t \in Ids
      PROVE  Start(t) \in Nat
  <2>1. t * PerThread \in Nat
    BY <1>1
  <2> QED BY <2>1 DEF Start
<1>3. \A t \in Ids : Start(t) + PerThread \in Nat
  BY <1>1, <1>2
<1> QED BY <1>1, <1>2, <1>3 DEF Cell

LEMMA IntervalSize ==
  ASSUME NEW n \in Nat
  PROVE  IsFiniteSet(0 .. n - 1) /\ Cardinality(0 .. n - 1) = n
<1>1. PICK b : b = n - 1
  OBVIOUS
<1>2. 0 \in Int /\ b \in Int
  BY <1>1
<1>3. IsFiniteSet(0 .. b) /\ Cardinality(0 .. b) = IF 0 > b THEN 0 ELSE b - 0 + 1
  BY <1>2, FS_Interval
<1>4. (IF 0 > b THEN 0 ELSE b - 0 + 1) = n
  BY <1>1
<1> QED BY <1>1, <1>3, <1>4

LEMMA MovesEffect ==
  ASSUME CTypes, NEW t \in Ids, NEW from, NEW to \in ThreadAt, NEW i \in Nat, NEW r \in Nat,
         Moves(t, from, to, i, r)
  PROVE  /\ tpc[t] = from /\ tpc'[t] = to /\ ti'[t] = i /\ treg'[t] = r
         /\ \A u \in Ids : u # t => tpc'[u] = tpc[u] /\ ti'[u] = ti[u] /\ treg'[u] = treg[u]
         /\ prog' = prog /\ joined' = joined /\ result' = result
         /\ tpc' \in [Ids -> ThreadAt] /\ ti' \in [Ids -> Nat] /\ treg' \in [Ids -> Nat]
  BY DEF Moves, CTypes

\* What stays of CBase when thread t moves on within its range.
LEMMA MoveKeepsBase ==
  ASSUME CBase, NEW t \in Ids, NEW from, NEW to \in ThreadAt, NEW i \in Nat, NEW r \in Nat,
         Moves(t, from, to, i, r),
         from # "returned",
         to = "start" => i = 0,
         to # "start" => Start(t) <= i /\ i <= Start(t) + PerThread,
         to \in AddingSums => i < Start(t) + PerThread /\ prog # "psum-local",
         to \in {"publish", "returned"} => i = Start(t) + PerThread,
         to = "publish" => prog = "psum-local",
         to = "unlock" => prog \in Locked,
         cell' \in [Ids -> Nat], sem' \in Nat
  PROVE  CTypes' /\ Ranges' /\ JoinedReturned'
<1>0. /\ tpc[t] = from /\ tpc'[t] = to /\ ti'[t] = i /\ treg'[t] = r
      /\ \A u \in Ids : u # t => tpc'[u] = tpc[u] /\ ti'[u] = ti[u] /\ treg'[u] = treg[u]
      /\ prog' = prog /\ joined' = joined /\ result' = result
      /\ tpc' \in [Ids -> ThreadAt] /\ ti' \in [Ids -> Nat] /\ treg' \in [Ids -> Nat]
  BY MovesEffect DEF CBase
<1> USE DEF CBase
<1>1. CTypes'
  BY <1>0 DEF CTypes
<1>2. \A u \in Ids : Start(u)' = Start(u)
  BY <1>0 DEF Start
<1>3. Ranges'
  BY <1>0, <1>2 DEF Ranges
<1>4. JoinedReturned'
  BY <1>0 DEF JoinedReturned
<1> QED BY <1>1, <1>3, <1>4

\* A step that leaves the semaphore alone, and who is between P and V.
LEMMA StaysInside ==
  ASSUME CBase, NEW t \in Ids, NEW from, NEW to \in ThreadAt, NEW i \in Nat, NEW r \in Nat,
         Moves(t, from, to, i, r),
         sem' = sem, from \in AddingSums <=> to \in AddingSums,
         to = "store" => r = cell[0] /\ cell' = cell, from = "store" \/ cell' = cell
  PROVE  prog \in Locked => OneInside'
<1> SUFFICES ASSUME prog \in Locked PROVE OneInside'
  OBVIOUS
<1>0. /\ tpc[t] = from /\ tpc'[t] = to /\ ti'[t] = i /\ treg'[t] = r
      /\ \A u \in Ids : u # t => tpc'[u] = tpc[u] /\ ti'[u] = ti[u] /\ treg'[u] = treg[u]
      /\ prog' = prog /\ joined' = joined /\ result' = result
      /\ tpc' \in [Ids -> ThreadAt] /\ ti' \in [Ids -> Nat] /\ treg' \in [Ids -> Nat]
  BY MovesEffect DEF CBase
<1> USE DEF CBase
<1>1. \A u \in Ids : u # t /\ tpc[u] \in AddingSums => from \notin AddingSums
  BY <1>0 DEF OneInside
<1>2. \A u \in Ids : tpc'[u] \in AddingSums <=> tpc[u] \in AddingSums
  BY <1>0
<1>3. \A u \in Ids : tpc'[u] = "store" => treg'[u] = cell'[0]
  <2> SUFFICES ASSUME NEW u \in Ids, tpc'[u] = "store" PROVE treg'[u] = cell'[0]
    OBVIOUS
  <2>1. CASE u = t
    BY <1>0, <2>1
  <2>2. CASE u # t
    BY <1>0, <1>1, <2>2 DEF OneInside, AddingSums
  <2> QED BY <2>1, <2>2
<1> QED BY <1>0, <1>1, <1>2, <1>3 DEF OneInside

LEMMA BaseBegin ==
  ASSUME CBase, NEW t \in Ids, Begin(t)
  PROVE  CBase'
<1>1. Start(t) \in Nat /\ 0 \in Nat /\ Start(t) <= Start(t) /\ Start(t) <= Start(t) + PerThread
  BY ShareFacts DEF CBase
<1>2. Moves(t, "start", "loop", Start(t), 0) /\ cell' = cell /\ sem' = sem
  BY DEF Begin
<1>3. CTypes' /\ Ranges' /\ JoinedReturned'
  BY <1>1, <1>2, MoveKeepsBase DEF CBase, CTypes, ThreadAt, AddingSums
<1>4. prog \in Locked => OneInside'
  BY <1>1, <1>2, StaysInside DEF ThreadAt, AddingSums
<1> QED BY <1>2, <1>3, <1>4 DEF CBase, OneInside, Moves

LEMMA BaseLoopHead ==
  ASSUME CBase, NEW t \in Ids, LoopHead(t)
  PROVE  CBase'
<1>1. Start(t) \in Nat /\ ti[t] \in Nat /\ Start(t) <= ti[t]
  BY ShareFacts DEF CBase, CTypes, Ranges, LoopHead, Moves
<1>2. Moves(t, "loop", "load", ti[t], 0) /\ cell' = cell /\ ti[t] < Start(t) + PerThread /\ prog # "psum-local"
  BY DEF LoopHead
<1>3. sem' \in Nat /\ cell' \in [Ids -> Nat] /\ ti[t] <= Start(t) + PerThread
  BY <1>2 DEF LoopHead, CBase, CTypes, Ranges, Moves
<1>4. CTypes' /\ Ranges' /\ JoinedReturned'
  BY <1>1, <1>2, <1>3, MoveKeepsBase DEF ThreadAt, AddingSums
<1>5. ASSUME prog \in Locked
      PROVE  OneInside'
  <2>1. sem = 1 /\ sem' = 0
    <3>1. sem > 0 /\ sem' = sem - 1
      BY <1>5 DEF LoopHead
    <3> QED BY <1>5, <3>1 DEF CBase, OneInside
  <2>2. \A u \in Ids : tpc[u] \notin AddingSums
    BY <1>5, <2>1 DEF CBase, OneInside
  <2>3. /\ tpc'[t] = "load"
        /\ \A u \in Ids : u # t => tpc'[u] = tpc[u]
    <3>1. CTypes /\ "load" \in ThreadAt /\ 0 \in Nat
      BY DEF CBase, ThreadAt
    <3>2. Moves(t, "loop", "load", ti[t], 0) /\ ti[t] \in Nat
      BY <1>1, <1>2
    <3> QED BY <3>1, <3>2 DEF CTypes, Moves
  <2> QED BY <2>1, <2>2, <2>3 DEF OneInside, AddingSums
<1> QED BY <1>2, <1>4, <1>5 DEF CBase, OneInside, Moves

LEMMA BaseLoadCell ==
  ASSUME CBase, NEW t \in Ids, LoadCell(t)
  PROVE  CBase'
<1>1. Start(t) \in Nat /\ ti[t] \in Nat /\ Start(t) <= ti[t] /\ ti[t] < Start(t) + PerThread
      /\ prog # "psum-local" /\ cell[Cell(t)] \in Nat
  BY ShareFacts DEF CBase, CTypes, Ranges, LoadCell, Moves, AddingSums
<1>2. Moves(t, "load", "store", ti[t], cell[Cell(t)]) /\ cell' = cell /\ sem' = sem
  BY DEF LoadCell
<1>3. sem' \in Nat /\ cell' \in [Ids -> Nat] /\ ti[t] <= Start(t) + PerThread
  BY <1>2 DEF CBase, CTypes, Ranges, Moves
<1>4. CTypes' /\ Ranges' /\ JoinedReturned'
  BY <1>1, <1>2, <1>3, MoveKeepsBase DEF ThreadAt, AddingSums
<1>5. prog \in Locked => OneInside'
  BY <1>1, <1>2, StaysInside DEF ThreadAt, AddingSums, Cell, Locked, OwnCell
<1> QED BY <1>2, <1>4, <1>5 DEF CBase, OneInside, Moves

LEMMA BaseStoreCell ==
  ASSUME CBase, NEW t \in Ids, StoreCell(t)
  PROVE  CBase'
<1>1. tpc[t] = "store"
  BY DEF StoreCell, Moves
<1>2. Start(t) \in Nat /\ ti[t] \in Nat /\ Start(t) <= ti[t] /\ ti[t] < Start(t) + PerThread
      /\ prog # "psum-local" /\ ti[t] <= Start(t) + PerThread
  BY <1>1, ShareFacts DEF CBase, CTypes, Ranges, AddingSums
<1>3. cell' \in [Ids -> Nat] /\ sem' = sem /\ sem \in Nat
  <2>1. treg[t] + Adds(t) \in Nat
    BY <1>2 DEF CBase, CTypes, Adds
  <2> QED BY <2>1, ShareFacts DEF StoreCell, CBase, CTypes
<1>4. CASE prog \in Locked
  <2>1. Moves(t, "store", "unlock", ti[t], 0)
    BY <1>4 DEF StoreCell
  <2>2. CTypes' /\ Ranges' /\ JoinedReturned'
    BY <1>2, <1>3, <1>4, <2>1, MoveKeepsBase DEF ThreadAt, AddingSums
  <2>3. OneInside'
    BY <1>2, <1>3, <1>4, <2>1, StaysInside DEF ThreadAt, AddingSums
  <2> QED BY <2>2, <2>3 DEF CBase
<1>5. CASE prog \notin Locked
  <2>1. Moves(t, "store", "loop", ti[t] + 1, 0)
    BY <1>5 DEF StoreCell
  <2>2. ti[t] + 1 \in Nat /\ Start(t) <= ti[t] + 1 /\ ti[t] + 1 <= Start(t) + PerThread
    BY <1>2, ShareFacts DEF CBase
  <2>3. CTypes' /\ Ranges' /\ JoinedReturned'
    BY <1>3, <2>1, <2>2, MoveKeepsBase DEF CBase, ThreadAt, AddingSums
  <2> QED BY <1>5, <2>1, <2>3 DEF CBase, OneInside, Moves
<1> QED BY <1>4, <1>5

LEMMA BaseUnlock ==
  ASSUME CBase, NEW t \in Ids, UnlockCell(t)
  PROVE  CBase'
<1>1. tpc[t] = "unlock" /\ cell' = cell /\ sem' = sem + 1 /\ Moves(t, "unlock", "loop", ti[t] + 1, 0)
  BY DEF UnlockCell, Moves
<1>2. Start(t) \in Nat /\ ti[t] \in Nat /\ Start(t) <= ti[t] /\ ti[t] < Start(t) + PerThread
      /\ prog \in Locked
  BY <1>1, ShareFacts DEF CBase, CTypes, Ranges, AddingSums
<1>3. ti[t] + 1 \in Nat /\ Start(t) <= ti[t] + 1 /\ ti[t] + 1 <= Start(t) + PerThread
  BY <1>2, ShareFacts DEF CBase
<1>4. sem' = 1 /\ sem' \in Nat
  BY <1>1, <1>2 DEF CBase, OneInside, AddingSums
<1>5. CTypes' /\ Ranges' /\ JoinedReturned'
  BY <1>1, <1>3, <1>4, MoveKeepsBase DEF CBase, CTypes, ThreadAt, AddingSums
<1>6. OneInside'
  <2>1. \A u \in Ids : u # t => tpc[u] \notin AddingSums
    BY <1>1, <1>2 DEF CBase, OneInside, AddingSums
  <2>2. tpc'[t] = "loop" /\ \A u \in Ids : u # t => tpc'[u] = tpc[u]
    BY <1>1, <1>3, MovesEffect DEF CBase, ThreadAt
  <2>3. \A u \in Ids : tpc'[u] \notin AddingSums
    BY <2>1, <2>2 DEF AddingSums
  <2> QED BY <1>4, <2>3 DEF OneInside, AddingSums
<1> QED BY <1>5, <1>6 DEF CBase

LEMMA BaseAddLocal ==
  ASSUME CBase, NEW t \in Ids, AddLocal(t)
  PROVE  CBase'
<1>1. /\ tpc[t] = "loop" /\ cell' = cell /\ sem' = sem /\ prog = "psum-local"
      /\ ti[t] < Start(t) + PerThread /\ Moves(t, "loop", "loop", ti[t] + 1, treg[t] + ti[t])
  BY DEF AddLocal, Moves
<1>2. Start(t) \in Nat /\ ti[t] \in Nat /\ treg[t] \in Nat /\ Start(t) <= ti[t]
  BY <1>1, ShareFacts DEF CBase, CTypes, Ranges
<1>3. ti[t] + 1 \in Nat /\ Start(t) <= ti[t] + 1 /\ ti[t] + 1 <= Start(t) + PerThread /\ treg[t] + ti[t] \in Nat
  BY <1>1, <1>2, ShareFacts DEF CBase
<1>4. CTypes' /\ Ranges' /\ JoinedReturned'
  BY <1>1, <1>3, MoveKeepsBase DEF CBase, CTypes, ThreadAt, AddingSums
<1> QED BY <1>1, <1>4 DEF CBase, OneInside, Locked, Moves

LEMMA BaseLoopEnd ==
  ASSUME CBase, NEW t \in Ids, LoopEnd(t)
  PROVE  CBase'
<1>1. tpc[t] = "loop" /\ cell' = cell /\ sem' = sem /\ ti[t] >= Start(t) + PerThread
  BY DEF LoopEnd, Moves
<1>2. Start(t) \in Nat /\ ti[t] \in Nat /\ treg[t] \in Nat /\ Start(t) <= ti[t] /\ ti[t] <= Start(t) + PerThread
  BY <1>1, ShareFacts DEF CBase, CTypes, Ranges
<1>3. ti[t] = Start(t) + PerThread
  BY <1>1, <1>2, ShareFacts DEF CBase
<1>4. PICK to \in {"publish", "returned"} :
        Moves(t, "loop", to, ti[t], treg[t]) /\ (to = "publish" => prog = "psum-local")
  BY DEF LoopEnd
<1>5. CTypes' /\ Ranges' /\ JoinedReturned'
  BY <1>1, <1>2, <1>3, <1>4, MoveKeepsBase DEF CBase, CTypes, ThreadAt, AddingSums
<1>6. prog \in Locked => OneInside'
  BY <1>1, <1>2, <1>4, StaysInside DEF ThreadAt, AddingSums
<1> QED BY <1>4, <1>5, <1>6 DEF CBase, OneInside, Moves

LEMMA BasePublish ==
  ASSUME CBase, NEW t \in Ids, Publish(t)
  PROVE  CBase'
<1>1. tpc[t] = "publish" /\ sem' = sem /\ Moves(t, "publish", "returned", ti[t], 0)
  BY DEF Publish, Moves
<1>2. /\ Start(t) \in Nat /\ ti[t] \in Nat /\ ti[t] = Start(t) + PerThread
      /\ Start(t) <= ti[t] /\ ti[t] <= Start(t) + PerThread /\ prog = "psum-local"
  BY <1>1, ShareFacts DEF CBase, CTypes, Ranges
<1>3. cell' \in [Ids -> Nat] /\ sem' \in Nat
  BY ShareFacts DEF Publish, CBase, CTypes
<1>4. CTypes' /\ Ranges' /\ JoinedReturned'
  BY <1>1, <1>2, <1>3, MoveKeepsBase DEF ThreadAt, AddingSums
<1> QED BY <1>1, <1>2, <1>4 DEF CBase, OneInside, Locked, Moves

LEMMA BaseJoin ==
  ASSUME CBase, Join
  PROVE  CBase'
<1>1. joined \in Ids /\ joined + 1 \in 0 .. Nthreads
  BY CountersAssumption DEF Join, CBase, CTypes, Ids
<1>2. result' \in Nat
  BY <1>1, ShareFacts DEF Join, CBase, CTypes
<1>3. CTypes'
  BY <1>1, <1>2 DEF Join, CBase, CTypes
<1>4. JoinedReturned'
  <2>1. \A t \in Ids : t < joined + 1 => t = joined \/ t < joined
    BY <1>1, CountersAssumption DEF Ids
  <2> QED BY <2>1 DEF JoinedReturned, CBase, Join
<1> QED BY <1>3, <1>4 DEF CBase, Join, Ranges, OneInside, Start

\* No step but a store changes what has been stored.
LEMMA NothingStored ==
  ASSUME CBase, CBase', prog' = prog,
         \A u \in Ids : Upto'[u] = Upto[u] \/ (tpc[u] = "start" /\ Upto'[u] = Start(u))
  PROVE  StoredSums(Upto)' = StoredSums(Upto) /\ Below(Upto)' = Below(Upto)
<1>1. \A u \in Ids : Start(u)' = Start(u) /\ Start(u) \in Nat
  BY ShareFacts DEF CBase, Start
<1>2. \A u \in Ids : Upto[u] \in Nat /\ Upto'[u] \in Nat
  BY DEF CBase, CTypes, Upto
<1>3. \A u \in Ids : tpc[u] = "start" => Upto[u] = 0
  BY DEF CBase, Ranges, Upto
<1>4. \A u \in Ids, k \in Nat : Start(u) <= k => (k < Upto[u] <=> k < Upto'[u])
  BY <1>1, <1>2, <1>3
<1>5. StoredSums(Upto)' = StoredSums(Upto)
  BY <1>1, <1>4 DEF StoredSums
<1>6. Below(Upto)' = Below(Upto)
  BY <1>1, <1>4 DEF Below
<1> QED BY <1>5, <1>6

\* A store adds one to what has been stored.
LEMMA OneStored ==
  ASSUME CBase, CBase', prog' = prog, NEW t \in Ids, tpc[t] = "store",
         Upto'[t] = ti[t] + 1, \A u \in Ids : u # t => Upto'[u] = Upto[u]
  PROVE  StoredSums(Upto)' = StoredSums(Upto) \cup {<<t, ti[t]>>} /\ <<t, ti[t]>> \notin StoredSums(Upto)
<1>1. \A u \in Ids : Start(u)' = Start(u) /\ Start(u) \in Nat
  BY ShareFacts DEF CBase, Start
<1>2. \A u \in Ids : Upto[u] \in Nat
  BY DEF CBase, CTypes, Upto
<1>3. Upto[t] = ti[t] /\ ti[t] \in Nat /\ Start(t) <= ti[t]
  BY DEF CBase, CTypes, Ranges, Upto
<1>4. \A k \in Nat : k < ti[t] + 1 <=> k < ti[t] \/ k = ti[t]
  BY <1>3
<1>5. \A x \in Ids \X Nat : (x[1] = t /\ x[2] = ti[t]) <=> x = <<t, ti[t]>>
  BY <1>3
<1>6. ASSUME NEW x \in Ids \X Nat
      PROVE  x \in StoredSums(Upto)' <=> x \in StoredSums(Upto) \/ x = <<t, ti[t]>>
  <2>1. x[1] \in Ids /\ x[2] \in Nat
    OBVIOUS
  <2>2. CASE x[1] = t
    <3>1. x \in StoredSums(Upto)' <=> Start(t) <= x[2] /\ x[2] < ti[t] + 1
      BY <1>1, <2>1, <2>2 DEF StoredSums
    <3>2. x \in StoredSums(Upto) <=> Start(t) <= x[2] /\ x[2] < ti[t]
      BY <1>3, <2>1, <2>2 DEF StoredSums
    <3> QED BY <1>3, <1>4, <1>5, <2>1, <2>2, <3>1, <3>2
  <2>3. CASE x[1] # t
    BY <1>1, <1>5, <2>1, <2>3 DEF StoredSums
  <2> QED BY <2>2, <2>3
<1>7. StoredSums(Upto)' \subseteq Ids \X Nat /\ StoredSums(Upto) \subseteq Ids \X Nat
  BY DEF StoredSums
<1>8. <<t, ti[t]>> \in Ids \X Nat /\ <<t, ti[t]>> \notin StoredSums(Upto)
  BY <1>3 DEF StoredSums
<1> QED BY <1>6, <1>7, <1>8

\* The shares of two threads have nothing in common.
LEMMA SharesApart ==
  ASSUME CBase, prog \notin Counting, NEW t \in Ids, NEW u \in Ids, NEW k \in Nat,
         Start(t) <= k, k < Start(t) + PerThread, Start(u) <= k, k < Start(u) + PerThread
  PROVE  t = u
<1>1. t \in Nat /\ u \in Nat /\ PerThread \in Nat
  BY ShareFacts DEF CBase
<1>2. Start(t) = t * PerThread /\ Start(u) = u * PerThread
  BY DEF Start
<1>3. ASSUME NEW v \in Nat, NEW w \in Nat, v < w
      PROVE  v * PerThread + PerThread <= w * PerThread
  <2>1. PICK d \in Nat : w = v + 1 + d
    BY <1>3
  <2>2. w * PerThread = v * PerThread + PerThread + d * PerThread
    BY <1>1, <2>1
  <2>3. d * PerThread \in Nat /\ v * PerThread \in Nat
    BY <1>1
  <2> QED BY <1>1, <2>2, <2>3
<1>4. t * PerThread \in Nat /\ u * PerThread \in Nat
  BY <1>1
<1>5. ~(t < u)
  BY <1>1, <1>2, <1>3, <1>4
<1>6. ~(u < t)
  BY <1>1, <1>2, <1>3, <1>4
<1> QED BY <1>1, <1>5, <1>6

\* Nobody else has stored the number that is about to be stored.
LEMMA NumberIsNew ==
  ASSUME CBase, prog \notin Counting, NEW t \in Ids, tpc[t] = "store"
  PROVE  \A u \in Ids : ~(Start(u) <= ti[t] /\ ti[t] < Upto[u])
<1> SUFFICES ASSUME NEW u \in Ids, Start(u) <= ti[t], ti[t] < Upto[u]
             PROVE  FALSE
  OBVIOUS
<1>1. ti[t] \in Nat /\ Start(t) <= ti[t] /\ ti[t] < Start(t) + PerThread /\ Upto[t] = ti[t]
  BY DEF CBase, CTypes, Ranges, AddingSums, Upto
<1>2. u # t
  BY <1>1
<1>3. ti[t] < Start(u) + PerThread
  <2>1. Start(u) \in Nat /\ PerThread \in Nat /\ ti[u] \in Nat
    BY ShareFacts DEF CBase, CTypes
  <2>2. Upto[u] <= Start(u) + PerThread
    <3>1. CASE tpc[u] = "unlock"
      BY <2>1, <3>1 DEF CBase, Ranges, AddingSums, Upto
    <3>2. CASE tpc[u] = "start"
      BY <2>1, <3>2 DEF CBase, Ranges, Upto
    <3>3. CASE tpc[u] \notin {"unlock", "start"}
      BY <2>1, <3>3 DEF CBase, Ranges, Upto
    <3> QED BY <3>1, <3>2, <3>3
  <2>3. Upto[u] \in Nat
    BY <2>1 DEF Upto
  <2> QED BY <1>1, <2>1, <2>2, <2>3
<1> QED BY <1>1, <1>2, <1>3, SharesApart

LEMMA NumberStored ==
  ASSUME CBase, CBase', prog' = prog, prog \notin Counting, NEW t \in Ids, tpc[t] = "store",
         Upto'[t] = ti[t] + 1, \A u \in Ids : u # t => Upto'[u] = Upto[u]
  PROVE  /\ Below(Upto)' = Below(Upto) \cup ({ti[t]} \X (0 .. ti[t] - 1))
         /\ Below(Upto) \cap ({ti[t]} \X (0 .. ti[t] - 1)) = {}
<1>1. \A u \in Ids : Start(u)' = Start(u) /\ Start(u) \in Nat
  BY ShareFacts DEF CBase, Start
<1>3. Upto[t] = ti[t] /\ ti[t] \in Nat /\ Start(t) <= ti[t]
  BY DEF CBase, CTypes, Ranges, Upto
<1>4. \A k \in Nat : k < ti[t] + 1 <=> k < ti[t] \/ k = ti[t]
  BY <1>3
<1>5. ASSUME NEW k \in Nat
      PROVE  (\E u \in Ids : Start(u) <= k /\ k < Upto'[u])
               <=> (\E u \in Ids : Start(u) <= k /\ k < Upto[u]) \/ k = ti[t]
  BY <1>3, <1>4
<1>6. \A x \in Nat \X Nat : x \in {ti[t]} \X (0 .. ti[t] - 1) <=> x[1] = ti[t] /\ x[2] < x[1]
  BY <1>3
<1>7. {ti[t]} \X (0 .. ti[t] - 1) \subseteq Nat \X Nat
  BY <1>3
<1>8. \A x \in Nat \X Nat : x \in Below(Upto)' <=> x \in Below(Upto) \/ x \in {ti[t]} \X (0 .. ti[t] - 1)
  BY <1>1, <1>5, <1>6 DEF Below
<1>9. Below(Upto)' \subseteq Nat \X Nat /\ Below(Upto) \subseteq Nat \X Nat
  BY DEF Below
<1>10. \A x \in Below(Upto) : x[1] # ti[t]
  BY NumberIsNew DEF Below
<1> QED BY <1>6, <1>7, <1>8, <1>9, <1>10

\* What the steps do to the function Upto.
LEMMA UptoMoves ==
  ASSUME CTypes, NEW t \in Ids, NEW from, NEW to \in ThreadAt, NEW i \in Nat, NEW r \in Nat,
         Moves(t, from, to, i, r)
  PROVE  /\ Upto'[t] = IF to = "unlock" THEN i + 1 ELSE i
         /\ \A u \in Ids : u # t => Upto'[u] = Upto[u]
  BY MovesEffect DEF Upto

\* Every step of a thread is one of these.
Quiet ==
  /\ prog' = prog /\ joined' = joined /\ result' = result
  /\ StoredSums(Upto)' = StoredSums(Upto) /\ Below(Upto)' = Below(Upto)

LEMMA QuietSteps ==
  ASSUME CBase, CBase', NEW t \in Ids,
         \/ Begin(t) \/ LoopHead(t) \/ LoadCell(t) \/ UnlockCell(t) \/ LoopEnd(t) \/ Publish(t)
  PROVE  Quiet
<1>1. prog' = prog /\ joined' = joined /\ result' = result
  BY DEF Begin, LoopHead, LoadCell, UnlockCell, LoopEnd, Publish, Moves
<1>2. /\ CTypes /\ ti[t] \in Nat /\ ti[t] + 1 \in Nat /\ treg[t] \in Nat /\ cell[Cell(t)] \in Nat
      /\ Start(t) \in Nat /\ 0 \in Nat
  BY ShareFacts DEF CBase, CTypes
<1>3. CASE Begin(t)
  <2>1. Upto'[t] = Start(t) /\ \A u \in Ids : u # t => Upto'[u] = Upto[u]
    BY <1>2, <1>3, UptoMoves DEF Begin, ThreadAt
  <2>2. tpc[t] = "start"
    BY <1>3 DEF Begin, Moves
  <2> QED BY <1>1, <2>1, <2>2, NothingStored DEF Quiet
<1>4. CASE LoopHead(t) \/ LoadCell(t) \/ LoopEnd(t) \/ Publish(t) \/ UnlockCell(t)
  <2>1. PICK from \in ThreadAt, to \in ThreadAt, i \in Nat, r \in Nat :
          /\ Moves(t, from, to, i, r) /\ to # "unlock"
          /\ i = IF from = "unlock" THEN ti[t] + 1 ELSE ti[t]
    BY <1>2, <1>4 DEF LoopHead, LoadCell, LoopEnd, Publish, UnlockCell, ThreadAt
  <2>2. tpc[t] = from
    BY <2>1 DEF Moves
  <2>3. Upto'[t] = i /\ \A u \in Ids : u # t => Upto'[u] = Upto[u]
    <3>1. CTypes /\ Moves(t, from, to, i, r) /\ to # "unlock"
      BY <2>1 DEF CBase
    <3> QED BY <3>1, UptoMoves
  <2>4. Upto[t] = i
    BY <2>1, <2>2 DEF Upto
  <2> QED BY <1>1, <2>3, <2>4, NothingStored DEF Quiet
<1> QED BY <1>3, <1>4

LEMMA StoreEffect ==
  ASSUME CBase, CBase', NEW t \in Ids, StoreCell(t)
  PROVE  /\ tpc[t] = "store" /\ prog' = prog /\ joined' = joined /\ result' = result
         /\ Upto'[t] = ti[t] + 1 /\ \A u \in Ids : u # t => Upto'[u] = Upto[u]
         /\ cell'[Cell(t)] = treg[t] + Adds(t) /\ \A u \in Ids : u # Cell(t) => cell'[u] = cell[u]
         /\ \A u \in Ids : u # t => tpc'[u] = tpc[u] /\ ti'[u] = ti[u] /\ treg'[u] = treg[u]
         /\ prog \in Locked => tpc'[t] = "unlock" /\ ti'[t] = ti[t]
         /\ prog \notin Locked => tpc'[t] = "loop" /\ ti'[t] = ti[t] + 1
<1>1. CTypes /\ ti[t] \in Nat /\ ti[t] + 1 \in Nat /\ 0 \in Nat /\ Cell(t) \in Ids
  BY ShareFacts DEF CBase, CTypes
<1>2. cell'[Cell(t)] = treg[t] + Adds(t) /\ \A u \in Ids : u # Cell(t) => cell'[u] = cell[u]
  BY <1>1 DEF StoreCell, CTypes
<1>3. CASE prog \in Locked
  <2>1. Moves(t, "store", "unlock", ti[t], 0)
    BY <1>3 DEF StoreCell
  <2>2. "unlock" \in ThreadAt
    BY DEF ThreadAt
  <2>3. Upto'[t] = ti[t] + 1 /\ \A u \in Ids : u # t => Upto'[u] = Upto[u]
    BY <1>1, <2>1, <2>2, UptoMoves
  <2>4. /\ tpc[t] = "store" /\ tpc'[t] = "unlock" /\ ti'[t] = ti[t]
        /\ \A u \in Ids : u # t => tpc'[u] = tpc[u] /\ ti'[u] = ti[u] /\ treg'[u] = treg[u]
        /\ prog' = prog /\ joined' = joined /\ result' = result
    BY <1>1, <2>1, <2>2 DEF Moves, CTypes
  <2> QED BY <1>2, <1>3, <2>3, <2>4
<1>4. CASE prog \notin Locked
  <2>1. Moves(t, "store", "loop", ti[t] + 1, 0)
    BY <1>4 DEF StoreCell
  <2>2. "loop" \in ThreadAt
    BY DEF ThreadAt
  <2>3. Upto'[t] = ti[t] + 1 /\ \A u \in Ids : u # t => Upto'[u] = Upto[u]
    BY <1>1, <2>1, <2>2, UptoMoves
  <2>4. /\ tpc[t] = "store" /\ tpc'[t] = "loop" /\ ti'[t] = ti[t] + 1
        /\ \A u \in Ids : u # t => tpc'[u] = tpc[u] /\ ti'[u] = ti[u] /\ treg'[u] = treg[u]
        /\ prog' = prog /\ joined' = joined /\ result' = result
    BY <1>1, <2>1, <2>2 DEF Moves, CTypes
  <2> QED BY <1>2, <1>4, <2>3, <2>4
<1> QED BY <1>3, <1>4

\* goodcnt and psum-mutex: the semaphore makes the load and the store one
\* addition, of 1 or of the number.
LEMMA SharedStore ==
  ASSUME CBase, CBase', SharedSums, NEW t \in Ids, StoreCell(t)
  PROVE  SharedSums'
<1>1. /\ tpc[t] = "store" /\ prog' = prog
      /\ Upto'[t] = ti[t] + 1 /\ \A u \in Ids : u # t => Upto'[u] = Upto[u]
      /\ cell'[Cell(t)] = treg[t] + Adds(t)
  BY StoreEffect
<1>2. ti[t] \in Nat
  BY DEF CBase, CTypes
<1>3. CASE prog = "goodcnt"
  <2>1. cell'[0] = cell[0] + 1
    BY <1>1, <1>3 DEF CBase, OneInside, Locked, Cell, OwnCell, Adds, Counting
  <2>2. StoredSums(Upto)' = StoredSums(Upto) \cup {<<t, ti[t]>>} /\ <<t, ti[t]>> \notin StoredSums(Upto)
    BY <1>1, OneStored
  <2>3. IsFiniteSet(StoredSums(Upto)') /\ Cardinality(StoredSums(Upto)') = Cardinality(StoredSums(Upto)) + 1
    BY <1>3, <2>2, FS_AddElement DEF SharedSums
  <2> QED BY <1>1, <1>3, <2>1, <2>3 DEF SharedSums
<1>4. CASE prog = "psum-mutex"
  <2> DEFINE New == {ti[t]} \X (0 .. ti[t] - 1)
  <2>1. cell'[0] = cell[0] + ti[t]
    BY <1>1, <1>4 DEF CBase, OneInside, Locked, Cell, OwnCell, Adds, Counting
  <2>2. Below(Upto)' = Below(Upto) \cup New /\ Below(Upto) \cap New = {}
    BY <1>1, <1>4, NumberStored DEF Counting
  <2>3. IsFiniteSet(New) /\ Cardinality(New) = ti[t]
    <3>1. IsFiniteSet({ti[t]}) /\ Cardinality({ti[t]}) = 1
      BY FS_Singleton
    <3>2. IsFiniteSet(0 .. ti[t] - 1) /\ Cardinality(0 .. ti[t] - 1) = ti[t]
      BY <1>2, IntervalSize
    <3>3. IsFiniteSet(New) /\ Cardinality(New) = 1 * Cardinality(0 .. ti[t] - 1)
      BY <3>1, <3>2, FS_Product
    <3> QED BY <1>2, <3>2, <3>3
  <2>4. /\ IsFiniteSet(Below(Upto)')
        /\ Cardinality(Below(Upto)') = Cardinality(Below(Upto)) + Cardinality(New) - Cardinality(Below(Upto) \cap New)
    BY <1>4, <2>2, <2>3, FS_Union DEF SharedSums
  <2>5. Cardinality(Below(Upto) \cap New) = 0
    BY <2>2, FS_EmptySet
  <2>6. cell[0] \in Nat /\ cell[0] = Cardinality(Below(Upto))
    BY <1>4, ShareFacts DEF SharedSums, CBase, CTypes
  <2>7. Cardinality(Below(Upto)') = cell[0] + ti[t]
    BY <1>2, <2>3, <2>4, <2>5, <2>6
  <2> QED BY <1>1, <1>4, <2>1, <2>4, <2>7 DEF SharedSums
<1> QED BY <1>1, <1>3, <1>4 DEF SharedSums

LEMMA SharedQuiet ==
  ASSUME SharedSums, Quiet, prog \in Locked => cell' = cell
  PROVE  SharedSums'
  BY DEF SharedSums, Quiet, Locked

-----------------------------------------------------------------------------
LEMMA Squares ==
  /\ Sq(0) = 0
  /\ \A m \in Nat : Sq(m) \in Nat /\ Sq(m + 1) = Sq(m) + 2 * m
<1>1. ASSUME NEW m \in Nat
      PROVE  Sq(m) \in Nat /\ Sq(m + 1) = Sq(m) + 2 * m
  <2>1. (m + 1) * (m + 1 - 1) = m * (m - 1) + 2 * m
    OBVIOUS
  <2>2. m * (m - 1) \in Nat
    <3>1. CASE m = 0
      BY <3>1
    <3>2. CASE m # 0
      BY <3>2
    <3> QED BY <3>1, <3>2
  <2> QED BY <2>1, <2>2 DEF Sq
<1> QED BY <1>1 DEF Sq

LEMMA NextNumber ==
  ASSUME CTypes, NEW t \in Ids, NEW i \in Nat, NEW c \in Nat, 2 * c = Twice(t, i)
  PROVE  2 * (c + i) = Twice(t, i + 1)
<1>1. Sq(Start(t)) \in Nat /\ Sq(i) \in Nat /\ Sq(i + 1) = Sq(i) + 2 * i
  BY ShareFacts, Squares
<1> QED BY <1>1 DEF Twice

LEMMA NoNumber ==
  ASSUME CTypes, NEW t \in Ids
  PROVE  Twice(t, Start(t)) = 0
<1>1. Sq(Start(t)) \in Nat
  BY ShareFacts, Squares
<1> QED BY <1>1 DEF Twice

ThreadSteps(t) ==
  \/ Begin(t) \/ LoopHead(t) \/ LoadCell(t) \/ StoreCell(t) \/ UnlockCell(t)
  \/ AddLocal(t) \/ LoopEnd(t) \/ Publish(t)

\* With a cell of its own for each thread nobody meets another.
LEMMA OthersKept ==
  ASSUME CTypes, prog \in OwnCell, NEW t \in Ids, ThreadSteps(t)
  PROVE  /\ prog' = prog
         /\ \A u \in Ids : u # t =>
              tpc'[u] = tpc[u] /\ ti'[u] = ti[u] /\ treg'[u] = treg[u] /\ cell'[u] = cell[u]
<1>1. Cell(t) = t
  BY DEF Cell
<1>2. \E from, to, i, r : Moves(t, from, to, i, r)
  BY DEF ThreadSteps, Begin, LoopHead, LoadCell, StoreCell, UnlockCell, AddLocal, LoopEnd, Publish
<1>3. \A u \in Ids : u # t => tpc'[u] = tpc[u] /\ ti'[u] = ti[u] /\ treg'[u] = treg[u]
  BY <1>2 DEF Moves, CTypes
<1>4. \A u \in Ids : u # t => cell'[u] = cell[u]
  BY <1>1 DEF CTypes, ThreadSteps, Begin, LoopHead, LoadCell, StoreCell, UnlockCell, AddLocal, LoopEnd, Publish
<1>5. prog' = prog
  BY <1>2 DEF Moves
<1> QED BY <1>3, <1>4, <1>5

LEMMA ArraySums ==
  ASSUME CBase, prog = "psum-array", OwnSums, NEW t \in Ids, ThreadSteps(t)
  PROVE  /\ tpc'[t] # "start" /\ 2 * cell'[t] = Twice(t, ti'[t])
         /\ tpc'[t] = "store" => treg'[t] = cell'[t]
<1>1. CTypes /\ ti[t] \in Nat /\ cell[t] \in Nat /\ Cell(t) = t /\ prog \notin Locked /\ prog \notin Counting
  BY DEF CBase, CTypes, Cell, OwnCell, Locked, Counting
<1>2. tpc[t] # "start" => 2 * cell[t] = Twice(t, ti[t])
  BY <1>1 DEF OwnSums
<1>3. CASE Begin(t)
  <2>1. cell[t] = 0
    BY <1>3 DEF OwnSums, Begin, Moves
  <2>2. tpc'[t] = "loop" /\ ti'[t] = Start(t) /\ cell'[t] = cell[t]
    BY <1>1, <1>3 DEF CTypes, Begin, Moves
  <2> QED BY <1>1, <2>1, <2>2, NoNumber
<1>4. CASE StoreCell(t)
  <2>1. tpc[t] = "store" /\ tpc'[t] = "loop" /\ ti'[t] = ti[t] + 1 /\ cell'[t] = treg[t] + ti[t]
    BY <1>1, <1>4 DEF CTypes, StoreCell, Moves, Adds
  <2>2. treg[t] = cell[t]
    BY <2>1 DEF OwnSums
  <2> QED BY <1>1, <1>2, <2>1, <2>2, NextNumber
<1>5. CASE LoadCell(t)
  <2>1. /\ tpc[t] = "load" /\ tpc'[t] = "store" /\ ti'[t] = ti[t] /\ treg'[t] = cell[t]
        /\ cell'[t] = cell[t]
    BY <1>1, <1>5 DEF CTypes, LoadCell, Moves
  <2> QED BY <1>2, <2>1
<1>6. CASE LoopHead(t) \/ LoopEnd(t)
  <2>1. /\ tpc[t] = "loop" /\ tpc'[t] \in {"load", "returned"} /\ ti'[t] = ti[t] /\ cell'[t] = cell[t]
    BY <1>1, <1>6 DEF CTypes, LoopHead, LoopEnd, Moves
  <2> QED BY <1>2, <2>1
<1>7. ~UnlockCell(t) /\ ~AddLocal(t) /\ ~Publish(t)
  <2>1. tpc[t] \notin {"unlock", "publish"}
    BY <1>1 DEF CBase, Ranges
  <2> QED BY <2>1 DEF UnlockCell, AddLocal, Publish, Moves
<1> QED BY <1>3, <1>4, <1>5, <1>6, <1>7 DEF ThreadSteps

LEMMA LocalSums ==
  ASSUME CBase, prog = "psum-local", OwnSums, NEW t \in Ids, ThreadSteps(t)
  PROVE  /\ tpc'[t] \in {"loop", "publish"} => 2 * treg'[t] = Twice(t, ti'[t])
         /\ tpc'[t] = "returned" => 2 * cell'[t] = Twice(t, ti'[t])
<1>1. CTypes /\ ti[t] \in Nat /\ treg[t] \in Nat /\ Cell(t) = t
  BY DEF CBase, CTypes, Cell, OwnCell
<1>2. tpc[t] \in {"loop", "publish"} => 2 * treg[t] = Twice(t, ti[t])
  BY DEF OwnSums
<1>3. CASE Begin(t)
  <2>1. tpc'[t] = "loop" /\ ti'[t] = Start(t) /\ treg'[t] = 0
    BY <1>1, <1>3 DEF CTypes, Begin, Moves
  <2> QED BY <1>1, <2>1, NoNumber
<1>4. CASE AddLocal(t)
  <2>1. tpc[t] = "loop" /\ tpc'[t] = "loop" /\ ti'[t] = ti[t] + 1 /\ treg'[t] = treg[t] + ti[t]
    BY <1>1, <1>4 DEF CTypes, AddLocal, Moves
  <2> QED BY <1>1, <1>2, <2>1, NextNumber
<1>5. CASE LoopEnd(t)
  <2>1. tpc[t] = "loop" /\ tpc'[t] = "publish" /\ ti'[t] = ti[t] /\ treg'[t] = treg[t]
    BY <1>1, <1>5 DEF CTypes, LoopEnd, Moves
  <2> QED BY <1>2, <2>1
<1>6. CASE Publish(t)
  <2>1. tpc[t] = "publish" /\ tpc'[t] = "returned" /\ ti'[t] = ti[t] /\ cell'[t] = treg[t]
    BY <1>1, <1>6 DEF CTypes, Publish, Moves
  <2> QED BY <1>2, <2>1
<1>7. ~LoopHead(t) /\ ~LoadCell(t) /\ ~StoreCell(t) /\ ~UnlockCell(t)
  <2>1. tpc[t] \notin AddingSums
    BY DEF CBase, Ranges
  <2> QED BY <2>1 DEF AddingSums, LoopHead, LoadCell, StoreCell, UnlockCell, Moves
<1> QED BY <1>3, <1>4, <1>5, <1>6, <1>7 DEF ThreadSteps

\* psum-array and psum-local: each thread adds up its own share.
LEMMA OwnSumsStep ==
  ASSUME CBase, prog' = prog, OwnSums, NEW t \in Ids, ThreadSteps(t)
  PROVE  OwnSums'
<1>1. \A u \in Ids : Start(u)' = Start(u)
  BY DEF Start
<1>2. CASE prog = "psum-array"
  <2>1. \A u \in Ids : u # t => tpc'[u] = tpc[u] /\ ti'[u] = ti[u] /\ treg'[u] = treg[u] /\ cell'[u] = cell[u]
    BY <1>2, OthersKept DEF CBase, OwnCell
  <2>2. /\ tpc'[t] # "start" /\ 2 * cell'[t] = Twice(t, ti'[t])
        /\ tpc'[t] = "store" => treg'[t] = cell'[t]
    BY <1>2, ArraySums
  <2> QED BY <1>1, <1>2, <2>1, <2>2 DEF OwnSums, Twice
<1>3. CASE prog = "psum-local"
  <2>1. \A u \in Ids : u # t => tpc'[u] = tpc[u] /\ ti'[u] = ti[u] /\ treg'[u] = treg[u] /\ cell'[u] = cell[u]
    BY <1>3, OthersKept DEF CBase, OwnCell
  <2>2. /\ tpc'[t] \in {"loop", "publish"} => 2 * treg'[t] = Twice(t, ti'[t])
        /\ tpc'[t] = "returned" => 2 * cell'[t] = Twice(t, ti'[t])
    BY <1>3, LocalSums
  <2> QED BY <1>1, <1>3, <2>1, <2>2 DEF OwnSums, Twice
<1> QED BY <1>2, <1>3 DEF OwnSums

\* badcnt.
LEMMA LostUpdatesStep ==
  ASSUME CBase, CBase', LostUpdates, NEW t \in Ids, ThreadSteps(t)
  PROVE  LostUpdates'
<1> SUFFICES ASSUME prog = "badcnt", prog' = "badcnt" PROVE LostUpdates'
  <2>1. prog' = prog
    BY Zenon DEF ThreadSteps, Begin, LoopHead, LoadCell, StoreCell, UnlockCell, AddLocal, LoopEnd, Publish, Moves
  <2> QED BY <2>1 DEF LostUpdates
<1> DEFINE C  == Cardinality(StoredSums(Upto))
           C2 == Cardinality(StoredSums(Upto)')
<1>1. /\ Cell(t) = 0 /\ Start(t) = 0 /\ Adds(t) = 1 /\ prog \notin Locked /\ 0 \in Ids
      /\ \A u \in Ids : Start(u) = 0
  BY ShareFacts DEF Cell, OwnCell, Start, Counting, Adds, Locked, CBase
<1>2. /\ IsFiniteSet(StoredSums(Upto)) /\ C \in Nat /\ cell[0] \in Nat /\ cell[0] <= C
      /\ ti[t] \in Nat /\ treg[t] \in Nat
      /\ \A u \in Ids : tpc[u] = "store" => treg[u] <= C
      /\ \A u \in Ids : ti[u] >= 1 => cell[0] >= 1
      /\ \A u \in Ids : tpc[u] = "store" /\ ti[u] >= 1 => treg[u] >= 1
      /\ cell[0] < 2 => \E u \in Ids : ti[u] < 2
  BY <1>1, FS_CardinalityType DEF LostUpdates, CBase, CTypes
<1> HIDE DEF C, C2
<1>3. CASE Begin(t) \/ LoopHead(t) \/ LoadCell(t) \/ LoopEnd(t)
  <2>1. StoredSums(Upto)' = StoredSums(Upto) /\ C2 = C
    BY <1>3, QuietSteps DEF Quiet, C, C2
  <2>2. cell' = cell /\ ti'[t] \in {ti[t], 0} /\ tpc'[t] \in {"loop", "load", "store", "returned"}
    BY <1>1, <1>3 DEF CBase, CTypes, Begin, LoopHead, LoadCell, LoopEnd, Moves
  <2>3. /\ \A u \in Ids : u # t => tpc'[u] = tpc[u] /\ ti'[u] = ti[u] /\ treg'[u] = treg[u]
        /\ tpc'[t] = "store" => treg'[t] = cell[0] /\ ti'[t] = ti[t]
    BY <1>1, <1>3 DEF CBase, CTypes, Begin, LoopHead, LoadCell, LoopEnd, Moves
  <2>4. \A u \in Ids : ti'[u] = ti[u] \/ ti'[u] = 0
    BY <2>2, <2>3
  <2>5. \A u \in Ids : tpc'[u] = "store" => treg'[u] <= C /\ (ti'[u] >= 1 => treg'[u] >= 1)
    BY <1>2, <2>3
  <2>6. cell[0] < 2 => \E u \in Ids : ti'[u] < 2
    BY <1>2, <2>4
  <2>7. \A u \in Ids : ti'[u] >= 1 => cell[0] >= 1
    BY <1>2, <2>4
  <2> QED BY <1>2, <2>1, <2>2, <2>5, <2>6, <2>7 DEF LostUpdates, C, C2
<1>4. CASE StoreCell(t)
  <2>1. /\ tpc[t] = "store" /\ Upto'[t] = ti[t] + 1 /\ \A u \in Ids : u # t => Upto'[u] = Upto[u]
        /\ cell'[0] = treg[t] + 1
        /\ \A u \in Ids : u # t => tpc'[u] = tpc[u] /\ ti'[u] = ti[u] /\ treg'[u] = treg[u]
        /\ tpc'[t] = "loop" /\ ti'[t] = ti[t] + 1
    BY <1>1, <1>4, StoreEffect
  <2>2. StoredSums(Upto)' = StoredSums(Upto) \cup {<<t, ti[t]>>} /\ <<t, ti[t]>> \notin StoredSums(Upto)
    BY <2>1, OneStored
  <2>3. IsFiniteSet(StoredSums(Upto)') /\ C2 = C + 1
    <3>1. IsFiniteSet(StoredSums(Upto)') /\ Cardinality(StoredSums(Upto)') = Cardinality(StoredSums(Upto)) + 1
      BY <1>2, <2>2, FS_AddElement
    <3> QED BY <3>1 DEF C, C2
  <2>4. cell'[0] <= C2 /\ cell'[0] >= 1
    BY <1>2, <2>1, <2>3
  <2>5. \A u \in Ids : tpc'[u] = "store" => u # t /\ treg'[u] <= C2 /\ (ti'[u] >= 1 => treg'[u] >= 1)
    <3> SUFFICES ASSUME NEW u \in Ids, tpc'[u] = "store"
                 PROVE  u # t /\ treg'[u] <= C2 /\ (ti'[u] >= 1 => treg'[u] >= 1)
      OBVIOUS
    <3>1. u # t /\ tpc[u] = "store" /\ ti'[u] = ti[u] /\ treg'[u] = treg[u]
      BY <2>1
    <3>2. treg[u] \in Nat
      BY DEF CBase, CTypes
    <3> QED BY <1>2, <2>3, <3>1, <3>2
  <2>6. cell'[0] < 2 => ti'[t] < 2
    BY <1>2, <2>1
  <2> QED BY <2>3, <2>4, <2>5, <2>6 DEF LostUpdates, C, C2
<1>5. ~UnlockCell(t) /\ ~AddLocal(t) /\ ~Publish(t)
  <2>1. tpc[t] \notin {"unlock", "publish"}
    BY <1>1 DEF CBase, Ranges
  <2> QED BY <2>1 DEF UnlockCell, AddLocal, Publish, Moves
<1> QED BY <1>3, <1>4, <1>5 DEF ThreadSteps

LEMMA ResultsStep ==
  ASSUME CBase, Results, NEW t \in Ids, ThreadSteps(t)
  PROVE  Results' /\ prog' = prog
<1>1. PICK from, to, i, r : Moves(t, from, to, i, r) /\ from # "returned"
  BY DEF ThreadSteps, Begin, LoopHead, LoadCell, StoreCell, UnlockCell, AddLocal, LoopEnd, Publish
<1>2. prog' = prog /\ joined' = joined /\ result' = result /\ tpc[t] # "returned"
  BY <1>1 DEF Moves
<1>3. joined # Nthreads
  BY <1>2, CountersAssumption DEF CBase, JoinedReturned, Ids
<1> QED BY <1>2, <1>3 DEF Results

LEMMA ThreadStep ==
  ASSUME CInv, NEW t \in Ids, ThreadSteps(t)
  PROVE  CInv'
<1>1. CBase'
  BY BaseBegin, BaseLoopHead, BaseLoadCell, BaseStoreCell, BaseUnlock, BaseAddLocal, BaseLoopEnd, BasePublish
     DEF CInv, ThreadSteps
<1>2. SharedSums'
  <2>1. CASE StoreCell(t)
    BY <1>1, <2>1, SharedStore DEF CInv
  <2>2. CASE AddLocal(t)
    BY <2>2, ResultsStep DEF CInv, SharedSums, AddLocal
  <2>3. CASE Begin(t) \/ LoopHead(t) \/ LoadCell(t) \/ UnlockCell(t) \/ LoopEnd(t) \/ Publish(t)
    <3>1. Quiet
      BY <1>1, <2>3, QuietSteps DEF CInv
    <3>2. ~Publish(t) => cell' = cell
      BY <2>3 DEF Begin, LoopHead, LoadCell, UnlockCell, LoopEnd
    <3>3. Publish(t) => prog \notin Locked
      BY DEF Publish, Moves, CInv, CBase, Ranges, Locked
    <3> QED BY <3>1, <3>2, <3>3, SharedQuiet DEF CInv
  <2> QED BY <2>1, <2>2, <2>3 DEF ThreadSteps
<1>3. OwnSums' /\ Results'
  BY ResultsStep, OwnSumsStep DEF CInv
<1>4. LostUpdates'
  BY <1>1, LostUpdatesStep DEF CInv
<1> QED BY <1>1, <1>2, <1>3, <1>4 DEF CInv

LEMMA JoinStep ==
  ASSUME CInv, Join
  PROVE  CInv'
<1>1. CBase'
  BY BaseJoin DEF CInv
<1>2. /\ prog' = prog /\ cell' = cell /\ tpc' = tpc /\ ti' = ti /\ treg' = treg
      /\ joined < Nthreads /\ tpc[joined] = "returned" /\ joined' = joined + 1
  BY DEF Join
<1>3. StoredSums(Upto)' = StoredSums(Upto) /\ Below(Upto)' = Below(Upto)
  BY <1>2 DEF StoredSums, Below, Upto, Start
<1>4. SharedSums' /\ LostUpdates' /\ OwnSums'
  BY <1>2, <1>3 DEF CInv, SharedSums, LostUpdates, OwnSums, Twice, Start
<1>5. Results'
  <2>1. CASE prog \in OwnCell
    <3>1. joined \in Ids /\ joined \in Nat /\ PerThread \in Nat
      BY <1>2, CountersAssumption DEF CInv, CBase, CTypes, Ids
    <3>2. Start(joined) = joined * PerThread
      BY <2>1 DEF Start, OwnCell, Counting
    <3>3. joined * PerThread \in Nat /\ (joined + 1) * PerThread = joined * PerThread + PerThread
      BY <3>1
    <3>4. ti[joined] = (joined + 1) * PerThread
      BY <1>2, <3>1, <3>2, <3>3 DEF CInv, CBase, Ranges
    <3>5. 2 * cell[joined] = Sq((joined + 1) * PerThread) - Sq(joined * PerThread)
      BY <1>2, <2>1, <3>1, <3>2, <3>4 DEF CInv, OwnSums, OwnCell, Twice
    <3>6. 2 * result = Sq(joined * PerThread)
      BY <2>1 DEF CInv, Results
    <3>7. result' = result + cell[joined] /\ result \in Nat /\ cell[joined] \in Nat
      BY <2>1, <3>1 DEF Join, CInv, CBase, CTypes
    <3>8. 2 * result' = Sq((joined + 1) * PerThread)
      <4>1. PICK a : a = Sq(joined * PerThread)
        OBVIOUS
      <4>2. PICK b : b = Sq((joined + 1) * PerThread)
        OBVIOUS
      <4>3. joined + 1 \in Nat /\ (joined + 1) * PerThread \in Nat
        BY <3>1
      <4>4. a \in Nat /\ b \in Nat
        BY <3>3, <4>1, <4>2, <4>3, Squares
      <4>5. 2 * cell[joined] = b - a /\ 2 * result = a
        BY <3>5, <3>6, <4>1, <4>2
      <4>6. 2 * result' = b
        BY <3>7, <4>4, <4>5
      <4> QED BY <4>2, <4>6
    <3> QED BY <1>2, <2>1, <3>8 DEF Results, OwnCell
  <2>2. CASE prog \notin OwnCell
    BY <1>2, <2>2 DEF Results, Join
  <2> QED BY <2>1, <2>2
<1> QED BY <1>1, <1>4, <1>5 DEF CInv

LEMMA CountersInitially == CountersInit => CInv
<1> SUFFICES ASSUME CountersInit PROVE CInv
  OBVIOUS
<1>1. CTypes
  BY CountersAssumption DEF CountersInit, CTypes, ThreadAt
<1>2. Ranges /\ OneInside /\ JoinedReturned
  BY <1>1, CountersAssumption DEF CountersInit, Ranges, OneInside, JoinedReturned, AddingSums, Ids
<1>3. \A t \in Ids : Upto[t] = 0 /\ Start(t) \in Nat /\ cell[t] = 0
  BY <1>1, ShareFacts DEF CountersInit, Upto
<1>4. StoredSums(Upto) = {} /\ Below(Upto) = {}
  BY <1>3 DEF StoredSums, Below
<1>5. IsFiniteSet({}) /\ Cardinality({}) = 0
  BY FS_EmptySet
<1>6. SharedSums /\ OwnSums
  BY <1>1, <1>3, <1>4, <1>5, ShareFacts DEF CountersInit, SharedSums, OwnSums
<1>7. LostUpdates
  BY <1>1, <1>3, <1>4, <1>5, ShareFacts DEF CountersInit, LostUpdates
<1>8. Results
  <2>1. 0 * PerThread = 0 /\ Sq(0) = 0 /\ Nthreads # 0
    BY CountersAssumption, Squares
  <2> QED BY <2>1 DEF CountersInit, Results
<1> QED BY <1>1, <1>2, <1>6, <1>7, <1>8 DEF CInv, CBase

LEMMA CountersInvariance == CountersSpec => []CInv
<1>1. CInv /\ [CountersNext]_counterVars => CInv'
  <2>1. ASSUME CInv, UNCHANGED counterVars
        PROVE  CInv'
    <3> USE <2>1 DEF counterVars
    <3>1. Upto' = Upto
      BY DEF Upto
    <3>2. StoredSums(Upto)' = StoredSums(Upto) /\ Below(Upto)' = Below(Upto)
      BY <3>1 DEF StoredSums, Below, Start
    <3> QED BY <3>2 DEF CInv, CBase, CTypes, Ranges, OneInside, JoinedReturned, SharedSums, OwnSums,
                       LostUpdates, Results, Twice, Start
  <2>2. ASSUME CInv, CountersNext
        PROVE  CInv'
    BY <2>2, ThreadStep, JoinStep DEF CountersNext, ThreadSteps
  <2> QED BY <2>1, <2>2
<1> QED BY <1>1, CountersInitially, PTL DEF CountersSpec

-----------------------------------------------------------------------------
\* The pairs <<a, b>> with b < a < m.
Triangle(m) == {x \in Nat \X Nat : x[2] < x[1] /\ x[1] < m}

LEMMA TriangleGrows ==
  ASSUME NEW k \in Nat, IsFiniteSet(Triangle(k)), 2 * Cardinality(Triangle(k)) = Sq(k)
  PROVE  IsFiniteSet(Triangle(k + 1)) /\ 2 * Cardinality(Triangle(k + 1)) = Sq(k + 1)
<1> DEFINE Row == {k} \X (0 .. k - 1)
<1>1. Triangle(k + 1) = Triangle(k) \cup Row
  BY DEF Triangle
<1>2. Triangle(k) \cap Row = {}
  BY DEF Triangle
<1>3. IsFiniteSet(Row) /\ Cardinality(Row) = k
  <2>1. IsFiniteSet({k}) /\ Cardinality({k}) = 1
    BY FS_Singleton
  <2>2. IsFiniteSet(0 .. k - 1) /\ Cardinality(0 .. k - 1) = k
    BY IntervalSize
  <2>3. IsFiniteSet(Row) /\ Cardinality(Row) = Cardinality({k}) * Cardinality(0 .. k - 1)
    BY <2>1, <2>2, FS_Product
  <2> QED BY <2>1, <2>2, <2>3
<1> HIDE DEF Row
<1>4. PICK c : c = Cardinality(Triangle(k))
  OBVIOUS
<1>5. c \in Nat
  BY <1>4, FS_CardinalityType
<1>6. IsFiniteSet({}) /\ Cardinality({}) = 0
  BY FS_EmptySet
<1>7. /\ IsFiniteSet(Triangle(k) \cup Row)
      /\ Cardinality(Triangle(k) \cup Row)
           = Cardinality(Triangle(k)) + Cardinality(Row) - Cardinality(Triangle(k) \cap Row)
  BY <1>3, FS_Union
<1>8. IsFiniteSet(Triangle(k + 1)) /\ Cardinality(Triangle(k + 1)) = c + k
  <2>1. PICK d : d = Cardinality(Triangle(k + 1))
    OBVIOUS
  <2>2. IsFiniteSet(Triangle(k + 1)) /\ d = c + Cardinality(Row) - Cardinality({})
    BY <1>1, <1>2, <1>4, <1>7, <2>1
  <2>3. d = c + k
    BY <1>3, <1>5, <1>6, <2>2
  <2> QED BY <2>1, <2>2, <2>3
<1>9. PICK a : a = Sq(k)
  OBVIOUS
<1>10. Sq(k + 1) = a + 2 * k /\ a \in Nat /\ 2 * c = a
  BY <1>4, <1>9, Squares
<1>11. 2 * (c + k) = a + 2 * k
  BY <1>5, <1>10
<1> QED BY <1>8, <1>10, <1>11

LEMMA TriangleCount ==
  ASSUME NEW m \in Nat
  PROVE  IsFiniteSet(Triangle(m)) /\ 2 * Cardinality(Triangle(m)) = Sq(m)
<1> DEFINE M == {k \in Nat : IsFiniteSet(Triangle(k)) /\ 2 * Cardinality(Triangle(k)) = Sq(k)}
<1>1. 0 \in M
  <2>1. Triangle(0) = {}
    BY DEF Triangle
  <2>2. IsFiniteSet({}) /\ Cardinality({}) = 0
    BY FS_EmptySet
  <2>3. Sq(0) = 0
    BY Squares
  <2>4. IsFiniteSet(Triangle(0)) /\ 2 * Cardinality(Triangle(0)) = Sq(0)
    BY <2>1, <2>2, <2>3
  <2> QED BY <2>4
<1>2. \A k \in Nat : k \in M => k + 1 \in M
  BY TriangleGrows
<1> HIDE DEF M
<1>3. Nat \subseteq M
  BY <1>1, <1>2, AllOfNat
<1> QED BY <1>3 DEF M

\* When main has joined everybody, each has stored all of its share.
LEMMA AllStored ==
  ASSUME CInv, joined = Nthreads
  PROVE  \A t \in Ids : /\ tpc[t] = "returned" /\ ti[t] = Start(t) + PerThread
                        /\ Upto[t] = Start(t) + PerThread
<1> SUFFICES ASSUME NEW t \in Ids
             PROVE  tpc[t] = "returned" /\ ti[t] = Start(t) + PerThread /\ Upto[t] = Start(t) + PerThread
  OBVIOUS
<1>1. t < joined
  BY CountersAssumption DEF Ids
<1>2. tpc[t] = "returned"
  BY <1>1 DEF CInv, CBase, JoinedReturned
<1> QED BY <1>2 DEF CInv, CBase, Ranges, Upto

\* The shares of the threads are together all the numbers.
LEMMA SharesCover ==
  ASSUME CTypes, prog \notin Counting, NEW k \in Nat
  PROVE  (\E t \in Ids : Start(t) <= k /\ k < Start(t) + PerThread) <=> k < Nthreads * PerThread
<1>1. PerThread \in Nat /\ Nthreads \in Nat /\ Nthreads - 1 \in Ids /\ Ids \subseteq Nat
  BY CountersAssumption DEF Ids
<1>2. \A t \in Ids : /\ Start(t) \in Nat /\ Start(t) = t * PerThread
                     /\ t > 0 => t - 1 \in Ids /\ Start(t - 1) + PerThread = Start(t)
  BY <1>1, ShareFacts DEF Start, Ids
<1>3. Start(Nthreads - 1) + PerThread = Nthreads * PerThread
  <2>1. (Nthreads - 1) * PerThread + PerThread = Nthreads * PerThread
    BY <1>1
  <2> QED BY <1>1, <1>2, <2>1
<1>4. ASSUME NEW t \in Ids
      PROVE  Start(t) + PerThread <= Nthreads * PerThread
  <2>1. PICK d \in Nat : Nthreads = t + 1 + d
    BY <1>1 DEF Ids
  <2>2. Nthreads * PerThread = t * PerThread + PerThread + d * PerThread
    BY <1>1, <2>1
  <2>3. d * PerThread \in Nat /\ t * PerThread \in Nat
    BY <1>1
  <2> QED BY <1>1, <1>2, <2>2, <2>3
<1>5. Nthreads * PerThread \in Nat
  BY <1>1
<1>6. ASSUME k < Nthreads * PerThread
      PROVE  \E t \in Ids : Start(t) <= k /\ k < Start(t) + PerThread
  <2> DEFINE S == {t \in Ids : k < Start(t) + PerThread}
  <2>1. Nthreads - 1 \in S
    BY <1>1, <1>3, <1>6
  <2>2. S \subseteq Nat
    BY <1>1
  <2>3. PICK n \in S : \A m \in S : n <= m
    BY <2>1, <2>2, Least
  <2>4. n \in Ids /\ n \in Nat
    BY <1>1
  <2>5. CASE n = 0
    <3>1. Start(n) = 0
      BY <1>1, <1>2, <2>4, <2>5
    <3> QED BY <2>4, <3>1
  <2>6. CASE n > 0
    <3>1. n - 1 \in Ids /\ ~(n <= n - 1) /\ Start(n - 1) + PerThread = Start(n)
      BY <1>2, <2>4, <2>6
    <3>2. ~(k < Start(n))
      BY <2>3, <3>1
    <3>3. Start(n) <= k
      BY <1>2, <2>4, <3>2
    <3> QED BY <2>4, <3>3
  <2> QED BY <2>4, <2>5, <2>6
<1>7. ASSUME NEW t \in Ids, Start(t) <= k, k < Start(t) + PerThread
      PROVE  k < Nthreads * PerThread
  BY <1>1, <1>2, <1>4, <1>5, <1>7
<1> QED BY <1>6, <1>7

\* At the end badcnt and goodcnt have stored niters additions per thread.
LEMMA AllCounted ==
  ASSUME CInv, joined = Nthreads, prog \in Counting
  PROVE  Cardinality(StoredSums(Upto)) = Total
<1>1. PerThread \in Nat /\ Nthreads \in Nat
  BY CountersAssumption
<1>2. \A t \in Ids : Start(t) = 0 /\ Upto[t] = PerThread
  BY AllStored, <1>1 DEF Start
<1>3. StoredSums(Upto) = Ids \X (0 .. PerThread - 1)
  BY <1>1, <1>2 DEF StoredSums
<1>4. IsFiniteSet(Ids) /\ Cardinality(Ids) = Nthreads
  BY <1>1, FS_Interval DEF Ids
<1>5. IsFiniteSet(0 .. PerThread - 1) /\ Cardinality(0 .. PerThread - 1) = PerThread
  BY <1>1, FS_Interval
<1>6. Cardinality(Ids \X (0 .. PerThread - 1)) = Cardinality(Ids) * Cardinality(0 .. PerThread - 1)
  BY <1>4, <1>5, FS_Product
<1> QED BY <1>3, <1>4, <1>5, <1>6 DEF Total

LEMMA Halved ==
  ASSUME NEW c \in Nat, NEW m \in Nat, 2 * c = Sq(m)
  PROVE  c = (m * (m - 1)) \div 2
<1>1. m * (m - 1) = 2 * c
  BY DEF Sq
<1>2. (2 * c) \div 2 = c
  OBVIOUS
<1> QED BY <1>1, <1>2

\* What is in gsum, or in the elements of psum together, when all is stored.
LEMMA AllSummed ==
  ASSUME CInv, joined = Nthreads, prog \notin Counting
  PROVE  result = Total
<1>0. Nthreads * PerThread \in Nat /\ result \in Nat
  BY CountersAssumption DEF CInv, CBase, CTypes
<1>1. 2 * result = Sq(Nthreads * PerThread)
  <2>1. CASE prog \in OwnCell
    BY <2>1 DEF CInv, Results
  <2>2. CASE prog \notin OwnCell
    <3>1. prog = "psum-mutex"
      BY <2>2 DEF CInv, CBase, CTypes, Programs, OwnCell, Counting
    <3>2. \A k \in Nat : (\E t \in Ids : Start(t) <= k /\ k < Upto[t]) <=> k < Nthreads * PerThread
      BY AllStored, SharesCover DEF CInv, CBase
    <3>3. Below(Upto) = Triangle(Nthreads * PerThread)
      BY <3>2 DEF Below, Triangle
    <3>4. result = Cardinality(Below(Upto))
      BY <2>2, <3>1 DEF CInv, SharedSums, Results
    <3> QED BY <1>0, <3>3, <3>4, TriangleCount
  <2> QED BY <2>1, <2>2
<1>2. result = ((Nthreads * PerThread) * (Nthreads * PerThread - 1)) \div 2
  BY <1>0, <1>1, Halved
<1> QED BY <1>2 DEF Total

LEMMA BadCount ==
  ASSUME CInv, joined = Nthreads, prog = "badcnt", Nthreads > 1, PerThread > 1
  PROVE  result \in 2 .. Total
<1>1. prog \in Counting /\ prog \notin OwnCell /\ 0 \in Ids
  BY CountersAssumption DEF Counting, OwnCell, Ids
<1>2. result = cell[0] /\ cell[0] <= Cardinality(StoredSums(Upto)) /\ result \in Nat
  BY <1>1 DEF CInv, Results, LostUpdates, CBase, CTypes
<1>3. Cardinality(StoredSums(Upto)) = Total
  BY <1>1, AllCounted
<1>4. \A t \in Ids : ti[t] = PerThread
  <2>1. \A t \in Ids : ti[t] = 0 + PerThread
    BY <1>1, AllStored DEF Start
  <2> QED BY <2>1, CountersAssumption
<1>5. ~(cell[0] < 2)
  BY <1>4, CountersAssumption DEF CInv, LostUpdates
<1>6. Total \in Int
  <2>1. Total = Nthreads * PerThread
    BY <1>1 DEF Total
  <2> QED BY <2>1, CountersAssumption
<1> QED BY <1>2, <1>3, <1>5, <1>6

\* Whatever the number of threads and their share, and however their loads and
\* stores fall: goodcnt and the three psum programs end with the sum that main
\* checks for, and badcnt with 2 at least and the sum at most.
THEOREM SumsAreRight == CountersSpec => []ResultIsRight
<1>1. CInv => ResultIsRight
  <2> SUFFICES ASSUME CInv PROVE ResultIsRight
    OBVIOUS
  <2>1. ASSUME joined = Nthreads, prog # "badcnt"
        PROVE  result = Total
    <3>1. CASE prog \in Counting
      <4>1. prog = "goodcnt" /\ prog \notin OwnCell
        BY <2>1, <3>1 DEF Counting, OwnCell
      <4>2. result = Cardinality(StoredSums(Upto))
        BY <2>1, <4>1 DEF CInv, Results, SharedSums
      <4> QED BY <2>1, <3>1, <4>2, AllCounted
    <3>2. CASE prog \notin Counting
      BY <2>1, <3>2, AllSummed
    <3> QED BY <3>1, <3>2
  <2>2. BadCountBounds
    BY BadCount DEF BadCountBounds
  <2> QED BY <2>1, <2>2 DEF ResultIsRight, SumIsRight
<1> QED BY <1>1, CountersInvariance, PTL

-----------------------------------------------------------------------------
(* Counters: no sum on the way is above the one at the end.                *)

\* What the programs that do not use a variable leave in it, and what main has
\* read so far.
Untouched ==
  /\ prog \notin Locked => sem = 1
  /\ prog \notin OwnCell => \A t \in Ids \ {0} : cell[t] = 0
  /\ prog = "psum-local" => \A t \in Ids : tpc[t] # "returned" => cell[t] = 0
  /\ \A t \in Ids :
       tpc[t] # "store" /\ ~(prog = "psum-local" /\ tpc[t] \in {"loop", "publish"}) => treg[t] = 0
  /\ prog \notin OwnCell => result <= Total

LEMMA ShareEnds ==
  ASSUME CTypes, NEW t \in Ids
  PROVE  Start(t) + PerThread <= Nthreads * PerThread /\ Nthreads * PerThread \in Nat
<1>1. t \in Nat /\ Nthreads \in Nat /\ PerThread \in Nat /\ t < Nthreads
  BY CountersAssumption DEF Ids
<1>2. PICK d \in Nat : Nthreads = t + 1 + d
  BY <1>1
<1>3. Nthreads * PerThread = t * PerThread + PerThread + d * PerThread
  BY <1>1, <1>2
<1>4. d * PerThread \in Nat /\ t * PerThread \in Nat
  BY <1>1, <1>2
<1>5. Start(t) = 0 \/ Start(t) = t * PerThread
  BY DEF Start
<1> QED BY <1>1, <1>3, <1>4, <1>5

LEMMA SquaresGrow ==
  ASSUME NEW a \in Nat, NEW b \in Nat, a <= b
  PROVE  Sq(a) <= Sq(b)
<1>1. PICK d \in Nat : b = a + d
  <2>1. b - a \in Nat /\ b = a + (b - a)
    OBVIOUS
  <2> QED BY <2>1
<1>2. b * (b - 1) = a * (a - 1) + a * d + d * a + d * (d - 1)
  BY <1>1
<1>3. a * d \in Nat /\ d * a \in Nat
  BY <1>1
<1>4. d * (d - 1) \in Nat
  BY Squares DEF Sq
<1>5. a * (a - 1) \in Nat
  BY Squares DEF Sq
<1> QED BY <1>2, <1>3, <1>4, <1>5 DEF Sq

\* A number whose double is not above the square of all is not above the sum.
LEMMA HalfOfAll ==
  ASSUME prog \notin Counting, NEW c \in Nat, 2 * c <= Sq(Nthreads * PerThread)
  PROVE  Total \in Nat /\ c <= Total
<1>1. PICK m \in Nat : m = Nthreads * PerThread
  BY CountersAssumption
<1>2. PICK k \in Nat : 2 * k = Sq(m)
  <2>1. IsFiniteSet(Triangle(m)) /\ 2 * Cardinality(Triangle(m)) = Sq(m)
    BY TriangleCount
  <2> QED BY <2>1, FS_CardinalityType
<1>3. Total = k
  <2>1. k = (m * (m - 1)) \div 2
    BY <1>2, Halved
  <2> QED BY <1>1, <2>1 DEF Total
<1> QED BY <1>1, <1>2, <1>3

\* The additions of badcnt and goodcnt are some of niters per thread.
LEMMA CountBounded ==
  ASSUME CBase, prog \in Counting
  PROVE  Total \in Nat /\ Cardinality(StoredSums(Upto)) <= Total
<1>1. PerThread \in Nat /\ Nthreads \in Nat
  BY CountersAssumption
<1>2. Total = Nthreads * PerThread /\ Total \in Nat
  <2>1. Nthreads * PerThread \in Nat
    BY <1>1
  <2> QED BY <2>1 DEF Total
<1>3. \A t \in Ids : Start(t) = 0 /\ Upto[t] <= PerThread /\ Upto[t] \in Nat
  BY <1>1 DEF Start, Upto, CBase, Ranges, CTypes, AddingSums
<1>4. StoredSums(Upto) \subseteq Ids \X (0 .. PerThread - 1)
  BY <1>1, <1>3 DEF StoredSums
<1>5. IsFiniteSet(Ids) /\ Cardinality(Ids) = Nthreads
  BY <1>1, FS_Interval DEF Ids
<1>6. IsFiniteSet(0 .. PerThread - 1) /\ Cardinality(0 .. PerThread - 1) = PerThread
  BY <1>1, FS_Interval
<1>7. /\ IsFiniteSet(Ids \X (0 .. PerThread - 1))
      /\ Cardinality(Ids \X (0 .. PerThread - 1)) = Nthreads * PerThread
  BY <1>5, <1>6, FS_Product
<1>8. Cardinality(StoredSums(Upto)) <= Cardinality(Ids \X (0 .. PerThread - 1))
  BY <1>4, <1>7, FS_Subset
<1> QED BY <1>2, <1>7, <1>8

\* The numbers psum-mutex has added are some of all.
LEMMA SumBounded ==
  ASSUME CBase, prog = "psum-mutex"
  PROVE  2 * Cardinality(Below(Upto)) <= Sq(Nthreads * PerThread)
<1>1. PICK m \in Nat : m = Nthreads * PerThread
  BY CountersAssumption
<1>2. \A t \in Ids : Upto[t] <= m /\ Upto[t] \in Nat
  <2> SUFFICES ASSUME NEW t \in Ids PROVE Upto[t] <= m /\ Upto[t] \in Nat
    OBVIOUS
  <2>1. Start(t) + PerThread <= m /\ Start(t) \in Nat /\ PerThread \in Nat
    BY <1>1, ShareEnds, ShareFacts DEF CBase
  <2>2. ti[t] \in Nat /\ (ti[t] = 0 \/ ti[t] <= Start(t) + PerThread)
        /\ (tpc[t] = "unlock" => ti[t] < Start(t) + PerThread)
    BY DEF CBase, CTypes, Ranges, AddingSums
  <2> QED BY <2>1, <2>2 DEF Upto
<1>3. Below(Upto) \subseteq Triangle(m)
  BY <1>1, <1>2, ShareFacts DEF Below, Triangle, CBase
<1>4. IsFiniteSet(Triangle(m)) /\ 2 * Cardinality(Triangle(m)) = Sq(m)
  BY TriangleCount
<1>5. Cardinality(Below(Upto)) <= Cardinality(Triangle(m)) /\ IsFiniteSet(Below(Upto))
  BY <1>3, <1>4, FS_Subset
<1>6. PICK x, y : x = Cardinality(Below(Upto)) /\ y = Cardinality(Triangle(m))
  OBVIOUS
<1>7. x \in Nat /\ y \in Nat /\ x <= y /\ 2 * y = Sq(m)
  BY <1>4, <1>5, <1>6, FS_CardinalityType
<1> QED BY <1>1, <1>6, <1>7

\* What threads share, and what they loaded of it, is at most the sum.
LEMMA SharedBounded ==
  ASSUME CInv, prog \notin OwnCell
  PROVE  Total \in Nat /\ cell[0] <= Total /\ \A t \in Ids : tpc[t] = "store" => treg[t] <= Total
<1>0. 0 \in Ids /\ cell[0] \in Nat /\ \A t \in Ids : treg[t] \in Nat
  BY ShareFacts DEF CInv, CBase, CTypes
<1>1. CASE prog = "badcnt"
  <2>1. PICK k : k = Cardinality(StoredSums(Upto))
    OBVIOUS
  <2>2. Total \in Nat /\ k <= Total
    BY <1>1, <2>1, CountBounded DEF CInv, Counting
  <2>3. k \in Nat /\ cell[0] <= k /\ \A t \in Ids : tpc[t] = "store" => treg[t] <= k
    BY <1>1, <2>1, FS_CardinalityType DEF CInv, LostUpdates
  <2> QED BY <1>0, <2>2, <2>3
<1>2. CASE prog = "goodcnt"
  <2>1. Total \in Nat /\ cell[0] <= Total
    BY <1>2, CountBounded DEF CInv, Counting, SharedSums
  <2> QED BY <1>2, <2>1 DEF CInv, CBase, OneInside, Locked
<1>3. CASE prog = "psum-mutex"
  <2>1. 2 * cell[0] <= Sq(Nthreads * PerThread)
    BY <1>3, SumBounded DEF CInv, SharedSums
  <2>2. Total \in Nat /\ cell[0] <= Total
    BY <1>0, <1>3, <2>1, HalfOfAll DEF Counting
  <2> QED BY <1>3, <2>2 DEF CInv, CBase, OneInside, Locked
<1> QED BY <1>1, <1>2, <1>3 DEF CInv, CBase, CTypes, Programs, OwnCell

LEMMA TwiceBounded ==
  ASSUME CBase, NEW t \in Ids, NEW c \in Nat, 2 * c = Twice(t, ti[t]),
         ti[t] <= Start(t) + PerThread
  PROVE  2 * c <= Sq(Nthreads * PerThread)
<1>1. PICK m \in Nat : m = Nthreads * PerThread
  BY CountersAssumption
<1>2. ti[t] \in Nat /\ ti[t] <= m
  BY <1>1, ShareEnds, ShareFacts DEF CBase, CTypes
<1>3. Sq(ti[t]) <= Sq(m) /\ Sq(ti[t]) \in Nat /\ Sq(m) \in Nat /\ Sq(Start(t)) \in Nat
  BY <1>2, SquaresGrow, Squares, ShareFacts DEF CBase
<1> QED BY <1>1, <1>3 DEF Twice

LEMMA UntouchedStep ==
  ASSUME CInv, Untouched, NEW t \in Ids, ThreadSteps(t)
  PROVE  Untouched'
<1>1. prog' = prog /\ result' = result /\ joined' = joined /\ Total' = Total
  BY Zenon DEF ThreadSteps, Begin, LoopHead, LoadCell, StoreCell, UnlockCell, AddLocal, LoopEnd, Publish, Moves, Total
<1>2. CTypes /\ Cell(t) \in Ids /\ (prog \in OwnCell => Cell(t) = t) /\ (prog \notin OwnCell => Cell(t) = 0)
  BY ShareFacts DEF CInv, CBase, Cell
<1>3. /\ tpc[t] = "unlock" => prog \in Locked
      /\ tpc[t] \in AddingSums => prog # "psum-local"
      /\ tpc[t] = "publish" => prog = "psum-local"
  BY DEF CInv, CBase, Ranges
<1>4. prog \notin Locked => sem' = 1
  BY <1>3 DEF Untouched, ThreadSteps, Begin, LoopHead, LoadCell, StoreCell, UnlockCell, AddLocal, LoopEnd, Publish,
              Moves
<1>5. \A u \in Ids : u # Cell(t) \/ tpc[t] \notin {"store", "publish"} => cell'[u] = cell[u]
  BY <1>2 DEF CTypes, ThreadSteps, Begin, LoopHead, LoadCell, StoreCell, UnlockCell, AddLocal, LoopEnd, Publish,
              Moves
<1>6. \A u \in Ids : u # t => tpc'[u] = tpc[u] /\ treg'[u] = treg[u]
  BY <1>2 DEF CTypes, ThreadSteps, Begin, LoopHead, LoadCell, StoreCell, UnlockCell, AddLocal, LoopEnd, Publish,
              Moves
<1>7. /\ tpc'[t] # "store" /\ ~(prog = "psum-local" /\ tpc'[t] \in {"loop", "publish"}) => treg'[t] = 0
      /\ tpc[t] = "publish" => tpc'[t] = "returned"
      /\ tpc[t] # "returned"
  <2>1. CASE Begin(t)
    BY <1>2, <2>1 DEF CTypes, Begin, Moves
  <2>2. CASE LoopHead(t)
    BY <1>2, <2>2 DEF CTypes, LoopHead, Moves
  <2>3. CASE LoadCell(t)
    BY <1>2, <2>3 DEF CTypes, LoadCell, Moves
  <2>4. CASE StoreCell(t)
    BY <1>2, <2>4 DEF CTypes, StoreCell, Moves
  <2>5. CASE UnlockCell(t)
    BY <1>2, <2>5 DEF CTypes, UnlockCell, Moves
  <2>6. CASE AddLocal(t)
    BY <1>2, <2>6 DEF CTypes, AddLocal, Moves
  <2>7. CASE LoopEnd(t)
    <3>1. /\ tpc[t] = "loop" /\ treg'[t] = treg[t]
          /\ tpc'[t] = IF prog = "psum-local" THEN "publish" ELSE "returned"
      BY <1>2, <2>7 DEF CTypes, LoopEnd, Moves
    <3> QED BY <3>1 DEF Untouched
  <2>8. CASE Publish(t)
    BY <1>2, <2>8 DEF CTypes, Publish, Moves
  <2> QED BY <2>1, <2>2, <2>3, <2>4, <2>5, <2>6, <2>7, <2>8 DEF ThreadSteps
<1>8. prog \notin OwnCell => \A u \in Ids \ {0} : cell'[u] = 0
  BY <1>2, <1>5 DEF Untouched
<1>9. prog = "psum-local" => \A u \in Ids : tpc'[u] # "returned" => cell'[u] = 0
  <2> SUFFICES ASSUME prog = "psum-local", NEW u \in Ids, tpc'[u] # "returned" PROVE cell'[u] = 0
    OBVIOUS
  <2>1. tpc[u] # "returned"
    BY <1>6, <1>7
  <2>2. tpc[t] # "store" /\ Cell(t) = t
    BY <1>2, <1>3 DEF AddingSums, OwnCell
  <2>3. cell'[u] = cell[u]
    BY <1>5, <1>7, <2>2
  <2> QED BY <2>1, <2>3 DEF Untouched
<1>10. \A u \in Ids : tpc'[u] # "store" /\ ~(prog = "psum-local" /\ tpc'[u] \in {"loop", "publish"}) => treg'[u] = 0
  BY <1>6, <1>7 DEF Untouched
<1> QED BY <1>1, <1>4, <1>8, <1>9, <1>10 DEF Untouched

LEMMA UntouchedInvariance == CountersSpec => []Untouched
<1>1. ASSUME CountersInit PROVE Untouched
  <2>1. CInv
    BY <1>1, CountersInitially
  <2>2. prog \notin OwnCell => Total \in Nat
    BY <2>1, SharedBounded
  <2> QED BY <1>1, <2>2 DEF CountersInit, Untouched
<1>2. ASSUME CInv, Untouched, [CountersNext]_counterVars PROVE Untouched'
  <2>1. CASE UNCHANGED counterVars
    BY <1>2, <2>1 DEF counterVars, Untouched, Total
  <2>2. CASE Join
    <3>1. prog' = prog /\ cell' = cell /\ tpc' = tpc /\ treg' = treg /\ sem' = sem /\ Total' = Total
      BY <2>2 DEF Join, Total
    <3>2. prog \notin OwnCell => result' <= Total
      BY <1>2, <2>2, SharedBounded DEF Join
    <3> QED BY <1>2, <3>1, <3>2 DEF Untouched
  <2>3. CASE \E t \in Ids : ThreadSteps(t)
    BY <1>2, <2>3, UntouchedStep
  <2> QED BY <1>2, <2>1, <2>2, <2>3 DEF CountersNext, ThreadSteps
<1> QED BY <1>1, <1>2, CountersInvariance, PTL DEF CountersSpec

\* With memory of its own for each thread, no part is above the sum.
LEMMA OwnBounded ==
  ASSUME CInv, Untouched, prog \in OwnCell
  PROVE  /\ Total \in Nat /\ result <= Total
         /\ \A t \in Ids : cell[t] <= Total /\ treg[t] <= Total
<1>1. prog \notin Counting
  BY DEF Counting, OwnCell
<1>2. PICK m \in Nat : m = Nthreads * PerThread
  BY CountersAssumption
<1>3. PICK k \in Nat : 2 * k <= Sq(m)
  <2>1. PICK x \in Nat : x = Sq(m)
    BY Squares
  <2>2. 2 * 0 <= x /\ 0 \in Nat
    BY <2>1
  <2> QED BY <2>1, <2>2
<1>4. Total \in Nat
  BY <1>1, <1>2, <1>3, HalfOfAll
<1>5. ASSUME NEW t \in Ids PROVE cell[t] <= Total /\ treg[t] <= Total
  <2>1. cell[t] \in Nat /\ treg[t] \in Nat /\ (tpc[t] # "start" => ti[t] <= Start(t) + PerThread)
    BY DEF CInv, CBase, CTypes, Ranges
  <2>2. CASE prog = "psum-array"
    <3>1. cell[t] = 0 \/ 2 * cell[t] <= Sq(Nthreads * PerThread)
      BY <2>1, <2>2, TwiceBounded DEF CInv, OwnSums
    <3>2. cell[t] <= Total
      BY <1>1, <1>4, <2>1, <3>1, HalfOfAll
    <3>3. treg[t] = 0 \/ treg[t] = cell[t]
      BY <2>2 DEF CInv, OwnSums, Untouched
    <3> QED BY <1>4, <3>2, <3>3
  <2>3. CASE prog = "psum-local"
    <3>1. cell[t] = 0 \/ 2 * cell[t] <= Sq(Nthreads * PerThread)
      BY <2>1, <2>3, TwiceBounded DEF CInv, OwnSums, Untouched
    <3>2. treg[t] = 0 \/ 2 * treg[t] <= Sq(Nthreads * PerThread)
      <4>1. CASE tpc[t] \in {"loop", "publish"}
        BY <2>1, <2>3, <4>1, TwiceBounded DEF CInv, OwnSums
      <4>2. CASE tpc[t] \notin {"loop", "publish", "store"}
        BY <2>3, <4>2 DEF Untouched
      <4>3. tpc[t] # "store"
        BY <2>3 DEF CInv, CBase, Ranges, AddingSums
      <4> QED BY <4>1, <4>2, <4>3
    <3> QED BY <1>1, <1>4, <2>1, <3>1, <3>2, HalfOfAll
  <2> QED BY <2>2, <2>3 DEF OwnCell
<1>6. result <= Total
  <2>1. result \in Nat /\ 2 * result = Sq(joined * PerThread) /\ joined \in Nat /\ joined <= Nthreads
    BY CountersAssumption DEF CInv, CBase, CTypes, Results
  <2>2. joined * PerThread \in Nat /\ joined * PerThread <= m
    <3>1. PerThread \in Nat /\ Nthreads \in Nat
      BY CountersAssumption
    <3>2. PICK d \in Nat : Nthreads = joined + d
      <4>1. Nthreads - joined \in Nat /\ Nthreads = joined + (Nthreads - joined)
        BY <2>1, <3>1
      <4> QED BY <4>1
    <3>3. m = joined * PerThread + d * PerThread
      BY <1>2, <2>1, <3>1, <3>2
    <3>4. d * PerThread \in Nat /\ joined * PerThread \in Nat
      BY <2>1, <3>1, <3>2
    <3> QED BY <3>3, <3>4
  <2>3. Sq(joined * PerThread) <= Sq(m)
    BY <2>2, SquaresGrow
  <2> QED BY <1>1, <1>2, <2>1, <2>3, HalfOfAll
<1> QED BY <1>4, <1>5, <1>6

\* However the threads' loads and stores fall, the counters and sums on the way,
\* the copies in registers and what main has read are never above the sum that
\* main compares with at the end.
THEOREM SumsStayBelow == CountersSpec => []CountersTypeOK
<1>1. ASSUME CInv, Untouched PROVE CountersTypeOK
  <2>0. CTypes /\ Nthreads * PerThread \in Nat
    BY <1>1, CountersAssumption DEF CInv, CBase
  <2>1. /\ Total \in Nat /\ result <= Total
        /\ \A t \in Ids : cell[t] <= Total /\ treg[t] <= Total
    <3>1. CASE prog \in OwnCell
      BY <1>1, <3>1, OwnBounded
    <3>2. CASE prog \notin OwnCell
      <4>1. Total \in Nat /\ cell[0] <= Total /\ \A t \in Ids : tpc[t] = "store" => treg[t] <= Total
        BY <1>1, <3>2, SharedBounded
      <4>2. result <= Total /\ \A t \in Ids : t # 0 => cell[t] = 0
        BY <1>1, <3>2 DEF Untouched
      <4>3. \A t \in Ids : tpc[t] # "store" => treg[t] = 0
        BY <1>1, <3>2 DEF Untouched, OwnCell
      <4> QED BY <4>1, <4>2, <4>3
    <3> QED BY <3>1, <3>2
  <2>2. sem \in 0 .. 1
    BY <1>1 DEF CInv, CBase, OneInside, Untouched
  <2>3. ASSUME NEW t \in Ids PROVE ti[t] \in 0 .. Nthreads * PerThread
    <3>1. ti[t] \in Nat /\ (ti[t] = 0 \/ ti[t] <= Start(t) + PerThread) /\ Start(t) + PerThread \in Nat
      BY <1>1, <2>0, ShareFacts DEF CInv, CBase, CTypes, Ranges
    <3>2. Start(t) + PerThread <= Nthreads * PerThread
      BY <2>0, ShareEnds
    <3> QED BY <2>0, <3>1, <3>2
  <2>4. cell \in [Ids -> 0 .. Total] /\ treg \in [Ids -> 0 .. Total] /\ result \in 0 .. Total
    BY <2>0, <2>1 DEF CTypes
  <2>5. ti \in [Ids -> 0 .. Nthreads * PerThread]
    BY <2>0, <2>3 DEF CTypes
  <2> QED BY <2>0, <2>2, <2>4, <2>5 DEF CTypes, CountersTypeOK
<1> QED BY <1>1, CountersInvariance, UntouchedInvariance, PTL

-----------------------------------------------------------------------------
(* EchoPool.                                                               *)

LEMMA LeastExists ==
  ASSUME NEW S, S \subseteq Nat, S # {}
  PROVE  Min(S) \in S /\ \A y \in S : Min(S) <= y
<1>1. \E x \in S : \A y \in S : x <= y
  BY Least
<1>2. Min(S) = CHOOSE m \in S : \A y \in S : m <= y
  BY Zenon DEF Min
<1> QED BY <1>1, <1>2

LEMMA Larger ==
  ASSUME NEW a \in Int, NEW b \in Int
  PROVE  LET m == Max({a, b}) IN m \in {a, b} /\ a <= m /\ b <= m
<1>1. Max({a, b}) = CHOOSE x \in {a, b} : \A y \in {a, b} : x >= y
  BY Zenon DEF Max
<1>2. \E x \in {a, b} : \A y \in {a, b} : x >= y
  <2>1. CASE a >= b  BY <2>1
  <2>2. CASE b >= a  BY <2>2
  <2> QED BY <2>1, <2>2
<1> QED BY <1>1, <1>2

\* The slots from k on whose descriptor is in ready.
ToServe(fds, ready, k) == {x \in SlotIds : x >= k /\ fds[x] \in ready}

\* The pool as select finds it: PoolAgrees but for what is left to serve.
PoolMatches ==
  /\ Pooled = conns /\ read_set = conns \cup {LISTENFD}
  /\ \A x, y \in SlotIds : clientfd[x] = clientfd[y] /\ x # y => clientfd[x] = -1
  /\ \A x \in SlotIds : clientfd[x] # -1 => x <= maxi /\ clientfd[x] <= maxfd

\* Between the select and the checks every reported descriptor is still watched.
StillWatched ==
  where = "accept" => ready_set \subseteq read_set /\ nready = Cardinality(ready_set)

PoolInv == PoolTypeOK /\ StillWatched /\ (where # "exited" => PoolMatches /\ ReportedAreServed)

LEMMA FdFacts ==
  /\ LISTENFD \notin Fds /\ -1 \notin Fds /\ Fds \subseteq Nat /\ IsFiniteSet(SlotIds)
  /\ IsFiniteSet(Fds \cup {LISTENFD}) /\ Cardinality(Fds \cup {LISTENFD}) = Cardinality(Fds) + 1
  /\ Cardinality(Fds) \in Nat /\ SlotIds \subseteq Nat
<1>1. LISTENFD \notin Fds /\ -1 \notin Fds /\ Fds \subseteq Nat /\ SlotIds \subseteq Nat
  BY PoolAssumption DEF LISTENFD, SlotIds
<1>2. IsFiniteSet(Fds) /\ Cardinality(Fds) \in Nat
  BY PoolAssumption, FS_CardinalityType
<1>3. IsFiniteSet(Fds \cup {LISTENFD}) /\ Cardinality(Fds \cup {LISTENFD}) = Cardinality(Fds) + 1
  BY <1>1, <1>2, FS_AddElement
<1>4. IsFiniteSet(SlotIds)
  BY PoolAssumption, FS_Interval DEF SlotIds
<1> QED BY <1>1, <1>2, <1>3, <1>4

\* check_clients goes on by one slot.
LEMMA OneSlotOn ==
  ASSUME NEW fds, NEW ready, NEW k \in SlotIds
  PROVE  /\ Cardinality(ToServe(fds, ready, k + 1)) \in Nat
         /\ fds[k] \in ready => Cardinality(ToServe(fds, ready, k)) = Cardinality(ToServe(fds, ready, k + 1)) + 1
         /\ fds[k] \notin ready => ToServe(fds, ready, k) = ToServe(fds, ready, k + 1)
<1>0. \A x \in SlotIds : x >= k <=> x = k \/ x >= k + 1
  BY PoolAssumption DEF SlotIds
<1>1. ToServe(fds, ready, k + 1) \subseteq SlotIds /\ k \notin ToServe(fds, ready, k + 1)
  BY PoolAssumption DEF ToServe, SlotIds
<1>2. IsFiniteSet(ToServe(fds, ready, k + 1)) /\ Cardinality(ToServe(fds, ready, k + 1)) \in Nat
  BY <1>1, FdFacts, FS_Subset, FS_CardinalityType
<1>3. ASSUME fds[k] \in ready
      PROVE  ToServe(fds, ready, k) = ToServe(fds, ready, k + 1) \cup {k}
  BY <1>0, <1>3 DEF ToServe
<1>4. ASSUME fds[k] \notin ready
      PROVE  ToServe(fds, ready, k) = ToServe(fds, ready, k + 1)
  BY <1>0, <1>4 DEF ToServe
<1> QED BY <1>1, <1>2, <1>3, <1>4, FS_AddElement

\* As many slots are to be served as there are descriptors of clients in ready.
LEMMA SlotPerFd ==
  ASSUME NEW fds \in [SlotIds -> Fds \cup {-1}], NEW ready,
         \A x, y \in SlotIds : fds[x] = fds[y] /\ x # y => fds[x] = -1,
         ready \subseteq Fds, \A f \in ready : \E x \in SlotIds : fds[x] = f
  PROVE  Cardinality(ToServe(fds, ready, 0)) = Cardinality(ready)
<1> DEFINE T == ToServe(fds, ready, 0)
           g == [x \in T |-> fds[x]]
<1>1. IsFiniteSet(T)
  <2>1. T \subseteq SlotIds  BY DEF ToServe
  <2> QED BY <2>1, FdFacts, FS_Subset
<1>2. g \in Bijection(T, ready)
  <2>1. g \in [T -> ready]
    BY DEF ToServe
  <2>2. \A x, y \in T : g[x] = g[y] => x = y
    BY FdFacts DEF ToServe
  <2>3. \A f \in ready : \E x \in T : g[x] = f
    BY FdFacts DEF ToServe
  <2> QED BY <2>1, <2>2, <2>3 DEF Bijection, Injection, Surjection, IsInjective
<1> QED BY <1>1, <1>2, FS_Bijection DEF ExistsBijection

LEMMA PoolInitially == init_pool => PoolInv
<1> SUFFICES ASSUME init_pool PROVE PoolInv
  OBVIOUS
<1> USE DEF init_pool
<1>1. PoolTypeOK
  <2>1. /\ 0 \in 0 .. Cardinality(Fds) + 1 /\ 0 \in 0 .. Slots /\ 0 \in 0 .. MaxLines
        /\ -1 \in -1 .. Slots - 1
    BY FdFacts, PoolAssumption
  <2> QED BY <2>1 DEF PoolTypeOK
<1>2. PoolMatches
  BY DEF PoolMatches, Pooled
<1> QED BY <1>1, <1>2 DEF PoolInv, StillWatched, ReportedAreServed

\* What the clients do does not concern the pool.
LEMMA ClientsKeepPool ==
  ASSUME PoolInv, PoolTypeOK', UNCHANGED <<pool, where, slot, conns>>
  PROVE  PoolInv'
  BY DEF PoolInv, PoolMatches, Pooled, StillWatched, ReportedAreServed, pool

LEMMA ClientStep ==
  ASSUME PoolInv, Knock \/ \E f \in Fds : SendPart(f) \/ SendLine(f) \/ HangUp(f)
  PROVE  PoolInv'
<1>1. PoolTypeOK
  BY DEF PoolInv
<1>2. CASE Knock
  BY <1>1, <1>2, ClientsKeepPool DEF Knock, PoolTypeOK, pool, clientSide
<1>3. ASSUME NEW f \in Fds, SendPart(f) \/ SendLine(f) \/ HangUp(f)
      PROVE  PoolInv'
  <2>1. lines' \in [Fds -> 0 .. MaxLines]
    <3>1. \A k \in 0 .. MaxLines : k < MaxLines => k + 1 \in 0 .. MaxLines
      BY PoolAssumption
    <3> QED BY <1>1, <1>3, <3>1 DEF PoolTypeOK, SendPart, SendLine, HangUp
  <2>2. part' \in [Fds -> BOOLEAN] /\ hungup' \in [Fds -> BOOLEAN]
    BY <1>1, <1>3 DEF PoolTypeOK, SendPart, SendLine, HangUp
  <2>3. UNCHANGED <<pool, where, slot, knocking, conns>>
    BY <1>3 DEF SendPart, SendLine, HangUp
  <2> QED BY <1>1, <2>1, <2>2, <2>3, ClientsKeepPool DEF PoolTypeOK, pool
<1> QED BY <1>2, <1>3

LEMMA SelectStep ==
  ASSUME PoolInv, Select
  PROVE  PoolInv'
<1> USE DEF PoolInv, Select
<1>1. Ready \subseteq read_set /\ Ready \subseteq Fds \cup {LISTENFD}
  BY DEF Ready, PoolTypeOK
<1>2. Cardinality(Ready) \in 0 .. Cardinality(Fds) + 1
  <2>1. IsFiniteSet(Ready) /\ Cardinality(Ready) <= Cardinality(Fds \cup {LISTENFD})
    BY <1>1, FdFacts, FS_Subset
  <2> QED BY <2>1, FdFacts, FS_CardinalityType
<1>3. PoolTypeOK'
  BY <1>1, <1>2 DEF PoolTypeOK, clientSide
<1> QED BY <1>1, <1>3 DEF StillWatched, PoolMatches, Pooled, ReportedAreServed

LEMMA NoNewClientStep ==
  ASSUME PoolInv, NoNewClient
  PROVE  PoolInv'
<1> USE DEF PoolInv, NoNewClient
<1>1. PoolTypeOK'
  BY PoolAssumption DEF PoolTypeOK, clientSide, pool
<1>2. Cardinality(ToServe(clientfd, ready_set, 0)) = Cardinality(ready_set)
  <2>1. ready_set \subseteq conns
    BY DEF StillWatched, PoolMatches
  <2>2. ready_set \subseteq Fds /\ \A f \in ready_set : \E x \in SlotIds : clientfd[x] = f
    BY <2>1 DEF PoolMatches, Pooled, PoolTypeOK
  <2> QED BY <2>2, SlotPerFd DEF PoolMatches, PoolTypeOK
<1>3. nready' = Cardinality(ready_set)
  BY DEF StillWatched, pool
<1> QED BY <1>1, <1>2, <1>3 DEF StillWatched, PoolMatches, Pooled, ReportedAreServed, ToServe, pool

LEMMA AcceptStep ==
  ASSUME PoolInv, AcceptClient
  PROVE  PoolInv'
<1> DEFINE f == Min(Fds \ conns)
           x == Min(FreeSlots)
<1>1. f \in Fds /\ f \notin conns
  <2>1. Fds \ conns \subseteq Nat /\ Fds \ conns # {}
    BY FdFacts DEF AcceptClient, PoolInv, PoolTypeOK
  <2> QED BY <2>1, LeastExists
<1>2. PoolMatches /\ StillWatched /\ where = "accept" /\ LISTENFD \in ready_set /\ PoolTypeOK
  BY DEF PoolInv, AcceptClient
<1>3. /\ conns' = conns \cup {f} /\ nready' = nready - 1 /\ slot' = 0 /\ ready_set' = ready_set
      /\ where' \in {"check", "exited"}
  BY DEF AcceptClient, AfterAccept
<1>4. Cardinality(ready_set \ {LISTENFD}) = nready - 1 /\ nready - 1 \in Nat /\ nready \in Nat
  <2>1. IsFiniteSet(ready_set)
    BY <1>2, FdFacts, FS_Subset DEF PoolTypeOK
  <2>2. nready = Cardinality(ready_set)
    BY <1>2 DEF StillWatched
  <2>3. /\ IsFiniteSet(ready_set \ {LISTENFD})
        /\ Cardinality(ready_set \ {LISTENFD}) = Cardinality(ready_set) - 1
    BY <1>2, <2>1, FS_RemoveElement
  <2>4. Cardinality(ready_set \ {LISTENFD}) \in Nat /\ Cardinality(ready_set) \in Nat
    BY <2>1, <2>3, FS_CardinalityType
  <2> QED BY <2>2, <2>3, <2>4
<1>5. lines' \in [Fds -> 0 .. MaxLines] /\ part' \in [Fds -> BOOLEAN] /\ hungup' \in [Fds -> BOOLEAN]
  <2>1. 0 \in 0 .. MaxLines
    BY PoolAssumption
  <2> QED BY <1>2, <2>1 DEF AcceptClient, PoolTypeOK
<1>6. nready' \in 0 .. Cardinality(Fds) + 1 /\ slot' \in 0 .. Slots
  BY <1>2, <1>3, <1>4, FdFacts, PoolAssumption DEF PoolTypeOK
<1>7. knocking' = FALSE
  BY DEF AcceptClient
<1> HIDE DEF f, x
<1>8. CASE FreeSlots = {}
  <2>1. where' = "exited" /\ UNCHANGED <<clientfd, read_set, maxi, maxfd>>
    BY <1>8 DEF AcceptClient
  <2>2. PoolTypeOK'
    BY <1>1, <1>2, <1>3, <1>5, <1>6, <1>7, <2>1 DEF PoolTypeOK
  <2> QED BY <2>1, <2>2 DEF PoolInv, StillWatched
<1>9. CASE FreeSlots # {}
  <2>1. Added(f, x) /\ where' = "check"
    BY <1>9 DEF AcceptClient, f, x
  <2>2. x \in SlotIds /\ clientfd[x] = -1
    <3>1. FreeSlots \subseteq Nat
      BY FdFacts DEF FreeSlots
    <3>2. x \in FreeSlots
      BY <1>9, <3>1, LeastExists DEF x
    <3>3. x \in SlotIds /\ clientfd[x] < 0
      BY <3>2 DEF FreeSlots
    <3>4. clientfd[x] \in Fds \cup {-1}
      BY <1>2, <3>3 DEF PoolTypeOK
    <3>5. \A g \in Fds : ~(g < 0)
      BY PoolAssumption
    <3> QED BY <3>3, <3>4, <3>5
  <2>3. /\ maxfd \in Int /\ f \in Int /\ maxi \in Int /\ x \in Int
        /\ maxi \in -1 .. Slots - 1 /\ x \in -1 .. Slots - 1
    BY <1>1, <1>2, <2>2, FdFacts, PoolAssumption DEF PoolTypeOK, SlotIds, LISTENFD
  <2>4. maxfd' \in {maxfd, f} /\ maxfd <= maxfd' /\ f <= maxfd'
    BY <2>1, <2>3, Larger DEF Added
  <2>5. maxi' \in {maxi, x} /\ maxi <= maxi' /\ x <= maxi'
    BY <2>1, <2>3, Larger DEF Added
  <2>6. /\ clientfd' \in [SlotIds -> Fds \cup {-1}] /\ clientfd'[x] = f
        /\ \A y \in SlotIds \ {x} : clientfd'[y] = clientfd[y]
        /\ read_set' = read_set \cup {f}
    BY <1>1, <1>2, <2>1, <2>2 DEF Added, PoolTypeOK
  <2>7. PoolTypeOK'
    BY <1>1, <1>2, <1>3, <1>5, <1>6, <1>7, <2>1, <2>3, <2>4, <2>5, <2>6 DEF PoolTypeOK
  <2>8. PoolMatches'
    <3>1. Pooled' = conns'
      BY <1>1, <1>2, <1>3, <2>2, <2>6, FdFacts DEF PoolMatches, Pooled
    <3>2. read_set' = conns' \cup {LISTENFD}
      BY <1>2, <1>3, <2>6 DEF PoolMatches
    <3>3. \A y \in SlotIds : clientfd[y] # f
      BY <1>1, <1>2, FdFacts DEF PoolMatches, Pooled
    <3>4. \A y, z \in SlotIds : clientfd'[y] = clientfd'[z] /\ y # z => clientfd'[y] = -1
      BY <1>2, <2>6, <3>3 DEF PoolMatches
    <3>5. ASSUME NEW y \in SlotIds, clientfd'[y] # -1
          PROVE  y <= maxi' /\ clientfd'[y] <= maxfd'
      <4>1. CASE y = x
        BY <2>4, <2>5, <2>6, <4>1
      <4>2. CASE y # x
        <5>1. y <= maxi /\ clientfd[y] <= maxfd /\ clientfd'[y] = clientfd[y] /\ clientfd[y] \in Fds
          BY <1>2, <2>6, <3>5, <4>2 DEF PoolMatches, PoolTypeOK
        <5>2. clientfd[y] \in Int /\ y \in Int
          <6>1. \A g \in Fds : g \in Int
            BY PoolAssumption
          <6>2. \A z \in SlotIds : z \in Int
            BY PoolAssumption DEF SlotIds
          <6> QED BY <5>1, <6>1, <6>2
        <5>3. maxi' \in Int /\ maxfd' \in Int
          BY <2>3, <2>4, <2>5
        <5> QED BY <2>3, <2>4, <2>5, <5>1, <5>2, <5>3
      <4> QED BY <4>1, <4>2
    <3> QED BY <3>1, <3>2, <3>4, <3>5 DEF PoolMatches
  <2>9. ReportedAreServed'
    <3> DEFINE R == ready_set \ {LISTENFD}
    <3>1. R \subseteq conns
      BY <1>2 DEF StillWatched, PoolMatches
    <3>2. R \subseteq Fds /\ \A g \in R : \E y \in SlotIds : clientfd[y] = g
      BY <1>2, <3>1 DEF PoolMatches, Pooled, PoolTypeOK
    <3>3. Cardinality(ToServe(clientfd, R, 0)) = Cardinality(R)
      BY <1>2, <3>2, SlotPerFd DEF PoolMatches, PoolTypeOK
    <3>4. f \notin ready_set /\ -1 \notin ready_set
      BY <1>1, <1>2, FdFacts DEF StillWatched, PoolMatches, PoolTypeOK, LISTENFD
    <3>5. \A y \in SlotIds : clientfd[y] \in R <=> clientfd'[y] \in ready_set
      BY <1>2, <2>2, <2>6, <3>4, FdFacts DEF PoolTypeOK, LISTENFD
    <3>6. {y \in SlotIds : y >= slot' /\ clientfd'[y] \in ready_set'} = ToServe(clientfd, R, 0)
      BY <1>3, <3>5 DEF ToServe
    <3> QED BY <1>3, <1>4, <3>3, <3>6 DEF ReportedAreServed
  <2> QED BY <2>1, <2>7, <2>8, <2>9 DEF PoolInv, StillWatched
<1> QED BY <1>8, <1>9

\* A step of check_clients over a slot that is not reported, or is served.
LEMMA CheckFacts ==
  ASSUME PoolInv, Checking
  PROVE  /\ PoolTypeOK /\ PoolMatches /\ ReportedAreServed /\ where = "check"
         /\ slot \in SlotIds /\ slot + 1 \in 0 .. Slots /\ slot + 1 # slot
         /\ nready - 1 \in 0 .. Cardinality(Fds) + 1
         /\ fd \in Fds \cup {-1}
<1>1. PoolTypeOK /\ PoolMatches /\ ReportedAreServed /\ where = "check"
  BY DEF PoolInv, Checking
<1>2. slot \in SlotIds /\ slot + 1 \in 0 .. Slots /\ slot + 1 # slot
  BY <1>1, PoolAssumption DEF Checking, PoolTypeOK, SlotIds
<1>3. nready - 1 \in 0 .. Cardinality(Fds) + 1
  BY <1>1, FdFacts DEF Checking, PoolTypeOK
<1> QED BY <1>1, <1>2, <1>3 DEF fd, PoolTypeOK

\* The count of what is left goes down with the slot.
LEMMA CountedOff ==
  ASSUME PoolInv, Checking, NEW fds, \A x \in SlotIds : x # slot => fds[x] = clientfd[x]
  PROVE  /\ clientfd[slot] \in ready_set => nready - 1 = Cardinality(ToServe(fds, ready_set, slot + 1))
         /\ clientfd[slot] \notin ready_set => nready = Cardinality(ToServe(fds, ready_set, slot + 1))
<1>1. slot \in SlotIds /\ nready = Cardinality(ToServe(clientfd, ready_set, slot))
  BY CheckFacts DEF ReportedAreServed, ToServe
<1>2. ToServe(fds, ready_set, slot + 1) = ToServe(clientfd, ready_set, slot + 1)
  <2>1. \A x \in SlotIds : x >= slot + 1 => x # slot
    BY <1>1, PoolAssumption DEF SlotIds
  <2> QED BY <2>1 DEF ToServe
<1>3. /\ Cardinality(ToServe(clientfd, ready_set, slot + 1)) \in Nat
      /\ clientfd[slot] \in ready_set => nready = Cardinality(ToServe(clientfd, ready_set, slot + 1)) + 1
      /\ clientfd[slot] \notin ready_set => nready = Cardinality(ToServe(clientfd, ready_set, slot + 1))
  BY <1>1, OneSlotOn
<1> QED BY <1>2, <1>3

LEMMA NotReadyStep ==
  ASSUME PoolInv, NotReady
  PROVE  PoolInv'
<1>1. Checking
  BY DEF NotReady
<1>2. clientfd[slot] \notin ready_set
  <2>1. -1 \notin ready_set /\ \A f \in Fds : f > 0
    BY CheckFacts, <1>1, PoolAssumption DEF PoolTypeOK, LISTENFD
  <2> QED BY <1>1, <2>1, CheckFacts DEF NotReady, fd
<1>3. PoolTypeOK'
  BY <1>1, CheckFacts DEF NotReady, PoolTypeOK, pool, clientSide
<1>4. ReportedAreServed'
  BY <1>1, <1>2, CountedOff DEF NotReady, ReportedAreServed, ToServe, pool
<1> QED BY <1>1, <1>3, <1>4, CheckFacts DEF NotReady, PoolInv, PoolMatches, Pooled, StillWatched, pool

\* A client is served and stays.
LEMMA ServedStep ==
  ASSUME PoolInv, EchoLine \/ EchoRest
  PROVE  PoolInv'
<1>1. Checking /\ fd \in ready_set /\ nready' = nready - 1 /\ slot' = slot + 1 /\ fd > 0
  BY DEF EchoLine, EchoRest
<1>2. UNCHANGED <<clientfd, read_set, ready_set, maxi, maxfd, where, knocking, conns, hungup>>
  BY DEF EchoLine, EchoRest
<1>3. lines' \in [Fds -> 0 .. MaxLines]
  <2>1. CASE EchoRest
    BY <1>1, <2>1, CheckFacts DEF EchoRest, PoolTypeOK
  <2>2. CASE EchoLine
    <3>1. PICK m \in 1 .. lines[fd] : lines' = [lines EXCEPT ![fd] = @ - m]
      BY <2>2 DEF EchoLine
    <3>2. fd \in Fds
      BY <1>1, CheckFacts
    <3>3. lines \in [Fds -> 0 .. MaxLines]
      BY <1>1, CheckFacts DEF PoolTypeOK
    <3>4. lines[fd] - m \in 0 .. MaxLines
      BY <3>2, <3>3, PoolAssumption
    <3> QED BY <3>1, <3>3, <3>4
  <2> QED BY <2>1, <2>2
<1>4. part' \in [Fds -> BOOLEAN]
  <2>1. part \in [Fds -> BOOLEAN] /\ fd \in Fds
    BY <1>1, CheckFacts DEF PoolTypeOK
  <2>2. \E rest \in BOOLEAN : part' = [part EXCEPT ![fd] = rest]
    BY <2>1 DEF EchoLine, EchoRest
  <2> QED BY <2>1, <2>2
<1>5. PoolTypeOK'
  BY <1>1, <1>2, <1>3, <1>4, CheckFacts DEF PoolTypeOK
<1>6. ReportedAreServed'
  BY <1>1, <1>2, CountedOff DEF fd, ReportedAreServed, ToServe
<1> QED BY <1>1, <1>2, <1>5, <1>6, CheckFacts DEF PoolInv, PoolMatches, Pooled, StillWatched

LEMMA CloseStep ==
  ASSUME PoolInv, CloseClient
  PROVE  PoolInv'
<1>1. /\ Checking /\ fd \in ready_set /\ nready' = nready - 1 /\ slot' = slot + 1 /\ fd > 0
      /\ conns' = conns \ {fd} /\ read_set' = read_set \ {fd} /\ clientfd' = [clientfd EXCEPT ![slot] = -1]
      /\ UNCHANGED <<ready_set, maxi, maxfd, where, knocking, clientSide>>
  BY DEF CloseClient
<1>2. fd \in Fds /\ fd # -1 /\ fd # LISTENFD
  BY <1>1, CheckFacts, FdFacts
<1>3. /\ clientfd' \in [SlotIds -> Fds \cup {-1}] /\ clientfd'[slot] = -1
      /\ \A x \in SlotIds : x # slot => clientfd'[x] = clientfd[x]
  BY <1>1, CheckFacts DEF PoolTypeOK
<1>4. PoolTypeOK'
  BY <1>1, <1>3, CheckFacts DEF PoolTypeOK, clientSide
<1>5. PoolMatches'
  <2>1. \A x \in SlotIds : x # slot => clientfd[x] # fd
    BY <1>1, <1>2, CheckFacts DEF PoolMatches, fd
  <2>2. Pooled' = conns'
    BY <1>1, <1>2, <1>3, <2>1, CheckFacts DEF PoolMatches, Pooled, fd
  <2>3. read_set' = conns' \cup {LISTENFD}
    BY <1>1, <1>2, CheckFacts DEF PoolMatches
  <2> QED BY <1>1, <1>3, <2>2, <2>3, CheckFacts DEF PoolMatches
<1>6. ReportedAreServed'
  <2>1. nready - 1 = Cardinality(ToServe(clientfd', ready_set, slot + 1))
    BY <1>1, <1>3, CountedOff DEF fd
  <2> QED BY <1>1, <2>1 DEF ReportedAreServed, ToServe
<1> QED BY <1>1, <1>4, <1>5, <1>6, CheckFacts DEF PoolInv, StillWatched

LEMMA CheckedStep ==
  ASSUME PoolInv, Checked \/ ResetClient
  PROVE  PoolInv'
<1>1. PoolTypeOK'
  BY DEF PoolInv, Checked, ResetClient, PoolTypeOK, pool, clientSide
<1> QED BY <1>1 DEF PoolInv, Checked, ResetClient, PoolMatches, Pooled, StillWatched, ReportedAreServed, pool

LEMMA PoolInvariance == PoolSpec => []PoolInv
<1>1. PoolInv /\ [PoolNext]_poolVars => PoolInv'
  <2>1. ASSUME PoolInv, UNCHANGED poolVars
        PROVE  PoolInv'
    BY <2>1 DEF poolVars, PoolInv, PoolTypeOK, PoolMatches, Pooled, StillWatched, ReportedAreServed
  <2>2. ASSUME PoolInv, PoolNext
        PROVE  PoolInv'
    BY <2>2, ClientStep, SelectStep, NoNewClientStep, AcceptStep, NotReadyStep, ServedStep, CloseStep,
       CheckedStep DEF PoolNext, Server, EchoClient
  <2> QED BY <2>1, <2>2
<1> QED BY <1>1, PoolInitially, PTL DEF PoolSpec

\* For any number of slots and descriptors, and after any connections, lines and
\* hang-ups: clientfd, read_set, maxi, maxfd and nready of the pool agree.
THEOREM PoolInAgreement == PoolSpec => []PoolAgrees
<1>1. PoolInv => PoolAgrees
  BY DEF PoolInv, PoolAgrees, PoolMatches
<1> QED BY <1>1, PoolInvariance, PTL

\* The fields of the pool keep their ranges: maxi and the slots that of the
\* array, the two sets the descriptors that exist.
THEOREM PoolTypes == PoolSpec => []PoolTypeOK
<1>1. PoolInv => PoolTypeOK
  BY DEF PoolInv
<1> QED BY <1>1, PoolInvariance, PTL

-----------------------------------------------------------------------------
(* Readers and writers.                                                    *)

RWThreads == Readers \cup Writers

\* A semaphore used as a lock: whoever has it is in H.
Lock(z, H) ==
  /\ sems[z] \in {0, 1}
  /\ sems[z] = 1 => H = {}
  /\ \A x, y \in H : x = y

\* Where a thread may be, in each file.
PlacesOf(t) ==
  IF t \in Readers
    THEN IF solution \in {"rw0", "rw3"} THEN {"out", "reading"} ELSE ReaderAt
    ELSE CASE solution \in {"rw0", "rw1"} -> {"out", "writing"}
           [] solution = "rw2" -> {"out", "guarded", "writing", "unguard"}
           [] OTHER -> {"out", "collect", "collected", "writing", "return"}

RWVariables ==
  /\ solution \in Solutions
  /\ sems \in [Semaphores -> 0 .. N]
  /\ readcnt \in Nat
  /\ pc \in [RWThreads -> ReaderAt \cup WriterAt]
  /\ \A t \in RWThreads : pc[t] \in PlacesOf(t)
  /\ taken \in [Writers -> 0 .. N]

\* rw0: w is the lock of all threads.
Inv0 == solution = "rw0" => Lock("w", Reading \cup Writing)

\* rw1 and rw2: mutex guards readcnt, the number of readers inside, and as long
\* as one of them has come past the first P(&w) no writer has w.
RWBusy    == {r \in Readers : pc[r] \in {"count", "first", "counted", "uncount", "last", "uncounted"}}
Inside  == {r \in Readers : pc[r] \in {"first", "counted", "reading", "uncount"}}
Shared  == {r \in Readers : pc[r] \in {"counted", "reading", "uncount", "last"}}
Ahead   == {t \in Writers : pc[t] \in {"guarded", "writing", "unguard"}}

Inv12 ==
  solution \in {"rw1", "rw2"} =>
    /\ Lock("mutex", RWBusy)
    /\ Lock("w", Writing)
    /\ sems["w"] = 1 => Shared = {}
    /\ Shared # {} => Writing = {}
    /\ \A r \in Readers : pc[r] = "first" => Inside = {r}
    /\ \A r \in Readers : pc[r] = "last" => Inside = {}

CountInv ==
  IF solution \in {"rw1", "rw2"} THEN readcnt = Cardinality(Inside) ELSE readcnt = 0

Inv2 == solution = "rw2" => Lock("wg", Ahead)

\* rw3: wmutex guards the collection, and every permit is somewhere.
Collecting == {t \in Writers : pc[t] \in {"collect", "collected"}}

Has(t) == IF t \in Writers THEN taken[t] ELSE IF pc[t] = "reading" THEN 1 ELSE 0

Permits == {x \in RWThreads \X (1 .. N) : x[2] <= Has(x[1])}

TakenInv ==
  \A t \in Writers :
    /\ pc[t] = "out" => taken[t] = 0
    /\ pc[t] = "collect" => taken[t] < N
    /\ pc[t] \in {"collected", "writing"} => taken[t] = N
    /\ pc[t] = "return" => taken[t] > 0

Inv3 ==
  IF solution = "rw3"
    THEN Lock("wmutex", Collecting) /\ sems["sem"] + Cardinality(Permits) = N /\ TakenInv
    ELSE taken = [t \in Writers |-> 0]

RWInv == RWVariables /\ Inv0 /\ Inv12 /\ CountInv /\ Inv2 /\ Inv3

-----------------------------------------------------------------------------
(* Counting.                                                               *)

LEMMA Finite ==
  /\ IsFiniteSet(RWThreads) /\ IsFiniteSet(Inside)
  /\ IsFiniteSet(RWThreads \X (1 .. N)) /\ IsFiniteSet(Permits)
  /\ Cardinality(Inside) \in Nat /\ Cardinality(Permits) \in Nat
  /\ Cardinality(Inside) <= Cardinality(Readers)
  <1>1. IsFiniteSet(RWThreads)
    BY RWAssumption, FS_Union DEF RWThreads
  <1>2. IsFiniteSet(1 .. N)
    BY RWAssumption, FS_Interval
  <1>3. IsFiniteSet(RWThreads \X (1 .. N))
    BY <1>1, <1>2, FS_Product
  <1>4. Permits \in SUBSET (RWThreads \X (1 .. N)) /\ Inside \in SUBSET Readers
    BY DEF Permits, Inside
  <1>5. IsFiniteSet(Permits) /\ IsFiniteSet(Inside) /\ Cardinality(Inside) <= Cardinality(Readers)
    BY <1>3, <1>4, RWAssumption, FS_Subset
  <1>. QED  BY <1>1, <1>3, <1>5, FS_CardinalityType

\* One more permit is taken, or one is given back.
LEMMA PermitTaken ==
  ASSUME NEW t \in RWThreads, \A u \in RWThreads : Has(u) \in 0 .. N /\ Has(u)' \in 0 .. N,
         Has(t)' = Has(t) + 1, \A u \in RWThreads : u # t => Has(u)' = Has(u)
  PROVE  Cardinality(Permits)' = Cardinality(Permits) + 1
  <1>0. PICK i \in 1 .. N : i = Has(t) + 1
    BY RWAssumption
  <1>1. <<t, i>> \notin Permits
    BY <1>0, RWAssumption DEF Permits
  <1>2. ASSUME NEW u \in RWThreads, NEW b \in 1 .. N
        PROVE  <<u, b>> \in Permits' <=> <<u, b>> \in Permits \cup {<<t, i>>}
    <2>1. (<<u, b>> \in Permits' <=> b <= Has(u)') /\ (<<u, b>> \in Permits <=> b <= Has(u))
      BY DEF Permits
    <2>2. CASE u # t
      BY <2>1, <2>2
    <2>3. CASE u = t
      <3>1. b <= Has(t) + 1 <=> b <= Has(t) \/ b = i
        BY <1>0, RWAssumption
      <3>. QED  BY <2>1, <2>3, <3>1
    <2>. QED  BY <2>2, <2>3
  <1>3. Permits' \subseteq RWThreads \X (1 .. N) /\ Permits \cup {<<t, i>>} \subseteq RWThreads \X (1 .. N)
    BY DEF Permits
  <1>4. Permits' = Permits \cup {<<t, i>>}
    BY <1>2, <1>3
  <1>. QED  BY <1>1, <1>4, Finite, FS_AddElement

LEMMA PermitReturned ==
  ASSUME NEW t \in RWThreads, \A u \in RWThreads : Has(u) \in 0 .. N /\ Has(u)' \in 0 .. N,
         Has(t)' = Has(t) - 1, \A u \in RWThreads : u # t => Has(u)' = Has(u)
  PROVE  Cardinality(Permits)' = Cardinality(Permits) - 1
  <1>0. PICK i \in 1 .. N : i = Has(t)
    BY RWAssumption
  <1>1. <<t, i>> \in Permits
    BY <1>0, RWAssumption DEF Permits
  <1>2. ASSUME NEW u \in RWThreads, NEW b \in 1 .. N
        PROVE  <<u, b>> \in Permits' <=> <<u, b>> \in Permits \ {<<t, i>>}
    <2>1. (<<u, b>> \in Permits' <=> b <= Has(u)') /\ (<<u, b>> \in Permits <=> b <= Has(u))
      BY DEF Permits
    <2>2. CASE u # t
      BY <2>1, <2>2
    <2>3. CASE u = t
      <3>1. b <= Has(t) - 1 <=> b <= Has(t) /\ b # i
        BY <1>0, RWAssumption
      <3>. QED  BY <2>1, <2>3, <3>1
    <2>. QED  BY <2>2, <2>3
  <1>3. Permits' \subseteq RWThreads \X (1 .. N) /\ Permits \ {<<t, i>>} \subseteq RWThreads \X (1 .. N)
    BY DEF Permits
  <1>4. Permits' = Permits \ {<<t, i>>}
    BY <1>2, <1>3
  <1>. QED  BY <1>1, <1>4, Finite, FS_RemoveElement

LEMMA PermitsKept ==
  ASSUME \A u \in RWThreads : Has(u)' = Has(u)
  PROVE  Permits' = Permits
  BY DEF Permits

\* A writer that has them all: nobody else has one.
LEMMA AllPermits ==
  ASSUME NEW t \in RWThreads, Has(t) = N, Cardinality(Permits) <= N,
         NEW u \in RWThreads, u # t, Has(u) \in 0 .. N
  PROVE  Has(u) = 0
  <1>. SUFFICES ASSUME Has(u) >= 1 PROVE FALSE
    BY RWAssumption
  <1>. DEFINE All == {t} \X (1 .. N)
  <1>1. All \subseteq Permits /\ <<u, 1>> \in Permits /\ <<u, 1>> \notin All
    BY RWAssumption DEF Permits
  <1>2. IsFiniteSet(1 .. N) /\ Cardinality(1 .. N) = N
    BY RWAssumption, FS_Interval
  <1>3. IsFiniteSet({t}) /\ Cardinality({t}) = 1
    BY FS_Singleton
  <1>4. IsFiniteSet(All) /\ Cardinality(All) = N
    <2>1. IsFiniteSet(All) /\ Cardinality(All) = Cardinality({t}) * Cardinality(1 .. N)
      BY <1>2, <1>3, FS_Product
    <2>2. 1 * N = N
      BY RWAssumption
    <2>. QED  BY <2>1, <2>2, <1>2, <1>3
  <1>5. Cardinality(All) <= Cardinality(Permits) /\ Cardinality(All) # Cardinality(Permits)
    BY <1>1, Finite, FS_Subset
  <1>. QED  BY <1>4, <1>5, Finite, RWAssumption

-----------------------------------------------------------------------------
(* The invariant.                                                          *)

LEMMA Initially == RWInit => RWInv
  <1>. SUFFICES ASSUME RWInit PROVE RWInv
    OBVIOUS
  <1>. USE DEF RWInit
  <1>1. RWVariables
    BY RWAssumption DEF RWVariables, Solutions, Semaphores, PlacesOf, ReaderAt, WriterAt, RWThreads
  <1>2. \A t \in RWThreads : pc[t] = "out"
    BY DEF RWThreads
  <1>3. Inside = {} /\ RWBusy = {} /\ Shared = {} /\ Reading = {} /\ Writing = {} /\ Ahead = {} /\ Collecting = {}
    BY <1>2 DEF Inside, RWBusy, Shared, Reading, Writing, Ahead, Collecting, RWThreads
  <1>4. Permits = {}
    <2>1. \A u \in RWThreads : Has(u) = 0
      BY <1>2 DEF Has
    <2>. QED  BY <2>1, RWAssumption DEF Permits
  <1>5. CountInv
    BY <1>3, FS_EmptySet DEF CountInv
  <1>6. Inv0 /\ Inv12 /\ Inv2
    BY <1>2, <1>3 DEF Inv0, Inv12, Inv2, Lock, Semaphores, RWThreads
  <1>7. Inv3
    <2>1. Cardinality(Permits) = 0
      BY <1>4, FS_EmptySet
    <2>2. TakenInv
      BY <1>2, RWAssumption DEF TakenInv, RWThreads
    <2>. QED  BY <2>1, <2>2, <1>3, RWAssumption DEF Inv3, Lock, Semaphores
  <1>. QED  BY <1>1, <1>5, <1>6, <1>7 DEF RWInv

\* A reader'z step leaves the writers where they are, and the other way round.
LEMMA ReaderMoves ==
  ASSUME RWVariables, NEW r \in Readers, NEW from, NEW to, RWGo(r, from, to)
  PROVE  /\ pc[r] = from /\ r \in RWThreads /\ r \notin Writers
         /\ \A u \in RWThreads : pc'[u] = IF u = r THEN to ELSE pc[u]
         /\ \A u \in Writers : pc'[u] = pc[u]
         /\ \A u \in Readers : pc'[u] = IF u = r THEN to ELSE pc[u]
         /\ Writing' = Writing /\ Ahead' = Ahead /\ Collecting' = Collecting
  BY RWAssumption DEF RWVariables, RWGo, RWThreads, Writing, Ahead, Collecting

LEMMA WriterMoves ==
  ASSUME RWVariables, NEW t \in Writers, NEW to, pc' = [pc EXCEPT ![t] = to]
  PROVE  /\ t \in RWThreads /\ t \notin Readers
         /\ \A u \in RWThreads : pc'[u] = IF u = t THEN to ELSE pc[u]
         /\ \A u \in Readers : pc'[u] = pc[u]
         /\ \A u \in Writers : pc'[u] = IF u = t THEN to ELSE pc[u]
         /\ Reading' = Reading /\ RWBusy' = RWBusy /\ Inside' = Inside /\ Shared' = Shared
  BY RWAssumption DEF RWVariables, RWThreads, Reading, RWBusy, Inside, Shared

LEMMA ReaderTypes ==
  ASSUME RWVariables, NEW r \in Readers, NEW from, NEW to, RWGo(r, from, to), to \in PlacesOf(r),
         UNCHANGED <<solution, taken>>, readcnt' \in Nat, sems' \in [Semaphores -> 0 .. N]
  PROVE  RWVariables'
  <1>1. \A t : PlacesOf(t)' = PlacesOf(t)
    BY DEF PlacesOf
  <1>2. to \in ReaderAt /\ r \in RWThreads
    BY DEF PlacesOf, ReaderAt, RWThreads
  <1>3. pc' \in [RWThreads -> ReaderAt \cup WriterAt]
    BY <1>2 DEF RWVariables, RWGo
  <1>4. \A t \in RWThreads : pc'[t] \in PlacesOf(t)
    BY <1>2 DEF RWVariables, RWGo
  <1>. QED  BY <1>1, <1>3, <1>4 DEF RWVariables

LEMMA WriterTypes ==
  ASSUME RWVariables, NEW t \in Writers, NEW to, pc' = [pc EXCEPT ![t] = to], to \in PlacesOf(t),
         UNCHANGED <<solution, readcnt>>, taken' \in [Writers -> 0 .. N],
         sems' \in [Semaphores -> 0 .. N]
  PROVE  RWVariables'
  <1>1. \A u : PlacesOf(u)' = PlacesOf(u)
    BY DEF PlacesOf
  <1>2. to \in WriterAt /\ t \in RWThreads
    BY RWAssumption DEF PlacesOf, WriterAt, RWThreads
  <1>3. pc' \in [RWThreads -> ReaderAt \cup WriterAt]
    BY <1>2 DEF RWVariables
  <1>4. \A u \in RWThreads : pc'[u] \in PlacesOf(u)
    BY <1>2 DEF RWVariables
  <1>. QED  BY <1>1, <1>3, <1>4 DEF RWVariables

\* Only rw1 and rw2 have the places where readers are counted.
LEMMA CountingReader ==
  ASSUME RWVariables, Inv12, NEW r \in Readers, pc[r] \notin {"out", "reading"}
  PROVE  /\ solution \in {"rw1", "rw2"} /\ RWBusy = {r} /\ sems["mutex"] = 0
         /\ \A u \in Readers : u # r => pc[u] \in {"out", "reading"}
  <1>1. solution \in {"rw1", "rw2"} /\ r \in RWThreads /\ \A u \in Readers : pc[u] \in ReaderAt
    BY DEF RWVariables, PlacesOf, RWThreads, Solutions
  <1>2. r \in RWBusy
    BY <1>1 DEF RWBusy, ReaderAt
  <1>3. RWBusy = {r} /\ sems["mutex"] = 0
    BY <1>1, <1>2 DEF Inv12, Lock
  <1>4. \A u \in Readers : u # r => pc[u] \in {"out", "reading"}
    BY <1>1, <1>3 DEF RWBusy, ReaderAt
  <1>. QED  BY <1>1, <1>3, <1>4

\* P and V of a semaphore, and how a lock changes hands.
LEMMA PTypes ==
  ASSUME RWVariables, NEW z \in Semaphores, P(z)
  PROVE  sems' \in [Semaphores -> 0 .. N] /\ sems[z] > 0 /\ sems'[z] = sems[z] - 1
         /\ \A x \in Semaphores : x # z => sems'[x] = sems[x]
  BY RWAssumption DEF RWVariables, P

LEMMA VTypes ==
  ASSUME RWVariables, NEW z \in Semaphores, V(z), sems[z] < N
  PROVE  sems' \in [Semaphores -> 0 .. N] /\ sems'[z] = sems[z] + 1
         /\ \A x \in Semaphores : x # z => sems'[x] = sems[x]
  BY RWAssumption DEF RWVariables, V

LEMMA LockTaken ==
  ASSUME RWVariables, NEW z \in Semaphores, NEW H, Lock(z, H), P(z)
  PROVE  H = {} /\ sems'[z] = 0
  BY RWAssumption DEF RWVariables, P, Lock

LEMMA LockFreed ==
  ASSUME RWVariables, NEW z \in Semaphores, NEW H, Lock(z, H), NEW h \in H, V(z)
  PROVE  H = {h} /\ sems'[z] = 1 /\ sems[z] < N
  BY RWAssumption DEF RWVariables, V, Lock

LEMMA ReaderPreserves == ASSUME RWInv, NEW r \in Readers, reader(r) PROVE RWInv'
  <1>. USE DEF RWInv
  <1>0. N \in Nat \ {0} /\ Semaphores = {"mutex", "w", "wg", "sem", "wmutex"}
    BY RWAssumption DEF Semaphores
  <1>1. CASE EnterPlain(r)
    <2>1. /\ solution \in {"rw0", "rw3"} /\ P(Permit) /\ RWGo(r, "out", "reading")
          /\ UNCHANGED <<solution, readcnt, taken>>
      BY <1>1 DEF EnterPlain
    <2>2. RWVariables'
      BY <2>1, <1>0, PTypes, ReaderTypes DEF Permit, PlacesOf, RWVariables
    <2>3. Inv0'
      BY <2>1, <1>0, ReaderMoves DEF Inv0, Lock, P, Permit, Reading, RWVariables
    <2>4. Inv12' /\ CountInv' /\ Inv2'
      BY <2>1 DEF Inv12, CountInv, Inv2
    <2>5. CASE solution = "rw3"
      <3>1. /\ Has(r)' = Has(r) + 1 /\ \A u \in RWThreads : u # r => Has(u)' = Has(u)
            /\ \A u \in RWThreads : Has(u) \in 0 .. N /\ Has(u)' \in 0 .. N
        BY <2>1, <1>0, ReaderMoves DEF Has, RWVariables
      <3>2. Cardinality(Permits)' = Cardinality(Permits) + 1
        BY <3>1, PermitTaken DEF RWThreads
      <3>3. sems' = [sems EXCEPT !["sem"] = @ - 1] /\ sems["sem"] \in Nat
        BY <2>1, <2>5, <1>0 DEF P, Permit, RWVariables
      <3>4. TakenInv' /\ Lock("wmutex", Collecting)'
        BY <2>1, <2>5, <3>3, <1>0, ReaderMoves DEF Inv3, TakenInv, Lock, RWVariables
      <3>5. sems'["sem"] + Cardinality(Permits)' = N
        BY <2>5, <3>2, <3>3, <1>0, Finite DEF Inv3, RWVariables
      <3>. QED  BY <2>1, <2>2, <2>3, <2>4, <3>4, <3>5 DEF Inv3
    <2>6. CASE solution # "rw3"
      BY <2>1, <2>2, <2>3, <2>4, <2>6 DEF Inv3
    <2>. QED  BY <2>5, <2>6
  <1>2. CASE LeavePlain(r)
    <2>1. /\ solution \in {"rw0", "rw3"} /\ V(Permit) /\ RWGo(r, "reading", "out")
          /\ UNCHANGED <<solution, readcnt, taken>>
      BY <1>2 DEF LeavePlain
    <2>3. Inv0'
      <3>. SUFFICES ASSUME solution = "rw0" PROVE Lock("w", Reading \cup Writing)'
        BY <2>1 DEF Inv0
      <3>1. Reading \cup Writing = {r} /\ sems'["w"] = 1
        BY <2>1, <1>0, ReaderMoves, LockFreed DEF Inv0, Permit, Reading
      <3>2. Reading' = Reading \ {r}
        BY <2>1, ReaderMoves DEF Reading
      <3>3. r \notin Writing /\ Writing' = Writing
        BY <2>1, ReaderMoves DEF Writing
      <3>. QED  BY <3>1, <3>2, <3>3 DEF Lock
    <2>4. Inv12' /\ CountInv' /\ Inv2'
      BY <2>1 DEF Inv12, CountInv, Inv2
    <2>5. CASE solution = "rw3"
      <3>1. /\ Has(r)' = Has(r) - 1 /\ \A u \in RWThreads : u # r => Has(u)' = Has(u)
            /\ \A u \in RWThreads : Has(u) \in 0 .. N /\ Has(u)' \in 0 .. N
        BY <2>1, <1>0, ReaderMoves DEF Has, RWVariables
      <3>2. Cardinality(Permits)' = Cardinality(Permits) - 1
        BY <3>1, PermitReturned DEF RWThreads
      <3>3. sems' = [sems EXCEPT !["sem"] = @ + 1] /\ sems["sem"] \in Nat
        BY <2>1, <2>5, <1>0 DEF V, Permit, RWVariables
      <3>4. TakenInv' /\ Lock("wmutex", Collecting)'
        BY <2>1, <2>5, <3>3, <1>0, ReaderMoves DEF Inv3, TakenInv, Lock, RWVariables
      <3>5. Cardinality(Permits) \in Nat /\ Cardinality(Permits)' \in Nat
        <4>1. IsFiniteSet(Permits')
          <5>1. Permits' \in SUBSET (RWThreads \X (1 .. N))
            BY DEF Permits
          <5>. QED  BY <5>1, Finite, FS_Subset
        <4>. QED  BY <4>1, Finite, FS_CardinalityType
      <3>6. sems'["sem"] + Cardinality(Permits)' = N /\ sems'["sem"] \in 0 .. N
        BY <2>5, <3>2, <3>3, <3>5, <1>0 DEF Inv3, RWVariables
      <3>7. RWVariables'
        <4>1. sems' \in [Semaphores -> 0 .. N]
          BY <3>3, <3>6, <1>0 DEF RWVariables
        <4>. QED  BY <2>1, <4>1, ReaderTypes DEF PlacesOf, RWVariables
      <3>. QED  BY <2>1, <2>3, <2>4, <3>4, <3>6, <3>7 DEF Inv3
    <2>6. CASE solution = "rw0"
      <3>1. sems["w"] = 0 /\ sems' = [sems EXCEPT !["w"] = @ + 1]
        BY <2>1, <2>6, ReaderMoves DEF Inv0, Lock, V, Permit, Reading
      <3>2. RWVariables'
        <4>1. sems' \in [Semaphores -> 0 .. N]
          BY <3>1, <1>0 DEF RWVariables
        <4>. QED  BY <2>1, <4>1, ReaderTypes DEF PlacesOf, RWVariables
      <3>. QED  BY <2>1, <2>3, <2>4, <2>6, <3>2 DEF Inv3
    <2>. QED  BY <2>1, <2>5, <2>6
  <1>3. CASE EnterLock(r)
    <2>1. /\ solution \in {"rw1", "rw2"} /\ P("mutex") /\ RWGo(r, "out", "count")
          /\ UNCHANGED <<solution, readcnt, taken>>
      BY <1>3 DEF EnterLock
    <2>2. RWVariables'
      BY <2>1, <1>0, PTypes, ReaderTypes DEF PlacesOf, ReaderAt, RWVariables
    <2>3. Inside' = Inside /\ Shared' = Shared
      BY <2>1, ReaderMoves DEF Inside, Shared
    <2>4. Inv12'
      BY <2>1, <2>3, <1>0, ReaderMoves DEF Inv12, Lock, P, RWBusy, RWVariables
    <2>5. Inv0' /\ CountInv' /\ Inv2' /\ Inv3'
      BY <2>1, <2>3, <1>0, ReaderMoves DEF Inv0, CountInv, Inv2, Inv3, Lock, P, RWVariables
    <2>. QED  BY <2>2, <2>4, <2>5
  <1>4. CASE EnterCount(r)
    <2>1. /\ RWGo(r, "count", IF readcnt = 0 THEN "first" ELSE "counted")
          /\ readcnt' = readcnt + 1 /\ UNCHANGED <<solution, sems, taken>>
      BY <1>4 DEF EnterCount
    <2>2. /\ pc[r] = "count" /\ solution \in {"rw1", "rw2"} /\ RWBusy = {r} /\ sems["mutex"] = 0
          /\ \A u \in Readers : u # r => pc[u] \in {"out", "reading"}
      BY <2>1, CountingReader, ReaderMoves
    <2>3. r \notin Inside /\ Inside' = Inside \cup {r} /\ RWBusy' = {r}
      BY <2>1, <2>2, ReaderMoves DEF Inside, RWBusy
    <2>4. readcnt = Cardinality(Inside) /\ readcnt' = Cardinality(Inside)'
      <3>1. readcnt = Cardinality(Inside) /\ Cardinality(Inside) \in Nat
        BY <2>2, Finite DEF CountInv
      <3>2. Cardinality(Inside \cup {r}) = Cardinality(Inside) + 1
        BY <2>3, Finite, FS_AddElement
      <3>. QED  BY <3>1, <3>2, <2>1, <2>3
    <2>5. readcnt = 0 <=> Inside = {}
      BY <2>4, Finite, FS_EmptySet
    <2>6. Shared = {u \in Readers : pc[u] = "reading"} /\ Inside = Shared
      BY <2>2 DEF Shared, Inside
    <2>7. Shared' = IF readcnt = 0 THEN Shared ELSE Shared \cup {r}
      BY <2>1, <2>2, ReaderMoves DEF Shared
    <2>8. RWVariables'
      BY <2>1, <2>2, ReaderTypes DEF RWVariables, PlacesOf, ReaderAt
    <2>9. Inv12'
      <3>1. Lock("mutex", RWBusy)' /\ Lock("w", Writing)'
        BY <2>1, <2>2, <2>3, ReaderMoves DEF Inv12, Lock
      <3>2. (sems["w"] = 1 => Shared = {})' /\ (Shared # {} => Writing = {})'
        BY <2>1, <2>2, <2>5, <2>6, <2>7, ReaderMoves DEF Inv12
      <3>3. \A u \in Readers : pc'[u] = "first" => Inside' = {u}
        BY <2>1, <2>2, <2>3, <2>5, ReaderMoves
      <3>4. \A u \in Readers : pc'[u] = "last" => Inside' = {}
        BY <2>1, <2>2, ReaderMoves
      <3>. QED  BY <3>1, <3>2, <3>3, <3>4 DEF Inv12
    <2>10. Inv0' /\ CountInv' /\ Inv2' /\ Inv3'
      BY <2>1, <2>2, <2>4, ReaderMoves DEF Inv0, CountInv, Inv2, Inv3, Lock
    <2>. QED  BY <2>8, <2>9, <2>10
  <1>5. CASE FirstIn(r)
    <2>1. RWGo(r, "first", "counted") /\ P("w") /\ UNCHANGED <<solution, readcnt, taken>>
      BY <1>5 DEF FirstIn
    <2>2. /\ pc[r] = "first" /\ solution \in {"rw1", "rw2"} /\ RWBusy = {r} /\ sems["mutex"] = 0
          /\ \A u \in Readers : u # r => pc[u] \in {"out", "reading"}
      BY <2>1, CountingReader, ReaderMoves
    <2>3. RWBusy' = RWBusy /\ Inside' = Inside
      BY <2>1, ReaderMoves DEF Inside, RWBusy
    <2>4. Writing = {} /\ sems'["w"] = 0
      BY <2>1, <2>2, <1>0, LockTaken DEF Inv12
    <2>5. sems' \in [Semaphores -> 0 .. N] /\ sems'["mutex"] = sems["mutex"] /\ sems'["wg"] = sems["wg"]
      BY <2>1, <1>0, PTypes
    <2>6. RWVariables'
      BY <2>1, <2>2, <2>5, ReaderTypes DEF RWVariables, PlacesOf, ReaderAt
    <2>7. Inv12'
      BY <2>1, <2>2, <2>3, <2>4, <2>5, ReaderMoves DEF Inv12, Lock
    <2>8. Inv0' /\ CountInv' /\ Inv2' /\ Inv3'
      BY <2>1, <2>2, <2>3, <2>5, ReaderMoves DEF Inv0, CountInv, Inv2, Inv3, Lock
    <2>. QED  BY <2>6, <2>7, <2>8
  <1>6. CASE EnterUnlock(r)
    <2>1. RWGo(r, "counted", "reading") /\ V("mutex") /\ UNCHANGED <<solution, readcnt, taken>>
      BY <1>6 DEF EnterUnlock
    <2>2. /\ pc[r] = "counted" /\ solution \in {"rw1", "rw2"} /\ RWBusy = {r} /\ sems["mutex"] = 0
          /\ \A u \in Readers : u # r => pc[u] \in {"out", "reading"}
      BY <2>1, CountingReader, ReaderMoves
    <2>3. RWBusy' = {} /\ Inside' = Inside /\ Shared' = Shared
      BY <2>1, <2>2, ReaderMoves DEF Inside, RWBusy, Shared
    <2>4. /\ sems' \in [Semaphores -> 0 .. N] /\ sems'["mutex"] = 1
          /\ sems'["w"] = sems["w"] /\ sems'["wg"] = sems["wg"]
      BY <2>1, <2>2, <1>0, VTypes
    <2>5. RWVariables'
      BY <2>1, <2>2, <2>4, ReaderTypes DEF RWVariables, PlacesOf, ReaderAt
    <2>6. Inv12'
      BY <2>1, <2>2, <2>3, <2>4, ReaderMoves DEF Inv12, Lock
    <2>7. Inv0' /\ CountInv' /\ Inv2' /\ Inv3'
      BY <2>1, <2>2, <2>3, <2>4, ReaderMoves DEF Inv0, CountInv, Inv2, Inv3, Lock
    <2>. QED  BY <2>5, <2>6, <2>7
  <1>7. CASE LeaveLock(r)
    <2>1. /\ solution \in {"rw1", "rw2"} /\ RWGo(r, "reading", "uncount") /\ P("mutex")
          /\ UNCHANGED <<solution, readcnt, taken>>
      BY <1>7 DEF LeaveLock
    <2>2. RWBusy = {} /\ sems'["mutex"] = 0
      BY <2>1, <1>0, LockTaken DEF Inv12
    <2>3. Inside' = Inside /\ Shared' = Shared /\ RWBusy' = {r}
      BY <2>1, <2>2, ReaderMoves DEF Inside, Shared, RWBusy
    <2>4. sems' \in [Semaphores -> 0 .. N] /\ sems'["w"] = sems["w"] /\ sems'["wg"] = sems["wg"]
      BY <2>1, <1>0, PTypes
    <2>5. RWVariables'
      BY <2>1, <2>4, ReaderTypes DEF RWVariables, PlacesOf, ReaderAt
    <2>6. Inv12'
      BY <2>1, <2>2, <2>3, <2>4, ReaderMoves DEF Inv12, Lock
    <2>7. Inv0' /\ CountInv' /\ Inv2' /\ Inv3'
      BY <2>1, <2>3, <2>4, ReaderMoves DEF Inv0, CountInv, Inv2, Inv3, Lock
    <2>. QED  BY <2>5, <2>6, <2>7
  <1>8. CASE LeaveCount(r)
    <2>1. /\ RWGo(r, "uncount", IF readcnt = 1 THEN "last" ELSE "uncounted")
          /\ readcnt' = readcnt - 1 /\ UNCHANGED <<solution, sems, taken>>
      BY <1>8 DEF LeaveCount
    <2>2. /\ pc[r] = "uncount" /\ solution \in {"rw1", "rw2"} /\ RWBusy = {r} /\ sems["mutex"] = 0
          /\ \A u \in Readers : u # r => pc[u] \in {"out", "reading"}
      BY <2>1, CountingReader, ReaderMoves
    <2>3. r \in Inside /\ Inside' = Inside \ {r} /\ RWBusy' = {r}
      BY <2>1, <2>2, ReaderMoves DEF Inside, RWBusy
    <2>4. /\ readcnt = Cardinality(Inside) /\ readcnt' = Cardinality(Inside)' /\ IsFiniteSet(Inside')
          /\ Cardinality(Inside)' \in Nat
      BY <2>1, <2>2, <2>3, Finite, FS_RemoveElement, FS_CardinalityType DEF CountInv
    <2>5. readcnt' = 0 <=> Inside' = {}
      BY <2>4, FS_EmptySet
    <2>6. readcnt = 1 => Inside' = {}
      BY <2>1, <2>5
    <2>7. Shared' \subseteq Shared /\ r \in Shared
      BY <2>1, <2>2, ReaderMoves DEF Shared
    <2>8. RWVariables'
      BY <2>1, <2>2, <2>4, ReaderTypes DEF RWVariables, PlacesOf, ReaderAt
    <2>9. Inv12'
      <3>1. Lock("mutex", RWBusy)' /\ Lock("w", Writing)'
        BY <2>1, <2>2, <2>3, ReaderMoves DEF Inv12, Lock
      <3>2. (sems["w"] = 1 => Shared = {})' /\ (Shared # {} => Writing = {})'
        BY <2>1, <2>2, <2>7, ReaderMoves DEF Inv12
      <3>3. \A u \in Readers : pc'[u] = "first" => Inside' = {u}
        BY <2>1, <2>2, ReaderMoves
      <3>4. \A u \in Readers : pc'[u] = "last" => Inside' = {}
        BY <2>1, <2>2, <2>6, ReaderMoves
      <3>. QED  BY <3>1, <3>2, <3>3, <3>4 DEF Inv12
    <2>10. Inv0' /\ CountInv' /\ Inv2' /\ Inv3'
      BY <2>1, <2>2, <2>4, ReaderMoves DEF Inv0, CountInv, Inv2, Inv3, Lock
    <2>. QED  BY <2>8, <2>9, <2>10
  <1>9. CASE LastOut(r)
    <2>1. RWGo(r, "last", "uncounted") /\ V("w") /\ UNCHANGED <<solution, readcnt, taken>>
      BY <1>9 DEF LastOut
    <2>2. /\ pc[r] = "last" /\ solution \in {"rw1", "rw2"} /\ RWBusy = {r} /\ sems["mutex"] = 0
          /\ \A u \in Readers : u # r => pc[u] \in {"out", "reading"}
      BY <2>1, CountingReader, ReaderMoves
    <2>3. RWBusy' = RWBusy /\ Inside' = Inside /\ Inside = {} /\ r \in Shared
      BY <2>1, <2>2, ReaderMoves DEF Inside, RWBusy, Shared, Inv12
    <2>4. Writing = {} /\ sems["w"] = 0
      BY <2>2, <2>3 DEF Inv12, Lock
    <2>5. Shared' = {}
      BY <2>1, <2>2, <2>3, ReaderMoves DEF Shared, Inside
    <2>6. /\ sems' \in [Semaphores -> 0 .. N] /\ sems'["w"] = 1
          /\ sems'["mutex"] = sems["mutex"] /\ sems'["wg"] = sems["wg"]
      BY <2>1, <2>4, <1>0, VTypes
    <2>7. RWVariables'
      BY <2>1, <2>2, <2>6, ReaderTypes DEF RWVariables, PlacesOf, ReaderAt
    <2>8. Inv12'
      BY <2>1, <2>2, <2>3, <2>4, <2>5, <2>6, ReaderMoves DEF Inv12, Lock
    <2>9. Inv0' /\ CountInv' /\ Inv2' /\ Inv3'
      BY <2>1, <2>2, <2>3, <2>6, ReaderMoves DEF Inv0, CountInv, Inv2, Inv3, Lock
    <2>. QED  BY <2>7, <2>8, <2>9
  <1>10. CASE LeaveUnlock(r)
    <2>1. RWGo(r, "uncounted", "out") /\ V("mutex") /\ UNCHANGED <<solution, readcnt, taken>>
      BY <1>10 DEF LeaveUnlock
    <2>2. /\ pc[r] = "uncounted" /\ solution \in {"rw1", "rw2"} /\ RWBusy = {r} /\ sems["mutex"] = 0
          /\ \A u \in Readers : u # r => pc[u] \in {"out", "reading"}
      BY <2>1, CountingReader, ReaderMoves
    <2>3. RWBusy' = {} /\ Inside' = Inside /\ Shared' = Shared
      BY <2>1, <2>2, ReaderMoves DEF Inside, RWBusy, Shared
    <2>4. /\ sems' \in [Semaphores -> 0 .. N] /\ sems'["mutex"] = 1
          /\ sems'["w"] = sems["w"] /\ sems'["wg"] = sems["wg"]
      BY <2>1, <2>2, <1>0, VTypes
    <2>5. RWVariables'
      BY <2>1, <2>2, <2>4, ReaderTypes DEF RWVariables, PlacesOf, ReaderAt
    <2>6. Inv12'
      BY <2>1, <2>2, <2>3, <2>4, ReaderMoves DEF Inv12, Lock
    <2>7. Inv0' /\ CountInv' /\ Inv2' /\ Inv3'
      BY <2>1, <2>2, <2>3, <2>4, ReaderMoves DEF Inv0, CountInv, Inv2, Inv3, Lock
    <2>. QED  BY <2>5, <2>6, <2>7
  <1>. QED  BY <1>1, <1>2, <1>3, <1>4, <1>5, <1>6, <1>7, <1>8, <1>9, <1>10 DEF reader

LEMMA WriterPreserves == ASSUME RWInv, NEW t \in Writers, writer(t) PROVE RWInv'
  <1>. USE DEF RWInv
  <1>0. /\ N \in Nat \ {0} /\ Semaphores = {"mutex", "w", "wg", "sem", "wmutex"}
        /\ t \in RWThreads /\ t \notin Readers /\ pc[t] \in PlacesOf(t)
        /\ pc \in [RWThreads -> ReaderAt \cup WriterAt] /\ solution \in Solutions
        /\ taken \in [Writers -> 0 .. N] /\ \A z \in Semaphores : sems[z] \in 0 .. N
    BY RWAssumption DEF Semaphores, RWVariables, RWThreads
  \* Where only the lock of the writers changes hands.
  <1>1. CASE WriterGuard(t)
    <2>1. CASE solution = "rw2"
      <3>1. /\ pc[t] = "out" /\ pc' = [pc EXCEPT ![t] = "guarded"] /\ P("wg")
            /\ UNCHANGED <<solution, readcnt, taken>>
        BY <1>1, <2>1 DEF WriterGuard, RWGo
      <3>2. Ahead = {} /\ sems'["wg"] = 0 /\ sems' \in [Semaphores -> 0 .. N]
            /\ sems'["w"] = sems["w"] /\ sems'["mutex"] = sems["mutex"]
        BY <3>1, <2>1, <1>0, LockTaken, PTypes DEF Inv2
      <3>3. Ahead' = {t} /\ Writing' = Writing
        <4>1. \A u \in Writers : pc'[u] = IF u = t THEN "guarded" ELSE pc[u]
          BY <3>1, <1>0 DEF RWThreads
        <4>. QED  BY <3>1, <3>2, <4>1 DEF Ahead, Writing
      <3>4. RWVariables'
        BY <3>1, <3>2, <2>1, <1>0, WriterTypes DEF PlacesOf
      <3>5. Inv2'
        BY <3>2, <3>3 DEF Inv2, Lock
      <3>6. Shared' = Shared /\ RWBusy' = RWBusy /\ Inside' = Inside /\ \A u \in Readers : pc'[u] = pc[u]
        BY <3>1, WriterMoves
      <3>7. Inv12'
        BY <3>1, <3>2, <3>3, <3>6, <2>1 DEF Inv12, Lock
      <3>8. Inv0' /\ CountInv' /\ Inv3'
        BY <3>1, <3>6, <2>1 DEF Inv0, CountInv, Inv3
      <3>. QED  BY <3>4, <3>5, <3>7, <3>8
    <2>2. CASE solution = "rw3"
      <3>1. /\ pc[t] = "out" /\ pc' = [pc EXCEPT ![t] = "collect"] /\ P("wmutex")
            /\ UNCHANGED <<solution, readcnt, taken>>
        BY <1>1, <2>2 DEF WriterGuard, RWGo
      <3>2. Collecting = {} /\ sems'["wmutex"] = 0 /\ sems' \in [Semaphores -> 0 .. N]
            /\ sems'["sem"] = sems["sem"]
        BY <3>1, <2>2, <1>0, LockTaken, PTypes DEF Inv3
      <3>3. Collecting' = {t}
        <4>1. \A u \in Writers : pc'[u] = IF u = t THEN "collect" ELSE pc[u]
          BY <3>1, <1>0 DEF RWThreads
        <4>. QED  BY <3>1, <3>2, <4>1 DEF Collecting
      <3>4. RWVariables'
        BY <3>1, <3>2, <2>2, <1>0, WriterTypes DEF PlacesOf
      <3>5. \A u \in RWThreads : Has(u)' = Has(u)
        BY <3>1, <1>0 DEF Has, RWThreads
      <3>6. TakenInv'
        BY <3>1, <2>2, <1>0, WriterMoves DEF Inv3, TakenInv
      <3>7. Inv3'
        <4>1. Permits' = Permits
          BY <3>5, PermitsKept
        <4>. QED  BY <3>1, <3>2, <3>3, <3>6, <4>1, <2>2 DEF Inv3, Lock
      <3>8. Inv0' /\ Inv12' /\ CountInv' /\ Inv2'
        BY <3>1, <2>2 DEF Inv0, Inv12, CountInv, Inv2
      <3>. QED  BY <3>1, <3>4, <3>7, <3>8
    <2>. QED  BY <1>1, <2>1, <2>2 DEF WriterGuard
  <1>2. CASE WriterEnter(t)
    <2>1. /\ solution \in {"rw0", "rw1", "rw2"} /\ pc[t] = IF solution = "rw2" THEN "guarded" ELSE "out"
          /\ pc' = [pc EXCEPT ![t] = "writing"] /\ P("w")
          /\ UNCHANGED <<solution, readcnt, taken>>
      BY <1>2 DEF WriterEnter, RWGo
    <2>2. Writing' = Writing \cup {t} /\ (solution = "rw2" => Ahead' = Ahead)
      <3>1. \A u \in Writers : pc'[u] = IF u = t THEN "writing" ELSE pc[u]
        BY <2>1, <1>0 DEF RWThreads
      <3>. QED  BY <2>1, <3>1 DEF Writing, Ahead
    <2>3. /\ sems' \in [Semaphores -> 0 .. N] /\ sems'["w"] = 0 /\ sems["w"] = 1
          /\ sems'["mutex"] = sems["mutex"] /\ sems'["wg"] = sems["wg"]
      BY <2>1, <1>0, LockTaken, PTypes DEF Inv0, Inv12, Lock
    <2>4. RWVariables'
      BY <2>1, <2>3, <1>0, WriterTypes DEF PlacesOf
    <2>5. Inv0'
      <3>. SUFFICES ASSUME solution = "rw0" PROVE Lock("w", Reading \cup Writing)'
        BY <2>1 DEF Inv0
      <3>1. Reading = {} /\ Writing = {} /\ Reading' = Reading
        BY <2>1, <2>3, WriterMoves DEF Inv0, Lock
      <3>. QED  BY <3>1, <2>2, <2>3 DEF Lock
    <2>6. Inv12'
      <3>. SUFFICES ASSUME solution \in {"rw1", "rw2"} PROVE Inv12'
        BY <2>1 DEF Inv12
      <3>1. Shared = {} /\ Writing = {}
        BY <2>3 DEF Inv12, Lock
      <3>2. RWBusy' = RWBusy /\ Inside' = Inside /\ Shared' = Shared /\ \A u \in Readers : pc'[u] = pc[u]
        BY <2>1, WriterMoves
      <3>. QED  BY <3>1, <3>2, <2>1, <2>2, <2>3 DEF Inv12, Lock
    <2>7. CountInv' /\ Inv2' /\ Inv3'
      BY <2>1, <2>2, <2>3, WriterMoves DEF CountInv, Inv2, Inv3, Lock
    <2>. QED  BY <2>4, <2>5, <2>6, <2>7
  <1>3. CASE Collect(t)
    <2>0. solution = "rw3"
      BY <1>3, <1>0 DEF Collect, RWGo, PlacesOf, Solutions
    <2>1. /\ pc[t] = "collect" /\ P("sem") /\ UNCHANGED <<solution, readcnt>>
          /\ pc' = [pc EXCEPT ![t] = IF taken[t] + 1 = N THEN "collected" ELSE "collect"]
          /\ taken' = [taken EXCEPT ![t] = @ + 1]
      BY <1>3 DEF Collect, RWGo
    <2>2. /\ sems' \in [Semaphores -> 0 .. N] /\ sems'["sem"] = sems["sem"] - 1
          /\ sems'["wmutex"] = sems["wmutex"]
      BY <2>1, <1>0, PTypes
    <2>3. taken[t] < N /\ taken' \in [Writers -> 0 .. N]
      BY <2>0, <2>1, <1>0 DEF Inv3, TakenInv
    <2>4. RWVariables'
      BY <2>0, <2>1, <2>2, <2>3, <1>0, WriterTypes DEF PlacesOf
    <2>5. /\ Has(t)' = Has(t) + 1 /\ \A u \in RWThreads : u # t => Has(u)' = Has(u)
          /\ \A u \in RWThreads : Has(u) \in 0 .. N /\ Has(u)' \in 0 .. N
      BY <2>1, <2>3, <1>0 DEF Has, RWThreads
    <2>6. Cardinality(Permits)' = Cardinality(Permits) + 1
      BY <2>5, <1>0, PermitTaken
    <2>7. sems'["sem"] + Cardinality(Permits)' = N
      BY <2>0, <2>2, <2>6, <1>0, Finite DEF Inv3
    <2>8. Collecting' = Collecting
      BY <2>1, WriterMoves DEF Collecting
    <2>9. TakenInv'
      BY <2>0, <2>1, <2>3, <1>0, WriterMoves DEF Inv3, TakenInv
    <2>10. Inv3'
      BY <2>0, <2>1, <2>2, <2>7, <2>8, <2>9 DEF Inv3, Lock
    <2>. QED  BY <2>0, <2>1, <2>4, <2>10 DEF Inv0, Inv12, CountInv, Inv2
  <1>4. CASE Collected(t)
    <2>0. solution = "rw3"
      BY <1>4, <1>0 DEF Collected, RWGo, PlacesOf, Solutions
    <2>1. /\ pc[t] = "collected" /\ V("wmutex") /\ UNCHANGED <<solution, readcnt, taken>>
          /\ pc' = [pc EXCEPT ![t] = "writing"]
      BY <1>4 DEF Collected, RWGo
    <2>2. t \in Collecting
      BY <2>1 DEF Collecting
    <2>3. Collecting = {t} /\ sems'["wmutex"] = 1 /\ sems["wmutex"] < N
      BY <2>0, <2>1, <2>2, <1>0, LockFreed DEF Inv3
    <2>4. sems' \in [Semaphores -> 0 .. N] /\ sems'["sem"] = sems["sem"]
      BY <2>1, <2>3, <1>0, VTypes
    <2>5. Collecting' = {}
      <3>1. \A u \in Writers : pc'[u] = IF u = t THEN "writing" ELSE pc[u]
        BY <2>1, <1>0 DEF RWThreads
      <3>. QED  BY <2>3, <3>1 DEF Collecting
    <2>6. RWVariables'
      BY <2>0, <2>1, <2>4, <1>0, WriterTypes DEF PlacesOf
    <2>7. \A u \in RWThreads : Has(u)' = Has(u)
      BY <2>1, <1>0 DEF Has, RWThreads
    <2>8. TakenInv'
      BY <2>0, <2>1, <1>0, WriterMoves DEF Inv3, TakenInv
    <2>9. Inv3'
      BY <2>0, <2>1, <2>3, <2>4, <2>5, <2>7, <2>8, PermitsKept DEF Inv3, Lock
    <2>. QED  BY <2>0, <2>1, <2>6, <2>9 DEF Inv0, Inv12, CountInv, Inv2
  <1>5. CASE WriterLeave(t) /\ solution = "rw3"
    <2>1. /\ pc[t] \in {"writing", "return"} /\ V("sem") /\ UNCHANGED <<solution, readcnt>>
          /\ pc' = [pc EXCEPT ![t] = IF taken[t] = 1 THEN "out" ELSE "return"]
          /\ taken' = [taken EXCEPT ![t] = @ - 1]
      BY <1>5 DEF WriterLeave
    <2>2. taken[t] > 0 /\ taken' \in [Writers -> 0 .. N]
      BY <2>1, <1>5, <1>0 DEF Inv3, TakenInv
    <2>3. /\ Has(t)' = Has(t) - 1 /\ \A u \in RWThreads : u # t => Has(u)' = Has(u)
          /\ \A u \in RWThreads : Has(u) \in 0 .. N /\ Has(u)' \in 0 .. N
      BY <2>1, <2>2, <1>0 DEF Has, RWThreads
    <2>4. Cardinality(Permits)' = Cardinality(Permits) - 1
      BY <2>3, <1>0, PermitReturned
    <2>5. Cardinality(Permits) \in Nat /\ Cardinality(Permits)' \in Nat
      <3>1. Permits' \in SUBSET (RWThreads \X (1 .. N))
        BY DEF Permits
      <3>2. IsFiniteSet(Permits')
        BY <3>1, Finite, FS_Subset
      <3>. QED  BY <3>2, Finite, FS_CardinalityType
    <2>6. sems["sem"] + Cardinality(Permits) = N
      BY <1>5 DEF Inv3
    <2>7. sems["sem"] < N
      BY <2>4, <2>5, <2>6, <1>0
    <2>8. /\ sems' \in [Semaphores -> 0 .. N] /\ sems'["sem"] = sems["sem"] + 1
          /\ sems'["wmutex"] = sems["wmutex"]
      BY <2>1, <2>7, <1>0, VTypes
    <2>9. sems'["sem"] + Cardinality(Permits)' = N
      BY <2>4, <2>5, <2>6, <2>8, <1>0
    <2>10. RWVariables'
      BY <2>1, <2>2, <2>8, <1>5, <1>0, WriterTypes DEF PlacesOf
    <2>11. Collecting' = Collecting
      BY <2>1, WriterMoves DEF Collecting
    <2>12. TakenInv'
      BY <2>1, <2>2, <1>5, <1>0, WriterMoves DEF Inv3, TakenInv
    <2>13. Inv3'
      BY <2>1, <2>8, <2>9, <2>11, <2>12, <1>5 DEF Inv3, Lock
    <2>. QED  BY <2>1, <2>10, <2>13, <1>5 DEF Inv0, Inv12, CountInv, Inv2
  <1>6. CASE WriterLeave(t) /\ solution # "rw3"
    <2>1. /\ solution \in {"rw0", "rw1", "rw2"} /\ pc[t] = "writing" /\ V("w")
          /\ pc' = [pc EXCEPT ![t] = IF solution = "rw2" THEN "unguard" ELSE "out"]
          /\ UNCHANGED <<solution, readcnt, taken>>
      BY <1>6 DEF WriterLeave, RWGo
    <2>2. t \in Writing /\ Writing' = Writing \ {t} /\ (solution = "rw2" => Ahead' = Ahead)
      <3>1. PICK to : to = IF solution = "rw2" THEN "unguard" ELSE "out"
        OBVIOUS
      <3>2. \A u \in Writers : pc'[u] = IF u = t THEN to ELSE pc[u]
        <4>1. pc' = [pc EXCEPT ![t] = to]
          BY <2>1, <3>1
        <4>. QED  BY <4>1, <1>0 DEF RWThreads
      <3>. QED  BY <2>1, <3>1, <3>2 DEF Writing, Ahead
    <2>3. Writing = {t} /\ sems'["w"] = 1 /\ sems["w"] < N
      <3>1. CASE solution = "rw0"
        BY <3>1, <2>1, <2>2, <1>0, LockFreed DEF Inv0
      <3>2. CASE solution # "rw0"
        BY <3>2, <2>1, <2>2, <1>0, LockFreed DEF Inv12
      <3>. QED  BY <3>1, <3>2
    <2>4. /\ sems' \in [Semaphores -> 0 .. N]
          /\ sems'["mutex"] = sems["mutex"] /\ sems'["wg"] = sems["wg"]
      BY <2>1, <2>3, <1>0, VTypes
    <2>5. RWVariables'
      BY <2>1, <2>4, <1>0, WriterTypes DEF PlacesOf
    <2>6. Inv0'
      <3>. SUFFICES ASSUME solution = "rw0" PROVE Lock("w", Reading \cup Writing)'
        BY <2>1 DEF Inv0
      <3>1. Reading = {}
        BY <2>2, <1>0 DEF Inv0, Lock, Reading, Writing
      <3>. QED  BY <3>1, <2>1, <2>2, <2>3, WriterMoves DEF Lock
    <2>7. Inv12'
      BY <2>1, <2>2, <2>3, <2>4, WriterMoves DEF Inv12, Lock
    <2>8. CountInv' /\ Inv2' /\ Inv3'
      BY <2>1, <2>2, <2>4, WriterMoves DEF CountInv, Inv2, Inv3, Lock
    <2>. QED  BY <2>5, <2>6, <2>7, <2>8
  <1>7. CASE WriterUnguard(t)
    <2>0. solution = "rw2"
      BY <1>7, <1>0 DEF WriterUnguard, RWGo, PlacesOf, Solutions
    <2>1. /\ pc[t] = "unguard" /\ V("wg") /\ UNCHANGED <<solution, readcnt, taken>>
          /\ pc' = [pc EXCEPT ![t] = "out"]
      BY <1>7 DEF WriterUnguard, RWGo
    <2>2. t \in Ahead
      BY <2>1 DEF Ahead
    <2>3. Ahead = {t} /\ sems'["wg"] = 1 /\ sems["wg"] < N
      BY <2>0, <2>1, <2>2, <1>0, LockFreed DEF Inv2
    <2>4. /\ sems' \in [Semaphores -> 0 .. N]
          /\ sems'["w"] = sems["w"] /\ sems'["mutex"] = sems["mutex"]
      BY <2>1, <2>3, <1>0, VTypes
    <2>5. Ahead' = {} /\ Writing' = Writing
      <3>1. \A u \in Writers : pc'[u] = IF u = t THEN "out" ELSE pc[u]
        BY <2>1, <1>0 DEF RWThreads
      <3>. QED  BY <2>1, <2>3, <3>1 DEF Ahead, Writing
    <2>6. RWVariables'
      BY <2>0, <2>1, <2>4, <1>0, WriterTypes DEF PlacesOf
    <2>7. Inv2'
      BY <2>3, <2>5 DEF Inv2, Lock
    <2>8. Inv0' /\ Inv12' /\ CountInv' /\ Inv3'
      BY <2>0, <2>1, <2>4, <2>5, WriterMoves DEF Inv0, Inv12, CountInv, Inv3, Lock
    <2>. QED  BY <2>6, <2>7, <2>8
  <1>. QED  BY <1>1, <1>2, <1>3, <1>4, <1>5, <1>6, <1>7 DEF writer

LEMMA Invariance == RWInv /\ [RWNext]_rwVars => RWInv'
  <1>. SUFFICES ASSUME RWInv, [RWNext]_rwVars PROVE RWInv'
    OBVIOUS
  <1>1. CASE UNCHANGED rwVars
    <2>1. UNCHANGED <<solution, sems, readcnt, pc, taken>>
      BY <1>1 DEF rwVars
    <2>2. /\ Reading' = Reading /\ Writing' = Writing /\ RWBusy' = RWBusy /\ Inside' = Inside
          /\ Shared' = Shared /\ Ahead' = Ahead /\ Collecting' = Collecting /\ TakenInv' = TakenInv
      BY <2>1 DEF Reading, Writing, RWBusy, Inside, Shared, Ahead, Collecting, TakenInv
    <2>3. \A t : PlacesOf(t)' = PlacesOf(t) /\ Has(t)' = Has(t)
      BY <2>1 DEF PlacesOf, Has
    <2>4. Permits' = Permits
      BY <2>3, PermitsKept
    <2>5. RWVariables'
      BY <2>1, <2>3 DEF RWInv, RWVariables
    <2>. QED  BY <2>1, <2>2, <2>4, <2>5 DEF RWInv, Inv0, Inv12, CountInv, Inv2, Inv3, Lock
  <1>. QED  BY <1>1, ReaderPreserves, WriterPreserves DEF RWNext

LEMMA InvariantHolds == RWSpec => []RWInv
  BY Initially, Invariance, PTL DEF RWSpec

-----------------------------------------------------------------------------
(* The theorems.                                                           *)

\* The semaphores of rw0.c to rw3.c never exceed N, nor readcnt the readers.
THEOREM RWTypes == RWSpec => []RWTypeOK
  <1>1. RWInv => RWTypeOK
    <2>. SUFFICES ASSUME RWInv PROVE RWTypeOK
      OBVIOUS
    <2>1. readcnt \in 0 .. Cardinality(Readers)
      <3>1. Cardinality(Readers) \in Nat
        BY RWAssumption, FS_CardinalityType
      <3>. QED  BY <3>1, Finite DEF RWInv, CountInv
    <2>. QED  BY <2>1 DEF RWInv, RWVariables, RWTypeOK, RWThreads
  <1>. QED  BY <1>1, InvariantHolds, PTL

\* A set all of whose elements are equal has one at most.
LEMMA AtMostOne ==
  ASSUME NEW S, \A x, y \in S : x = y
  PROVE  IsFiniteSet(S) /\ Cardinality(S) <= 1 /\ (S # {} => Cardinality(S) = 1)
  <1>1. CASE S = {}
    BY <1>1, FS_EmptySet
  <1>2. CASE S # {}
    <2>1. PICK x \in S : TRUE
      BY <1>2
    <2>2. \A y \in S : y = x
      OBVIOUS
    <2>3. S = {x}
      BY <2>2
    <2>4. IsFiniteSet({x}) /\ Cardinality({x}) = 1
      BY FS_Singleton
    <2>5. 1 <= 1
      OBVIOUS
    <2>. QED  BY <2>3, <2>4, <2>5
  <1>. QED  BY <1>1, <1>2

\* In all four files a writer writes with no other writer and no reader at
\* work, and in rw2.c one writer at most is past wg: whatever the number of
\* threads, and however many permits rw3.c has.
THEOREM TakeTurns == RWSpec => []WritersTakeTurns
  <1>1. RWInv => WritersTakeTurns
    <2>. SUFFICES ASSUME RWInv PROVE WritersTakeTurns
      OBVIOUS
    <2>. USE DEF RWInv
    <2>1. /\ solution \in Solutions /\ taken \in [Writers -> 0 .. N] /\ N \in Nat \ {0}
          /\ \A z \in Semaphores : sems[z] \in Nat
      BY RWAssumption DEF RWVariables
    <2>2. ASSUME NEW t \in Writing, NEW u \in Writing PROVE t = u
      <3>1. CASE solution = "rw0"
        BY <3>1, <2>2 DEF Inv0, Lock
      <3>2. CASE solution \in {"rw1", "rw2"}
        BY <3>2, <2>2 DEF Inv12, Lock
      <3>3. CASE solution = "rw3"
        <4>1. /\ t \in RWThreads /\ u \in RWThreads /\ Has(t) = N /\ Has(u) = N
              /\ Cardinality(Permits) <= N
          BY <3>3, <2>1, <2>2, Finite DEF Inv3, TakenInv, Has, Writing, RWThreads, Semaphores
        <4>. QED  BY <4>1, <2>1, AllPermits
      <3>. QED  BY <3>1, <3>2, <3>3, <2>1 DEF Solutions
    <2>3. ASSUME NEW t \in Writing, NEW r \in Reading PROVE FALSE
      <3>0. t \in Writers /\ r \in Readers /\ pc[t] = "writing" /\ pc[r] = "reading" /\ r # t
        BY RWAssumption DEF Writing, Reading
      <3>1. CASE solution = "rw0"
        BY <3>0, <3>1 DEF Inv0, Lock, Writing, Reading
      <3>2. CASE solution \in {"rw1", "rw2"}
        BY <3>0, <3>2 DEF Inv12, Shared, Writing
      <3>3. CASE solution = "rw3"
        <4>1. /\ t \in RWThreads /\ r \in RWThreads /\ Has(t) = N /\ Has(r) = 1
              /\ Cardinality(Permits) <= N
          BY <3>0, <3>3, <2>1, RWAssumption, Finite DEF Inv3, TakenInv, Has, RWThreads, Semaphores
        <4>. QED  BY <3>0, <4>1, <2>1, AllPermits
      <3>. QED  BY <3>1, <3>2, <3>3, <2>1 DEF Solutions
    <2>4. WritersAreExclusive
      BY <2>2, <2>3, AtMostOne DEF WritersAreExclusive
    <2>5. WritersQueueAside
      BY AtMostOne DEF WritersQueueAside, Inv2, Lock, Ahead
    <2>. QED  BY <2>4, <2>5 DEF WritersTakeTurns
  <1>. QED  BY <1>1, InvariantHolds, PTL

-----------------------------------------------------------------------------
(* The barrier.                                                            *)

\* How many posts semaphore pe has from q: one for each barrier q arrived at,
\* except the last one when q has not come to pe.
Posts(q, pe) == arrived[q] - (IF inside[q] /\ s[q] <= pe THEN 1 ELSE 0)

PostsGiven(pe) == {x \in Procs \X (1 .. MaxBarriers) : x[2] <= Posts(x[1], pe)}

\* All of barrier 1 to k.
Until(k) == Procs \X (1 .. k)

LooseTypes ==
  /\ psem \in [Procs -> Nat] /\ inside \in [Procs -> BOOLEAN] /\ s \in [Procs -> 0 .. Npes]
  /\ arrived \in [Procs -> 0 .. MaxBarriers] /\ passed \in [Procs -> 0 .. MaxBarriers]

OneAtATime == \A q \in Procs : arrived[q] = IF inside[q] THEN passed[q] + 1 ELSE passed[q]

\* What a semaphore counts is what was posted to it less what its owner took:
\* a post is not labelled, but it is one of these.
PostsAreCounted == \A pe \in Procs : psem[pe] + Npes * passed[pe] = Cardinality(PostsGiven(pe))

BarrierInv == LooseTypes /\ OneAtATime /\ PostsAreCounted /\ NobodyPassesAlone

-----------------------------------------------------------------------------
(* Counting.                                                               *)

LEMMA ProcsFinite == IsFiniteSet(Procs) /\ Cardinality(Procs) = Npes
  <1>1. 0 \in Int /\ Npes - 1 \in Int /\ 0 <= Npes - 1
    BY BarrierAssumption
  <1>2. IsFiniteSet(0 .. Npes - 1) /\ Cardinality(0 .. Npes - 1) = (Npes - 1) - 0 + 1
    BY <1>1, FS_Interval
  <1>. QED  BY <1>2, BarrierAssumption DEF Procs

LEMMA UntilFinite ==
  ASSUME NEW k \in Nat
  PROVE  IsFiniteSet(Until(k)) /\ Cardinality(Until(k)) = Npes * k
  <1>1. IsFiniteSet(1 .. k) /\ Cardinality(1 .. k) = k
    BY FS_Interval
  <1>. QED  BY <1>1, ProcsFinite, FS_Product DEF Until

LEMMA GivenFinite ==
  ASSUME NEW pe
  PROVE  IsFiniteSet(PostsGiven(pe)) /\ Cardinality(PostsGiven(pe)) \in Nat
  <1>1. PostsGiven(pe) \in SUBSET Until(MaxBarriers)
    BY DEF PostsGiven, Until
  <1>2. IsFiniteSet(PostsGiven(pe))
    BY <1>1, UntilFinite, FS_Subset, BarrierAssumption
  <1>. QED  BY <1>2, FS_CardinalityType

\* If nobody was counted past barrier k, the count is at most Npes * k, and
\* less if somebody was not counted there.
LEMMA AtMost ==
  ASSUME NEW pe, NEW k \in Nat, \A q \in Procs : Posts(q, pe) \in Int /\ Posts(q, pe) <= k
  PROVE  /\ Cardinality(PostsGiven(pe)) <= Npes * k
         /\ \A r \in Procs : k > 0 /\ Posts(r, pe) < k => Cardinality(PostsGiven(pe)) < Npes * k
  <1>1. PostsGiven(pe) \in SUBSET Until(k)
    BY BarrierAssumption DEF PostsGiven, Until
  <1>2. /\ IsFiniteSet(Until(k)) /\ Cardinality(Until(k)) = Npes * k
        /\ IsFiniteSet(PostsGiven(pe)) /\ Cardinality(PostsGiven(pe)) \in Nat
    BY UntilFinite, GivenFinite
  <1>3. Cardinality(PostsGiven(pe)) <= Npes * k /\ (Cardinality(PostsGiven(pe)) = Npes * k => PostsGiven(pe) = Until(k))
    BY <1>1, <1>2, FS_Subset
  <1>4. ASSUME NEW r \in Procs, k > 0, Posts(r, pe) < k
        PROVE  PostsGiven(pe) # Until(k)
    <2>1. <<r, k>> \in Until(k)
      BY <1>4 DEF Until
    <2>2. <<r, k>> \notin PostsGiven(pe)
      BY <1>4 DEF PostsGiven
    <2>. QED  BY <2>1, <2>2
  <1>5. Npes * k \in Nat
    BY BarrierAssumption, SMT
  <1>. QED  BY <1>2, <1>3, <1>4, <1>5

LEMMA OneMore ==
  ASSUME NEW x \in Nat
  PROVE  Npes * (x + 1) = Npes * x + Npes /\ Npes * x \in Nat
  BY BarrierAssumption, SMT

-----------------------------------------------------------------------------
(* The invariant of the barrier.                                           *)

LEMMA BarrierInitially == BarrierInit => BarrierInv
  <1>. SUFFICES ASSUME BarrierInit PROVE BarrierInv
    OBVIOUS
  <1>. USE DEF BarrierInit
  <1>1. LooseTypes /\ OneAtATime /\ NobodyPassesAlone
    BY BarrierAssumption DEF LooseTypes, OneAtATime, NobodyPassesAlone
  <1>2. ASSUME NEW pe \in Procs PROVE psem[pe] + Npes * passed[pe] = Cardinality(PostsGiven(pe))
    <2>1. \A q \in Procs : Posts(q, pe) = 0
      BY DEF Posts
    <2>2. PostsGiven(pe) = {}
      BY <2>1, BarrierAssumption DEF PostsGiven
    <2>3. Npes * 0 = 0
      BY BarrierAssumption, SMT
    <2>. QED  BY <2>2, <2>3, FS_EmptySet
  <1>. QED  BY <1>1, <1>2 DEF BarrierInv, PostsAreCounted

\* Posts that stay keep the count.
LEMMA SamePosts ==
  ASSUME NEW t, \A q \in Procs : Posts(q, t)' = Posts(q, t)
  PROVE  PostsGiven(t)' = PostsGiven(t)
  BY DEF PostsGiven

LEMMA BarrierInvariance == BarrierInv /\ [BarrierNext]_barrierVars => BarrierInv'
  <1>. SUFFICES ASSUME BarrierInv, [BarrierNext]_barrierVars PROVE BarrierInv'
    OBVIOUS
  <1>. USE DEF BarrierInv, LooseTypes
  <1>0. Npes \in Nat \ {0} /\ MaxBarriers \in Nat /\ Procs \subseteq Nat /\ \A q \in Procs : q < Npes
    BY BarrierAssumption DEF Procs
  <1>1. ASSUME NEW pe \in Procs, Arrive(pe) PROVE BarrierInv'
    <2>1. LooseTypes' /\ OneAtATime'
      BY <1>1, <1>0 DEF Arrive, OneAtATime
    <2>2. NobodyPassesAlone'
      BY <1>1, <1>0 DEF Arrive, NobodyPassesAlone
    <2>3. ASSUME NEW t \in Procs, NEW q \in Procs PROVE Posts(q, t)' = Posts(q, t)
      BY <1>1, <1>0 DEF Arrive, Posts
    <2>4. PostsAreCounted'
      BY <1>1, <2>3, SamePosts DEF Arrive, PostsAreCounted
    <2>. QED  BY <2>1, <2>2, <2>4
  <1>2. ASSUME NEW pe \in Procs, Post(pe) PROVE BarrierInv'
    <2>1. s[pe] \in Procs
      BY <1>2, <1>0 DEF Post, Procs
    <2>2. LooseTypes' /\ OneAtATime' /\ NobodyPassesAlone'
      BY <1>2, <2>1, <1>0 DEF Post, OneAtATime, NobodyPassesAlone
    <2>3. ASSUME NEW t \in Procs, t # s[pe], NEW q \in Procs PROVE Posts(q, t)' = Posts(q, t)
      <3>1. q # pe => s'[q] = s[q]
        BY <1>2 DEF Post
      <3>2. s'[pe] = s[pe] + 1 /\ inside' = inside /\ arrived' = arrived
        BY <1>2 DEF Post
      <3>. QED  BY <3>1, <3>2, <2>3, <1>0 DEF Posts
    <2>4. ASSUME NEW t \in Procs, t # s[pe] PROVE psem'[t] + Npes * passed'[t] = Cardinality(PostsGiven(t)')
      BY <1>2, <2>3, <2>4, SamePosts DEF Post, PostsAreCounted
    <2>5. ASSUME NEW t \in Procs, t = s[pe] PROVE psem'[t] + Npes * passed'[t] = Cardinality(PostsGiven(t)')
      <3>0. PICK n : n = arrived[pe]
        OBVIOUS
      <3>1. inside[pe] /\ n \in 1 .. MaxBarriers
        BY <1>2, <3>0, <1>0 DEF Post, OneAtATime
      <3>2. Posts(pe, t) = n - 1 /\ Posts(pe, t)' = n
        BY <1>2, <3>0, <3>1, <2>5, <1>0 DEF Post, Posts
      <3>3. \A q \in Procs : q # pe => Posts(q, t)' = Posts(q, t)
        BY <1>2 DEF Post, Posts
      <3>4. <<pe, n>> \notin PostsGiven(t)
        BY <3>1, <3>2 DEF PostsGiven
      <3>5. PostsGiven(t)' = PostsGiven(t) \cup {<<pe, n>>}
        <4>1. ASSUME NEW q \in Procs, NEW b \in 1 .. MaxBarriers
              PROVE  <<q, b>> \in PostsGiven(t)' <=> <<q, b>> \in PostsGiven(t) \cup {<<pe, n>>}
          <5>1. <<q, b>> \in PostsGiven(t)' <=> b <= Posts(q, t)'
            BY DEF PostsGiven
          <5>2. <<q, b>> \in PostsGiven(t) <=> b <= Posts(q, t)
            BY DEF PostsGiven
          <5>3. CASE q # pe
            BY <5>1, <5>2, <5>3, <3>3
          <5>4. CASE q = pe
            <6>1. b <= n <=> b <= n - 1 \/ b = n
              BY <3>1
            <6>. QED  BY <5>1, <5>2, <5>4, <6>1, <3>2
          <5>. QED  BY <5>3, <5>4
        <4>2. /\ PostsGiven(t)' \subseteq Procs \X (1 .. MaxBarriers)
              /\ PostsGiven(t) \cup {<<pe, n>>} \subseteq Procs \X (1 .. MaxBarriers)
          BY <3>1 DEF PostsGiven
        <4>. QED  BY <4>1, <4>2
      <3>6. Cardinality(PostsGiven(t)') = Cardinality(PostsGiven(t)) + 1
        BY <3>4, <3>5, GivenFinite, FS_AddElement
      <3>7. psem'[t] = psem[t] + 1 /\ passed' = passed
        BY <1>2, <2>5 DEF Post
      <3>8. psem[t] + Npes * passed[t] = Cardinality(PostsGiven(t)) /\ psem[t] \in Nat /\ Npes * passed[t] \in Nat
        BY <1>0, OneMore DEF PostsAreCounted
      <3>. QED  BY <3>6, <3>7, <3>8
    <2>6. PostsAreCounted'
      BY <2>4, <2>5 DEF PostsAreCounted
    <2>. QED  BY <2>2, <2>6
  <1>3. ASSUME NEW pe \in Procs, Pass(pe) PROVE BarrierInv'
    <2>. DEFINE k == passed[pe] + 1
    <2>1. /\ inside[pe] /\ s[pe] = Npes /\ psem[pe] >= Npes /\ arrived[pe] = k /\ k \in 1 .. MaxBarriers
          /\ psem' = [psem EXCEPT ![pe] = @ - Npes] /\ inside' = [inside EXCEPT ![pe] = FALSE]
          /\ passed' = [passed EXCEPT ![pe] = @ + 1] /\ s' = s /\ arrived' = arrived
      BY <1>3, <1>0 DEF Pass, OneAtATime
    <2>2. LooseTypes' /\ OneAtATime'
      BY <2>1, <1>0 DEF OneAtATime
    <2>3. psem[pe] + Npes * passed[pe] = Cardinality(PostsGiven(pe))
      BY DEF PostsAreCounted
    <2>4. Npes * k = Npes * passed[pe] + Npes /\ Npes * passed[pe] \in Nat
      BY OneMore
    <2>5. Cardinality(PostsGiven(pe)) >= Npes * k
      BY <2>1, <2>3, <2>4, <1>0
    <2>6. ASSUME NEW r \in Procs, arrived[r] < k PROVE FALSE
      <3>1. ASSUME NEW q \in Procs PROVE Posts(q, pe) \in Int /\ Posts(q, pe) <= arrived[q] /\ arrived[q] <= k
        <4>1. passed[q] < k
          BY <2>6 DEF NobodyPassesAlone
        <4>. QED  BY <4>1, <2>1 DEF OneAtATime, Posts
      <3>2. Cardinality(PostsGiven(pe)) < Npes * k
        BY <3>1, <2>1, <2>6, AtMost
      <3>. QED  BY <3>2, <2>5, <2>4, <1>0, GivenFinite
    <2>7. NobodyPassesAlone'
      BY <2>1, <2>6, <1>0 DEF NobodyPassesAlone
    <2>8. ASSUME NEW t \in Procs, NEW q \in Procs PROVE Posts(q, t)' = Posts(q, t)
      BY <2>1, <1>0 DEF Posts
    <2>9. ASSUME NEW t \in Procs PROVE psem'[t] + Npes * passed'[t] = Cardinality(PostsGiven(t)')
      <3>1. PostsGiven(t)' = PostsGiven(t)
        BY <2>8, SamePosts
      <3>2. CASE t = pe
        <4>1. psem'[t] = psem[pe] - Npes /\ passed'[t] = k
          BY <3>2, <2>1
        <4>. HIDE DEF k
        <4>2. (psem[pe] - Npes) + (Npes * passed[pe] + Npes) = Cardinality(PostsGiven(pe))
          BY <2>3, <2>4, <1>0
        <4>. QED  BY <4>1, <4>2, <2>4, <3>1, <3>2
      <3>3. CASE t # pe
        BY <3>1, <3>3, <2>1 DEF PostsAreCounted
      <3>. QED  BY <3>2, <3>3
    <2>10. PostsAreCounted'
      BY <2>9 DEF PostsAreCounted
    <2>. QED  BY <2>2, <2>7, <2>10
  <1>4. CASE UNCHANGED barrierVars
    <2>1. UNCHANGED <<psem, inside, s, arrived, passed>>
      BY <1>4 DEF barrierVars
    <2>2. \A t, q : Posts(q, t)' = Posts(q, t)
      BY <2>1 DEF Posts
    <2>3. \A t : PostsGiven(t)' = PostsGiven(t)
      BY <2>2, SamePosts
    <2>. QED  BY <2>1, <2>3 DEF OneAtATime, PostsAreCounted, NobodyPassesAlone
  <1>. QED  BY <1>1, <1>2, <1>3, <1>4 DEF BarrierNext, BarrierStep

LEMMA BarrierInvariantHolds == BarrierSpec => []BarrierInv
  BY BarrierInitially, BarrierInvariance, PTL DEF BarrierSpec

\* Whatever the number of processes, and however far a fast one is ahead:
\* nobody passes a barrier of par.c before everybody has arrived at it.
THEOREM NobodyAlone == BarrierSpec => []NobodyPassesAlone
  BY BarrierInvariantHolds, PTL DEF BarrierInv

\* No semaphore of par.c ever counts more than twice par_npes: the posts for
\* its owner's barrier and those of the processes that are one ahead.
THEOREM SemaphoresBounded == BarrierSpec => []BarrierTypeOK
  <1>1. BarrierInv => BarrierTypeOK
    <2>. SUFFICES ASSUME BarrierInv PROVE BarrierTypeOK
      OBVIOUS
    <2>. USE DEF BarrierInv, LooseTypes
    <2>1. ASSUME NEW pe \in Procs PROVE psem[pe] \in 0 .. 2 * Npes
      <3>. DEFINE k == passed[pe] + 2
      <3>1. ASSUME NEW q \in Procs PROVE Posts(q, pe) \in Int /\ Posts(q, pe) <= k
        BY DEF OneAtATime, NobodyPassesAlone, Posts
      <3>2. Cardinality(PostsGiven(pe)) <= Npes * k
        BY <3>1, AtMost
      <3>3. Npes * k = Npes * passed[pe] + 2 * Npes /\ Npes * passed[pe] \in Nat
        BY BarrierAssumption, SMT
      <3>4. psem[pe] + Npes * passed[pe] = Cardinality(PostsGiven(pe))
        BY DEF PostsAreCounted
      <3>. QED  BY <3>2, <3>3, <3>4, BarrierAssumption
    <2>. QED  BY <2>1 DEF BarrierTypeOK
  <1>. QED  BY <1>1, BarrierInvariantHolds, PTL
================================================================================
