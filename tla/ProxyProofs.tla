----------------------------- MODULE ProxyProofs -----------------------------
(***************************************************************************)
(* Proofs about the proxy's cache, for every number of blocks, every       *)
(* finite set of threads and every set of URLs.                            *)
(***************************************************************************)
EXTENDS ProxyCache, FiniteSetTheorems, TLAPS

\* The threads counted in readcnt of block i by where they are, those that
\* took a reference in cache_find and kept it, the one that still waits for
\* wmutex, and the writers.
Ins(i)     == {t \in Threads : at[t] \in ReaderSites /\ blk[t] = i
                                 /\ stage[t] \in {"first", "in", "claim", "post", "last"}}
Kepts(i)   == {t \in Threads : held[t] /\ idx[t] = i}
Firsts(i)  == {t \in Threads : at[t] \in ReaderSites /\ blk[t] = i /\ stage[t] = "first"}
Writers(i) == {t \in Threads : Writing(t) /\ blk[t] = i}

NoReader(i) == Ins(i) = {} /\ Kepts(i) = {}

\* What the semaphores and the counter of block i say about the threads.
LockInv(i) ==
  /\ readcnt[i] = Cardinality(Ins(i)) + Cardinality(Kepts(i))
  /\ \A t \in Firsts(i) : Ins(i) = {t} /\ Kepts(i) = {}
  /\ rdcntmutex[i] = IF Firsts(i) = {} THEN 1 ELSE 0
  /\ \/ /\ wmutex[i] = 1
        /\ Writers(i) = {}
        /\ NoReader(i) \/ Firsts(i) # {}
     \/ /\ wmutex[i] = 0
        /\ \E t \in Threads : Writers(i) = {t}
        /\ NoReader(i) \/ Firsts(i) # {}
     \/ /\ wmutex[i] = 0
        /\ Writers(i) = {} /\ Firsts(i) = {} /\ ~NoReader(i)

\* A thread that kept its reference is on the path of a hit.
KeptInv ==
  \A t \in Threads : held[t] =>
    /\ at[t] \in {"hit", "touch", "age", "done"}
    /\ idx[t] \in Blocks
    /\ at[t] \in {"hit", "touch"} => blk[t] = idx[t]

\* cache_eviction has a candidate as soon as it has looked at one block.
VictimInv ==
  \A t \in Threads :
    /\ at[t] = "evict" =>
         /\ top[t] = -2 \/ idx[t] \in Blocks
         /\ stage[t] \in {"claim", "post", "last"} => idx[t] \in Blocks
    /\ at[t] = "store" => idx[t] \in Blocks
    /\ at[t] \in {"idle", "find", "headers", "spin", "fetch"} => top[t] = -2

IInv ==
  /\ TypeOK
  /\ \A i \in Blocks : LockInv(i)
  /\ KeptInv
  /\ VictimInv

-----------------------------------------------------------------------------
(* Counting.                                                               *)

LEMMA CardAdd ==
  ASSUME NEW S, S \subseteq Threads, NEW t \in Threads, t \notin S
  PROVE  Cardinality(S) \in Nat /\ Cardinality(S \cup {t}) = Cardinality(S) + 1
<1>1. IsFiniteSet(S)
  BY ThreadsAssumption, FS_Subset
<1> QED
  BY <1>1, FS_AddElement, FS_CardinalityType

LEMMA CardRemove ==
  ASSUME NEW S, S \subseteq Threads, NEW t \in S
  PROVE  Cardinality(S) \in Nat \ {0} /\ Cardinality(S \ {t}) = Cardinality(S) - 1
<1>1. IsFiniteSet(S)
  BY ThreadsAssumption, FS_Subset
<1>2. Cardinality(S) \in Nat /\ Cardinality(S) # 0
  BY <1>1, FS_CardinalityType, FS_EmptySet
<1> QED
  BY <1>1, <1>2, FS_RemoveElement

LEMMA CardZero ==
  ASSUME NEW S, S \subseteq Threads
  PROVE  Cardinality(S) \in Nat /\ (Cardinality(S) = 0 <=> S = {})
<1>1. IsFiniteSet(S)
  BY ThreadsAssumption, FS_Subset
<1> QED
  BY <1>1, FS_CardinalityType, FS_EmptySet

-----------------------------------------------------------------------------
(* What the steps of the lock do to LockInv, told by their effect on the   *)
(* four sets of one block.                                                 *)

SameSets(i) ==
  /\ Ins(i)' = Ins(i) /\ Kepts(i)' = Kepts(i)
  /\ Firsts(i)' = Firsts(i) /\ Writers(i)' = Writers(i)

SameLock(i) ==
  readcnt'[i] = readcnt[i] /\ rdcntmutex'[i] = rdcntmutex[i] /\ wmutex'[i] = wmutex[i]

LEMMA Untouched ==
  ASSUME NEW i, LockInv(i), SameSets(i), SameLock(i)
  PROVE  LockInv(i)'
<1>1. NoReader(i)' = NoReader(i)
  BY DEF NoReader, SameSets
<1> QED
  BY <1>1 DEF LockInv, SameSets, SameLock

\* The first step of readerPre.
LEMMA Enters ==
  ASSUME NEW i, LockInv(i), NEW t \in Threads, t \notin Ins(i), rdcntmutex[i] > 0,
         Ins(i)' = Ins(i) \cup {t}, Kepts(i)' = Kepts(i), Writers(i)' = Writers(i),
         readcnt'[i] = readcnt[i] + 1, wmutex'[i] = wmutex[i],
         \/ readcnt[i] = 0 /\ Firsts(i)' = {t} /\ rdcntmutex'[i] = rdcntmutex[i] - 1
         \/ readcnt[i] # 0 /\ Firsts(i)' = Firsts(i) /\ rdcntmutex'[i] = rdcntmutex[i]
  PROVE  LockInv(i)'
<1> USE DEF LockInv, NoReader
<1>1. Ins(i) \subseteq Threads /\ Kepts(i) \subseteq Threads
  BY DEF Ins, Kepts
<1>2. /\ Cardinality(Ins(i)) \in Nat /\ Cardinality(Kepts(i)) \in Nat
      /\ Cardinality(Ins(i)') = Cardinality(Ins(i)) + 1
  BY <1>1, CardAdd, CardZero
<1>3. Firsts(i) = {} /\ rdcntmutex[i] = 1
  OBVIOUS
<1>4. readcnt[i] = 0 <=> NoReader(i)
  BY <1>1, <1>2, CardZero
<1>5. CASE readcnt[i] = 0
  BY <1>2, <1>3, <1>4, <1>5
<1>6. CASE readcnt[i] # 0
  BY <1>2, <1>3, <1>4, <1>6
<1> QED
  BY <1>5, <1>6

\* The first reader gets wmutex.
LEMMA FirstEnters ==
  ASSUME NEW i, LockInv(i), NEW t \in Firsts(i), wmutex[i] > 0,
         Ins(i)' = Ins(i), Kepts(i)' = Kepts(i), Writers(i)' = Writers(i),
         Firsts(i)' = Firsts(i) \ {t},
         readcnt'[i] = readcnt[i], wmutex'[i] = wmutex[i] - 1,
         rdcntmutex'[i] = rdcntmutex[i] + 1
  PROVE  LockInv(i)'
<1>1. Firsts(i) \subseteq Ins(i)
  BY DEF Firsts, Ins
<1> QED
  BY <1>1 DEF LockInv, NoReader

\* cache_find leaves its loop as a reader.
LEMMA Keeps ==
  ASSUME NEW i, LockInv(i), NEW t \in Ins(i), t \notin Kepts(i), t \notin Firsts(i),
         Ins(i)' = Ins(i) \ {t}, Kepts(i)' = Kepts(i) \cup {t},
         Firsts(i)' = Firsts(i), Writers(i)' = Writers(i), SameLock(i)
  PROVE  LockInv(i)'
<1>1. Ins(i) \subseteq Threads /\ Kepts(i) \subseteq Threads /\ Firsts(i) \subseteq Ins(i)
  BY DEF Ins, Kepts, Firsts
<1>2. /\ Cardinality(Ins(i)') = Cardinality(Ins(i)) - 1
      /\ Cardinality(Kepts(i)') = Cardinality(Kepts(i)) + 1
      /\ Cardinality(Ins(i)) \in Nat /\ Cardinality(Kepts(i)) \in Nat
  BY <1>1, CardAdd, CardRemove
<1>3. Firsts(i) = {}
  BY <1>1 DEF LockInv
<1> QED
  BY <1>2, <1>3 DEF LockInv, NoReader, SameLock

\* readerAfter.
LEMMA Leaves ==
  ASSUME NEW i, LockInv(i), NEW t \in Ins(i), t \notin Firsts(i),
         Ins(i)' = Ins(i) \ {t}, Kepts(i)' = Kepts(i),
         Firsts(i)' = Firsts(i), Writers(i)' = Writers(i),
         readcnt'[i] = readcnt[i] - 1, rdcntmutex'[i] = rdcntmutex[i],
         wmutex'[i] = IF readcnt[i] = 1 THEN wmutex[i] + 1 ELSE wmutex[i]
  PROVE  LockInv(i)' /\ readcnt[i] > 0
<1>1. Ins(i) \subseteq Threads /\ Kepts(i) \subseteq Threads /\ Firsts(i) \subseteq Ins(i)
  BY DEF Ins, Kepts, Firsts
<1>2. /\ Cardinality(Ins(i)') = Cardinality(Ins(i)) - 1
      /\ Cardinality(Ins(i)) \in Nat \ {0} /\ Cardinality(Kepts(i)) \in Nat
  BY <1>1, CardZero, CardRemove
<1>3. Firsts(i) = {}
  BY <1>1 DEF LockInv
<1>4. /\ Cardinality(Ins(i) \ {t}) = 0 <=> Ins(i) \ {t} = {}
      /\ Cardinality(Kepts(i)) = 0 <=> Kepts(i) = {}
  BY <1>1, CardZero
<1>5. readcnt[i] = Cardinality(Ins(i)) + Cardinality(Kepts(i))
  BY DEF LockInv
<1>6. readcnt[i] = 1 <=> NoReader(i)'
  BY <1>2, <1>4, <1>5 DEF NoReader
<1>7. wmutex[i] = 0 /\ rdcntmutex[i] = 1 /\ Writers(i) = {}
  BY <1>3 DEF LockInv, NoReader
<1>8. readcnt'[i] = Cardinality(Ins(i)') + Cardinality(Kepts(i)')
  BY <1>2, <1>5
<1> QED
  BY <1>2, <1>3, <1>5, <1>6, <1>7, <1>8 DEF LockInv

\* writerPre.
LEMMA WriterEnters ==
  ASSUME NEW i, LockInv(i), NEW t \in Threads, wmutex[i] > 0,
         Ins(i)' = Ins(i), Kepts(i)' = Kepts(i), Firsts(i)' = Firsts(i),
         Writers(i)' = Writers(i) \cup {t},
         readcnt'[i] = readcnt[i], rdcntmutex'[i] = rdcntmutex[i],
         wmutex'[i] = wmutex[i] - 1
  PROVE  LockInv(i)'
BY DEF LockInv, NoReader

\* writerAfter.
LEMMA WriterLeaves ==
  ASSUME NEW i, LockInv(i), NEW t \in Writers(i),
         Ins(i)' = Ins(i), Kepts(i)' = Kepts(i), Firsts(i)' = Firsts(i),
         Writers(i)' = Writers(i) \ {t},
         readcnt'[i] = readcnt[i], rdcntmutex'[i] = rdcntmutex[i],
         wmutex'[i] = wmutex[i] + 1
  PROVE  LockInv(i)'
BY DEF LockInv, NoReader

-----------------------------------------------------------------------------
(* The steps of the threads.                                               *)

\* Thread t goes to place s, stage st and block i; what it kept stays.
Moves(t, s, st, i) == Goto(t, s, st, i) /\ UNCHANGED <<held, idx>>

\* Whether a thread in place s at stage st is in the reader or writer sets.
CountsIn(s, st)   == s \in ReaderSites /\ st \in {"first", "in", "claim", "post", "last"}
CountsHeld(s, st) == s \in ReaderSites /\ st = "first"
CountsOut(s, st)  == s \in WriterSites /\ st \in {"in", "obj"}

\* S is what it was, but for t, which was in it iff `before' and is iff `after'.
Updates(S, T, t, before, after) ==
  /\ t \in S <=> before
  /\ (before <=> after) => T = S
  /\ ~before /\ after => T = S \cup {t}
  /\ before /\ ~after => T = S \ {t}

\* How a move of t to place s, stage st and block i changes the sets of block k.
Effect(t, s, st, i, k) ==
  /\ Kepts(k)' = Kepts(k)
  /\ Updates(Ins(k), Ins(k)', t, CountsIn(at[t], stage[t]) /\ blk[t] = k,
             CountsIn(s, st) /\ i = k)
  /\ Updates(Firsts(k), Firsts(k)', t, CountsHeld(at[t], stage[t]) /\ blk[t] = k,
             CountsHeld(s, st) /\ i = k)
  /\ Updates(Writers(k), Writers(k)', t, CountsOut(at[t], stage[t]) /\ blk[t] = k,
             CountsOut(s, st) /\ i = k)

LEMMA MoveEffect ==
  ASSUME TypeOK, NEW t \in Threads, NEW s, NEW st, NEW i \in Blocks, Moves(t, s, st, i),
         NEW k \in Blocks
  PROVE  Effect(t, s, st, i, k)
<1>1. /\ at' = [at EXCEPT ![t] = s] /\ stage' = [stage EXCEPT ![t] = st]
      /\ blk' = [blk EXCEPT ![t] = i] /\ held' = held /\ idx' = idx
  BY DEF Moves, Goto
<1> USE <1>1 DEF TypeOK
<1>2. Kepts(k)' = Kepts(k)
  BY DEF Kepts
<1>3. \A u \in Threads : u # t =>
        /\ u \in Ins(k)' <=> u \in Ins(k)
        /\ u \in Firsts(k)' <=> u \in Firsts(k)
        /\ u \in Writers(k)' <=> u \in Writers(k)
  BY DEF Ins, Firsts, Writers, Writing
<1>4. /\ t \in Ins(k) <=> CountsIn(at[t], stage[t]) /\ blk[t] = k
      /\ t \in Firsts(k) <=> CountsHeld(at[t], stage[t]) /\ blk[t] = k
      /\ t \in Writers(k) <=> CountsOut(at[t], stage[t]) /\ blk[t] = k
  BY DEF Ins, Firsts, Writers, Writing, CountsIn, CountsHeld, CountsOut
<1>5. /\ t \in Ins(k)' <=> CountsIn(s, st) /\ i = k
      /\ t \in Firsts(k)' <=> CountsHeld(s, st) /\ i = k
      /\ t \in Writers(k)' <=> CountsOut(s, st) /\ i = k
  BY DEF Ins, Firsts, Writers, Writing, CountsIn, CountsHeld, CountsOut
<1>6. /\ Ins(k) \subseteq Threads /\ Firsts(k) \subseteq Threads /\ Writers(k) \subseteq Threads
      /\ Ins(k)' \subseteq Threads /\ Firsts(k)' \subseteq Threads
      /\ Writers(k)' \subseteq Threads
  BY DEF Ins, Firsts, Writers
<1> HIDE <1>1 DEF TypeOK
<1>7. Updates(Ins(k), Ins(k)', t, CountsIn(at[t], stage[t]) /\ blk[t] = k,
              CountsIn(s, st) /\ i = k)
  BY <1>3, <1>4, <1>5, <1>6 DEF Updates
<1>8. Updates(Firsts(k), Firsts(k)', t, CountsHeld(at[t], stage[t]) /\ blk[t] = k,
              CountsHeld(s, st) /\ i = k)
  BY <1>3, <1>4, <1>5, <1>6 DEF Updates
<1>9. Updates(Writers(k), Writers(k)', t, CountsOut(at[t], stage[t]) /\ blk[t] = k,
              CountsOut(s, st) /\ i = k)
  BY <1>3, <1>4, <1>5, <1>6 DEF Updates
<1> QED
  BY <1>2, <1>7, <1>8, <1>9 DEF Effect

\* A move between places of the same kind, on the same block when they count,
\* with the semaphores left alone.
LEMMA NeutralMove ==
  ASSUME TypeOK, \A k \in Blocks : LockInv(k), UNCHANGED lockVars,
         NEW t \in Threads, NEW s, NEW st, NEW i \in Blocks, Moves(t, s, st, i),
         CountsIn(s, st) <=> CountsIn(at[t], stage[t]),
         CountsHeld(s, st) <=> CountsHeld(at[t], stage[t]),
         CountsOut(s, st) <=> CountsOut(at[t], stage[t]),
         CountsIn(s, st) \/ CountsOut(s, st) => i = blk[t]
  PROVE  \A k \in Blocks : LockInv(k)'
<1> SUFFICES ASSUME NEW k \in Blocks PROVE LockInv(k)'
  OBVIOUS
<1>1. CountsHeld(s, st) => CountsIn(s, st)
  BY DEF CountsHeld, CountsIn
<1>2. Effect(t, s, st, i, k)
  BY MoveEffect
<1>3. SameSets(k)
  BY <1>1, <1>2 DEF Effect, SameSets, Updates
<1>4. SameLock(k)
  BY DEF lockVars, SameLock
<1> QED
  BY <1>3, <1>4, Untouched

\* A move on one block changes the sets of no other block.
LEMMA OtherBlocks ==
  ASSUME TypeOK, NEW t \in Threads, NEW s, NEW st, NEW i \in Blocks, Moves(t, s, st, i),
         CountsIn(s, st) \/ CountsOut(s, st) => i = blk[t],
         NEW k \in Blocks, k # blk[t]
  PROVE  SameSets(k)
<1>1. CountsHeld(s, st) => CountsIn(s, st)
  BY DEF CountsHeld, CountsIn
<1>2. Effect(t, s, st, i, k)
  BY MoveEffect
<1> QED
  BY <1>1, <1>2 DEF Effect, SameSets, Updates

\* readerPre: the first step of a reader, and the second of the first reader.
LEMMA ReaderPreKeepsLock ==
  ASSUME TypeOK, \A k \in Blocks : LockInv(k), NEW t \in Threads, readerPre(t)
  PROVE  \A k \in Blocks : LockInv(k)'
<1>0. PICK i \in Blocks : i = blk[t]
  BY DEF TypeOK
<1>1. i = blk[t] /\ at[t] \in ReaderSites /\ at[t] \notin WriterSites
  BY <1>0 DEF readerPre, ReaderSites, WriterSites
<1>2. /\ CountsIn(at[t], "in") /\ CountsIn(at[t], "first") /\ ~CountsIn(at[t], "pre")
      /\ CountsHeld(at[t], "first") /\ ~CountsHeld(at[t], "in") /\ ~CountsHeld(at[t], "pre")
      /\ \A st : ~CountsOut(at[t], st)
  BY <1>1 DEF CountsIn, CountsHeld, CountsOut
<1>3. CASE stage[t] = "pre" /\ readcnt[i] = 0
  <2>1. /\ rdcntmutex[i] > 0 /\ wmutex' = wmutex
        /\ readcnt' = [readcnt EXCEPT ![i] = @ + 1]
        /\ rdcntmutex' = [rdcntmutex EXCEPT ![i] = @ - 1]
        /\ Moves(t, at[t], "first", i)
    BY <1>1, <1>3 DEF readerPre, Stage, Moves, FirstIn
  <2>2. Effect(t, at[t], "first", i, i)
    BY <1>1, <2>1, MoveEffect
  <2>3. t \notin Ins(i) /\ Ins(i)' = Ins(i) \cup {t} /\ Firsts(i)' = Firsts(i) \cup {t}
        /\ Writers(i)' = Writers(i) /\ Kepts(i)' = Kepts(i)
    BY <1>1, <1>2, <1>3, <2>2 DEF Effect, Updates
  <2>4. Firsts(i) = {}
    BY <1>1, <2>1 DEF LockInv
  <2>5. readcnt'[i] = readcnt[i] + 1 /\ rdcntmutex'[i] = rdcntmutex[i] - 1
    BY <1>1, <2>1 DEF TypeOK
  <2>6. LockInv(i)'
    BY <1>1, <1>3, <2>1, <2>3, <2>4, <2>5, Enters
  <2>7. ASSUME NEW k \in Blocks, k # i PROVE LockInv(k)'
    <3>1. SameSets(k)
      BY <1>1, <1>2, <2>1, <2>7, OtherBlocks
    <3>2. SameLock(k)
      BY <2>1, <2>7 DEF SameLock, TypeOK
    <3> QED
      BY <2>7, <3>1, <3>2, Untouched
  <2> QED
    BY <2>6, <2>7
<1>4. CASE stage[t] = "pre" /\ readcnt[i] # 0
  <2>1. /\ rdcntmutex[i] > 0 /\ wmutex' = wmutex
        /\ readcnt' = [readcnt EXCEPT ![i] = @ + 1]
        /\ rdcntmutex' = rdcntmutex
        /\ Moves(t, at[t], "in", i)
    BY <1>1, <1>4 DEF readerPre, Stage, Moves, FirstIn
  <2>2. Effect(t, at[t], "in", i, i)
    BY <1>1, <2>1, MoveEffect
  <2>3. t \notin Ins(i) /\ Ins(i)' = Ins(i) \cup {t} /\ Firsts(i)' = Firsts(i)
        /\ Writers(i)' = Writers(i) /\ Kepts(i)' = Kepts(i)
    BY <1>1, <1>2, <1>4, <2>2 DEF Effect, Updates
  <2>4. readcnt'[i] = readcnt[i] + 1
    BY <1>1, <2>1 DEF TypeOK
  <2>5. LockInv(i)'
    BY <1>1, <1>4, <2>1, <2>3, <2>4, Enters
  <2>6. ASSUME NEW k \in Blocks, k # i PROVE LockInv(k)'
    <3>1. SameSets(k)
      BY <1>1, <1>2, <2>1, <2>6, OtherBlocks
    <3>2. SameLock(k)
      BY <2>1, <2>6 DEF SameLock, TypeOK
    <3> QED
      BY <2>6, <3>1, <3>2, Untouched
  <2> QED
    BY <2>5, <2>6
<1>5. CASE stage[t] = "first"
  <2>1. /\ wmutex[i] > 0 /\ readcnt' = readcnt
        /\ wmutex' = [wmutex EXCEPT ![i] = @ - 1]
        /\ rdcntmutex' = [rdcntmutex EXCEPT ![i] = @ + 1]
        /\ Moves(t, at[t], "in", i)
    BY <1>1, <1>5 DEF readerPre, Stage, Moves
  <2>2. Effect(t, at[t], "in", i, i)
    BY <1>1, <2>1, MoveEffect
  <2>3. t \in Firsts(i) /\ Ins(i)' = Ins(i) /\ Firsts(i)' = Firsts(i) \ {t}
        /\ Writers(i)' = Writers(i) /\ Kepts(i)' = Kepts(i)
    BY <1>1, <1>2, <1>5, <2>2 DEF Effect, Updates
  <2>4. wmutex'[i] = wmutex[i] - 1 /\ rdcntmutex'[i] = rdcntmutex[i] + 1
    BY <1>1, <2>1 DEF TypeOK
  <2>5. LockInv(i)'
    BY <1>1, <2>1, <2>3, <2>4, FirstEnters
  <2>6. ASSUME NEW k \in Blocks, k # i PROVE LockInv(k)'
    <3>1. SameSets(k)
      BY <1>1, <1>2, <2>1, <2>6, OtherBlocks
    <3>2. SameLock(k)
      BY <2>1, <2>6 DEF SameLock, TypeOK
    <3> QED
      BY <2>6, <3>1, <3>2, Untouched
  <2> QED
    BY <2>5, <2>6
<1> QED
  BY <1>1, <1>3, <1>4, <1>5 DEF readerPre

\* readerAfter, with the move out of the reader's place that follows it.
LEMMA ReaderAfterKeepsLock ==
  ASSUME TypeOK, \A k \in Blocks : LockInv(k), NEW t \in Threads,
         CountsIn(at[t], stage[t]), ~CountsHeld(at[t], stage[t]), readerAfter(t),
         NEW s, NEW st, NEW j \in Blocks, Moves(t, s, st, j),
         ~CountsIn(s, st), ~CountsOut(s, st)
  PROVE  \A k \in Blocks : LockInv(k)'
<1>1. PICK i \in Blocks : i = blk[t]
  BY DEF TypeOK
<1>2. ~CountsOut(at[t], stage[t]) /\ ~CountsHeld(s, st)
  BY DEF CountsIn, CountsOut, CountsHeld, ReaderSites, WriterSites
<1>3. /\ readcnt' = [readcnt EXCEPT ![i] = @ - 1] /\ rdcntmutex' = rdcntmutex
      /\ wmutex' = IF readcnt[i] = 1 THEN [wmutex EXCEPT ![i] = @ + 1] ELSE wmutex
  BY <1>1 DEF readerAfter, LastOut
<1>4. Effect(t, s, st, j, i)
  BY MoveEffect
<1>5. t \in Ins(i) /\ t \notin Firsts(i) /\ Ins(i)' = Ins(i) \ {t} /\ Firsts(i)' = Firsts(i)
      /\ Writers(i)' = Writers(i) /\ Kepts(i)' = Kepts(i)
  BY <1>1, <1>2, <1>4 DEF Effect, Updates
<1>6. /\ readcnt'[i] = readcnt[i] - 1 /\ rdcntmutex'[i] = rdcntmutex[i]
      /\ wmutex'[i] = IF readcnt[i] = 1 THEN wmutex[i] + 1 ELSE wmutex[i]
  BY <1>3 DEF TypeOK
<1>7. LockInv(i)'
  BY <1>5, <1>6, Leaves
<1>8. ASSUME NEW k \in Blocks, k # i PROVE LockInv(k)'
  <2>1. SameSets(k)
    BY <1>1, <1>8, OtherBlocks
  <2>2. SameLock(k)
    BY <1>3, <1>8 DEF SameLock, TypeOK
  <2> QED
    BY <1>8, <2>1, <2>2, Untouched
<1> QED
  BY <1>7, <1>8

\* writerPre.
LEMMA WriterPreKeepsLock ==
  ASSUME TypeOK, \A k \in Blocks : LockInv(k), NEW t \in Threads, writerPre(t)
  PROVE  \A k \in Blocks : LockInv(k)'
<1>1. PICK i \in Blocks : i = blk[t]
  BY DEF TypeOK
<1>2. /\ \A st : ~CountsIn(at[t], st) /\ ~CountsHeld(at[t], st)
      /\ CountsOut(at[t], "in") /\ ~CountsOut(at[t], stage[t])
  BY DEF writerPre, CountsIn, CountsOut, CountsHeld, ReaderSites, WriterSites
<1>3. /\ wmutex[i] > 0 /\ wmutex' = [wmutex EXCEPT ![i] = @ - 1]
      /\ readcnt' = readcnt /\ rdcntmutex' = rdcntmutex
      /\ Moves(t, at[t], "in", i)
  BY <1>1 DEF writerPre, Stage, Moves
<1>4. Effect(t, at[t], "in", i, i)
  BY <1>3, MoveEffect
<1>5. Ins(i)' = Ins(i) /\ Firsts(i)' = Firsts(i) /\ Writers(i)' = Writers(i) \cup {t}
      /\ Kepts(i)' = Kepts(i)
  BY <1>1, <1>2, <1>4 DEF Effect, Updates
<1>6. wmutex'[i] = wmutex[i] - 1
  BY <1>3 DEF TypeOK
<1>7. LockInv(i)'
  BY <1>3, <1>5, <1>6, WriterEnters
<1>8. ASSUME NEW k \in Blocks, k # i PROVE LockInv(k)'
  <2>1. SameSets(k)
    BY <1>1, <1>3, <1>8, OtherBlocks
  <2>2. SameLock(k)
    BY <1>3, <1>8 DEF SameLock, TypeOK
  <2> QED
    BY <1>8, <2>1, <2>2, Untouched
<1> QED
  BY <1>7, <1>8

\* writerAfter, with the move out of the writer's place that follows it.
LEMMA WriterAfterKeepsLock ==
  ASSUME TypeOK, \A k \in Blocks : LockInv(k), NEW t \in Threads,
         CountsOut(at[t], stage[t]), writerAfter(blk[t]),
         NEW s, NEW st, NEW j \in Blocks, Moves(t, s, st, j),
         ~CountsIn(s, st), ~CountsOut(s, st)
  PROVE  \A k \in Blocks : LockInv(k)'
<1>1. PICK i \in Blocks : i = blk[t]
  BY DEF TypeOK
<1>2. /\ ~CountsIn(at[t], stage[t]) /\ ~CountsHeld(at[t], stage[t]) /\ ~CountsHeld(s, st)
  BY DEF CountsIn, CountsOut, CountsHeld, ReaderSites, WriterSites
<1>3. wmutex' = [wmutex EXCEPT ![i] = @ + 1] /\ readcnt' = readcnt /\ rdcntmutex' = rdcntmutex
  BY <1>1 DEF writerAfter
<1>4. Effect(t, s, st, j, i)
  BY MoveEffect
<1>5. t \in Writers(i) /\ Ins(i)' = Ins(i) /\ Firsts(i)' = Firsts(i)
      /\ Writers(i)' = Writers(i) \ {t} /\ Kepts(i)' = Kepts(i)
  BY <1>1, <1>2, <1>4 DEF Effect, Updates
<1>6. wmutex'[i] = wmutex[i] + 1
  BY <1>3 DEF TypeOK
<1>7. LockInv(i)'
  BY <1>3, <1>5, <1>6, WriterLeaves
<1>8. ASSUME NEW k \in Blocks, k # i PROVE LockInv(k)'
  <2>1. SameSets(k)
    BY <1>1, <1>8, OtherBlocks
  <2>2. SameLock(k)
    BY <1>3, <1>8 DEF SameLock, TypeOK
  <2> QED
    BY <1>8, <2>1, <2>2, Untouched
<1> QED
  BY <1>7, <1>8

\* The match of cache_find: the reader's reference becomes a kept one.
LEMMA FindMatchKeepsLock ==
  ASSUME TypeOK, KeptInv, \A k \in Blocks : LockInv(k), NEW t \in Threads,
         At(t, "find", "in"), Goto(t, "hit", "pre", blk[t]),
         held' = [held EXCEPT ![t] = TRUE], idx' = [idx EXCEPT ![t] = blk[t]],
         UNCHANGED lockVars
  PROVE  \A k \in Blocks : LockInv(k)'
<1>1. PICK i \in Blocks : i = blk[t]
  BY DEF TypeOK
<1>2. ~held[t]
  BY DEF KeptInv, At
<1>3. /\ at' = [at EXCEPT ![t] = "hit"] /\ stage' = [stage EXCEPT ![t] = "pre"]
      /\ blk' = blk /\ at[t] = "find" /\ stage[t] = "in"
      /\ held' = [held EXCEPT ![t] = TRUE] /\ idx' = [idx EXCEPT ![t] = i]
  BY <1>1 DEF Goto, At, TypeOK
<1>4. \A k \in Blocks : Firsts(k)' = Firsts(k) /\ Writers(k)' = Writers(k)
  BY <1>3 DEF Firsts, Writers, Writing, TypeOK, ReaderSites, WriterSites
<1>5. \A k \in Blocks : k # i => Ins(k)' = Ins(k) /\ Kepts(k)' = Kepts(k)
  BY <1>1, <1>2, <1>3 DEF Ins, Kepts, TypeOK, ReaderSites
<1>6. t \in Ins(i) /\ t \notin Kepts(i) /\ t \notin Firsts(i)
  BY <1>1, <1>2, <1>3 DEF Ins, Kepts, Firsts, ReaderSites
<1>7. Ins(i)' = Ins(i) \ {t} /\ Kepts(i)' = Kepts(i) \cup {t}
  BY <1>1, <1>3 DEF Ins, Kepts, TypeOK, ReaderSites
<1>8. \A k \in Blocks : SameLock(k)
  BY DEF SameLock, lockVars
<1>9. LockInv(i)'
  BY <1>4, <1>6, <1>7, <1>8, Keeps
<1>10. ASSUME NEW k \in Blocks, k # i PROVE LockInv(k)'
  <2>1. SameSets(k)
    BY <1>4, <1>5, <1>10 DEF SameSets
  <2> QED
    BY <1>8, <1>10, <2>1, Untouched
<1> QED
  BY <1>9, <1>10

-----------------------------------------------------------------------------
\* The counters stay natural numbers and the semaphores 0 or 1.
LEMMA LockTyped ==
  ASSUME TypeOK, \A k \in Blocks : LockInv(k)',
         NEW i \in Blocks,
         readcnt' = readcnt \/ \E n : readcnt' = [readcnt EXCEPT ![i] = n],
         rdcntmutex' = rdcntmutex \/ \E n : rdcntmutex' = [rdcntmutex EXCEPT ![i] = n],
         wmutex' = wmutex \/ \E n : wmutex' = [wmutex EXCEPT ![i] = n]
  PROVE  /\ readcnt' \in [Blocks -> Nat]
         /\ rdcntmutex' \in [Blocks -> {0, 1}]
         /\ wmutex' \in [Blocks -> {0, 1}]
<1>1. Cardinality(Ins(i)') \in Nat /\ Cardinality(Kepts(i)') \in Nat
  <2>1. Ins(i)' \subseteq Threads /\ Kepts(i)' \subseteq Threads
    BY DEF Ins, Kepts
  <2> QED
    BY <2>1, CardZero
<1>2. readcnt'[i] \in Nat /\ rdcntmutex'[i] \in {0, 1} /\ wmutex'[i] \in {0, 1}
  BY <1>1 DEF LockInv
<1> QED
  BY <1>2 DEF TypeOK

\* A move keeps the types of the places.
LEMMA MoveTyped ==
  ASSUME TypeOK, NEW t \in Threads, NEW s \in Sites, NEW st \in Stages, NEW i \in Blocks,
         Goto(t, s, st, i)
  PROVE  /\ at' \in [Threads -> Sites] /\ stage' \in [Threads -> Stages]
         /\ blk' \in [Threads -> Blocks]
BY DEF Goto, TypeOK

\* The steps that only move a thread: the semaphores and the data stay.
LEMMA NeutralSteps ==
  ASSUME IInv, NEW t \in Threads,
         Request(t) \/ HitSend(t) \/ Headers(t) \/ Fetch(t) \/ AgeLook(t)
  PROVE  IInv'
<1> USE DEF IInv
<1>1. PICK s \in Sites, st \in Stages, i \in Blocks :
        /\ Moves(t, s, st, i)
        /\ CountsIn(s, st) <=> CountsIn(at[t], stage[t])
        /\ CountsHeld(s, st) <=> CountsHeld(at[t], stage[t])
        /\ CountsOut(s, st) <=> CountsOut(at[t], stage[t])
        /\ CountsIn(s, st) \/ CountsOut(s, st) => i = blk[t]
        /\ s \in {"hit", "touch"} => at[t] = s /\ i = blk[t]
        /\ held[t] => s \in {"hit", "touch", "age", "done"}
        /\ s # "store" /\ (s = "evict" => at[t] = "fetch" /\ st = "pre")
        /\ s \in {"idle", "find", "headers", "spin", "fetch"} =>
             at[t] \in {"idle", "find", "headers", "spin", "fetch"}
  <2> USE DEF Moves, At, Stage, CountsIn, CountsHeld, CountsOut, ReaderSites, WriterSites,
              Sites, Stages, TypeOK, KeptInv, Blocks
  <2>0. 1 \in Blocks
    BY NAssumption
  <2>1. CASE Request(t)
    BY <2>0, <2>1 DEF Request
  <2>2. CASE HitSend(t)
    BY <2>2 DEF HitSend
  <2>3. CASE Headers(t)
    BY <2>0, <2>3 DEF Headers
  <2>4. CASE Fetch(t)
    BY <2>0, <2>4 DEF Fetch
  <2>5. CASE AgeLook(t)
    BY <2>0, <2>5, NAssumption DEF AgeLook, AgeNext
  <2> QED
    BY <2>1, <2>2, <2>3, <2>4, <2>5
<1>2. /\ UNCHANGED <<dataVars, lockVars, idx, top, held, alive>>
      /\ want' \in [Threads -> Urls \cup {NoUrl}]
  BY DEF Request, HitSend, Headers, Fetch, AgeLook, TypeOK
<1>3. \A k \in Blocks : LockInv(k)'
  BY <1>1, <1>2, NeutralMove
<1>4. TypeOK'
  <2>1. /\ at' \in [Threads -> Sites] /\ stage' \in [Threads -> Stages]
        /\ blk' \in [Threads -> Blocks]
    BY <1>1, MoveTyped DEF Moves
  <2> QED
    BY <1>2, <2>1 DEF TypeOK, dataVars, lockVars
<1>5. KeptInv' /\ VictimInv'
  BY <1>1, <1>2 DEF Moves, Goto, TypeOK, KeptInv, VictimInv
<1> QED
  BY <1>3, <1>4, <1>5

\* readerPre and writerPre.
LEMMA EntrySteps ==
  ASSUME IInv, NEW t \in Threads, readerPre(t) \/ writerPre(t)
  PROVE  IInv'
<1> USE DEF IInv
<1>1. \A k \in Blocks : LockInv(k)'
  BY ReaderPreKeepsLock, WriterPreKeepsLock
<1>2. PICK i \in Blocks : i = blk[t]
  BY DEF TypeOK
<1>3. PICK st \in Stages : Goto(t, at[t], st, i) /\ st \in {"first", "in"}
  BY <1>2 DEF readerPre, writerPre, Stage, Stages
<1>4. UNCHANGED <<dataVars, want, idx, top, held, alive>>
      /\ at[t] \in ReaderSites \cup WriterSites
  BY DEF readerPre, writerPre
<1>5. /\ readcnt' \in [Blocks -> Nat] /\ rdcntmutex' \in [Blocks -> {0, 1}]
      /\ wmutex' \in [Blocks -> {0, 1}]
  <2>1. /\ readcnt' = readcnt \/ readcnt' = [readcnt EXCEPT ![i] = readcnt[i] + 1]
        /\ \/ rdcntmutex' = rdcntmutex
           \/ \E r \in {rdcntmutex[i] + 1, rdcntmutex[i] - 1} :
                rdcntmutex' = [rdcntmutex EXCEPT ![i] = r]
        /\ wmutex' = wmutex \/ wmutex' = [wmutex EXCEPT ![i] = wmutex[i] - 1]
    BY <1>2 DEF readerPre, writerPre, TypeOK
  <2> QED
    BY <1>1, <2>1, LockTyped
<1>6. /\ at' \in [Threads -> Sites] /\ stage' \in [Threads -> Stages]
      /\ blk' \in [Threads -> Blocks]
  <2>1. at[t] \in Sites
    BY DEF TypeOK
  <2> QED
    BY <1>3, <2>1, MoveTyped
<1>7. TypeOK'
  BY <1>4, <1>5, <1>6 DEF TypeOK, dataVars
<1>8. KeptInv' /\ VictimInv'
  BY <1>2, <1>3, <1>4 DEF Goto, TypeOK, KeptInv, VictimInv, ReaderSites, WriterSites
<1> QED
  BY <1>1, <1>7, <1>8

\* cache_find's comparison.
LEMMA FindLookStep ==
  ASSUME IInv, NEW t \in Threads, FindLook(t)
  PROVE  IInv'
<1> USE DEF IInv
<1>1. PICK i \in Blocks : i = blk[t]
  BY DEF TypeOK
<1>2. at[t] = "find" /\ stage[t] = "in" /\ UNCHANGED <<dataVars, lockVars, want, top, alive>>
  BY DEF FindLook, At
<1>3. CASE /\ held' = [held EXCEPT ![t] = TRUE]
           /\ idx' = [idx EXCEPT ![t] = blk[t]]
           /\ Goto(t, "hit", "pre", blk[t])
  <2>1. \A k \in Blocks : LockInv(k)'
    BY <1>2, <1>3, FindMatchKeepsLock DEF FindLook
  <2>2. /\ at' \in [Threads -> Sites] /\ stage' \in [Threads -> Stages]
        /\ blk' \in [Threads -> Blocks]
    BY <1>1, <1>3, MoveTyped DEF Sites, Stages, ReaderSites
  <2>3. TypeOK'
    BY <1>1, <1>2, <1>3, <2>2 DEF TypeOK, dataVars, lockVars
  <2>4. KeptInv' /\ VictimInv'
    BY <1>1, <1>2, <1>3 DEF Goto, TypeOK, KeptInv, VictimInv
  <2> QED
    BY <2>1, <2>3, <2>4
<1>4. CASE Stage(t, "post") /\ UNCHANGED <<held, idx>>
  <2>1. Moves(t, "find", "post", i)
    BY <1>1, <1>2, <1>4 DEF Stage, Moves
  <2>2. \A k \in Blocks : LockInv(k)'
    BY <1>1, <1>2, <2>1, NeutralMove
    DEF CountsIn, CountsHeld, CountsOut, ReaderSites, WriterSites
  <2>3. /\ at' \in [Threads -> Sites] /\ stage' \in [Threads -> Stages]
        /\ blk' \in [Threads -> Blocks]
    BY <2>1, MoveTyped DEF Sites, Stages, ReaderSites, Moves
  <2>4. TypeOK'
    BY <1>2, <1>4, <2>3 DEF TypeOK, dataVars, lockVars
  <2>5. KeptInv' /\ VictimInv'
    BY <1>2, <1>4, <2>1 DEF Moves, Goto, TypeOK, KeptInv, VictimInv
  <2> QED
    BY <2>2, <2>4, <2>5
<1> QED
  BY <1>3, <1>4 DEF FindLook

\* The three calls of readerAfter.
LEMMA ReaderAfterSteps ==
  ASSUME IInv, NEW t \in Threads, FindNext(t) \/ HitDone(t) \/ EvictNext(t)
  PROVE  IInv'
<1> USE DEF IInv
<1>1. PICK i \in Blocks : i = blk[t]
  BY DEF TypeOK
<1>2. readerAfter(t) /\ UNCHANGED <<dataVars, want, idx, top, held, alive>>
  BY DEF FindNext, HitDone, EvictNext
<1>3. PICK s \in Sites, j \in Blocks :
        /\ Moves(t, s, "pre", j)
        /\ CountsIn(at[t], stage[t]) /\ ~CountsHeld(at[t], stage[t])
        /\ s = "touch" => at[t] = "hit" /\ j = i
        /\ s # "hit" /\ (at[t] = "hit" => s = "touch")
        /\ at[t] = "find" => s \in {"find", "headers"}
        /\ s \in {"find", "headers"} => at[t] = "find"
        /\ s \in {"store", "evict"} => at[t] = "evict" /\ idx[t] \in Blocks
        /\ s \in {"find", "headers", "touch", "store", "evict"}
  <2> USE DEF Moves, At, CountsIn, CountsHeld, ReaderSites, WriterSites, Sites, TypeOK, Blocks
  <2>0. 1 \in Blocks
    BY NAssumption
  <2>1. CASE FindNext(t)
    BY <1>1, <2>0, <2>1, NAssumption DEF FindNext
  <2>2. CASE HitDone(t)
    BY <1>1, <2>2 DEF HitDone
  <2>3. CASE EvictNext(t)
    BY <1>1, <2>0, <2>3, NAssumption DEF EvictNext, VictimInv
  <2> QED
    BY <2>1, <2>2, <2>3
<1>4. \A k \in Blocks : LockInv(k)'
  <2>1. ~CountsIn(s, "pre") /\ ~CountsOut(s, "pre")
    BY DEF CountsIn, CountsOut
  <2> QED
    BY <1>2, <1>3, <2>1, ReaderAfterKeepsLock
<1>5. /\ readcnt' \in [Blocks -> Nat] /\ rdcntmutex' \in [Blocks -> {0, 1}]
      /\ wmutex' \in [Blocks -> {0, 1}]
  <2>1. /\ readcnt' = [readcnt EXCEPT ![i] = readcnt[i] - 1] /\ rdcntmutex' = rdcntmutex
        /\ wmutex' = wmutex \/ wmutex' = [wmutex EXCEPT ![i] = wmutex[i] + 1]
    BY <1>1, <1>2 DEF readerAfter, TypeOK
  <2> QED
    BY <1>4, <2>1, LockTyped
<1>6. /\ at' \in [Threads -> Sites] /\ stage' \in [Threads -> Stages]
      /\ blk' \in [Threads -> Blocks]
  BY <1>3, MoveTyped DEF Moves, Stages
<1>7. TypeOK'
  BY <1>2, <1>5, <1>6 DEF TypeOK, dataVars
<1>8. KeptInv' /\ VictimInv'
  BY <1>1, <1>2, <1>3 DEF Moves, Goto, TypeOK, KeptInv, VictimInv
<1> QED
  BY <1>4, <1>7, <1>8

\* cache_eviction inside a block.
LEMMA EvictSteps ==
  ASSUME IInv, NEW t \in Threads, EvictLook(t) \/ EvictClaim(t)
  PROVE  IInv'
<1> USE DEF IInv
<1>1. PICK i \in Blocks : i = blk[t]
  BY DEF TypeOK
<1>2. PICK st \in {"claim", "post", "last"} :
        /\ Moves(t, "evict", st, i) \/ (Goto(t, "evict", st, i) /\ held' = held)
        /\ at[t] = "evict" /\ stage[t] \in {"in", "claim"}
  BY <1>1 DEF EvictLook, EvictClaim, At, Stage, Moves
<1>3. /\ UNCHANGED <<url, obj, stamp, lockVars, want, held, alive>>
      /\ isEmpty' \in [Blocks -> BOOLEAN]
      /\ \/ idx' = [idx EXCEPT ![t] = i] /\ top' \in [Threads -> {-2, -1} \cup Nat]
         \/ idx' = idx /\ top' = top /\ idx[t] \in Blocks
      /\ \A u \in Threads : u # t => top'[u] = top[u]
  <2>1. CASE EvictClaim(t)
    BY <1>1, <2>1 DEF EvictClaim, At, TypeOK, VictimInv, dataVars
  <2>2. CASE EvictLook(t)
    <3>1. /\ UNCHANGED <<dataVars, lockVars, want, held, alive>>
          /\ \/ idx' = [idx EXCEPT ![t] = i] /\ top' \in {top, [top EXCEPT ![t] = stamp[i]]}
             \/ idx' = idx /\ top' = top /\ ~(stamp[i] > top[t])
      BY <1>1, <2>2 DEF EvictLook, Older
    <3>2. stamp[i] > -2 /\ stamp[i] \in {-2, -1} \cup Nat
      BY DEF TypeOK
    <3>3. top[t] = -2 \/ idx[t] \in Blocks
      BY <1>2 DEF VictimInv
    <3> QED
      BY <3>1, <3>2, <3>3 DEF TypeOK, dataVars
  <2> QED
    BY <2>1, <2>2
<1>4. /\ at' \in [Threads -> Sites] /\ stage' \in [Threads -> Stages]
      /\ blk' \in [Threads -> Blocks]
  BY <1>2, MoveTyped DEF Moves, Sites, Stages, ReaderSites
<1>5. TypeOK'
  BY <1>3, <1>4 DEF TypeOK, lockVars
<1>6. KeptInv' /\ VictimInv'
  BY <1>1, <1>2, <1>3 DEF Moves, Goto, TypeOK, KeptInv, VictimInv
<1>7. ASSUME NEW k \in Blocks PROVE LockInv(k)'
  <2>1. ~held[t]
    BY <1>2 DEF KeptInv
  <2>2. Kepts(k)' = Kepts(k)
    BY <1>3, <2>1 DEF Kepts, TypeOK
  <2>3. /\ at' = [at EXCEPT ![t] = "evict"] /\ stage' = [stage EXCEPT ![t] = st]
        /\ blk' = [blk EXCEPT ![t] = i]
    BY <1>2 DEF Moves, Goto
  <2>4. Ins(k)' = Ins(k)
    BY <1>1, <1>2, <2>3 DEF Ins, TypeOK, ReaderSites
  <2>5. Firsts(k)' = Firsts(k) /\ Writers(k)' = Writers(k)
    BY <1>1, <1>2, <2>3 DEF Firsts, Writers, Writing, TypeOK, ReaderSites, WriterSites
  <2>6. SameLock(k)
    BY <1>3 DEF SameLock, lockVars
  <2> QED
    BY <2>2, <2>4, <2>5, <2>6, Untouched DEF SameSets
<1> QED
  BY <1>5, <1>6, <1>7

\* The writers: cache_url and cache_update_stamp inside a block.
LEMMA StoreUrlStep ==
  ASSUME IInv, NEW t \in Threads, StoreUrl(t)
  PROVE  IInv'
<1> USE DEF IInv
<1>1. PICK i \in Blocks : i = blk[t]
  BY DEF TypeOK
<1>2. /\ Moves(t, "store", "obj", i) /\ at[t] = "store" /\ stage[t] = "in"
      /\ url' = [url EXCEPT ![i] = want[t]]
      /\ UNCHANGED <<obj, isEmpty, stamp, lockVars, want, idx, top, held, alive>>
  BY <1>1 DEF StoreUrl, At, Stage, Moves
<1>3. \A k \in Blocks : LockInv(k)'
  BY <1>1, <1>2, NeutralMove DEF CountsIn, CountsHeld, CountsOut, ReaderSites, WriterSites
<1>4. /\ at' \in [Threads -> Sites] /\ stage' \in [Threads -> Stages]
      /\ blk' \in [Threads -> Blocks]
  BY <1>2, MoveTyped DEF Moves, Sites, Stages, WriterSites
<1>5. TypeOK'
  BY <1>2, <1>4 DEF TypeOK, lockVars
<1>6. KeptInv' /\ VictimInv'
  BY <1>1, <1>2 DEF Moves, Goto, TypeOK, KeptInv, VictimInv
<1> QED
  BY <1>3, <1>5, <1>6

LEMMA WriterAfterSteps ==
  ASSUME IInv, NEW t \in Threads, StoreObj(t) \/ Touch(t) \/ Age(t)
  PROVE  IInv'
<1> USE DEF IInv
<1>1. PICK i \in Blocks : i = blk[t]
  BY DEF TypeOK
<1>2. PICK s \in Sites, st \in Stages, j \in Blocks :
        /\ Moves(t, s, st, j) /\ CountsOut(at[t], stage[t])
        /\ s \in {"touch", "age", "done"} /\ st \in {"pre", "look"}
        /\ s = "touch" => at[t] = "store"
  <2> USE DEF Moves, At, CountsOut, WriterSites, Sites, Stages, TypeOK, Blocks
  <2>0. 1 \in Blocks
    BY NAssumption
  <2>1. CASE StoreObj(t)
    BY <1>1, <2>1 DEF StoreObj
  <2>2. CASE Touch(t)
    BY <2>0, <2>2 DEF Touch
  <2>3. CASE Age(t)
    BY <2>0, <2>3, NAssumption DEF Age, AgeNext
  <2> QED
    BY <2>1, <2>2, <2>3
<1>3. writerAfter(blk[t]) /\ UNCHANGED <<url, want, idx, top, held, alive>>
  BY DEF StoreObj, Touch, Age
<1>4. /\ obj' \in [Blocks -> Object] /\ isEmpty' \in [Blocks -> BOOLEAN]
      /\ stamp' \in [Blocks -> {-1} \cup Nat]
  <2>1. CASE StoreObj(t)
    <3>1. PICK b \in BOOLEAN : obj' = [obj EXCEPT ![i] = [of |-> want[t], intact |-> b]]
      BY <1>1, <2>1 DEF StoreObj
    <3>2. [of |-> want[t], intact |-> b] \in Object
      BY DEF Object, TypeOK
    <3> QED
      BY <1>1, <2>1, <3>1, <3>2 DEF StoreObj, TypeOK
  <2>2. CASE Touch(t) \/ Age(t)
    BY <1>1, <2>2 DEF Touch, Age, TypeOK
  <2> QED
    BY <2>1, <2>2
<1>5. \A k \in Blocks : LockInv(k)'
  <2>1. ~CountsIn(s, st) /\ ~CountsOut(s, st)
    BY <1>2 DEF CountsIn, CountsOut
  <2> QED
    BY <1>2, <1>3, <2>1, WriterAfterKeepsLock
<1>6. /\ readcnt' \in [Blocks -> Nat] /\ rdcntmutex' \in [Blocks -> {0, 1}]
      /\ wmutex' \in [Blocks -> {0, 1}]
  <2>1. readcnt' = readcnt /\ rdcntmutex' = rdcntmutex
        /\ wmutex' = [wmutex EXCEPT ![i] = wmutex[i] + 1]
    BY <1>1, <1>3 DEF writerAfter, TypeOK
  <2> QED
    BY <1>5, <2>1, LockTyped
<1>7. /\ at' \in [Threads -> Sites] /\ stage' \in [Threads -> Stages]
      /\ blk' \in [Threads -> Blocks]
  BY <1>2, MoveTyped DEF Moves
<1>8. TypeOK'
  BY <1>3, <1>4, <1>6, <1>7 DEF TypeOK
<1>9. KeptInv' /\ VictimInv'
  BY <1>2, <1>3 DEF Moves, Goto, TypeOK, KeptInv, VictimInv, CountsOut
<1> QED
  BY <1>5, <1>8, <1>9

\* The exit of the process.
LEMMA NetworkFailsStep ==
  ASSUME IInv, NEW t \in Threads, NetworkFails(t)
  PROVE  IInv'
<1>1. UNCHANGED <<dataVars, lockVars, threadVars>> /\ alive' \in BOOLEAN
  BY DEF NetworkFails
<1>2. \A k \in Blocks : SameSets(k) /\ SameLock(k)
  BY <1>1 DEF threadVars, lockVars, SameSets, SameLock, Ins, Kepts, Firsts, Writers, Writing
<1>3. \A k \in Blocks : LockInv(k)'
  BY <1>2, Untouched DEF IInv
<1> QED
  BY <1>1, <1>3 DEF IInv, TypeOK, KeptInv, VictimInv, dataVars, lockVars, threadVars

LEMMA InitialState ==
  ASSUME Init
  PROVE  IInv
<1>1. 1 \in Blocks
  BY NAssumption DEF Blocks
<1>2. TypeOK
  BY <1>1 DEF Init, TypeOK, Object, Sites, Stages
<1>3. ASSUME NEW i \in Blocks PROVE LockInv(i)
  <2>1. Ins(i) = {} /\ Kepts(i) = {} /\ Firsts(i) = {} /\ Writers(i) = {}
    BY DEF Init, Ins, Kepts, Firsts, Writers, Writing, ReaderSites, WriterSites
  <2>2. Cardinality({}) = 0
    BY FS_EmptySet
  <2> QED
    BY <2>1, <2>2 DEF Init, LockInv, NoReader
<1>4. KeptInv /\ VictimInv
  BY DEF Init, KeptInv, VictimInv
<1> QED
  BY <1>2, <1>3, <1>4 DEF IInv

LEMMA Preservation ==
  ASSUME IInv, [Next]_vars
  PROVE  IInv'
<1>1. ASSUME NEW t \in Threads, ThreadStep(t) PROVE IInv'
  BY <1>1, NeutralSteps, EntrySteps, FindLookStep, ReaderAfterSteps, EvictSteps,
     StoreUrlStep, WriterAfterSteps
  DEF ThreadStep, CacheStep
<1>2. ASSUME NEW t \in Threads, NetworkFails(t) PROVE IInv'
  BY <1>2, NetworkFailsStep
<1>3. CASE UNCHANGED vars
  <2>1. \A k \in Blocks : SameSets(k) /\ SameLock(k)
    BY <1>3 DEF vars, threadVars, lockVars, SameSets, SameLock, Ins, Kepts, Firsts, Writers,
                Writing
  <2>2. \A k \in Blocks : LockInv(k)'
    BY <2>1, Untouched DEF IInv
  <2> QED
    BY <1>3, <2>2 DEF IInv, TypeOK, KeptInv, VictimInv, vars, dataVars, lockVars, threadVars
<1> QED
  BY <1>1, <1>2, <1>3 DEF Next

\* The invariant the others follow from: the semaphores and the counter of
\* every block agree with the threads inside it (readerPre .. writerAfter).
THEOREM Invariance == Spec => []IInv
BY InitialState, Preservation, PTL DEF Spec

\* The cache, the semaphores and the threads' locals stay within their types;
\* in particular readcnt never goes below zero and no semaphore above one.
THEOREM TypeCorrect == Spec => []TypeOK
<1>1. IInv => TypeOK
  BY DEF IInv
<1> QED
  BY <1>1, Invariance, PTL

\* Nobody shares a block with a writer: readerPre, readerAfter, writerPre and
\* writerAfter are a readers-writers lock, whatever the number of threads.
THEOREM Exclusion == Spec => []WritersAreAlone
<1>1. ASSUME IInv PROVE WritersAreAlone
  <2>1. SUFFICES ASSUME NEW t \in Threads, NEW u \in Threads, Writing(t), t # u,
                        blk[t] = blk[u]
                 PROVE  ~Writing(u) /\ ~Reading(u)
    BY DEF WritersAreAlone
  <2>2. PICK i \in Blocks : i = blk[t]
    BY <1>1 DEF IInv, TypeOK
  <2>3. LockInv(i) /\ t \in Writers(i)
    BY <1>1, <2>1, <2>2 DEF IInv, Writers
  <2>4. Writers(i) = {t} /\ (NoReader(i) \/ Firsts(i) # {})
    BY <2>3 DEF LockInv
  <2>5. u \notin Writers(i)
    BY <2>1, <2>4
  <2>6. ASSUME Reading(u) PROVE FALSE
    <3>1. u \in Ins(i) /\ u \notin Firsts(i)
      BY <2>1, <2>2, <2>6 DEF Reading, Ins, Firsts
    <3>2. \A f \in Firsts(i) : Ins(i) = {f}
      BY <2>3 DEF LockInv
    <3> QED
      BY <2>4, <3>1, <3>2 DEF NoReader
  <2> QED
    BY <2>1, <2>2, <2>5, <2>6 DEF Writers
<1> QED
  BY <1>1, Invariance, PTL

\* cache_eviction returns a block and never -1, so cache_url stays inside the
\* array.
THEOREM EvictionFinds == Spec => []VictimFound
<1>1. ASSUME IInv PROVE VictimFound
  BY <1>1 DEF IInv, VictimInv, VictimFound, Blocks
<1> QED
  BY <1>1, Invariance, PTL

-----------------------------------------------------------------------------
(* What a block holds.                                                     *)

\* Thread t is between the two strcpy of cache_url.
HalfWritten(t) == at[t] = "store" /\ stage[t] = "obj"

\* A block answers its URL unless somebody is half way through writing it, and
\* the reference a hit keeps fixes the URL it found.
DataInv ==
  /\ \A t \in Threads : HalfWritten(t) => url[blk[t]] = want[t]
  /\ \A i \in Blocks :
       obj[i].of # url[i] => \E t \in Threads : HalfWritten(t) /\ blk[t] = i
  /\ \A t \in Threads : held[t] => url[idx[t]] = want[t]
  /\ \A t \in Threads : at[t] = "hit" => held[t]

\* A block a hit found has no writer.
LEMMA KeptHasNoWriter ==
  ASSUME IInv, NEW t \in Threads, held[t], NEW u \in Threads, Writing(u)
  PROVE  blk[u] # idx[t]
<1>1. PICK i \in Blocks : i = idx[t]
  BY DEF IInv, KeptInv
<1>2. t \in Kepts(i)
  BY <1>1 DEF Kepts
<1>3. LockInv(i)
  BY DEF IInv
<1>4. Writers(i) = {}
  BY <1>2, <1>3 DEF LockInv, NoReader
<1> QED
  BY <1>1, <1>4 DEF Writers

LEMMA DataPreservation ==
  ASSUME IInv, DataInv, [Next]_vars
  PROVE  DataInv'
<1> USE DEF DataInv
<1>0. TypeOK
  BY DEF IInv
<1>1. ASSUME NEW t \in Threads,
             readerPre(t) \/ writerPre(t) \/ FindNext(t) \/ HitSend(t) \/ HitDone(t)
               \/ EvictNext(t) \/ EvictClaim(t) \/ EvictLook(t) \/ Touch(t) \/ AgeLook(t)
               \/ Age(t) \/ Headers(t) \/ Fetch(t)
      PROVE  DataInv'
  <2>1. UNCHANGED <<url, obj, want, held>> /\ ~HalfWritten(t) /\ ~HalfWritten(t)'
    BY <1>0, <1>1
    DEF readerPre, writerPre, FindNext, HitSend, HitDone, EvictNext, EvictClaim, EvictLook,
        Touch, AgeLook, AgeNext, Age, Headers, Fetch, dataVars, HalfWritten, At, Goto, Stage,
        TypeOK, ReaderSites, WriterSites
  <2>2. \A u \in Threads : u # t =>
          at'[u] = at[u] /\ stage'[u] = stage[u] /\ blk'[u] = blk[u] /\ idx'[u] = idx[u]
    BY <1>0, <1>1
    DEF readerPre, writerPre, FindNext, HitSend, HitDone, EvictNext, EvictClaim, EvictLook,
        Touch, AgeLook, AgeNext, Age, Headers, Fetch, At, Goto, Stage, TypeOK
  <2>3. (at'[t] = "hit" => at[t] = "hit") /\ (held[t] => idx'[t] = idx[t])
    BY <1>0, <1>1
    DEF readerPre, writerPre, FindNext, HitSend, HitDone, EvictNext, EvictClaim, EvictLook,
        Touch, AgeLook, AgeNext, Age, Headers, Fetch, At, Goto, Stage, TypeOK, IInv, KeptInv
  <2> QED
    BY <2>1, <2>2, <2>3 DEF HalfWritten
<1>2. ASSUME NEW t \in Threads, Request(t) PROVE DataInv'
  BY <1>0, <1>2 DEF Request, Goto, HalfWritten, TypeOK, dataVars, IInv, KeptInv
<1>3. ASSUME NEW t \in Threads, FindLook(t) PROVE DataInv'
  BY <1>0, <1>3 DEF FindLook, At, Goto, Stage, HalfWritten, TypeOK, dataVars
<1>4. ASSUME NEW t \in Threads, StoreUrl(t) PROVE DataInv'
  <2>1. PICK i \in Blocks : i = blk[t]
    BY <1>0 DEF TypeOK
  <2>2. /\ Writing(t) /\ t \in Writers(i) /\ LockInv(i) /\ ~held[t]
    BY <1>4, <2>1 DEF StoreUrl, At, Writing, WriterSites, Writers, IInv, KeptInv
  <2>3. /\ url' = [url EXCEPT ![i] = want[t]]
        /\ UNCHANGED <<obj, want, idx, held, blk>>
        /\ at' = at /\ stage' = [stage EXCEPT ![t] = "obj"] /\ at[t] = "store"
    BY <1>0, <1>4, <2>1 DEF StoreUrl, At, Goto, Stage, TypeOK
  <2>4. \A u \in Threads : held[u] => idx[u] # i
    BY <2>1, <2>2, KeptHasNoWriter
  <2>5. \A u \in Threads : HalfWritten(u) /\ u # t => blk[u] # i
    BY <2>2 DEF LockInv, Writers, Writing, HalfWritten, WriterSites
  <2> QED
    BY <1>0, <2>1, <2>3, <2>4, <2>5 DEF HalfWritten, TypeOK, IInv, KeptInv
<1>5. ASSUME NEW t \in Threads, StoreObj(t) PROVE DataInv'
  <2>1. PICK i \in Blocks : i = blk[t]
    BY <1>0 DEF TypeOK
  <2>2. PICK b \in BOOLEAN : obj' = [obj EXCEPT ![i] = [of |-> want[t], intact |-> b]]
    BY <1>5, <2>1 DEF StoreObj
  <2>3. /\ UNCHANGED <<url, want, idx, held, blk>> /\ HalfWritten(t)
        /\ at' = [at EXCEPT ![t] = "touch"] /\ stage' = [stage EXCEPT ![t] = "pre"]
    BY <1>0, <1>5, <2>1 DEF StoreObj, At, Goto, TypeOK, HalfWritten
  <2> QED
    BY <1>0, <2>1, <2>2, <2>3 DEF HalfWritten, TypeOK
<1>6. ASSUME NEW t \in Threads, NetworkFails(t) PROVE DataInv'
  BY <1>6 DEF NetworkFails, dataVars, threadVars, HalfWritten
<1>7. CASE UNCHANGED vars
  BY <1>7 DEF vars, dataVars, threadVars, HalfWritten
<1> QED
  BY <1>1, <1>2, <1>3, <1>4, <1>5, <1>6, <1>7 DEF Next, ThreadStep, CacheStep

\* A client whose URL is in the cache gets the object of that URL: the reader
\* section doit opens after cache_find returns sees the block cache_find saw.
\* It is the reference cache_find never gives back that keeps writers out.
THEOREM HitIsFresh == Spec => []HitServesItsUrl
<1>1. Init => DataInv
  BY DEF Init, DataInv, HalfWritten
<1>2. ASSUME IInv, DataInv PROVE HitServesItsUrl
  <2>1. SUFFICES ASSUME NEW t \in Threads, at[t] = "hit"
                 PROVE  url[blk[t]] = want[t] /\ obj[blk[t]].of = want[t]
    BY DEF HitServesItsUrl
  <2>2. held[t] /\ blk[t] = idx[t] /\ idx[t] \in Blocks /\ url[idx[t]] = want[t]
    BY <1>2, <2>1 DEF DataInv, IInv, KeptInv
  <2>3. \A u \in Threads : HalfWritten(u) => blk[u] # idx[t]
    BY <1>2, <2>2, KeptHasNoWriter DEF HalfWritten, Writing, WriterSites
  <2> QED
    BY <1>2, <2>2, <2>3 DEF DataInv
<1> QED
  BY <1>1, <1>2, DataPreservation, Invariance, PTL DEF Spec
=============================================================================
