---------------------------- MODULE ProgramsProofs ----------------------------
(***************************************************************************)
(* The programs side by side, for all values of their constants: a         *)
(* behaviour of AllSpec is a behaviour of each program that either runs or *)
(* stutters, so that it has every property proved of each one.             *)
(* What a program needs of its neighbours is only that they leave its      *)
(* variables alone.                                                        *)
(***************************************************************************)
EXTENDS MCPrograms, SequentialProofs, ConcProofs, EchoProofs, BookProofs, TLAPS

-----------------------------------------------------------------------------
(* Each program in the composition.                                        *)

LEMMA AllInits ==
  ASSUME AllInit
  PROVE  /\ KernelInit /\ StridedInit /\ Init /\ RioInit /\ EchoInit /\ init_pool
         /\ RWInit /\ BarrierInit /\ CountersInit /\ BookInit
BY DEF AllInit

\* Nothing but the program chosen at the start takes a step.
LEMMA AllSteps ==
  ASSUME [AllNext]_allVars
  PROVE  /\ [KernelNext]_kernelVars /\ [StridedNext]_stridedVars /\ [RioNext]_rioVars
         /\ [EchoNext]_echoVars /\ [PoolNext]_poolVars /\ [RWNext]_rwVars
         /\ [BarrierNext]_barrierVars /\ [CountersNext]_counterVars /\ [BookNext]_bookVars
<1>1. CASE UNCHANGED allVars
  BY <1>1 DEF allVars
<1>2. CASE AllNext
  BY <1>2 DEF AllNext
<1> QED
  BY <1>1, <1>2

\* The simulator runs with one of its two functions, or not at all.
LEMMA SimulatorSteps ==
  ASSUME [AllNext]_allVars
  PROVE  /\ program' = program
         /\ [Next]_vars \/ [Next2]_vars
         /\ program = "csim 2" => [Next2]_vars
<1>1. CASE UNCHANGED allVars
  BY <1>1 DEF allVars
<1>2. CASE AllNext
  BY <1>2 DEF AllNext
<1> QED
  BY <1>1, <1>2

\* A behaviour of the composition is one of every program but the simulator.
LEMMA EveryProgram ==
  AllSpec => /\ KernelSpec /\ StridedSpec /\ RioSpec /\ EchoSpec /\ PoolSpec
             /\ RWSpec /\ BarrierSpec /\ CountersSpec /\ BookSpec
<1>1. AllInit => /\ KernelInit /\ StridedInit /\ RioInit /\ EchoInit /\ init_pool
                 /\ RWInit /\ BarrierInit /\ CountersInit /\ BookInit
  BY AllInits
<1>2. [AllNext]_allVars =>
        /\ [KernelNext]_kernelVars /\ [StridedNext]_stridedVars /\ [RioNext]_rioVars
        /\ [EchoNext]_echoVars /\ [PoolNext]_poolVars /\ [RWNext]_rwVars
        /\ [BarrierNext]_barrierVars /\ [CountersNext]_counterVars /\ [BookNext]_bookVars
  BY AllSteps
<1> QED
  BY <1>1, <1>2, PTL DEF AllSpec, KernelSpec, StridedSpec, RioSpec, EchoSpec, PoolSpec,
                         RWSpec, BarrierSpec, CountersSpec, BookSpec

\* The invariant of the simulator is kept by both of its functions.
LEMMA SimulatorInvariant == AllSpec => []CacheInv
<1>1. AllInit => CacheInv
  BY AllInits, CacheInitially
<1>2. CacheInv /\ [AllNext]_allVars => CacheInv'
  BY SimulatorSteps, CacheKeeps, CacheKeepsToo
<1> QED
  BY <1>1, <1>2, PTL DEF AllSpec

-----------------------------------------------------------------------------
(* What the run of MCPrograms checks.                                      *)

\* The variables of every program keep their types and bounds: counts of
\* elements and arrivals, semaphores, buffer pointers, slots of the pool, sums
\* and the words of the heap.
THEOREM ProgramsTypes == AllSpec => []ProgramsTypeOK
<1>1. KernelSpec => []KernelTypeOK
  BY KernelsAreSound, KernelTypes
<1>2. CacheInv => TypeOK
  BY DEF CacheInv
<1>3. /\ KernelTypeOK /\ StridedTypeOK /\ TypeOK /\ RioTypeOK /\ EchoTypeOK
      /\ PoolTypeOK /\ RWTypeOK /\ BarrierTypeOK /\ CountersTypeOK /\ BookTypeOK
      => ProgramsTypeOK
  BY DEF ProgramsTypeOK
<1> QED
  BY <1>1, <1>2, <1>3, EveryProgram, SimulatorInvariant, NoMoreThanAll, RioTypes, EchoTypes,
     PoolTypes, RWTypes, SemaphoresBounded, SumsStayBelow, TypesOfTheBook, PTL

\* The sequential programs: the combining loops take every element once and load
\* inside the array; the copies move every element and stay in the mapped
\* segment; no tag is twice in a set of the simulated cache and the summary adds
\* up, with visitCache and with visitCache2; the rio calls lose no byte and
\* return short counts only at the end of the input.
THEOREM SequentialSafety ==
  AllSpec => [](/\ EachElementOnce /\ LoadsAreLegal
                /\ EveryElementMoved /\ RemoteStaysMapped
                /\ TagsDistinct /\ SummaryAddsUp
                /\ BytesKept /\ CallsAreWhole)
<1>1. KernelSpec => []EachElementOnce /\ []LoadsAreLegal
  BY KernelsAreSound, EveryElementCombinedOnce, LoadsLegal, PTL
<1>2. CacheInv => TagsDistinct /\ SummaryAddsUp
  BY DEF CacheInv
<1> QED
  BY <1>1, <1>2, EveryProgram, SimulatorInvariant, EveryElementOnce, RemoteMapped,
     EveryByteOnce, NoShortCalls, PTL

\* The concurrent programs: sbuf is a bounded queue, one place has each
\* descriptor and byte_cnt misses no byte; the pool agrees with its descriptor
\* sets; writers and readers exclude each other; nobody leaves a barrier alone;
\* the sums and counts are the ones their programs print.
THEOREM ConcurrentSafety ==
  AllSpec => /\ [](/\ OneOwner /\ CountIsTotal /\ PoolAgrees /\ WritersTakeTurns
                   /\ NobodyPassesAlone /\ ResultIsRight)
             /\ ImplementsQueue
BY EveryProgram, BufferIsQueue, DescriptorsAreOwned, NoByteIsLost, PoolInAgreement,
   TakeTurns, NobodyAlone, SumsAreRight, PTL

\* The book's allocator beside the other programs still hands out areas that are
\* aligned, large enough and apart, and keeps what its client wrote.
THEOREM BookBesideOthers == AllSpec => BookImplementsAllocator
BY EveryProgram, BookKeepsThePromise, PTL

-----------------------------------------------------------------------------
(* The two functions of the simulator in one specification.                *)

\* With two lines per set, the program that calls visitCache2 takes only steps of
\* a least recently used cache, although the one that calls visitCache (and may
\* replace the other line) runs from the same initial states.
THEOREM TwoWayIsLRU ==
  ASSUME E = 2
  PROVE  AllSpec => TwoWayImplementsLRU
<1> DEFINE Ranked == program = "csim 2" => AgesRankUses
<1>1. AllInit => Ranked /\ LRU!Init
  BY AllInits, RankInitially, InitRefines
<1>2. CacheInv /\ Ranked /\ [AllNext]_allVars
        => Ranked' /\ [program = "csim 2" => LRU!Next]_(LRU!lruVars)
  <2> SUFFICES ASSUME CacheInv, Ranked, [AllNext]_allVars
               PROVE  Ranked' /\ [program = "csim 2" => LRU!Next]_(LRU!lruVars)
    OBVIOUS
  <2>1. program' = program /\ (program = "csim 2" => [Next2]_vars)
    BY SimulatorSteps
  <2>2. program = "csim 2" => AgesRankUses' /\ [LRU!Next]_(LRU!lruVars)
    BY <2>1, RankStep
  <2> QED
    BY <2>1, <2>2
<1> HIDE DEF Ranked
<1> QED
  BY <1>1, <1>2, SimulatorInvariant, PTL DEF AllSpec, TwoWayImplementsLRU
=============================================================================
