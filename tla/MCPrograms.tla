------------------------------ MODULE MCPrograms ------------------------------
(***************************************************************************)
(* The smaller programs side by side: a behaviour is one of the program    *)
(* chosen at the start, while the variables of the others keep one initial *)
(* value.  csim is modelled with either of its two functions.              *)
(***************************************************************************)
EXTENDS CombineRevisions, Strided, CacheSim, Rio, EchoServer, EchoPool, ReadersWriters, Barrier,
        Counters, BookAllocator

VARIABLE program

AllPrograms == {"combine", "cpy", "csim", "csim 2", "rio", "echo server", "echo pool",
              "readers and writers", "barrier", "counters", "book allocator"}

allVars == <<program, kernelVars, stridedVars, vars, rioVars, echoVars, poolVars, rwVars, barrierVars, counterVars,
             bookVars>>

\* The calls of cpy.c and cpyr.c: columns shorter and longer than 16 elements,
\* and long enough to wrap around the segment.
MCCopies ==
  [kernel : Locals, l : 1 .. 3, mx : {0, 1, 3, 7, 16, 17, 25, 31, 34, 47, 51}]
    \cup [kernel : Remotes, l : 2 .. 3, mx : {40, 93, 106, 110}]

\* The hypothesis of the theorems of SequentialProofs holds of the kernels.
ASSUME KernelsAreSound == AllSound

\* The names of blocks are interchangeable, and no property tells them apart.
BlockSymmetry == Permutations(BlockNames)

AllInit ==
  /\ program \in AllPrograms
  /\ program = "combine" \/ problem = CHOOSE pr \in Problems : TRUE
  /\ program = "cpy" \/ call = CHOOSE c \in Copies : TRUE
  /\ program = "rio" \/ (newlines = {} /\ buffered = FALSE)
  /\ program = "echo server" \/ n = 1
  /\ program = "readers and writers" \/ solution = "rw0"
  /\ program = "counters" \/ prog = "badcnt"
  /\ program = "book allocator" \/ fit = "first"
  /\ KernelInit /\ StridedInit /\ Init /\ RioInit /\ EchoInit /\ init_pool
  /\ RWInit /\ BarrierInit /\ CountersInit /\ BookInit

AllNext ==
  /\ UNCHANGED program
  /\ \/ /\ program = "combine" /\ KernelNext
        /\ UNCHANGED <<stridedVars, vars, rioVars, echoVars, poolVars, rwVars, barrierVars, counterVars, bookVars>>
     \/ /\ program = "cpy" /\ StridedNext
        /\ UNCHANGED <<kernelVars, vars, rioVars, echoVars, poolVars, rwVars, barrierVars, counterVars, bookVars>>
     \/ /\ (program = "csim" /\ Next) \/ (program = "csim 2" /\ Next2)
        /\ UNCHANGED <<kernelVars, stridedVars, rioVars, echoVars, poolVars, rwVars, barrierVars, counterVars, bookVars>>
     \/ /\ program = "rio" /\ RioNext
        /\ UNCHANGED <<kernelVars, stridedVars, vars, echoVars, poolVars, rwVars, barrierVars, counterVars, bookVars>>
     \/ /\ program = "echo server" /\ EchoNext
        /\ UNCHANGED <<kernelVars, stridedVars, vars, rioVars, poolVars, rwVars, barrierVars, counterVars, bookVars>>
     \/ /\ program = "echo pool" /\ PoolNext
        /\ UNCHANGED <<kernelVars, stridedVars, vars, rioVars, echoVars, rwVars, barrierVars, counterVars, bookVars>>
     \/ /\ program = "readers and writers" /\ RWNext
        /\ UNCHANGED <<kernelVars, stridedVars, vars, rioVars, echoVars, poolVars, barrierVars, counterVars, bookVars>>
     \/ /\ program = "barrier" /\ BarrierNext
        /\ UNCHANGED <<kernelVars, stridedVars, vars, rioVars, echoVars, poolVars, rwVars, counterVars, bookVars>>
     \/ /\ program = "counters" /\ CountersNext
        /\ UNCHANGED <<kernelVars, stridedVars, vars, rioVars, echoVars, poolVars, rwVars, barrierVars, bookVars>>
     \/ /\ program = "book allocator" /\ BookNext
        /\ UNCHANGED <<kernelVars, stridedVars, vars, rioVars, echoVars, poolVars, rwVars, barrierVars, counterVars>>

AllSpec == AllInit /\ [][AllNext]_allVars

\* The type invariants of the programs, in all their steps.
ProgramsTypeOK ==
  /\ KernelTypeOK /\ StridedTypeOK /\ TypeOK /\ RioTypeOK /\ EchoTypeOK
  /\ PoolTypeOK /\ RWTypeOK /\ BarrierTypeOK /\ CountersTypeOK /\ BookTypeOK

\* ImplementsLRU of the program that calls visitCache2.
TwoWayImplementsLRU ==
  /\ LRU!Init
  /\ [][program = "csim 2" => LRU!Next]_LRU!lruVars
=============================================================================
