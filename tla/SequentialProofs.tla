---------------------------- MODULE SequentialProofs ----------------------------
(***************************************************************************)
(* Proofs about the programs of one thread that go through an array.       *)
(*                                                                         *)
(* csapp-master/mem/memperf: the strided kernels of cpy.c and cpyr.c, for  *)
(* arrays of any size and any stride.                                      *)
(*                                                                         *)
(* csapp-master/opt: the combining kernels, for vectors of any length and  *)
(* placement and rounds of any number of elements and accumulators: a      *)
(* kernel whose statements combine into the accumulator they read from     *)
(* loads legally and combines every element once.  The table of module     *)
(* CombineRevisions satisfies the hypothesis AllSound: MCPrograms has it   *)
(* as an assumption, which TLC evaluates.                                  *)
(*                                                                         *)
(* The cache simulator, for every number of sets, tags and lines per set.  *)
(***************************************************************************)
EXTENDS Strided, Combine, CacheSim, FiniteSetTheorems, TLAPS

-----------------------------------------------------------------------------
(* The strided kernels.                                                    *)

\* Where the first pointer of the round was before the round.
Base == ptr[lane] - lane * l

\* The pointers of the loop are one element apart; those of the statements
\* before this one have moved.
Consecutive ==
  \A t \in 0 .. width - 1 : ptr[t] = Base + (IF t < lane THEN t + width ELSE t) * l

\* Row and column of the elements moved so far.
Done == {z \in (0 .. nn - 1) \X (0 .. l - 1) : z[2] < ay \/ (z[2] = ay /\ z[1] < i + lane)}

StridedTypes ==
  /\ call \in Copies
  /\ ay \in 0 .. l /\ i \in 0 .. nn /\ loop \in 1 .. Len(Widths) /\ lane \in 0 .. width - 1
  /\ ptr \in [Lanes -> Nat]
  /\ cy \in Nat /\ count \in Nat

\* cpy.c.
LocalInv ==
  local =>
    /\ Base = ay + i * l
    /\ touched = {z[1] * l + z[2] : z \in Done}
    /\ count = ay * nn + i + lane
    /\ copying => /\ cy = ay * nn + i
                  /\ copied = {<<z[2] * nn + z[1], z[1] * l + z[2]>> : z \in Done}

\* cpyr.c but cpy_lc_r: what the rest of the loops moves is mapped.
PointersMapped ==
  ~local /\ does # "load copy" =>
    /\ ay < l /\ call.kernel.stops = "all" => Base + (width - 1) * l < MAXREMOTE
    /\ ay < l /\ call.kernel.stops = "widest" =>
         IF width = 8 THEN Base + 7 * l < MAXREMOTE ELSE Base + (nn - 1 - i) * l < MAXREMOTE
    /\ \A x \in touched : x < MAXREMOTE

\* cpy_lc_r.
CopyBounded ==
  ~local /\ does = "load copy" =>
    /\ nn <= 16 => cy = ay * nn + i
    /\ nn > 16 => IF width = 8 THEN cy < MAXREMOTE + (IF i = 0 THEN 7 ELSE 0)
                               ELSE cy + (nn - i) < MAXREMOTE + 7
    /\ \A pr \in copied : pr[1] < MAXREMOTE + 14

\* A round that has begun goes on, and after the last column no loop runs.
StridedInv ==
  /\ StridedTypes /\ Consecutive
  /\ lane > 0 => Goes /\ ay < l
  /\ ay = l => i = 0
  /\ LocalInv /\ PointersMapped /\ CopyBounded

\* The tables of the kernels.
LEMMA KernelFacts ==
  /\ \A k \in Locals : k.stops = "never" /\ k.lanes \in {1, 2, 4, 8}
  /\ \A k \in Remotes : k.stops \in {"all", "widest"} /\ k.lanes = 8 /\ (k.does = "load copy" => k.stops = "widest")
<1>1. \A k \in Locals : k.stops = "never" /\ k.lanes \in {1, 2, 4, 8}
  <2>1. \A d, n : Mover(d, n).stops = "never" /\ Mover(d, n).lanes = n
    BY DEF Mover
  <2>2. \A k \in Locals : \E d, n : n \in {1, 2, 4, 8} /\ k = Mover(d, n)
    BY DEF Locals, cpy_ls1, cpy_ls2, cpy_ls4, cpy_ls8, cpy_vs1, cpy_vs2, cpy_vs4, cpy_vs8,
           cpy_lc1, cpy_lc2, cpy_lc4, cpy_lc8, cpy_cs1, cpy_cs2, cpy_cs4, cpy_cs8
  <2> QED BY <2>1, <2>2
<1>2. \A k \in Remotes : k.stops \in {"all", "widest"} /\ k.lanes = 8 /\ (k.does = "load copy" => k.stops = "widest")
  <2>1. cpy_ls_r.stops = "all" /\ cpy_ls_r.lanes = 8 /\ cpy_ls_r.does = "load"
    BY DEF cpy_ls_r, RemoteMover
  <2>2. cpy_vs_r.stops = "all" /\ cpy_vs_r.lanes = 8 /\ cpy_vs_r.does = "store"
    BY DEF cpy_vs_r, RemoteMover
  <2>3. cpy_lc_r.stops = "widest" /\ cpy_lc_r.lanes = 8
    BY DEF cpy_lc_r, RemoteMover
  <2>4. cpy_cs_r.stops = "widest" /\ cpy_cs_r.lanes = 8
    BY DEF cpy_cs_r, RemoteMover
  <2>5. "load" # "load copy" /\ "store" # "load copy"
    OBVIOUS
  <2> QED BY <2>1, <2>2, <2>3, <2>4, <2>5 DEF Remotes
<1> QED BY <1>1, <1>2

\* Of a call: the stride and the length of a column.
LEMMA CallFacts ==
  ASSUME call \in Copies
  PROVE  /\ l \in Nat /\ l >= 1 /\ 16 * l <= MAXREMOTE /\ MAXREMOTE \in Nat
         /\ nn \in Nat
         /\ call.kernel.lanes \in {1, 2, 4, 8}
         /\ call.kernel.stops \in {"never", "all", "widest"}
         /\ ~local => call.kernel.lanes = 8
         /\ ~local /\ does = "load copy" => call.kernel.stops = "widest"
<1>1. call.kernel \in Locals \cup Remotes /\ call.l \in Nat \ {0} /\ call.mx \in Nat
      /\ 16 * call.l <= MAXREMOTE /\ MAXREMOTE \in Nat
  BY CopiesAssumption
<1>2. nn \in Nat
  <2>1. \A a \in Nat : \A b \in Nat \ {0} : a \div b \in Nat
    OBVIOUS
  <2> QED BY <1>1, <2>1 DEF nn, l
<1>3. CASE call.kernel \in Locals
  <2>1. call.kernel.stops = "never" /\ call.kernel.lanes \in {1, 2, 4, 8}
    BY <1>3, KernelFacts
  <2> QED BY <1>1, <1>2, <2>1 DEF l, local
<1>4. CASE call.kernel \in Remotes
  <2>1. /\ call.kernel.stops \in {"all", "widest"} /\ call.kernel.lanes = 8
        /\ call.kernel.does = "load copy" => call.kernel.stops = "widest"
    BY <1>4, KernelFacts
  <2>2. call.kernel.stops \in {"never", "all", "widest"} /\ call.kernel.lanes \in {1, 2, 4, 8}
    BY <2>1
  <2>3. l \in Nat /\ l >= 1 /\ 16 * l <= MAXREMOTE /\ MAXREMOTE \in Nat
    BY <1>1 DEF l
  <2>4. does = "load copy" => call.kernel.stops = "widest"
    BY <2>1 DEF does
  <2> QED BY <1>2, <2>1, <2>2, <2>3, <2>4
<1> QED BY <1>1, <1>3, <1>4

\* The loops: each half as wide as the one before it, the last of single steps.
LEMMA WidthFacts ==
  ASSUME call \in Copies
  PROVE  /\ Len(Widths) \in Nat /\ Len(Widths) >= 1 /\ 1 \in 1 .. Len(Widths)
         /\ Widths[Len(Widths)] = 1
         /\ \A k \in 1 .. Len(Widths) : Widths[k] \in {1, 2, 4, 8} /\ Widths[k] <= Widths[1]
         /\ \A k \in 1 .. Len(Widths) : k < Len(Widths) => k + 1 \in 1 .. Len(Widths) /\ Widths[k] = 2 * Widths[k + 1]
         /\ \A k \in 1 .. Len(Widths) : Widths[k] = 8 => nn > 16 /\ k = 1
         /\ ~local => Widths[1] = IF nn > 16 THEN 8 ELSE 4
<1>1. nn \in Nat /\ call.kernel.lanes \in {1, 2, 4, 8} /\ (~local => call.kernel.lanes = 8)
  BY CallFacts
<1>2. CASE call.kernel.lanes = 8 /\ nn > 16
  <2>1. Widths = <<8, 4, 2, 1>>
    BY <1>1, <1>2 DEF Widths
  <2> QED BY <1>1, <1>2, <2>1
<1>3. CASE call.kernel.lanes = 8 /\ nn <= 16
  <2>1. Widths = <<4, 2, 1>>
    BY <1>1, <1>3 DEF Widths
  <2> QED BY <1>1, <1>3, <2>1
<1>4. CASE call.kernel.lanes = 4
  <2>1. Widths = <<4, 2, 1>>
    BY <1>4 DEF Widths
  <2> QED BY <1>1, <1>4, <2>1
<1>5. CASE call.kernel.lanes = 2
  <2>1. Widths = <<2, 1>>
    BY <1>5 DEF Widths
  <2> QED BY <1>1, <1>5, <2>1
<1>6. CASE call.kernel.lanes = 1
  <2>1. Widths = <<1>>
    BY <1>6 DEF Widths
  <2> QED BY <1>1, <1>6, <2>1
<1> QED BY <1>1, <1>2, <1>3, <1>4, <1>5, <1>6

\* What the proofs below need of the types.
LEMMA PlaceFacts ==
  ASSUME StridedTypes
  PROVE  /\ l \in Nat /\ l >= 1 /\ nn \in Nat /\ MAXREMOTE \in Nat /\ 16 * l <= MAXREMOTE
         /\ width \in {1, 2, 4, 8} /\ width \in Nat /\ lane \in Nat /\ lane < width /\ i \in Nat /\ i <= nn
         /\ ay \in Nat /\ ay <= l /\ 0 .. width - 1 \subseteq Lanes /\ lane \in 0 .. width - 1
         /\ \A t \in 0 .. width - 1 : t \in Nat /\ t < width /\ ptr[t] \in Nat
         /\ Base \in Int /\ Widths[1] \in {1, 2, 4, 8} /\ 0 \in 0 .. width - 1
<1>1. /\ width \in {1, 2, 4, 8} /\ width <= Widths[1] /\ Widths[1] \in {1, 2, 4, 8}
  BY WidthFacts DEF StridedTypes, width
<1>2. l \in Nat /\ l >= 1 /\ nn \in Nat /\ MAXREMOTE \in Nat /\ 16 * l <= MAXREMOTE
  BY CallFacts DEF StridedTypes
<1>3. lane \in 0 .. width - 1 /\ 0 .. width - 1 \subseteq Lanes /\ 0 \in 0 .. width - 1
  BY <1>1 DEF StridedTypes, Lanes
<1>4. \A t \in 0 .. width - 1 : t \in Nat /\ t < width /\ ptr[t] \in Nat
  BY <1>1, <1>3 DEF StridedTypes
<1>5. Base \in Int
  <2>1. ptr[lane] \in Int /\ lane * l \in Int
    BY <1>2, <1>3, <1>4
  <2> QED BY <2>1 DEF Base
<1> QED BY <1>1, <1>2, <1>3, <1>4, <1>5 DEF StridedTypes

\* All pointers start in the first column, side by side.
LEMMA StridedInitially == StridedInit => StridedInv
<1> SUFFICES ASSUME StridedInit PROVE StridedInv
  OBVIOUS
<1>1. /\ call \in Copies /\ ay = 0 /\ i = 0 /\ loop = 1 /\ lane = 0 /\ ptr = Column(0) /\ cy = 0
      /\ touched = {} /\ count = 0 /\ copied = {}
  BY DEF StridedInit
<1>2. l \in Nat /\ l >= 1 /\ 16 * l <= MAXREMOTE /\ MAXREMOTE \in Nat /\ nn \in Nat
  BY <1>1, CallFacts
<1>3. /\ 1 \in 1 .. Len(Widths) /\ width = Widths[1] /\ Widths[1] \in {1, 2, 4, 8}
      /\ (Widths[1] = 8 => nn > 16) /\ (~local => Widths[1] = IF nn > 16 THEN 8 ELSE 4)
  BY <1>1, WidthFacts DEF width
<1>4. \A t \in Lanes : t \in Nat /\ t * l \in Nat /\ ptr[t] = t * l
  <2>1. \A t \in Lanes : t \in Nat
    BY <1>3 DEF Lanes
  <2>2. \A t \in Lanes : t * l \in Nat /\ 0 + t * l = t * l
    BY <1>2, <2>1
  <2> QED BY <1>1, <2>1, <2>2 DEF Column
<1>5. StridedTypes
  <2>1. ptr \in [Lanes -> Nat]
    <3>1. ptr = [t \in Lanes |-> 0 + t * l]
      BY <1>1 DEF Column
    <3>2. \A t \in Lanes : 0 + t * l \in Nat
      BY <1>4
    <3> QED BY <3>1, <3>2
  <2> QED BY <1>1, <1>2, <1>3, <2>1 DEF StridedTypes
<1>6. 0 \in Lanes /\ \A t \in 0 .. width - 1 : t \in Lanes
  BY <1>3 DEF Lanes
<1>7. Base = 0
  <2>1. ptr[0] = 0 * l /\ 0 * l = 0
    BY <1>2, <1>4, <1>6
  <2> QED BY <1>1, <2>1 DEF Base
<1>8. Consecutive
  <2>1. \A t \in 0 .. width - 1 : ~(t < lane) /\ 0 + t * l = t * l
    BY <1>1, <1>2, <1>4, <1>6
  <2> QED BY <1>4, <1>6, <1>7, <2>1 DEF Consecutive
<1>9. Done = {}
  BY <1>1, <1>2 DEF Done
<1>10. LocalInv
  <2>1. 0 = 0 + 0 * l /\ 0 = 0 * nn + 0 /\ 0 = 0 * nn + 0 + 0
    BY <1>2
  <2> QED BY <1>1, <1>7, <1>9, <2>1 DEF LocalInv
<1>11. PointersMapped
  <2>1. (width - 1) * l < MAXREMOTE
    BY <1>2, <1>3
  <2>2. 7 * l < MAXREMOTE
    BY <1>2
  <2>3. nn <= 16 => (nn - 1) * l < MAXREMOTE
    <3>1. ASSUME nn <= 16
          PROVE  (nn - 1) * l < MAXREMOTE
      <4>1. PICK d \in Nat : nn + d = 16
        <5>1. 16 - nn \in Nat /\ nn + (16 - nn) = 16
          BY <1>2, <3>1
        <5> QED BY <5>1
      <4>2. (nn - 1) * l + (d + 1) * l = 16 * l
        BY <1>2, <4>1
      <4>3. (d + 1) * l >= 1
        <5>1. (d + 1) * l = d * l + l /\ d * l \in Nat
          BY <1>2, <4>1
        <5> QED BY <1>2, <5>1
      <4>4. (nn - 1) * l \in Int /\ (d + 1) * l \in Int
        BY <1>2, <4>1
      <4> QED BY <1>2, <4>2, <4>3, <4>4
    <3> QED BY <3>1
  <2>4. ~local /\ width # 8 => nn <= 16
    BY <1>2, <1>3
  <2>5. PICK a : a = (width - 1) * l
    OBVIOUS
  <2>6. PICK b : b = (nn - 1) * l
    OBVIOUS
  <2>7. /\ Base + (width - 1) * l = a /\ Base + (nn - 1 - i) * l = b /\ Base + 7 * l = 7 * l
    <3>1. a \in Int /\ b \in Int /\ nn - 1 - 0 = nn - 1
      BY <1>2, <1>3, <2>5, <2>6
    <3> QED BY <1>1, <1>2, <1>7, <2>5, <2>6, <3>1
  <2> QED BY <1>1, <2>1, <2>2, <2>3, <2>4, <2>5, <2>6, <2>7 DEF PointersMapped
<1>12. CopyBounded
  <2>1. 0 = 0 * nn + 0
    BY <1>2
  <2>2. ~local /\ nn > 16 => width = 8
    BY <1>3
  <2>3. nn <= 16 => cy = ay * nn + i
    BY <1>1, <2>1
  <2>4. ~local /\ nn > 16 => cy < MAXREMOTE + (IF i = 0 THEN 7 ELSE 0)
    BY <1>1, <1>2
  <2>5. \A pr \in copied : pr[1] < MAXREMOTE + 14
    BY <1>1
  <2> QED BY <2>2, <2>3, <2>4, <2>5 DEF CopyBounded
<1> QED BY <1>1, <1>2, <1>5, <1>8, <1>10, <1>11, <1>12 DEF StridedInv

\* A multiple of the stride grows with its factor.
LEMMA Strides ==
  ASSUME l \in Nat
  PROVE  \A a, b \in Int : /\ a * l \in Int /\ (a + b) * l = a * l + b * l
                           /\ a <= b => a * l <= b * l
<1> SUFFICES ASSUME NEW a \in Int, NEW b \in Int
             PROVE  /\ a * l \in Int /\ (a + b) * l = a * l + b * l
                    /\ a <= b => a * l <= b * l
  OBVIOUS
<1>1. PICK k : k = l
  OBVIOUS
<1>2. k \in Nat
  BY <1>1
<1>3. a * k \in Int /\ b * k \in Int /\ (a + b) * k = a * k + b * k
  BY <1>2
<1>4. ASSUME a <= b
      PROVE  a * k <= b * k
  <2>1. PICK d \in Nat : a + d = b
    <3>1. b - a \in Nat /\ a + (b - a) = b
      BY <1>4
    <3> QED BY <3>1
  <2>2. b * k = a * k + d * k /\ d * k \in Nat /\ a * k \in Int /\ b * k \in Int
    <3>1. (a + d) * k = a * k + d * k /\ d * k \in Nat /\ a * k \in Int /\ b * k \in Int
      BY <1>2
    <3> QED BY <2>1, <3>1
  <2> QED BY <2>2
<1> QED BY <1>1, <1>3, <1>4

\* What a kernel leaves alone while it stays in the column and the loop.
LEMMA SameLoop ==
  ASSUME call' = call, loop' = loop
  PROVE  /\ l' = l /\ nn' = nn /\ width' = width /\ Widths' = Widths /\ Lanes' = Lanes
         /\ does' = does /\ copying' = copying /\ local' = local
         /\ call.kernel' = call.kernel
<1>1. l' = l /\ does' = does /\ local' = local
  BY DEF l, does, local
<1>2. nn' = nn /\ copying' = copying
  BY <1>1 DEF nn, copying, l
<1>3. Widths' = Widths
  BY <1>2 DEF Widths
<1>4. width' = width /\ Lanes' = Lanes
  BY <1>3 DEF width, Lanes
<1> QED BY <1>1, <1>2, <1>3, <1>4

\* The element of a step is the next one of the column.
LEMMA OneMoreDone ==
  ASSUME StridedInv, Goes, ay < l, ay' = ay, i' + lane' = i + lane + 1, l' = l, nn' = nn
  PROVE  /\ i + lane \in 0 .. nn - 1 /\ ay \in 0 .. l - 1
         /\ Done' = Done \cup {<<i + lane, ay>>}
<1>1. /\ l \in Nat /\ nn \in Nat /\ i \in Nat /\ lane \in Nat /\ ay \in Nat /\ width \in Nat
      /\ lane < width /\ ay < l /\ i <= nn - width
  BY PlaceFacts DEF StridedInv, Goes
<1>2. i + lane \in 0 .. nn - 1 /\ ay \in 0 .. l - 1
  BY <1>1
<1>3. ASSUME NEW a \in 0 .. nn - 1, NEW b \in 0 .. l - 1
      PROVE  (b < ay \/ (b = ay /\ a < i + lane + 1)) <=> (b < ay \/ (b = ay /\ a < i + lane) \/ (a = i + lane /\ b = ay))
  BY <1>1
<1>4. Done' = {z \in (0 .. nn - 1) \X (0 .. l - 1) : z[2] < ay \/ (z[2] = ay /\ z[1] < i + lane + 1)}
  BY DEF Done
<1>5. \A z \in (0 .. nn - 1) \X (0 .. l - 1) :
        z \in Done' <=> z \in Done \/ z = <<i + lane, ay>>
  <2> SUFFICES ASSUME NEW a \in 0 .. nn - 1, NEW b \in 0 .. l - 1
               PROVE  <<a, b>> \in Done' <=> <<a, b>> \in Done \/ <<a, b>> = <<i + lane, ay>>
    OBVIOUS
  <2>1. <<a, b>> \in Done' <=> b < ay \/ (b = ay /\ a < i + lane + 1)
    BY <1>4
  <2>2. <<a, b>> \in Done <=> b < ay \/ (b = ay /\ a < i + lane)
    BY DEF Done
  <2>3. <<a, b>> = <<i + lane, ay>> <=> a = i + lane /\ b = ay
    OBVIOUS
  <2> QED BY <1>3, <2>1, <2>2, <2>3
<1>6. <<i + lane, ay>> \in (0 .. nn - 1) \X (0 .. l - 1)
  BY <1>2
<1>7. Done \subseteq (0 .. nn - 1) \X (0 .. l - 1) /\ Done' \subseteq (0 .. nn - 1) \X (0 .. l - 1)
  BY <1>4 DEF Done
<1> QED BY <1>2, <1>5, <1>6, <1>7

\* Where the pointer of a step is, and that it can be there.
LEMMA Pointer ==
  ASSUME StridedInv, Goes, ay < l
  PROVE  /\ ptr[lane] = Base + lane * l /\ ptr[lane] \in Nat
         /\ local => ptr[lane] = (i + lane) * l + ay
         /\ ~local /\ does # "load copy" => ptr[lane] < MAXREMOTE
<1>1. /\ l \in Nat /\ nn \in Nat /\ i \in Nat /\ lane \in Nat /\ ay \in Nat /\ width \in Nat
      /\ lane < width /\ i <= nn - width /\ Base \in Int /\ lane \in 0 .. width - 1
      /\ ptr[lane] \in Nat /\ MAXREMOTE \in Nat
  BY PlaceFacts DEF StridedInv, Goes
<1>2. /\ \A a, b \in Int : a * l \in Int /\ (a + b) * l = a * l + b * l
      /\ \A a, b \in Int : a <= b => a * l <= b * l
  BY <1>1, Strides
<1>3. ptr[lane] = Base + lane * l
  <2>1. lane * l \in Int
    BY <1>1, <1>2
  <2> QED BY <1>1, <2>1 DEF Base
<1>4. ASSUME local
      PROVE  ptr[lane] = (i + lane) * l + ay
  <2>1. Base = ay + i * l
    BY <1>4 DEF StridedInv, LocalInv
  <2>2. (i + lane) * l = i * l + lane * l /\ i * l \in Int /\ lane * l \in Int
    BY <1>1, <1>2
  <2> QED BY <1>1, <1>3, <2>1, <2>2
<1>5. ASSUME ~local, does # "load copy"
      PROVE  ptr[lane] < MAXREMOTE
  <2>1. /\ call.kernel.stops = "all" => Base + (width - 1) * l < MAXREMOTE
        /\ call.kernel.stops = "widest" =>
             IF width = 8 THEN Base + 7 * l < MAXREMOTE ELSE Base + (nn - 1 - i) * l < MAXREMOTE
    BY <1>5 DEF StridedInv, PointersMapped
  <2>2. PICK a : a \in Int /\ lane <= a /\ Base + a * l < MAXREMOTE
    <3>1. CASE call.kernel.stops = "all"
      <4>1. width - 1 \in Int /\ lane <= width - 1
        BY <1>1
      <4> QED BY <2>1, <3>1, <4>1
    <3>2. CASE call.kernel.stops = "widest" /\ width = 8
      <4>1. 7 \in Int /\ lane <= 7
        BY <1>1, <3>2
      <4> QED BY <2>1, <3>2, <4>1
    <3>3. CASE call.kernel.stops = "widest" /\ width # 8
      <4>1. nn - 1 - i \in Int /\ lane <= nn - 1 - i
        BY <1>1, <3>3
      <4> QED BY <2>1, <3>3, <4>1
    <3>4. call.kernel.stops \in {"all", "widest"}
      <4>1. call.kernel.stops \in {"never", "all", "widest"}
        BY CallFacts DEF StridedInv, StridedTypes
      <4> QED BY <1>5, <4>1 DEF local
    <3> QED BY <3>1, <3>2, <3>3, <3>4
  <2>3. lane * l <= a * l /\ lane * l \in Int /\ a * l \in Int
    BY <1>1, <1>2, <2>2
  <2> QED BY <1>1, <1>3, <2>2, <2>3
<1> QED BY <1>1, <1>3, <1>4, <1>5

\* Inside a round: only the pointer of the statement moves.
LEMMA MidRound ==
  ASSUME StridedInv, Move, lane + 1 < width
  PROVE  StridedTypes' /\ Consecutive' /\ Base' = Base /\ (lane' > 0 => Goes' /\ ay' < l')
<1>1. /\ call' = call /\ loop' = loop /\ ay' = ay /\ i' = i /\ lane' = lane + 1 /\ cy' = cy
      /\ count' = count + 1 /\ ptr' = Advance /\ ay < l /\ (lane > 0 \/ Goes)
  BY DEF Move
<1>2. /\ l \in Nat /\ nn \in Nat /\ lane \in Nat /\ width \in Nat /\ Base \in Int
      /\ 0 .. width - 1 \subseteq Lanes /\ lane \in 0 .. width - 1
      /\ \A t \in 0 .. width - 1 : t \in Nat /\ ptr[t] \in Nat
  BY PlaceFacts DEF StridedInv
<1>3. Goes /\ StridedTypes /\ Consecutive
  BY <1>1, <1>2 DEF StridedInv
<1>4. l' = l /\ nn' = nn /\ width' = width /\ Widths' = Widths /\ Lanes' = Lanes
  BY <1>1, SameLoop
<1>5. \A a, b \in Int : a * l \in Int /\ (a + b) * l = a * l + b * l
  BY <1>2, Strides
<1>6. ptr[lane] = Base + lane * l /\ lane * l \in Int /\ width * l \in Int
  <2>1. ptr[lane] = Base + lane * l
    BY <1>1, <1>3, Pointer
  <2>2. lane \in Int /\ width \in Int
    BY <1>2
  <2> QED BY <1>5, <2>1, <2>2
<1>7. width * l \in Nat /\ ptr[lane] + width * l \in Nat
  <2>1. width * l \in Nat
    BY <1>2
  <2> QED BY <1>2, <2>1
<1>8. ptr' = [ptr EXCEPT ![lane] = ptr[lane] + width * l] /\ ptr \in [Lanes -> Nat]
  BY <1>1, <1>3 DEF Advance, StridedTypes
<1>9. \A t \in 0 .. width - 1 : ptr'[t] = IF t = lane THEN ptr[lane] + width * l ELSE ptr[t]
  BY <1>2, <1>8
<1>10. \A t \in 0 .. width - 1 : ptr[t] = Base + (IF t < lane THEN t + width ELSE t) * l
  BY <1>3 DEF Consecutive
<1>11. lane + 1 \in 0 .. width - 1
  BY <1>2
<1>12. Base' = Base
  <2>1. ptr'[lane + 1] = ptr[lane + 1] /\ ~(lane + 1 < lane)
    BY <1>2, <1>9, <1>11
  <2>2. ptr[lane + 1] = Base + (lane + 1) * l
    BY <1>10, <1>11, <2>1
  <2>3. (lane + 1) * l \in Int
    BY <1>2, <1>5
  <2>4. Base' = ptr'[lane + 1] - (lane + 1) * l
    BY <1>1, <1>4 DEF Base
  <2> QED BY <1>2, <2>1, <2>2, <2>3, <2>4
<1>13. Consecutive'
  <2>1. ASSUME NEW t \in 0 .. width - 1
        PROVE  ptr'[t] = Base + (IF t < lane + 1 THEN t + width ELSE t) * l
    <3>1. CASE t = lane
      <4>1. (lane + width) * l = lane * l + width * l /\ t < lane + 1
        BY <1>2, <1>5, <3>1
      <4>2. ptr'[t] = Base + lane * l + width * l
        BY <1>6, <1>9, <3>1
      <4>3. Base + lane * l + width * l = Base + (lane * l + width * l)
        BY <1>2, <1>6
      <4> QED BY <3>1, <4>1, <4>2, <4>3
    <3>2. CASE t # lane
      <4>1. (t < lane + 1) = (t < lane) /\ ptr'[t] = ptr[t]
        BY <1>2, <1>9, <3>2
      <4> QED BY <1>10, <4>1
    <3> QED BY <3>1, <3>2
  <2>2. Consecutive' <=> \A t \in 0 .. width - 1 : ptr'[t] = Base + (IF t < lane + 1 THEN t + width ELSE t) * l
    BY <1>1, <1>4, <1>12 DEF Consecutive
  <2> QED BY <2>1, <2>2
<1>14. StridedTypes'
  <2>1. ptr' \in [Lanes -> Nat]
    BY <1>7, <1>8
  <2>2. /\ call \in Copies /\ ay \in 0 .. l /\ i \in 0 .. nn /\ loop \in 1 .. Len(Widths) /\ cy \in Nat
        /\ count \in Nat
    BY <1>3 DEF StridedTypes
  <2>3. count + 1 \in Nat
    BY <2>2
  <2> QED BY <1>1, <1>4, <1>11, <2>1, <2>2, <2>3 DEF StridedTypes
<1>15. Goes' /\ ay' < l'
  BY <1>1, <1>3, <1>4 DEF Goes
<1> QED BY <1>12, <1>13, <1>14, <1>15

\* After a round the pointers are where the next one begins, or at the start of
\* the column again.
LEMMA RoundDone ==
  ASSUME StridedInv, Move, lane + 1 = width
  PROVE  /\ StridedTypes' /\ Consecutive' /\ lane' = 0 /\ i' = i + width
         /\ IF Looks /\ does # "load copy" /\ Base + width * l + (width - 1) * l >= MAXREMOTE
              THEN Base' = ay ELSE Base' = Base + width * l
<1>1. /\ call' = call /\ loop' = loop /\ ay' = ay /\ i' = i + width /\ lane' = 0
      /\ cy' = (IF copying THEN CyWrapped(cy + width) ELSE cy)
      /\ count' = count + 1 /\ ptr' = Wrapped(Advance) /\ ay < l /\ (lane > 0 \/ Goes)
  <2>1. ~(lane + 1 < width)
    BY PlaceFacts DEF StridedInv
  <2> QED BY <2>1 DEF Move
<1>2. /\ l \in Nat /\ nn \in Nat /\ lane \in Nat /\ width \in Nat /\ Base \in Int /\ i \in Nat
      /\ 0 .. width - 1 \subseteq Lanes /\ lane \in 0 .. width - 1 /\ 0 \in 0 .. width - 1 /\ ay \in Nat
      /\ \A t \in 0 .. width - 1 : t \in Nat /\ ptr[t] \in Nat
  BY PlaceFacts DEF StridedInv
<1>3. Goes /\ StridedTypes /\ Consecutive
  BY <1>1, <1>2 DEF StridedInv
<1>4. l' = l /\ nn' = nn /\ width' = width /\ Widths' = Widths /\ Lanes' = Lanes
  BY <1>1, SameLoop
<1>5. \A a, b \in Int : a * l \in Int /\ (a + b) * l = a * l + b * l
  BY <1>2, Strides
<1>6. ptr[lane] = Base + lane * l /\ lane * l \in Int /\ width * l \in Int
  <2>1. ptr[lane] = Base + lane * l
    BY <1>1, <1>3, Pointer
  <2>2. lane \in Int /\ width \in Int
    BY <1>2
  <2> QED BY <1>5, <2>1, <2>2
<1>7. width * l \in Nat /\ ptr[lane] + width * l \in Nat
  <2>1. width * l \in Nat
    BY <1>2
  <2> QED BY <1>2, <2>1
<1>8. Advance = [ptr EXCEPT ![lane] = ptr[lane] + width * l] /\ ptr \in [Lanes -> Nat]
  BY <1>3 DEF Advance, StridedTypes
<1>9. Advance \in [Lanes -> Nat]
  BY <1>7, <1>8
<1>10. \A t \in 0 .. width - 1 : Advance[t] = Base + width * l + t * l
  <2> SUFFICES ASSUME NEW t \in 0 .. width - 1
               PROVE  Advance[t] = Base + width * l + t * l
    OBVIOUS
  <2>1. t * l \in Int /\ (t + width) * l = t * l + width * l
    BY <1>2, <1>5
  <2>2. CASE t = lane
    <3>1. Advance[t] = Base + lane * l + width * l
      BY <1>2, <1>6, <1>8, <2>2
    <3> QED BY <1>2, <1>6, <2>1, <2>2, <3>1
  <2>3. CASE t # lane
    <3>1. t < lane /\ Advance[t] = ptr[t]
      BY <1>2, <1>8, <2>3
    <3>2. ptr[t] = Base + (t + width) * l
      BY <1>3, <3>1 DEF Consecutive
    <3>3. Advance[t] = Base + (t * l + width * l)
      BY <2>1, <3>1, <3>2
    <3> QED BY <1>2, <1>6, <2>1, <3>3
  <2> QED BY <2>2, <2>3
<1>11. /\ ptr' = (IF Looks /\ Past(Advance) THEN [t \in Lanes |-> IF t < width THEN ay + t * l ELSE Advance[t]]
                                            ELSE Advance)
       /\ Past(Advance) <=> does # "load copy" /\ Base + width * l + (width - 1) * l >= MAXREMOTE
  <2>1. width - 1 \in 0 .. width - 1
    BY <1>2
  <2>2. Advance[width - 1] = Base + width * l + (width - 1) * l
    BY <1>10, <2>1
  <2> QED BY <1>1, <2>2 DEF Wrapped, Past
<1>12. PICK b \in Int : /\ \A t \in 0 .. width - 1 : ptr'[t] = b + t * l
                        /\ b = IF Looks /\ Past(Advance) THEN ay ELSE Base + width * l
  <2>1. CASE Looks /\ Past(Advance)
    <3>1. \A t \in 0 .. width - 1 : t \in Lanes /\ t < width
      BY <1>2
    <3>2. \A t \in 0 .. width - 1 : ptr'[t] = ay + t * l
      BY <1>11, <2>1, <3>1
    <3>3. ay \in Int
      BY <1>2
    <3> QED BY <2>1, <3>2, <3>3
  <2>2. CASE ~(Looks /\ Past(Advance))
    <3>1. \A t \in 0 .. width - 1 : ptr'[t] = Base + width * l + t * l
      BY <1>10, <1>11, <2>2
    <3>2. Base + width * l \in Int
      BY <1>2, <1>6
    <3> QED BY <2>2, <3>1, <3>2
  <2> QED BY <2>1, <2>2
<1>13. Base' = b
  <2>1. Base' = ptr'[0] - 0 * l
    BY <1>1, <1>4 DEF Base
  <2>2. ptr'[0] = b + 0 * l
    BY <1>2, <1>12
  <2>3. 0 * l \in Int
    BY <1>5
  <2> QED BY <2>1, <2>2, <2>3
<1>14. Consecutive'
  <2>1. \A t \in 0 .. width - 1 : ~(t < 0) /\ ptr'[t] = b + t * l
    BY <1>2, <1>12
  <2>2. Consecutive' <=> \A t \in 0 .. width - 1 : ptr'[t] = b + (IF t < 0 THEN t + width ELSE t) * l
    BY <1>1, <1>4, <1>13 DEF Consecutive
  <2> QED BY <2>1, <2>2
<1>15. StridedTypes'
  <2>1. ptr' \in [Lanes -> Nat]
    <3>1. CASE Looks /\ Past(Advance)
      <4>1. \A t \in Lanes : t \in Nat /\ Advance[t] \in Nat
        <5>1. \A t \in Lanes : t \in Nat
          BY PlaceFacts DEF Lanes, StridedInv
        <5> QED BY <1>9, <5>1
      <4>2. \A t \in Lanes : ay + t * l \in Nat
        BY <1>2, <4>1
      <4>3. ptr' = [t \in Lanes |-> IF t < width THEN ay + t * l ELSE Advance[t]]
        BY <1>11, <3>1
      <4>4. \A t \in Lanes : (IF t < width THEN ay + t * l ELSE Advance[t]) \in Nat
        BY <4>1, <4>2
      <4> QED BY <4>3, <4>4
    <3>2. CASE ~(Looks /\ Past(Advance))
      BY <1>9, <1>11, <3>2
    <3> QED BY <3>1, <3>2
  <2>2. /\ call \in Copies /\ ay \in 0 .. l /\ i \in 0 .. nn /\ loop \in 1 .. Len(Widths) /\ cy \in Nat
        /\ count \in Nat
    BY <1>3 DEF StridedTypes
  <2>3. count + 1 \in Nat /\ cy + width \in Nat
    BY <1>2, <2>2
  <2>4. cy' \in Nat
    BY <1>1, <2>2, <2>3 DEF CyWrapped
  <2>5. i + width \in 0 .. nn
    BY <1>2, <1>3 DEF Goes
  <2> QED BY <1>1, <1>2, <1>4, <2>1, <2>2, <2>3, <2>4, <2>5 DEF StridedTypes
<1> QED BY <1>1, <1>11, <1>12, <1>13, <1>14, <1>15

\* In cpy.c the next element of the column is moved, once, to its place.
LEMMA MoveLocal ==
  ASSUME StridedInv, Move
  PROVE  LocalInv'
<1>1. SUFFICES ASSUME local
               PROVE  LocalInv'
  <2>1. local' = local
    BY SameLoop DEF Move
  <2> QED BY <2>1 DEF LocalInv
<1>2. /\ call' = call /\ loop' = loop /\ ay' = ay /\ count' = count + 1 /\ ay < l /\ (lane > 0 \/ Goes)
      /\ touched' = touched \cup {ptr[lane]}
      /\ copied' = IF copying THEN copied \cup {<<cy + lane, ptr[lane]>>} ELSE copied
  BY DEF Move
<1>3. /\ l' = l /\ nn' = nn /\ width' = width /\ copying' = copying /\ local' = local
  BY <1>2, SameLoop
<1>4. /\ l \in Nat /\ nn \in Nat /\ lane \in Nat /\ width \in Nat /\ Base \in Int /\ i \in Nat /\ ay \in Nat
      /\ lane < width
  BY PlaceFacts DEF StridedInv
<1>5. /\ Goes /\ Base = ay + i * l /\ touched = {z[1] * l + z[2] : z \in Done}
      /\ count = ay * nn + i + lane
      /\ copying => /\ cy = ay * nn + i
                    /\ copied = {<<z[2] * nn + z[1], z[1] * l + z[2]>> : z \in Done}
  BY <1>1, <1>2, <1>4 DEF StridedInv, LocalInv
<1>6. ~Looks
  BY <1>1 DEF Looks, local
<1>7. /\ i' + lane' = i + lane + 1 /\ Base' = ay + i' * l
      /\ copying => cy' = ay * nn + i'
  <2>1. CASE lane + 1 < width
    <3>1. i' = i /\ lane' = lane + 1 /\ cy' = cy
      BY <2>1 DEF Move
    <3>2. Base' = Base
      BY <2>1, MidRound
    <3> QED BY <1>4, <1>5, <3>1, <3>2
  <2>2. CASE lane + 1 = width
    <3>1. i' = i + width /\ lane' = 0 /\ Base' = Base + width * l
      BY <1>6, <2>2, RoundDone
    <3>2. copying => cy' = cy + width
      <4>1. ~(lane + 1 < width)
        BY <1>4, <2>2
      <4> QED BY <1>6, <4>1 DEF Move, CyWrapped
    <3>3. (i + width) * l = i * l + width * l /\ i * l \in Int /\ width * l \in Int
      <4>1. i \in Int /\ width \in Int
        BY <1>4
      <4> QED BY <1>4, <4>1, Strides
    <3>4. ay + i' * l = ay + i * l + width * l
      BY <1>4, <3>1, <3>3
    <3>5. Base' = ay + i' * l
      BY <1>5, <3>1, <3>4
    <3>6. copying => cy' = ay * nn + i'
      <4>1. ay * nn \in Int
        BY <1>4
      <4> QED BY <1>4, <1>5, <3>1, <3>2, <4>1
    <3>7. i' + lane' = i + lane + 1
      BY <1>4, <2>2, <3>1
    <3> QED BY <3>5, <3>6, <3>7
  <2> QED BY <1>4, <2>1, <2>2
<1>8. Done' = Done \cup {<<i + lane, ay>>}
  BY <1>2, <1>3, <1>5, <1>7, OneMoreDone
<1>9. ptr[lane] = (i + lane) * l + ay
  BY <1>1, <1>2, <1>5, Pointer
<1>10. PICK D, D2, q : D = Done /\ D2 = Done' /\ q = <<i + lane, ay>>
  OBVIOUS
<1>11. D2 = D \cup {q} /\ q[1] = i + lane /\ q[2] = ay
  BY <1>8, <1>10
<1>12. touched' = {z[1] * l + z[2] : z \in Done'}
  <2>1. touched' = {z[1] * l + z[2] : z \in D} \cup {q[1] * l + q[2]}
    BY <1>2, <1>5, <1>9, <1>10, <1>11
  <2>2. {z[1] * l + z[2] : z \in D} \cup {q[1] * l + q[2]} = {z[1] * l + z[2] : z \in D \cup {q}}
    BY Zenon
  <2>3. touched' = {z[1] * l + z[2] : z \in D2}
    BY <1>11, <2>1, <2>2
  <2> QED BY <1>10, <2>3
<1>13. ASSUME copying
       PROVE  copied' = {<<z[2] * nn + z[1], z[1] * l + z[2]>> : z \in Done'}
  <2>1. cy + lane = ay * nn + (i + lane)
    <3>1. ay * nn \in Int
      BY <1>4
    <3> QED BY <1>4, <1>5, <1>13, <3>1
  <2>2. copied' = {<<z[2] * nn + z[1], z[1] * l + z[2]>> : z \in D}
                   \cup {<<q[2] * nn + q[1], q[1] * l + q[2]>>}
    BY <1>2, <1>5, <1>9, <1>10, <1>11, <1>13, <2>1
  <2>3. {<<z[2] * nn + z[1], z[1] * l + z[2]>> : z \in D} \cup {<<q[2] * nn + q[1], q[1] * l + q[2]>>}
          = {<<z[2] * nn + z[1], z[1] * l + z[2]>> : z \in D \cup {q}}
    BY Zenon
  <2>4. copied' = {<<z[2] * nn + z[1], z[1] * l + z[2]>> : z \in D2}
    BY <1>11, <2>2, <2>3
  <2> QED BY <1>10, <2>4
<1>14. count' = ay * nn + i' + lane'
  <2>1. i' \in Int /\ lane' \in Int
    <3>1. (lane + 1 < width => i' = i /\ lane' = lane + 1) /\ (lane + 1 = width => i' = i + width /\ lane' = 0)
      BY RoundDone DEF Move
    <3> QED BY <1>4, <3>1
  <2>2. PICK a : a = ay * nn
    OBVIOUS
  <2>3. a \in Int
    BY <1>4, <2>2
  <2>4. count' = a + i + lane + 1 /\ i' + lane' = i + lane + 1
    BY <1>2, <1>5, <1>7, <2>2
  <2>5. count' = a + i' + lane'
    <3>1. \A c, d \in Int : c + d = i + lane + 1 => a + i + lane + 1 = a + c + d
      BY <1>4, <2>3
    <3> QED BY <2>1, <2>4, <3>1
  <2> QED BY <2>2, <2>5
<1>15. l' = l /\ nn' = nn /\ copying' = copying /\ ay' = ay
  BY <1>2, <1>3
<1> QED BY <1>7, <1>12, <1>13, <1>14, <1>15 DEF LocalInv

\* In cpyr.c the last pointer of a round is the farthest: when it has not come to
\* the end, none has, and when it has, they all go back.
LEMMA MovePointers ==
  ASSUME StridedInv, Move
  PROVE  PointersMapped'
<1>1. SUFFICES ASSUME ~local, does # "load copy"
               PROVE  PointersMapped'
  <2>1. local' = local /\ does' = does
    BY SameLoop DEF Move
  <2> QED BY <2>1 DEF PointersMapped
<1>2. /\ call' = call /\ loop' = loop /\ ay' = ay /\ ay < l /\ (lane > 0 \/ Goes)
      /\ touched' = touched \cup {ptr[lane]}
  BY DEF Move
<1>3. /\ l' = l /\ nn' = nn /\ width' = width /\ does' = does /\ local' = local
  BY <1>2, SameLoop
<1>4. /\ l \in Nat /\ nn \in Nat /\ lane \in Nat /\ width \in Nat /\ Base \in Int /\ i \in Nat /\ ay \in Nat
      /\ lane < width /\ MAXREMOTE \in Nat /\ 16 * l <= MAXREMOTE /\ width \in {1, 2, 4, 8}
  BY PlaceFacts DEF StridedInv
<1>5. /\ call.kernel.stops = "all" => Base + (width - 1) * l < MAXREMOTE
      /\ call.kernel.stops = "widest" =>
           IF width = 8 THEN Base + 7 * l < MAXREMOTE ELSE Base + (nn - 1 - i) * l < MAXREMOTE
      /\ \A x \in touched : x < MAXREMOTE
      /\ Goes
  BY <1>1, <1>2, <1>4 DEF StridedInv, PointersMapped
<1>6. \A x \in touched' : x < MAXREMOTE
  <2>1. ptr[lane] < MAXREMOTE
    BY <1>1, <1>2, <1>5, Pointer
  <2> QED BY <1>2, <1>5, <2>1
<1>7. /\ \A a, b \in Int : a * l \in Int /\ (a + b) * l = a * l + b * l
      /\ \A a, b \in Int : a <= b => a * l <= b * l
  BY <1>4, Strides
<1>8. CASE lane + 1 < width
  <2>1. Base' = Base /\ i' = i
    BY <1>8, MidRound DEF Move
  <2> QED BY <1>2, <1>3, <1>5, <1>6, <2>1 DEF PointersMapped
<1>9. CASE lane + 1 = width
  <2>1. /\ i' = i + width
        /\ IF Looks /\ Base + width * l + (width - 1) * l >= MAXREMOTE
             THEN Base' = ay ELSE Base' = Base + width * l
    BY <1>1, <1>9, RoundDone
  <2>2. width * l \in Int /\ (width - 1) * l \in Int /\ (width - 1) * l <= 7 * l /\ 7 * l \in Int
    <3>1. width \in Int /\ width - 1 \in Int /\ 7 \in Int /\ width - 1 <= 7
      BY <1>4
    <3> QED BY <1>7, <3>1
  <2>3. ay + (width - 1) * l < MAXREMOTE
    BY <1>2, <1>4, <2>2
  <2>4. ASSUME Looks
        PROVE  Base' + (width - 1) * l < MAXREMOTE
    <3>1. CASE Base + width * l + (width - 1) * l >= MAXREMOTE
      BY <2>1, <2>3, <2>4, <3>1
    <3>2. CASE ~(Base + width * l + (width - 1) * l >= MAXREMOTE)
      <4>1. Base' = Base + width * l
        BY <2>1, <3>2
      <4>2. Base + width * l + (width - 1) * l < MAXREMOTE
        BY <1>4, <2>2, <3>2
      <4> QED BY <4>1, <4>2
    <3> QED BY <3>1, <3>2
  <2>5. ASSUME call.kernel.stops = "widest", width # 8
        PROVE  Base' + (nn - 1 - i') * l < MAXREMOTE
    <3>1. Base' = Base + width * l
      <4>1. ~Looks
        BY <2>5 DEF Looks
      <4> QED BY <2>1, <4>1
    <3>2. (nn - 1 - i) * l = (nn - 1 - i') * l + width * l /\ (nn - 1 - i') * l \in Int
      <4>1. nn - 1 - i' \in Int /\ width \in Int /\ (nn - 1 - i') + width = nn - 1 - i
        BY <1>4, <2>1
      <4> QED BY <1>7, <4>1
    <3>3. Base + (nn - 1 - i) * l < MAXREMOTE
      BY <1>5, <2>5
    <3> QED BY <1>4, <2>2, <3>1, <3>2, <3>3
  <2>6. call.kernel.stops = "all" => Base' + (width - 1) * l < MAXREMOTE
    BY <2>4 DEF Looks
  <2>7. call.kernel.stops = "widest" /\ width = 8 => Base' + 7 * l < MAXREMOTE
    <3>1. call.kernel.stops = "widest" /\ width = 8 => Base' + (width - 1) * l < MAXREMOTE
      BY <2>4 DEF Looks
    <3>2. width = 8 => width - 1 = 7
      OBVIOUS
    <3> QED BY <3>1, <3>2
  <2> QED BY <1>2, <1>3, <1>6, <2>5, <2>6, <2>7 DEF PointersMapped
<1> QED BY <1>4, <1>8, <1>9

\* cpy_lc_r: less than a round of 8 past the end, and a rest below 8.
LEMMA MoveCopy ==
  ASSUME StridedInv, Move
  PROVE  CopyBounded'
<1>1. SUFFICES ASSUME ~local, does = "load copy"
               PROVE  CopyBounded'
  <2>1. local' = local /\ does' = does
    BY SameLoop DEF Move
  <2> QED BY <2>1 DEF CopyBounded
<1>2. /\ call' = call /\ loop' = loop /\ ay' = ay /\ ay < l /\ (lane > 0 \/ Goes) /\ copying
      /\ copied' = copied \cup {<<cy + lane, ptr[lane]>>}
  BY <1>1 DEF Move, copying
<1>3. /\ l' = l /\ nn' = nn /\ width' = width /\ does' = does /\ local' = local
  BY <1>2, SameLoop
<1>4. /\ l \in Nat /\ nn \in Nat /\ lane \in Nat /\ width \in Nat /\ i \in Nat /\ ay \in Nat
      /\ lane < width /\ MAXREMOTE \in Nat /\ 16 * l <= MAXREMOTE /\ i <= nn - width /\ cy \in Nat
      /\ width = 8 => nn > 16 /\ lane <= 7
  <2>1. Goes
    BY <1>2, PlaceFacts DEF StridedInv
  <2>2. /\ l \in Nat /\ nn \in Nat /\ lane \in Nat /\ width \in Nat /\ i \in Nat /\ ay \in Nat
        /\ lane < width /\ MAXREMOTE \in Nat /\ 16 * l <= MAXREMOTE
    BY PlaceFacts DEF StridedInv
  <2>3. width = 8 => nn > 16
    BY WidthFacts DEF StridedInv, StridedTypes, width
  <2>4. cy \in Nat
    BY DEF StridedInv, StridedTypes
  <2>5. width = 8 => lane <= 7
    BY <2>2
  <2> QED BY <2>1, <2>2, <2>3, <2>4, <2>5 DEF Goes
<1>5. /\ nn <= 16 => cy = ay * nn + i
      /\ nn > 16 => IF width = 8 THEN cy < MAXREMOTE + (IF i = 0 THEN 7 ELSE 0)
                                 ELSE cy + (nn - i) < MAXREMOTE + 7
      /\ \A pr \in copied : pr[1] < MAXREMOTE + 14
  BY <1>1 DEF StridedInv, CopyBounded
<1>6. cy + lane < MAXREMOTE + 14
  <2>1. ASSUME nn <= 16
        PROVE  cy + lane < MAXREMOTE
    <3>1. PICK a \in Nat : a = ay * nn
      BY <1>4
    <3>2. a + nn <= 16 * l
      <4>1. PICK d \in Nat : ay + 1 + d = l
        <5>1. l - ay - 1 \in Nat /\ ay + 1 + (l - ay - 1) = l
          BY <1>2, <1>4
        <5> QED BY <5>1
      <4>2. PICK e \in Nat : nn + e = 16
        <5>1. 16 - nn \in Nat /\ nn + (16 - nn) = 16
          BY <1>4, <2>1
        <5> QED BY <5>1
      <4>3. ay * nn + nn + d * nn + l * e = 16 * l
        <5>1. (ay + 1 + d) * nn = ay * nn + nn + d * nn
          BY <1>4, <4>1
        <5>2. l * nn + l * e = l * (nn + e)
          BY <1>4, <4>2
        <5>3. l * nn = ay * nn + nn + d * nn
          BY <4>1, <5>1
        <5>4. l * (nn + e) = 16 * l
          BY <1>4, <4>2
        <5>5. l * nn \in Int /\ l * e \in Int
          BY <1>4, <4>2
        <5> QED BY <5>2, <5>3, <5>4, <5>5
      <4>4. d * nn \in Nat /\ l * e \in Nat /\ 16 * l \in Nat
        BY <1>4, <4>1, <4>2
      <4> QED BY <1>4, <3>1, <4>3, <4>4
    <3>3. cy = a + i
      BY <1>5, <2>1, <3>1
    <3> QED BY <1>4, <3>1, <3>2, <3>3
  <2> QED BY <1>4, <1>5, <2>1
<1>7. \A pr \in copied' : pr[1] < MAXREMOTE + 14
  BY <1>2, <1>5, <1>6
<1>8. CASE lane + 1 < width
  <2>1. cy' = cy /\ i' = i
    BY <1>8 DEF Move
  <2> QED BY <1>2, <1>3, <1>5, <1>7, <2>1 DEF CopyBounded
<1>9. CASE lane + 1 = width
  <2>1. i' = i + width /\ cy' = CyWrapped(cy + width)
    <3>1. ~(lane + 1 < width)
      BY <1>4, <1>9
    <3> QED BY <1>2, <3>1 DEF Move
  <2>2. Looks <=> width = 8
    <3>1. call.kernel.stops = "widest"
      BY <1>1, CallFacts DEF StridedInv, StridedTypes
    <3> QED BY <3>1 DEF Looks
  <2>3. cy' = IF width = 8 /\ cy + width >= MAXREMOTE THEN 0 ELSE cy + width
    BY <1>1, <2>1, <2>2 DEF CyWrapped
  <2>4. nn <= 16 => cy' = ay * nn + i'
    <3>1. ay * nn \in Int
      BY <1>4
    <3> QED BY <1>4, <1>5, <2>1, <2>3, <3>1
  <2>5. nn > 16 => IF width = 8 THEN cy' < MAXREMOTE + (IF i' = 0 THEN 7 ELSE 0)
                                ELSE cy' + (nn - i') < MAXREMOTE + 7
    <3>1. CASE width = 8
      <4>1. cy' < MAXREMOTE \/ MAXREMOTE = 0
        BY <1>4, <2>3, <3>1
      <4>2. MAXREMOTE # 0
        BY <1>2, <1>4
      <4>3. i' # 0
        BY <1>4, <2>1, <3>1
      <4> QED BY <1>4, <3>1, <4>1, <4>2, <4>3
    <3>2. CASE width # 8
      BY <1>4, <1>5, <2>1, <2>3, <3>2
    <3> QED BY <3>1, <3>2
  <2> QED BY <1>2, <1>3, <1>7, <2>4, <2>5 DEF CopyBounded
<1> QED BY <1>4, <1>8, <1>9

\* The pointers go on in a loop half as wide.
LEMMA NextLoopKeeps == StridedInv /\ NextLoop => StridedInv'
<1> SUFFICES ASSUME StridedInv, NextLoop
             PROVE  StridedInv'
  OBVIOUS
<1>1. /\ call' = call /\ ay' = ay /\ i' = i /\ lane' = lane /\ ptr' = ptr /\ cy' = cy
      /\ touched' = touched /\ count' = count /\ copied' = copied
      /\ loop' = loop + 1 /\ lane = 0 /\ ~Goes /\ ay < l /\ loop < Len(Widths)
  BY DEF NextLoop
<1>2. l' = l /\ does' = does /\ local' = local /\ copying' = copying /\ call.kernel' = call.kernel
  BY <1>1 DEF l, does, local, copying
<1>3. nn' = nn /\ Widths' = Widths
  <2>1. nn' = nn
    BY <1>1, <1>2 DEF nn
  <2> QED BY <1>1, <2>1 DEF Widths
<1>4. Lanes' = Lanes /\ width' = Widths[loop + 1] /\ Done' = Done
  BY <1>1, <1>2, <1>3 DEF Lanes, width, Done
<1>5. loop \in 1 .. Len(Widths) /\ call \in Copies
  BY DEF StridedInv, StridedTypes
<1>6. /\ loop + 1 \in 1 .. Len(Widths) /\ width = 2 * width' /\ width' \in {1, 2, 4, 8} /\ width' # 8
      /\ width = 8 => nn > 16
  <2>1. loop + 1 \in 1 .. Len(Widths) /\ Widths[loop] = 2 * Widths[loop + 1]
    BY <1>1, <1>5, WidthFacts
  <2>2. Widths[loop + 1] \in {1, 2, 4, 8} /\ (Widths[loop + 1] = 8 => loop + 1 = 1)
    BY <1>5, <2>1, WidthFacts
  <2>3. loop \in Nat /\ loop >= 1
    BY <1>5, WidthFacts
  <2>4. width = 8 => nn > 16
    BY <1>5, WidthFacts DEF width
  <2> QED BY <1>4, <2>1, <2>2, <2>3, <2>4 DEF width
<1>7. /\ l \in Nat /\ nn \in Nat /\ i \in Nat /\ i <= nn /\ i > nn - width /\ MAXREMOTE \in Nat
      /\ width \in Nat /\ Base \in Int /\ cy \in Nat
  <2>1. ~(i <= nn - width)
    BY <1>1 DEF Goes
  <2>2. cy \in Nat
    BY DEF StridedInv, StridedTypes
  <2> QED BY <2>1, <2>2, PlaceFacts DEF StridedInv
<1>8. Base' = Base
  BY <1>1, <1>2 DEF Base
<1>9. StridedTypes'
  <2>1. 0 \in 0 .. width' - 1
    <3>1. PICK w : w = width'
      OBVIOUS
    <3>2. 0 \in 0 .. w - 1
      <4>1. w \in {1, 2, 4, 8}
        BY <1>6, <3>1
      <4> QED BY <4>1
    <3> QED BY <3>1, <3>2
  <2>2. /\ call \in Copies /\ ay \in 0 .. l /\ i \in 0 .. nn /\ ptr \in [Lanes -> Nat] /\ cy \in Nat /\ count \in Nat
    BY DEF StridedInv, StridedTypes
  <2> QED BY <1>1, <1>2, <1>3, <1>4, <1>6, <2>1, <2>2 DEF StridedTypes
<1>10. Consecutive'
  <2>1. \A t \in 0 .. width - 1 : ptr[t] = Base + (IF t < lane THEN t + width ELSE t) * l
    BY DEF StridedInv, Consecutive
  <2>2. \A t \in 0 .. width' - 1 : t \in 0 .. width - 1 /\ ~(t < 0)
    <3>1. PICK w : w = width'
      OBVIOUS
    <3>2. \A t \in 0 .. w - 1 : t \in 0 .. width - 1 /\ ~(t < 0)
      <4>1. w \in {1, 2, 4, 8} /\ width = 2 * w
        BY <1>6, <3>1
      <4> QED BY <4>1
    <3> QED BY <3>1, <3>2
  <2>3. \A t \in 0 .. width' - 1 : ptr[t] = Base + t * l
    BY <1>1, <2>1, <2>2
  <2>4. \A t \in 0 .. width' - 1 : ptr[t] = Base + (IF t < 0 THEN t + width' ELSE t) * l
    BY <2>2, <2>3
  <2>5. Consecutive' <=> \A t \in 0 .. width' - 1 : ptr[t] = Base + (IF t < 0 THEN t + width' ELSE t) * l
    BY <1>1, <1>2, <1>8 DEF Consecutive
  <2> QED BY <2>4, <2>5
<1>11. LocalInv'
  <2>1. LocalInv
    BY DEF StridedInv
  <2> QED BY <1>1, <1>2, <1>3, <1>4, <1>8, <2>1 DEF LocalInv
<1>12. PointersMapped'
  <2>1. PointersMapped
    BY DEF StridedInv
  <2>2. /\ \A a, b \in Int : a * l \in Int /\ (a + b) * l = a * l + b * l
        /\ \A a, b \in Int : a <= b => a * l <= b * l
    BY <1>7, Strides
  <2>3. /\ (width' - 1) * l <= (width - 1) * l /\ (width' - 1) * l \in Int /\ (width - 1) * l \in Int
        /\ width = 8 => (nn - 1 - i) * l <= 7 * l /\ (nn - 1 - i) * l \in Int
    <3>1. width' - 1 \in Int /\ width - 1 \in Int /\ width' - 1 <= width - 1
      <4>1. PICK w : w = width'
        OBVIOUS
      <4>2. w \in {1, 2, 4, 8} /\ width = 2 * w
        BY <1>6, <4>1
      <4>3. w - 1 \in Int /\ width - 1 \in Int /\ w - 1 <= width - 1
        BY <4>2
      <4> QED BY <4>1, <4>3
    <3>2. nn - 1 - i \in Int /\ 7 \in Int /\ (width = 8 => nn - 1 - i <= 7)
      BY <1>7
    <3> QED BY <2>2, <3>1, <3>2
  <2>4. ASSUME ~local, does # "load copy"
        PROVE  /\ call.kernel.stops = "all" => Base + (width' - 1) * l < MAXREMOTE
               /\ call.kernel.stops = "widest" => Base + (nn - 1 - i) * l < MAXREMOTE
    <3>1. call.kernel.stops = "all" => Base + (width - 1) * l < MAXREMOTE
      BY <1>1, <2>1, <2>4 DEF PointersMapped
    <3>2. call.kernel.stops = "widest" =>
            IF width = 8 THEN Base + 7 * l < MAXREMOTE ELSE Base + (nn - 1 - i) * l < MAXREMOTE
      BY <1>1, <2>1, <2>4 DEF PointersMapped
    <3> QED BY <1>7, <2>3, <3>1, <3>2
  <2>5. ~local /\ does # "load copy" => \A x \in touched : x < MAXREMOTE
    BY <2>1 DEF PointersMapped
  <2> QED BY <1>1, <1>2, <1>3, <1>6, <1>8, <2>4, <2>5 DEF PointersMapped
<1>13. CopyBounded'
  <2>1. ASSUME ~local, does = "load copy"
        PROVE  /\ nn <= 16 => cy = ay * nn + i
               /\ nn > 16 => cy + (nn - i) < MAXREMOTE + 7
               /\ \A pr \in copied : pr[1] < MAXREMOTE + 14
    <3>1. /\ nn <= 16 => cy = ay * nn + i
          /\ nn > 16 => IF width = 8 THEN cy < MAXREMOTE + (IF i = 0 THEN 7 ELSE 0)
                                     ELSE cy + (nn - i) < MAXREMOTE + 7
          /\ \A pr \in copied : pr[1] < MAXREMOTE + 14
      BY <2>1 DEF StridedInv, CopyBounded
    <3>2. nn > 16 => cy + (nn - i) < MAXREMOTE + 7
      BY <1>7, <3>1
    <3> QED BY <3>1, <3>2
  <2> QED BY <1>1, <1>2, <1>3, <1>6, <2>1 DEF CopyBounded
<1>14. lane' = 0 /\ 0 \in Nat /\ (ay' = l' => i' = 0)
  BY <1>1, <1>2, <1>7, PlaceFacts DEF StridedInv
<1> QED BY <1>9, <1>10, <1>11, <1>12, <1>13, <1>14 DEF StridedInv

\* Less than the segment is what a column's first round reaches.
LEMMA FirstRound ==
  ASSUME StridedTypes, NEW y \in Nat, y < l, NEW a \in Nat, a <= 15
  PROVE  y + a * l < MAXREMOTE /\ a * l \in Nat
<1>1. l \in Nat /\ 16 * l <= MAXREMOTE /\ MAXREMOTE \in Nat
  BY PlaceFacts
<1>2. a * l \in Int /\ 15 * l \in Int /\ a * l <= 15 * l
  <2>1. a \in Int /\ 15 \in Int
    OBVIOUS
  <2> QED BY <1>1, <2>1, Strides
<1>3. a * l \in Nat
  BY <1>1
<1> QED BY <1>1, <1>2, <1>3

\* The last loop goes on to the end of the column, and the next one begins with
\* the pointers side by side.
LEMMA NextColumnKeeps == StridedInv /\ NextColumn => StridedInv'
<1> SUFFICES ASSUME StridedInv, NextColumn
             PROVE  StridedInv'
  OBVIOUS
<1>1. /\ call' = call /\ ay' = ay + 1 /\ i' = 0 /\ lane' = 0 /\ loop' = 1 /\ ptr' = Column(ay + 1) /\ cy' = cy
      /\ touched' = touched /\ count' = count /\ copied' = copied
      /\ lane = 0 /\ ~Goes /\ ay < l /\ loop = Len(Widths)
  BY DEF NextColumn
<1>2. l' = l /\ does' = does /\ local' = local /\ copying' = copying /\ call.kernel' = call.kernel
  BY <1>1 DEF l, does, local, copying
<1>3. nn' = nn /\ Widths' = Widths
  <2>1. nn' = nn
    BY <1>1, <1>2 DEF nn
  <2> QED BY <1>1, <2>1 DEF Widths
<1>4. Lanes' = Lanes /\ width' = Widths[1]
  BY <1>1, <1>3 DEF Lanes, width
<1>5. /\ loop \in 1 .. Len(Widths) /\ call \in Copies /\ StridedTypes /\ cy \in Nat /\ count \in Nat
  BY DEF StridedInv, StridedTypes
<1>6. /\ 1 \in 1 .. Len(Widths) /\ width = 1 /\ Widths[1] \in {1, 2, 4, 8} /\ (Widths[1] = 8 => nn > 16)
      /\ ~local => Widths[1] = IF nn > 16 THEN 8 ELSE 4
  BY <1>1, <1>5, WidthFacts DEF width
<1>7. l \in Nat /\ l >= 1 /\ nn \in Nat /\ i = nn /\ ay \in Nat /\ MAXREMOTE \in Nat
  <2>1. ~(i <= nn - 1)
    BY <1>1, <1>6 DEF Goes
  <2>2. l \in Nat /\ l >= 1 /\ nn \in Nat /\ i \in Nat /\ i <= nn /\ ay \in Nat /\ MAXREMOTE \in Nat
    BY <1>5, PlaceFacts
  <2> QED BY <2>1, <2>2
<1>8. PICK w : w = width'
  OBVIOUS
<1>9. w \in {1, 2, 4, 8} /\ (w = 8 => nn > 16) /\ (~local => w = IF nn > 16 THEN 8 ELSE 4) /\ Lanes = 0 .. w - 1
  BY <1>4, <1>6, <1>8 DEF Lanes
<1>10. \A t \in Lanes : t \in Nat /\ t * l \in Nat /\ ay + 1 + t * l \in Nat
  <2>1. \A t \in Lanes : t \in Nat
    BY <1>9
  <2>2. \A t \in Nat : t * l \in Nat /\ ay + 1 + t * l \in Nat
    BY <1>7
  <2> QED BY <2>1, <2>2
<1>11. ptr' = [t \in Lanes |-> ay + 1 + t * l]
  BY <1>1 DEF Column
<1>12. Base' = ay + 1
  <2>1. 0 \in Lanes
    BY <1>9
  <2>2. ptr'[0] = ay + 1 + 0 * l /\ 0 * l = 0
    BY <1>7, <1>11, <2>1
  <2>3. Base' = ptr'[0] - 0 * l
    BY <1>1, <1>2 DEF Base
  <2> QED BY <1>7, <2>2, <2>3
<1>13. StridedTypes'
  <2>1. ptr' \in [Lanes -> Nat]
    BY <1>10, <1>11
  <2>2. ay + 1 \in 0 .. l /\ 0 \in 0 .. nn
    BY <1>1, <1>7
  <2>3. 0 \in 0 .. width' - 1
    <3>1. 0 \in 0 .. w - 1
      BY <1>9
    <3> QED BY <1>8, <3>1
  <2> QED BY <1>1, <1>2, <1>3, <1>4, <1>5, <1>6, <2>1, <2>2, <2>3 DEF StridedTypes
<1>14. Consecutive'
  <2>1. \A t \in 0 .. w - 1 : ptr'[t] = ay + 1 + t * l /\ ~(t < 0)
    BY <1>9, <1>10, <1>11
  <2>2. Consecutive' <=> \A t \in 0 .. w - 1 : ptr'[t] = ay + 1 + (IF t < 0 THEN t + w ELSE t) * l
    BY <1>1, <1>2, <1>8, <1>12 DEF Consecutive
  <2> QED BY <2>1, <2>2
<1>15. LocalInv'
  <2>1. Done' = Done
    <3>1. \A a \in 0 .. nn - 1, b \in 0 .. l - 1 :
            (b < ay + 1 \/ (b = ay + 1 /\ a < 0 + 0)) <=> (b < ay \/ (b = ay /\ a < i + lane))
      BY <1>1, <1>7
    <3>2. Done' = {z \in (0 .. nn - 1) \X (0 .. l - 1) : z[2] < ay + 1 \/ (z[2] = ay + 1 /\ z[1] < 0 + 0)}
      BY <1>1, <1>2, <1>3 DEF Done
    <3>3. \A z \in (0 .. nn - 1) \X (0 .. l - 1) :
            (z[2] < ay + 1 \/ (z[2] = ay + 1 /\ z[1] < 0 + 0)) <=> (z[2] < ay \/ (z[2] = ay /\ z[1] < i + lane))
      BY <3>1
    <3> QED BY <3>2, <3>3 DEF Done
  <2>2. ay + 1 = ay + 1 + 0 * l /\ (ay + 1) * nn + 0 + 0 = ay * nn + i + lane /\ (ay + 1) * nn + 0 = ay * nn + i
    <3>1. (ay + 1) * nn = ay * nn + nn /\ ay * nn \in Int /\ 0 * l = 0
      BY <1>7
    <3> QED BY <1>1, <1>7, <3>1
  <2>3. LocalInv
    BY DEF StridedInv
  <2>4. ASSUME local
        PROVE  /\ touched = {z[1] * l + z[2] : z \in Done} /\ count = ay * nn + i + lane
               /\ copying => /\ cy = ay * nn + i
                             /\ copied = {<<z[2] * nn + z[1], z[1] * l + z[2]>> : z \in Done}
    BY <2>3, <2>4 DEF LocalInv
  <2> QED BY <1>1, <1>2, <1>3, <1>12, <2>1, <2>2, <2>4 DEF LocalInv
<1>16. PointersMapped'
  <2>1. ASSUME ~local, ay + 1 < l
        PROVE  /\ ay + 1 + (w - 1) * l < MAXREMOTE /\ (w = 8 => ay + 1 + 7 * l < MAXREMOTE)
               /\ w # 8 => ay + 1 + (nn - 1 - 0) * l < MAXREMOTE
    <3>1. ay + 1 \in Nat /\ w - 1 \in Nat /\ w - 1 <= 15 /\ (w = 8 => w - 1 = 7)
      BY <1>7, <1>9
    <3>2. ay + 1 + (w - 1) * l < MAXREMOTE
      BY <1>5, <2>1, <3>1, FirstRound
    <3>3. ASSUME w # 8
          PROVE  ay + 1 + (nn - 1 - 0) * l < MAXREMOTE
      <4>1. nn <= 16
        BY <1>7, <1>9, <2>1, <3>3
      <4>2. CASE nn = 0
        <5>1. (nn - 1 - 0) * l = -l
          BY <1>7, <4>2
        <5> QED BY <1>7, <2>1, <5>1
      <4>3. CASE nn > 0
        <5>1. nn - 1 - 0 \in Nat /\ nn - 1 - 0 <= 15
          BY <1>7, <4>1, <4>3
        <5> QED BY <1>5, <2>1, <3>1, <5>1, FirstRound
      <4> QED BY <1>7, <4>2, <4>3
    <3> QED BY <3>1, <3>2, <3>3
  <2>2. ~local /\ does # "load copy" => \A x \in touched : x < MAXREMOTE
    BY DEF PointersMapped, StridedInv
  <2> QED BY <1>1, <1>2, <1>3, <1>8, <1>12, <2>1, <2>2 DEF PointersMapped
<1>17. CopyBounded'
  <2>1. ASSUME ~local, does = "load copy"
        PROVE  /\ nn <= 16 => cy = (ay + 1) * nn + 0
               /\ nn > 16 => w = 8 /\ cy < MAXREMOTE + 7
               /\ \A pr \in copied : pr[1] < MAXREMOTE + 14
    <3>1. /\ nn <= 16 => cy = ay * nn + i
          /\ nn > 16 => cy + (nn - i) < MAXREMOTE + 7
          /\ \A pr \in copied : pr[1] < MAXREMOTE + 14
      <4>1. CopyBounded /\ width # 8
        BY <1>6 DEF StridedInv
      <4> QED BY <2>1, <4>1 DEF CopyBounded
    <3>2. (ay + 1) * nn + 0 = ay * nn + i
      <4>1. (ay + 1) * nn = ay * nn + nn /\ ay * nn \in Int
        BY <1>7
      <4> QED BY <1>7, <4>1
    <3>3. nn > 16 => cy < MAXREMOTE + 7
      BY <1>5, <1>7, <3>1
    <3> QED BY <1>9, <2>1, <3>1, <3>2, <3>3
  <2> QED BY <1>1, <1>2, <1>3, <1>8, <2>1 DEF CopyBounded
<1>18. lane' = 0 /\ i' = 0 /\ ~(0 > 0)
  BY <1>1
<1> QED BY <1>13, <1>14, <1>15, <1>16, <1>17, <1>18 DEF StridedInv

\* One statement of a round.
LEMMA MoveKeeps == StridedInv /\ Move => StridedInv'
<1> SUFFICES ASSUME StridedInv, Move
             PROVE  StridedInv'
  OBVIOUS
<1>1. LocalInv' /\ PointersMapped' /\ CopyBounded'
  BY MoveLocal, MovePointers, MoveCopy
<1>2. /\ lane \in Nat /\ lane < width /\ width \in Nat /\ l' = l /\ ay' = ay /\ ay < l /\ l \in Nat /\ ay \in Nat
  BY PlaceFacts, SameLoop DEF StridedInv, Move
<1>3. StridedTypes' /\ Consecutive' /\ (lane' > 0 => Goes' /\ ay' < l')
  <2>1. CASE lane + 1 < width
    BY <2>1, MidRound
  <2>2. CASE lane + 1 = width
    <3>1. StridedTypes' /\ Consecutive' /\ lane' = 0
      BY <2>2, RoundDone
    <3> QED BY <3>1
  <2> QED BY <1>2, <2>1, <2>2
<1>4. ay' # l'
  BY <1>2
<1> QED BY <1>1, <1>3, <1>4 DEF StridedInv

\* A step of somebody else.
LEMMA StridedStays == StridedInv /\ UNCHANGED stridedVars => StridedInv'
<1> SUFFICES ASSUME StridedInv, UNCHANGED stridedVars
             PROVE  StridedInv'
  OBVIOUS
<1>1. /\ call' = call /\ ay' = ay /\ i' = i /\ loop' = loop /\ lane' = lane /\ ptr' = ptr /\ cy' = cy
      /\ touched' = touched /\ count' = count /\ copied' = copied
  BY DEF stridedVars
<1>2. /\ l' = l /\ nn' = nn /\ width' = width /\ Widths' = Widths /\ Lanes' = Lanes
      /\ does' = does /\ copying' = copying /\ local' = local /\ call.kernel' = call.kernel
  BY <1>1, SameLoop
<1>3. Base' = Base /\ Done' = Done /\ Goes' = Goes
  BY <1>1, <1>2 DEF Base, Done, Goes
<1>4. StridedTypes' /\ Consecutive'
  BY <1>1, <1>2, <1>3 DEF StridedInv, StridedTypes, Consecutive
<1>5. LocalInv'
  BY <1>1, <1>2, <1>3 DEF StridedInv, LocalInv
<1>6. PointersMapped' /\ CopyBounded'
  BY <1>1, <1>2, <1>3 DEF StridedInv, PointersMapped, CopyBounded
<1> QED BY <1>1, <1>2, <1>3, <1>4, <1>5, <1>6 DEF StridedInv

\* The invariant holds throughout.
LEMMA StridedInvariance == StridedSpec => []StridedInv
<1>1. StridedInv /\ [StridedNext]_stridedVars => StridedInv'
  BY MoveKeeps, NextLoopKeeps, NextColumnKeeps, StridedStays DEF StridedNext
<1> QED BY <1>1, StridedInitially, PTL DEF StridedSpec

\* After the last column every pair of a row and a column is done.
LEMMA AllMoved == StridedInv => EveryElementMoved
<1> SUFFICES ASSUME StridedInv, ay = l, local
             PROVE  /\ touched = {ii * l + jj : ii \in 0 .. nn - 1, jj \in 0 .. l - 1}
                    /\ count = l * nn
                    /\ copying => copied = {<<jj * nn + ii, ii * l + jj>> : ii \in 0 .. nn - 1, jj \in 0 .. l - 1}
  BY DEF EveryElementMoved
<1>1. l \in Nat /\ nn \in Nat /\ lane = 0 /\ i = 0
  <2>1. l \in Nat /\ nn \in Nat /\ lane \in Nat /\ ay \in Nat
    BY PlaceFacts DEF StridedInv
  <2> QED BY <2>1 DEF StridedInv
<1>2. /\ touched = {z[1] * l + z[2] : z \in Done} /\ count = l * nn + 0 + 0
      /\ copying => copied = {<<z[2] * nn + z[1], z[1] * l + z[2]>> : z \in Done}
  BY <1>1 DEF StridedInv, LocalInv
<1>3. Done = (0 .. nn - 1) \X (0 .. l - 1)
  <2>1. \A b \in 0 .. l - 1 : b < l
    BY <1>1
  <2> QED BY <2>1 DEF Done
<1>4. /\ \A z \in Done : \E a \in 0 .. nn - 1, b \in 0 .. l - 1 : z[1] = a /\ z[2] = b
      /\ \A a \in 0 .. nn - 1, b \in 0 .. l - 1 : \E q \in Done : q[1] = a /\ q[2] = b
  <2>1. \A a \in 0 .. nn - 1, b \in 0 .. l - 1 : <<a, b>> \in Done /\ <<a, b>>[1] = a /\ <<a, b>>[2] = b
    BY <1>3
  <2>2. \A z \in Done : z[1] \in 0 .. nn - 1 /\ z[2] \in 0 .. l - 1
    BY <1>3
  <2>3. ASSUME NEW a \in 0 .. nn - 1, NEW b \in 0 .. l - 1
        PROVE  \E q \in Done : q[1] = a /\ q[2] = b
    <3>1. PICK q : q = <<a, b>>
      OBVIOUS
    <3>2. q \in Done /\ q[1] = a /\ q[2] = b
      BY <2>1, <3>1
    <3> QED BY <3>2
  <2> QED BY <2>2, <2>3
<1>5. touched = {ii * l + jj : ii \in 0 .. nn - 1, jj \in 0 .. l - 1}
  <2>1. touched = {z[1] * l + z[2] : z \in Done}
    BY <1>2
  <2>2. ASSUME NEW x \in touched
        PROVE  x \in {ii * l + jj : ii \in 0 .. nn - 1, jj \in 0 .. l - 1}
    <3>1. PICK z \in Done : x = z[1] * l + z[2]
      BY <2>1
    <3>2. PICK a \in 0 .. nn - 1, b \in 0 .. l - 1 : z[1] = a /\ z[2] = b
      BY <1>4
    <3>3. a * l + b \in {ii * l + jj : ii \in 0 .. nn - 1, jj \in 0 .. l - 1}
      OBVIOUS
    <3>4. x = a * l + b
      BY <3>1, <3>2
    <3> QED BY <3>3, <3>4
  <2>3. ASSUME NEW a \in 0 .. nn - 1, NEW b \in 0 .. l - 1
        PROVE  a * l + b \in touched
    <3>1. PICK q \in Done : q[1] = a /\ q[2] = b
      BY <1>4
    <3>2. q[1] * l + q[2] \in touched
      BY <2>1
    <3> QED BY <3>1, <3>2
  <2> QED BY <2>2, <2>3
<1>6. ASSUME copying
      PROVE  copied = {<<jj * nn + ii, ii * l + jj>> : ii \in 0 .. nn - 1, jj \in 0 .. l - 1}
  <2>1. copied = {<<z[2] * nn + z[1], z[1] * l + z[2]>> : z \in Done}
    BY <1>2, <1>6
  <2>2. ASSUME NEW x \in copied
        PROVE  x \in {<<jj * nn + ii, ii * l + jj>> : ii \in 0 .. nn - 1, jj \in 0 .. l - 1}
    <3>1. PICK z \in Done : x = <<z[2] * nn + z[1], z[1] * l + z[2]>>
      BY <2>1
    <3>2. PICK a \in 0 .. nn - 1, b \in 0 .. l - 1 : z[1] = a /\ z[2] = b
      BY <1>4
    <3>3. <<b * nn + a, a * l + b>> \in {<<jj * nn + ii, ii * l + jj>> : ii \in 0 .. nn - 1, jj \in 0 .. l - 1}
      OBVIOUS
    <3>4. x = <<b * nn + a, a * l + b>>
      BY <3>1, <3>2
    <3> QED BY <3>3, <3>4
  <2>3. ASSUME NEW a \in 0 .. nn - 1, NEW b \in 0 .. l - 1
        PROVE  <<b * nn + a, a * l + b>> \in copied
    <3>1. PICK q \in Done : q[1] = a /\ q[2] = b
      BY <1>4
    <3>2. <<q[2] * nn + q[1], q[1] * l + q[2]>> \in copied
      BY <2>1
    <3> QED BY <3>1, <3>2
  <2> QED BY <2>2, <2>3
<1>7. count = l * nn
  <2>1. l * nn + 0 + 0 = l * nn
    BY <1>1
  <2> QED BY <1>2, <2>1
<1> QED BY <1>5, <1>6, <1>7

\* Whatever the stride, the size and the kernel of cpy.c: the loops of 8, 4, 2
\* and 1, each with pointers of its own, hand the column over so that every
\* element of the l columns is moved once, to its place in the transpose.
THEOREM EveryElementOnce == StridedSpec => []EveryElementMoved
BY StridedInvariance, AllMoved, PTL

\* The bounds of the pointers are those of what they touch.
LEMMA Mapped == StridedInv => RemoteStaysMapped
BY DEF StridedInv, PointersMapped, CopyBounded, RemoteStaysMapped

\* The kernels of cpyr.c never leave the segment of MAXREMOTE, except that
\* cpy_lc_r may write up to 14 elements past its end.
THEOREM RemoteMapped == StridedSpec => []RemoteStaysMapped
BY StridedInvariance, Mapped, PTL

\* What is counted and copied, in every kernel: cy falls behind where it wraps.
CountFits ==
  /\ count = ay * nn + i + lane /\ cy <= ay * nn + i
  /\ touched \subseteq Nat /\ copied \subseteq Nat \X Nat

LEMMA CountFitsStep == StridedInv /\ StridedInv' /\ CountFits /\ [StridedNext]_stridedVars => CountFits'
<1> SUFFICES ASSUME StridedInv, StridedInv', CountFits, [StridedNext]_stridedVars PROVE CountFits'
  OBVIOUS
<1>1. /\ l \in Nat /\ nn \in Nat /\ i \in Nat /\ lane \in Nat /\ ay \in Nat /\ width \in Nat
      /\ lane < width /\ lane \in 0 .. width - 1 /\ cy \in Nat /\ cy' \in Nat /\ StridedTypes
  BY PlaceFacts DEF StridedInv, StridedTypes
<1>2. PICK d \in Nat : d = ay * nn
  BY <1>1
<1>3. CASE Move
  <2>1. /\ call' = call /\ loop' = loop /\ ay' = ay /\ count' = count + 1 /\ ay < l /\ (lane > 0 \/ Goes)
        /\ touched' = touched \cup {ptr[lane]}
        /\ copied' = IF copying THEN copied \cup {<<cy + lane, ptr[lane]>>} ELSE copied
    BY <1>3 DEF Move
  <2>2. nn' = nn
    BY <2>1, SameLoop
  <2>3. ptr[lane] \in Nat
    BY <1>1, PlaceFacts
  <2>4. touched' \subseteq Nat /\ copied' \subseteq Nat \X Nat
    <3>1. touched \subseteq Nat /\ copied \subseteq Nat \X Nat
      BY DEF CountFits
    <3>2. PICK x \in Nat, y \in Nat : x = cy + lane /\ y = ptr[lane]
      BY <1>1, <2>3
    <3>3. touched' = touched \cup {y} /\ (copied' = copied \/ copied' = copied \cup {<<x, y>>})
      BY <2>1, <3>2
    <3> QED BY <3>1, <3>3
  <2>5. CASE lane + 1 < width
    <3>1. i' = i /\ cy' = cy /\ lane' = lane + 1
      BY <1>3, <2>5 DEF Move
    <3>2. cy <= d + i /\ count = d + i + lane
      BY <1>2 DEF CountFits
    <3>3. cy' <= d + i' /\ count' = d + i' + lane'
      BY <1>1, <1>2, <2>1, <3>1, <3>2
    <3> QED BY <1>2, <2>1, <2>2, <2>4, <3>3 DEF CountFits
  <2>6. CASE ~(lane + 1 < width)
    <3>1. /\ i' = i + width /\ lane' = 0 /\ lane + 1 = width
          /\ cy' = IF copying THEN CyWrapped(cy + width) ELSE cy
      BY <1>1, <1>3, <2>6 DEF Move
    <3>2. cy' \in {0, cy, cy + width}
      BY <3>1 DEF CyWrapped
    <3>3. cy <= d + i /\ count = d + i + lane
      BY <1>2 DEF CountFits
    <3>4. cy' <= d + i' /\ count' = d + i' + lane'
      BY <1>1, <1>2, <2>1, <3>1, <3>2, <3>3
    <3> QED BY <1>2, <2>1, <2>2, <2>4, <3>4 DEF CountFits
  <2> QED BY <2>5, <2>6
<1>4. CASE NextLoop
  <2>1. /\ call' = call /\ ay' = ay /\ i' = i /\ lane' = lane /\ cy' = cy
        /\ touched' = touched /\ count' = count /\ copied' = copied
    BY <1>4 DEF NextLoop
  <2>2. nn' = nn
    BY <2>1 DEF nn, l
  <2> QED BY <2>1, <2>2 DEF CountFits
<1>5. CASE NextColumn
  <2>1. /\ call' = call /\ ay' = ay + 1 /\ i' = 0 /\ lane' = 0 /\ lane = 0 /\ cy' = cy /\ ~Goes /\ ay < l
        /\ touched' = touched /\ count' = count /\ copied' = copied /\ loop = Len(Widths)
    BY <1>1, <1>5 DEF NextColumn
  <2>2. nn' = nn
    BY <2>1 DEF nn, l
  <2>3. width = 1
    BY <1>1, <2>1, WidthFacts DEF width, StridedTypes
  <2>4. i = nn
    <3>1. i <= nn
      BY <1>1 DEF StridedTypes
    <3> QED BY <1>1, <2>1, <2>3, <3>1 DEF Goes
  <2>5. (ay + 1) * nn = ay * nn + nn
    BY <1>1
  <2>6. cy <= d + nn /\ count = d + nn + 0
    BY <1>2, <2>1, <2>4 DEF CountFits
  <2> QED BY <1>1, <1>2, <2>1, <2>2, <2>5, <2>6 DEF CountFits
<1>6. CASE UNCHANGED stridedVars
  BY <1>6 DEF stridedVars, CountFits, nn, l
<1> QED BY <1>3, <1>4, <1>5, <1>6 DEF StridedNext

LEMMA CountFitsInvariance == StridedSpec => []CountFits
<1>1. ASSUME StridedInit PROVE CountFits
  <2>1. nn \in Nat /\ ay = 0 /\ i = 0 /\ lane = 0 /\ cy = 0 /\ count = 0 /\ touched = {} /\ copied = {}
    BY <1>1, CallFacts DEF StridedInit
  <2>2. 0 * nn = 0
    BY <2>1
  <2> QED BY <2>1, <2>2 DEF CountFits
<1> QED BY <1>1, CountFitsStep, StridedInvariance, PTL DEF StridedSpec

\* No kernel of cpy.c or cpyr.c goes through more than the elements of its columns,
\* whatever loops they are handed to, and cy never gets past their end.
THEOREM NoMoreThanAll == StridedSpec => []StridedTypeOK
<1>1. ASSUME StridedInv, CountFits PROVE StridedTypeOK
  <2>1. /\ l \in Nat /\ nn \in Nat /\ i \in Nat /\ lane \in Nat /\ ay \in Nat /\ width \in Nat
        /\ lane < width /\ i <= nn /\ ay <= l /\ StridedTypes /\ cy \in Nat /\ count \in Nat
    BY <1>1, PlaceFacts DEF StridedInv, StridedTypes
  <2>2. PICK d \in Nat : d = ay * nn
    BY <2>1
  <2>3. PICK e \in Nat : e = l * nn
    BY <2>1
  <2>4. d + i + lane <= e
    <3>1. CASE ay = l
      <4>1. i = 0 /\ lane = 0
        BY <1>1, <2>1, <3>1 DEF StridedInv
      <4> QED BY <2>2, <2>3, <3>1, <4>1
    <3>2. CASE ay < l
      <4>1. i + lane <= nn
        BY <1>1, <2>1 DEF StridedInv, Goes
      <4>2. PICK f \in Nat : l = ay + 1 + f
        <5>1. l - ay - 1 \in Nat /\ l = ay + 1 + (l - ay - 1)
          BY <2>1, <3>2
        <5> QED BY <5>1
      <4>3. l * nn = ay * nn + nn + f * nn
        BY <2>1, <4>2
      <4>4. f * nn \in Nat
        BY <2>1, <4>2
      <4> QED BY <2>1, <2>2, <2>3, <4>1, <4>3, <4>4
    <3> QED BY <2>1, <3>1, <3>2
  <2>5. cy <= d + i /\ count = d + i + lane
    BY <1>1, <2>2 DEF CountFits
  <2>6. cy \in 0 .. e /\ count \in 0 .. e
    BY <2>1, <2>4, <2>5
  <2> QED BY <1>1, <2>1, <2>3, <2>6 DEF StridedTypes, StridedTypeOK, CountFits
<1> QED BY <1>1, StridedInvariance, CountFitsInvariance, PTL

-----------------------------------------------------------------------------
(* The combining kernels.                                                  *)

\* The elements read so far, and how many they are.
half      == length \div 2
inHalves  == kernel.limit = "halves" /\ phase = "rounds"
Read(x)   == IF inHalves
               THEN x \in 0 .. p - 1 \/ x \in half .. half + p - 1 \/ (j = 1 /\ x = p)
               ELSE x \in 0 .. p + j - 1
Consumed  == IF inHalves THEN 2 * p + j ELSE p + j

AccInv ==
  /\ \A x : Read(x) <=> \E a \in Accs : x \in acc[a]
  /\ \A a, b \in Accs : a # b => acc[a] \cap acc[b] = {}
  /\ reads = Consumed

\* Where a round may start, and what is known inside it.
PlaceInv ==
  /\ phase # "rounds" => j = 0
  /\ phase = "align" => p <= length
  /\ phase = "align" /\ kernel.limit # "last" => p = 0
  /\ phase = "rounds" =>
       /\ kernel.limit = "last" => p + (IF j > 0 THEN kernel.k ELSE 0) <= length
       /\ kernel.limit = "over" => p + (IF j > 0 THEN kernel.k ELSE 0) <= length /\ p % kernel.k = 0
       /\ kernel.limit = "halves" => p + (IF j > 0 THEN 1 ELSE 0) <= half
       /\ (problem.skew + p) % kernel.v = 0 \/ p = length
  /\ phase \in {"rest", "done"} => p <= length
  /\ phase = "done" => p = length

KernelInv == KernelTypeOK /\ Sound(kernel) /\ AccInv /\ PlaceInv

-----------------------------------------------------------------------------
(* Rounds and remainders.                                                  *)

LEMMA Divides ==
  ASSUME NEW k \in Nat \ {0}, NEW x \in Nat, x % k = 0
  PROVE  x \div k \in Nat /\ x = k * (x \div k)
  BY SMT

LEMMA Remainder ==
  ASSUME NEW k \in Nat \ {0}, NEW x \in Nat
  PROVE  x \div k \in Nat /\ x % k \in 0 .. k - 1 /\ x = (k * (x \div k)) + (x % k)
  BY SMT

LEMMA MultipleDivides ==
  ASSUME NEW k \in Nat \ {0}, NEW m \in Nat
  PROVE  (k * m) % k = 0
  BY SMT

LEMMA SumDivides ==
  ASSUME NEW k \in Nat \ {0}, NEW x \in Nat, NEW y \in Nat, x % k = 0, y % k = 0
  PROVE  (x + y) % k = 0
  <1>1. x = k * (x \div k) /\ x \div k \in Nat
    BY Divides
  <1>2. y = k * (y \div k) /\ y \div k \in Nat
    BY Divides
  <1>3. k * (x \div k) + k * (y \div k) = k * ((x \div k) + (y \div k))
    BY <1>1, <1>2, SMT
  <1>4. (k * ((x \div k) + (y \div k))) % k = 0
    BY <1>1, <1>2, MultipleDivides
  <1>. QED  BY <1>1, <1>2, <1>3, <1>4

LEMMA NextMultiple ==
  ASSUME NEW k \in Nat \ {0}, NEW a \in Nat, NEW b \in Nat, k * b < k * a
  PROVE  k * b + k <= k * a
  <1>1. b < a
    BY SMT
  <1>2. a - b \in Nat /\ a - b >= 1
    BY <1>1
  <1>3. k * (a - b) >= k
    BY <1>2, SMT
  <1>4. k * (a - b) = k * a - k * b
    BY SMT
  <1>. QED  BY <1>3, <1>4

\* A round that starts before the end short of n % k elements ends before it.
LEMMA RoundFits ==
  ASSUME NEW k \in Nat \ {0}, NEW q \in Nat, NEW n \in Nat, q % k = 0, q < n - (n % k)
  PROVE  q + k <= n
  <1>1. q = k * (q \div k) /\ q \div k \in Nat
    BY Divides
  <1>2. n \div k \in Nat /\ n % k \in 0 .. k - 1 /\ n = (k * (n \div k)) + (n % k)
    BY Remainder
  <1>3. k * (q \div k) < k * (n \div k)
    BY <1>1, <1>2
  <1>4. k * (q \div k) + k <= k * (n \div k)
    BY <1>1, <1>2, <1>3, NextMultiple
  <1>. QED  BY <1>1, <1>2, <1>4

-----------------------------------------------------------------------------
(* The invariant of a combining kernel.                                    *)

\* An element that was not read goes to an accumulator that keeps the others.
LEMMA CombineStep ==
  ASSUME KernelTypeOK, AccInv, NEW a \in Accs, NEW e \in Nat, ~Read(e), Combined(a, a, e),
         problem' = problem
  PROVE  /\ acc' \in [Accs -> SUBSET Nat]
         /\ \A x : (Read(x) \/ x = e) <=> \E b \in Accs : x \in acc'[b]
         /\ \A b, c \in Accs : b # c => acc'[b] \cap acc'[c] = {}
         /\ reads' = Consumed + 1
  <1>1. /\ acc \in [Accs -> SUBSET Nat]
        /\ acc' = [acc EXCEPT ![a] = acc[a] \cup {e}]
    BY DEF KernelTypeOK, Combined
  <1>2. acc' \in [Accs -> SUBSET Nat]
    BY <1>1
  <1>3. \A b \in Accs : acc'[b] = IF b = a THEN acc[a] \cup {e} ELSE acc[b]
    BY <1>1
  <1>4. \A b \in Accs : e \notin acc[b]
    BY DEF AccInv
  <1>5. \A x : (Read(x) \/ x = e) <=> \E b \in Accs : x \in acc'[b]
    BY <1>3 DEF AccInv
  <1>6. \A b, c \in Accs : b # c => acc'[b] \cap acc'[c] = {}
    BY <1>3, <1>4 DEF AccInv
  <1>7. reads' = Consumed + 1
    BY DEF Combined, AccInv
  <1>. QED  BY <1>2, <1>5, <1>6, <1>7

\* A step that reads one element x keeps AccInv if it is the next to be read.
LEMMA ReadOne ==
  ASSUME KernelTypeOK, AccInv, NEW a \in Accs, NEW e \in Nat, ~Read(e), Combined(a, a, e),
         problem' = problem,
         \A x : Read(x)' <=> Read(x) \/ x = e,
         Consumed' = Consumed + 1
  PROVE  AccInv' /\ acc' \in [Accs -> SUBSET Nat]
  <1>1. Accs' = Accs
    BY DEF Accs, kernel
  <1>. QED  BY <1>1, CombineStep DEF AccInv

\* A step that reads none.
LEMMA ReadNone ==
  ASSUME AccInv, UNCHANGED <<problem, acc, reads>>,
         \A x : Read(x)' <=> Read(x), Consumed' = Consumed
  PROVE  AccInv'
  <1>1. Accs' = Accs
    BY DEF Accs, kernel
  <1>. QED  BY <1>1 DEF AccInv

LEMMA KernelInitially ==
  ASSUME AllSound
  PROVE  KernelInit => KernelInv
  <1>. SUFFICES ASSUME KernelInit PROVE KernelInv
    OBVIOUS
  <1>. USE DEF KernelInit
  <1>1. IsKernel(kernel) /\ length \in Nat /\ problem.skew \in Nat /\ Sound(kernel)
    BY ProblemsAssumption DEF AllSound, kernel, length
  <1>2. KernelTypeOK
    BY <1>1 DEF KernelTypeOK, Phases, IsKernel
  <1>3. AccInv
    BY <1>1 DEF AccInv, Read, Consumed, inHalves, half
  <1>4. PlaceInv
    BY <1>1 DEF PlaceInv
  <1>. QED  BY <1>1, <1>2, <1>3, <1>4 DEF KernelInv

LEMMA KernelInvariance == KernelInv /\ [KernelNext]_kernelVars => KernelInv'
  <1>. SUFFICES ASSUME KernelInv, [KernelNext]_kernelVars PROVE KernelInv'
    OBVIOUS
  <1>1. /\ KernelTypeOK /\ Sound(kernel) /\ AccInv /\ PlaceInv
        /\ IsKernel(kernel) /\ length \in Nat /\ problem.skew \in Nat
        /\ p \in Nat /\ j \in 0 .. kernel.k - 1 /\ reads \in Nat /\ phase \in Phases
        /\ acc \in [Accs -> SUBSET Nat]
    BY DEF KernelInv, KernelTypeOK
  <1>2. /\ kernel.k \in Nat \ {0} /\ kernel.v \in Nat \ {0} /\ kernel.rest \in Accs
        /\ kernel.limit \in Loops /\ (kernel.limit # "last" => kernel.v = 1)
        /\ (kernel.limit = "halves" => kernel.k = 2)
        /\ j \in 0 .. kernel.k - 1 => kernel.into[j] \in Accs /\ kernel.from[j] = kernel.into[j]
    BY <1>1 DEF IsKernel, Sound, Accs
  <1>3. half \in Nat /\ 2 * half <= length /\ length <= 2 * half + 1
    BY <1>1, Remainder DEF half
  <1>4. problem' = problem => kernel' = kernel /\ length' = length /\ Accs' = Accs /\ half' = half
    BY DEF kernel, length, Accs, half
  <1>5. kernel.v = 1 => \A x \in Nat : x % kernel.v = 0
    BY SMT
  <1>6. CASE Align
    <2>1. /\ phase = "align" /\ Unaligned(p) /\ p < length /\ Combined(kernel.rest, kernel.rest, p)
          /\ p' = p + 1 /\ problem' = problem /\ phase' = phase /\ j' = j /\ j = 0
      BY <1>6, <1>1 DEF Align, PlaceInv
    <2>2. kernel.limit = "last"
      BY <2>1, <1>1, <1>2, <1>5 DEF Unaligned
    <2>3. ~Read(p) /\ (\A x : Read(x)' <=> Read(x) \/ x = p) /\ Consumed' = Consumed + 1
      BY <2>1, <1>1, <1>4 DEF Read, Consumed, inHalves
    <2>4. AccInv' /\ acc' \in [Accs -> SUBSET Nat]
      BY <2>1, <2>3, <1>1, <1>2, ReadOne
    <2>5. KernelTypeOK'
      BY <2>1, <2>4, <1>1, <1>4 DEF KernelTypeOK, Combined
    <2>6. PlaceInv'
      BY <2>1, <2>2, <1>1, <1>4 DEF PlaceInv
    <2>. QED  BY <2>1, <2>4, <2>5, <2>6, <1>1, <1>4 DEF KernelInv
  <1>7. CASE Aligned
    <2>1. /\ phase = "align" /\ phase' = "rounds" /\ UNCHANGED <<problem, p, j, acc, reads>>
          /\ j = 0 /\ ~(Unaligned(p) /\ p < length) /\ p <= length
      BY <1>7, <1>1 DEF Aligned, PlaceInv
    <2>2. kernel.limit # "last" => p = 0
      BY <2>1, <1>1 DEF PlaceInv
    <2>3. (\A x : Read(x)' <=> Read(x)) /\ Consumed' = Consumed
      BY <2>1, <2>2, <1>1, <1>2, <1>3, <1>4 DEF Read, Consumed, inHalves, Loops
    <2>4. AccInv'
      BY <2>1, <2>3, <1>1, ReadNone
    <2>5. KernelTypeOK'
      BY <2>1, <1>1, <1>4 DEF KernelTypeOK, Phases
    <2>6. (problem.skew + p) % kernel.v = 0 \/ p = length
      BY <2>1, <1>1 DEF Unaligned
    <2>7. 0 % kernel.k = 0
      BY <1>2, SMT
    <2>8. PlaceInv'
      BY <2>1, <2>2, <2>6, <2>7, <1>1, <1>2, <1>3, <1>4 DEF PlaceInv
    <2>. QED  BY <2>1, <2>4, <2>5, <2>8, <1>1, <1>4 DEF KernelInv
  <1>8. CASE Statement
    <2>1. /\ phase = "rounds" /\ (j > 0 \/ Round(p)) /\ problem' = problem /\ phase' = phase
          /\ Combined(kernel.into[j], kernel.into[j], Index(p, j)) /\ kernel.into[j] \in Accs
          /\ IF j + 1 < kernel.k THEN j' = j + 1 /\ p' = p ELSE j' = 0 /\ p' = p + Stride
      BY <1>8, <1>1, <1>2 DEF Statement
    <2>2. kernel.limit = "last" => p + kernel.k <= length
      BY <2>1, <1>1, <1>2 DEF PlaceInv, Round, Last
    <2>3. kernel.limit = "over" => p + kernel.k <= length /\ p % kernel.k = 0
      <3>1. CASE j > 0
        BY <3>1, <2>1, <1>1, <1>2 DEF PlaceInv
      <3>2. CASE kernel.limit = "over" /\ ~(j > 0)
        <4>1. p % kernel.k = 0 /\ p < length - (length % kernel.k)
          BY <3>2, <2>1, <1>1, <1>2 DEF PlaceInv, Round, Over
        <4>. QED  BY <4>1, <1>1, <1>2, RoundFits
      <3>. QED  BY <3>1, <3>2
    <2>4. kernel.limit = "halves" => p < half
      BY <2>1, <1>1, <1>2, <1>3 DEF PlaceInv, Round, Half, half
    <2>5. (problem.skew + p) % kernel.v = 0
      <3>1. p = length => kernel.limit = "halves"
        BY <2>2, <2>3, <1>1, <1>2 DEF Loops
      <3>2. kernel.limit = "halves" => (problem.skew + p) % kernel.v = 0
        BY <1>1, <1>2, <1>5
      <3>. QED  BY <3>1, <3>2, <2>1, <1>1 DEF PlaceInv
    <2>6. /\ Index(p, j) \in Nat /\ ~Read(Index(p, j)) /\ Consumed' = Consumed + 1
          /\ \A x : Read(x)' <=> Read(x) \/ x = Index(p, j)
      <3>1. CASE kernel.limit # "halves"
        <4>0. Index(p, j) = p + j
          BY <3>1 DEF Index
        <4>1. p \in Nat /\ j \in Nat /\ kernel.k \in Nat /\ j < kernel.k /\ Stride = kernel.k
          BY <3>1, <1>1, <1>2 DEF Stride
        <4>2. ~inHalves /\ ~inHalves'
          BY <3>1, <2>1, <1>4 DEF inHalves
        <4>3. /\ Consumed = p + j /\ Consumed' = p' + j'
              /\ \A x : Read(x) <=> x \in 0 .. p + j - 1
              /\ \A x : Read(x)' <=> x \in 0 .. p' + j' - 1
          BY <4>2 DEF Read, Consumed
        <4>4. CASE j' = j + 1 /\ p' = p
          BY <4>0, <4>1, <4>3, <4>4
        <4>5. CASE j' = 0 /\ p' = p + (j + 1)
          BY <4>0, <4>1, <4>3, <4>5
        <4>. QED  BY <4>1, <4>4, <4>5, <2>1
      <3>2. CASE kernel.limit = "halves" /\ j = 0
        <4>1. Index(p, j) = p /\ p' = p /\ j' = 1 /\ inHalves /\ inHalves'
          BY <3>2, <2>1, <1>1, <1>2, <1>3, <1>4 DEF Index, inHalves, half
        <4>. QED  BY <4>1, <3>2, <2>4, <1>1, <1>3, <1>4, <2>1 DEF Read, Consumed
      <3>3. CASE kernel.limit = "halves" /\ j = 1
        <4>1. Index(p, j) = p + half /\ p' = p + 1 /\ j' = 0 /\ inHalves /\ inHalves'
          BY <3>3, <2>1, <1>1, <1>2, <1>3, <1>4 DEF Index, inHalves, half, Stride
        <4>. QED  BY <4>1, <3>3, <2>4, <1>1, <1>3, <1>4, <2>1 DEF Read, Consumed
      <3>. QED  BY <3>1, <3>2, <3>3, <1>1, <1>2
    <2>7. AccInv' /\ acc' \in [Accs -> SUBSET Nat]
      BY <2>1, <2>6, <1>1, ReadOne
    <2>8. p' \in Nat /\ j' \in 0 .. kernel.k - 1
      BY <2>1, <1>1, <1>2 DEF Stride
    <2>9. KernelTypeOK'
      BY <2>1, <2>7, <2>8, <1>1, <1>4 DEF KernelTypeOK, Combined
    <2>10. PlaceInv'
      <3>1. CASE j' > 0
        <4>1. p' = p
          BY <3>1, <2>1
        <4>. QED  BY <3>1, <4>1, <2>1, <2>2, <2>3, <2>4, <2>5, <1>1, <1>3, <1>4 DEF PlaceInv
      <3>2. CASE j' = 0
        <4>1. p' = p + Stride
          BY <3>2, <2>1, <1>1
        <4>2. kernel.limit = "over" => (p + kernel.k) % kernel.k = 0
          <5>1. kernel.k % kernel.k = 0
            BY <1>2, SMT
          <5>. QED  BY <5>1, <2>3, <1>1, <1>2, SumDivides
        <4>3. (problem.skew + (p + kernel.k)) % kernel.v = 0
          <5>1. kernel.k % kernel.v = 0
            BY <1>1 DEF Sound
          <5>2. problem.skew + p \in Nat /\ kernel.k \in Nat
            BY <1>1, <1>2
          <5>3. ((problem.skew + p) + kernel.k) % kernel.v = 0
            BY <5>1, <5>2, <2>5, <1>2, SumDivides
          <5>4. (problem.skew + p) + kernel.k = problem.skew + (p + kernel.k)
            BY <1>1, <1>2
          <5>. QED  BY <5>3, <5>4
        <4>4. CASE kernel.limit = "halves"
          <5>1. p' = p + 1 /\ p' <= half /\ (problem.skew + p') % kernel.v = 0
            BY <4>1, <4>4, <2>4, <2>8, <1>1, <1>2, <1>3, <1>5 DEF Stride
          <5>. QED  BY <5>1, <4>4, <3>2, <2>1, <1>1, <1>4 DEF PlaceInv
        <4>5. CASE kernel.limit # "halves"
          <5>1. p' = p + kernel.k
            BY <4>1, <4>5 DEF Stride
          <5>. QED  BY <5>1, <4>2, <4>3, <4>5, <3>2, <2>1, <2>2, <2>3, <1>1, <1>4 DEF PlaceInv
        <4>. QED  BY <4>4, <4>5
      <3>. QED  BY <3>1, <3>2, <2>8, <1>2
    <2>. QED  BY <2>1, <2>7, <2>9, <2>10, <1>1, <1>4 DEF KernelInv
  <1>9. CASE NoRoundLeft
    <2>1. /\ phase = "rounds" /\ j = 0 /\ ~Round(p) /\ phase' = "rest" /\ j' = 0
          /\ UNCHANGED <<problem, acc, reads>>
          /\ p' = IF kernel.limit = "halves" THEN 2 * half ELSE p
      BY <1>9 DEF NoRoundLeft, half
    <2>2. kernel.limit = "halves" => p = half
      BY <2>1, <1>1, <1>3 DEF PlaceInv, Round, Half, half
    <2>3. kernel.limit # "halves" => p <= length
      BY <2>1, <1>1, <1>2 DEF PlaceInv, Loops
    <2>4. (\A x : Read(x)' <=> Read(x)) /\ Consumed' = Consumed
      <3>1. ~inHalves' /\ (inHalves <=> kernel.limit = "halves")
        BY <2>1 DEF inHalves
      <3>. QED  BY <3>1, <2>1, <2>2, <1>1, <1>3, <1>4 DEF Read, Consumed
    <2>5. AccInv'
      BY <2>1, <2>4, <1>1, ReadNone
    <2>6. p' \in Nat /\ p' <= length
      BY <2>1, <2>2, <2>3, <1>1, <1>3
    <2>7. KernelTypeOK'
      BY <2>1, <2>6, <1>1, <1>4 DEF KernelTypeOK, Phases
    <2>8. PlaceInv'
      BY <2>1, <2>6, <1>1, <1>4 DEF PlaceInv
    <2>. QED  BY <2>1, <2>5, <2>7, <2>8, <1>1, <1>4 DEF KernelInv
  <1>10. CASE Finish
    <2>1. /\ phase = "rest" /\ p < length /\ Combined(kernel.rest, kernel.rest, p)
          /\ p' = p + 1 /\ problem' = problem /\ phase' = phase /\ j' = j /\ j = 0
      BY <1>10, <1>1 DEF Finish, PlaceInv
    <2>2. ~Read(p) /\ (\A x : Read(x)' <=> Read(x) \/ x = p) /\ Consumed' = Consumed + 1
      BY <2>1, <1>1, <1>4 DEF Read, Consumed, inHalves
    <2>3. AccInv' /\ acc' \in [Accs -> SUBSET Nat]
      BY <2>1, <2>2, <1>1, <1>2, ReadOne
    <2>4. KernelTypeOK'
      BY <2>1, <2>3, <1>1, <1>4 DEF KernelTypeOK, Combined
    <2>5. PlaceInv'
      BY <2>1, <1>1, <1>4 DEF PlaceInv
    <2>. QED  BY <2>1, <2>3, <2>4, <2>5, <1>1, <1>4 DEF KernelInv
  <1>11. CASE Return
    <2>1. /\ phase = "rest" /\ p = length /\ phase' = "done" /\ j = 0
          /\ UNCHANGED <<problem, p, j, acc, reads>>
      BY <1>11, <1>1 DEF Return, PlaceInv
    <2>2. (\A x : Read(x)' <=> Read(x)) /\ Consumed' = Consumed
      BY <2>1, <1>4 DEF Read, Consumed, inHalves
    <2>3. AccInv'
      BY <2>1, <2>2, <1>1, ReadNone
    <2>4. KernelTypeOK' /\ PlaceInv'
      BY <2>1, <1>1, <1>4 DEF KernelTypeOK, PlaceInv, Phases
    <2>. QED  BY <2>1, <2>3, <2>4, <1>1, <1>4 DEF KernelInv
  <1>12. CASE UNCHANGED kernelVars
    <2>1. UNCHANGED <<problem, phase, p, j, acc, reads>>
      BY <1>12 DEF kernelVars
    <2>2. (\A x : Read(x)' <=> Read(x)) /\ Consumed' = Consumed
      BY <2>1, <1>4 DEF Read, Consumed, inHalves
    <2>3. AccInv'
      BY <2>1, <2>2, <1>1, ReadNone
    <2>4. KernelTypeOK' /\ PlaceInv'
      BY <2>1, <1>1, <1>4 DEF KernelTypeOK, PlaceInv
    <2>. QED  BY <2>1, <2>3, <2>4, <1>1, <1>4 DEF KernelInv
  <1>. QED  BY <1>6, <1>7, <1>8, <1>9, <1>10, <1>11, <1>12 DEF KernelNext

LEMMA KernelInvariantHolds == ASSUME AllSound PROVE KernelSpec => []KernelInv
  <1>1. KernelInit => KernelInv
    BY KernelInitially
  <1>2. KernelInv /\ [KernelNext]_kernelVars => KernelInv'
    BY KernelInvariance
  <1>. QED  BY <1>1, <1>2, PTL DEF KernelSpec

-----------------------------------------------------------------------------
(* What a combining kernel does.                                           *)

\* The variables keep their types in every run of the loop of combine.c, with
\* any length and any placement of the vector.
THEOREM KernelTypes == ASSUME AllSound PROVE KernelSpec => []KernelTypeOK
  <1>1. KernelInv => KernelTypeOK
    BY DEF KernelInv
  <1>. QED  BY <1>1, KernelInvariantHolds, PTL

\* Whatever the length, the placement, the number of elements of a round and
\* of accumulators, and the form of the loop's bound: when a kernel of
\* combine.c returns, every element was combined once.
THEOREM EveryElementCombinedOnce == ASSUME AllSound PROVE KernelSpec => []EachElementOnce
  <1>1. KernelInv => EachElementOnce
    <2>. SUFFICES ASSUME KernelInv, phase = "done"
                  PROVE  /\ UNION {acc[a] : a \in Accs} = 0 .. length - 1
                         /\ \A a, b \in Accs : a # b => acc[a] \cap acc[b] = {}
                         /\ reads = length
      BY DEF EachElementOnce
    <2>1. p = length /\ j = 0 /\ ~inHalves /\ length \in Nat
      BY DEF KernelInv, PlaceInv, inHalves, KernelTypeOK
    <2>2. \A x : x \in 0 .. length - 1 <=> \E a \in Accs : x \in acc[a]
      BY <2>1 DEF KernelInv, AccInv, Read
    <2>3. reads = length
      BY <2>1 DEF KernelInv, AccInv, Consumed
    <2>. QED  BY <2>2, <2>3 DEF KernelInv, AccInv
  <1>. QED  BY <1>1, KernelInvariantHolds, PTL

\* A kernel of combine.c reads no element that is not there and loads its
\* vectors from aligned addresses, whatever the length and the placement.
THEOREM LoadsLegal == ASSUME AllSound PROVE KernelSpec => []LoadsAreLegal
  <1>1. KernelInv => LoadsAreLegal
    <2>. SUFFICES ASSUME KernelInv PROVE ReadsInside /\ LoadsAligned
      BY DEF LoadsAreLegal
    <2>1. /\ length \in Nat /\ p \in Nat /\ j \in 0 .. kernel.k - 1 /\ kernel.k \in Nat \ {0}
          /\ kernel.limit \in Loops /\ phase \in Phases /\ problem.skew \in Nat
          /\ (kernel.limit = "halves" => kernel.k = 2 /\ kernel.v = 1)
      BY DEF KernelInv, KernelTypeOK, IsKernel
    <2>2. half \in Nat /\ 2 * half <= length
      BY <2>1, Remainder DEF half
    <2>3. \A x : Read(x) => x \in 0 .. length - 1
      <3>1. CASE inHalves
        BY <3>1, <2>1, <2>2 DEF KernelInv, PlaceInv, inHalves, Read
      <3>2. CASE ~inHalves
        BY <3>2, <2>1, <2>2 DEF KernelInv, PlaceInv, inHalves, Read, Loops, Phases
      <3>. QED  BY <3>1, <3>2
    <2>4. ReadsInside
      BY <2>3 DEF KernelInv, AccInv, ReadsInside
    <2>5. LoadsAligned
      <3>. SUFFICES ASSUME phase = "rounds", j = 0, Round(p)
                    PROVE  (problem.skew + p) % kernel.v = 0
        BY DEF LoadsAligned
      <3>1. CASE kernel.limit = "halves"
        BY <3>1, <2>1, SMT
      <3>2. CASE kernel.limit = "last"
        BY <3>2, <2>1 DEF Round, Last, KernelInv, PlaceInv
      <3>3. CASE kernel.limit = "over"
        <4>1. length % kernel.k \in 0 .. kernel.k - 1
          BY <2>1, Remainder
        <4>. QED  BY <4>1, <3>3, <2>1 DEF Round, Over, KernelInv, PlaceInv
      <3>. QED  BY <3>1, <3>2, <3>3, <2>1 DEF Loops
    <2>. QED  BY <2>4, <2>5
  <1>. QED  BY <1>1, KernelInvariantHolds, PTL

-----------------------------------------------------------------------------
(* The cache simulator.                                                    *)

\* A line in use holds the tag of an access, never the zero of calloc.
ValidTags ==
  \A s \in Sets, w \in Lines : cache[s][w].valid => cache[s][w].tag \in Tags

CacheInv ==
  /\ TypeOK
  /\ TagsDistinct
  /\ SummaryAddsUp
  /\ ValidTags

-----------------------------------------------------------------------------
(* The line visitCache fills or replaces exists.                           *)

\* A function on a finite set has a largest value.
LEMMA Largest ==
  ASSUME NEW I, IsFiniteSet(I), I # {}, NEW f \in [I -> Int]
  PROVE  \E m \in I : \A k \in I : f[k] <= f[m]
<1> DEFINE HasLargest(U) == \E m \in U : \A k \in U : f[k] <= f[m]
           Without == {U \in FiniteSubsetsOf(I) : U # {} /\ ~HasLargest(U)}
<1>1. SUFFICES ASSUME ~HasLargest(I) PROVE FALSE
  OBVIOUS
<1>2. I \in Without
  BY <1>1 DEF FiniteSubsetsOf
<1>3. IsWellFoundedOn(StrictSubsetOrdering(I), FiniteSubsetsOf(I))
  BY FS_StrictSubsetOrderingWellFounded
<1>4. Without \subseteq FiniteSubsetsOf(I) /\ Without # {}
  BY <1>2
<1> HIDE DEF Without
<1>5. PICK U \in Without : \A V \in Without : ~ (<<V, U>> \in StrictSubsetOrdering(I))
  BY <1>3, <1>4, WFMin, Zenon
<1>6. U \in SUBSET I /\ IsFiniteSet(U) /\ U # {} /\ ~HasLargest(U)
  BY <1>5 DEF Without, FiniteSubsetsOf
<1>7. PICK x \in U : TRUE
  BY <1>6
<1>8. U \ {x} # {}
  BY <1>6, <1>7
<1>9. U \ {x} \notin Without
  <2>1. U \ {x} \subseteq I /\ U \ {x} \subseteq U /\ U \ {x} # U
    BY <1>6, <1>7
  <2> QED
    BY <1>5, <1>6, <2>1 DEF StrictSubsetOrdering
<1>10. IsFiniteSet(U \ {x})
  BY <1>6, FS_RemoveElement
<1>11. PICK m \in U \ {x} : \A k \in U \ {x} : f[k] <= f[m]
  BY <1>6, <1>8, <1>9, <1>10 DEF Without, FiniteSubsetsOf
<1>12. CASE f[x] <= f[m]
  BY <1>6, <1>7, <1>11, <1>12
<1>13. CASE ~(f[x] <= f[m])
  <2>1. \A k \in U : f[k] <= f[x]
    BY <1>6, <1>7, <1>11, <1>13
  <2> QED
    BY <1>6, <1>7, <2>1
<1> QED
  BY <1>12, <1>13

LEMMA LinesFinite == IsFiniteSet(Lines) /\ 0 \in Lines
BY EAssumption, FS_Interval DEF Lines

LEMMA EmptyIsInvalid ==
  ASSUME NEW set \in [Lines -> Line], \E w \in Lines : ~set[w].valid
  PROVE  Empty(set) \in Lines /\ ~set[Empty(set)].valid
<1> DEFINE I == {w \in Lines : ~set[w].valid}
           f == [w \in I |-> w]
<1>1. IsFiniteSet(I) /\ I # {}
  BY LinesFinite, FS_Subset
<1>2. f \in [I -> Int]
  BY DEF Lines
<1>3. PICK m \in I : \A k \in I : f[k] <= f[m]
  <2> HIDE DEF I, f
  <2> QED
    BY <1>1, <1>2, Largest
<1>4. m \in Lines /\ ~set[m].valid /\ \A y \in Lines : ~set[y].valid => y <= m
  BY <1>3
<1> QED
  BY <1>4 DEF Empty

LEMMA FirstOldestIsLine ==
  ASSUME NEW set \in [Lines -> Line]
  PROVE  FirstOldest(set) \in Lines
<1> DEFINE f == [w \in Lines |-> set[w].lru]
<1>1. f \in [Lines -> Int]
  BY DEF Line
<1>2. PICK m \in Lines : \A k \in Lines : f[k] <= f[m]
  <2> HIDE DEF f
  <2> QED
    BY <1>1, LinesFinite, Largest
<1> DEFINE I == {w \in Lines : set[w].lru = set[m].lru}
           g == [w \in I |-> -w]
<1>3. IsFiniteSet(I) /\ I # {}
  BY LinesFinite, FS_Subset
<1>4. g \in [I -> Int]
  BY DEF Lines
<1>5. PICK v \in I : \A k \in I : g[k] <= g[v]
  <2> HIDE DEF I, g
  <2> QED
    BY <1>3, <1>4, Largest
<1>6. v \in Lines /\ \A y \in Lines :
        set[y].lru < set[v].lru \/ (set[y].lru = set[v].lru /\ v <= y)
  BY <1>1, <1>2, <1>5 DEF Lines
<1> QED
  BY <1>6 DEF FirstOldest

LEMMA LastOldestIsLine ==
  ASSUME NEW set \in [Lines -> Line]
  PROVE  LastOldest(set) \in Lines
<1> DEFINE f == [w \in Lines |-> set[w].lru]
<1>1. f \in [Lines -> Int]
  BY DEF Line
<1>2. PICK m \in Lines : \A k \in Lines : f[k] <= f[m]
  <2> HIDE DEF f
  <2> QED
    BY <1>1, LinesFinite, Largest
<1> DEFINE I == {w \in Lines : set[w].lru = set[m].lru}
           g == [w \in I |-> w]
<1>3. IsFiniteSet(I) /\ I # {}
  BY LinesFinite, FS_Subset
<1>4. g \in [I -> Int]
  BY DEF Lines
<1>5. PICK v \in I : \A k \in I : g[k] <= g[v]
  <2> HIDE DEF I, g
  <2> QED
    BY <1>3, <1>4, Largest
<1>6. v \in Lines /\ \A y \in Lines :
        set[y].lru < set[v].lru \/ (set[y].lru = set[v].lru /\ y <= v)
  BY <1>1, <1>2, <1>5 DEF Lines
<1> QED
  BY <1>6 DEF LastOldest

-----------------------------------------------------------------------------
(* What a visit writes.                                                    *)

\* Line w of set s becomes the line of tag t; of the others only ages change.
Writes(s, w, t) ==
  /\ cache' \in [Sets -> [Lines -> Line]]
  /\ cache'[s][w].valid /\ cache'[s][w].tag = t
  /\ \A r \in Sets, y \in Lines : r # s \/ y # w =>
       cache'[r][y].valid = cache[r][y].valid /\ cache'[r][y].tag = cache[r][y].tag

LEMMA AgedLines ==
  ASSUME NEW set \in [Lines -> Line], NEW t \in Tags
  PROVE  /\ Aged(set, t) \in [Lines -> Line]
         /\ \A y \in Lines : Aged(set, t)[y].valid = set[y].valid
                             /\ Aged(set, t)[y].tag = set[y].tag
<1>1. ASSUME NEW y \in Lines
      PROVE  /\ [set[y] EXCEPT !.lru = @ + 1] \in Line
             /\ [set[y] EXCEPT !.lru = @ + 1].valid = set[y].valid
             /\ [set[y] EXCEPT !.lru = @ + 1].tag = set[y].tag
  BY DEF Line
<1> QED
  BY <1>1 DEF Aged

LEMMA PutWrites ==
  ASSUME TypeOK, NEW s \in Sets, NEW t \in Tags, NEW w \in Lines,
         Put(s, Aged(cache[s], t), w, t)
  PROVE  Writes(s, w, t)
<1> DEFINE set == Aged(cache[s], t)
<1>1. cache[s] \in [Lines -> Line]
  BY DEF TypeOK
<1>2. /\ set \in [Lines -> Line]
      /\ \A y \in Lines : set[y].valid = cache[s][y].valid /\ set[y].tag = cache[s][y].tag
  BY <1>1, AgedLines
<1>3. Used(t) \in Line /\ Used(t).valid /\ Used(t).tag = t
  BY DEF Used, Line
<1>4. cache' = [cache EXCEPT ![s] = [set EXCEPT ![w] = Used(t)]]
  BY DEF Put
<1> HIDE DEF set
<1>5. [set EXCEPT ![w] = Used(t)] \in [Lines -> Line]
  BY <1>2, <1>3
<1>6. cache' \in [Sets -> [Lines -> Line]]
  BY <1>4, <1>5 DEF TypeOK
<1>7. /\ cache'[s] = [set EXCEPT ![w] = Used(t)]
      /\ \A r \in Sets : r # s => cache'[r] = cache[r]
  BY <1>4 DEF TypeOK
<1>8. /\ cache'[s][w] = Used(t)
      /\ \A y \in Lines : y # w => cache'[s][y] = set[y]
  BY <1>2, <1>7
<1> QED
  BY <1>2, <1>3, <1>6, <1>7, <1>8 DEF Writes

LEMMA WritesDistinct ==
  ASSUME TypeOK, TagsDistinct, NEW s \in Sets, NEW t \in Tags, NEW w \in Lines, Writes(s, w, t),
         \A y \in Lines : y # w => ~Matches(cache[s], y, t)
  PROVE  TagsDistinct'
BY DEF TagsDistinct, Writes, Matches

LEMMA FilledFinite == IsFiniteSet(Filled)
<1>1. IsFiniteSet(Sets \X Lines)
  BY SetsAssumption, LinesFinite, FS_Product
<1> QED
  BY <1>1, FS_Subset DEF Filled

\* Filled grows by the line written, unless it was in use.
LEMMA WritesFilled ==
  ASSUME TypeOK, NEW s \in Sets, NEW t \in Tags, NEW w \in Lines, Writes(s, w, t)
  PROVE  Cardinality(Filled)' =
           IF cache[s][w].valid THEN Cardinality(Filled) ELSE Cardinality(Filled) + 1
<1>1. Filled' = Filled \cup {<<s, w>>}
  <2>1. ASSUME NEW r \in Sets, NEW y \in Lines
        PROVE  <<r, y>> \in Filled' <=> <<r, y>> \in Filled \cup {<<s, w>>}
    BY DEF Filled, Writes
  <2> QED
    BY <2>1 DEF Filled
<1>2. <<s, w>> \in Filled <=> cache[s][w].valid
  BY DEF Filled
<1> QED
  BY <1>1, <1>2, FilledFinite, FS_AddElement

-----------------------------------------------------------------------------
(* visitCache.                                                             *)

\* The three ways out of visitCache: hit, fill an empty line, replace a line.
Outcome(s, t, extra, w, victim) ==
  \/ /\ Matches(cache[s], w, t) /\ misses' = misses /\ evictions' = evictions
     /\ hits' = hits + 1 + extra
  \/ /\ ~cache[s][w].valid /\ ~Found(cache[s], t)
     /\ misses' = misses + 1 /\ evictions' = evictions
     /\ hits' = hits + extra
  \/ /\ \A y \in Lines : cache[s][y].valid
     /\ ~Found(cache[s], t)
     /\ w = victim
     /\ misses' = misses + 1 /\ evictions' = evictions + 1
     /\ hits' = hits + extra

LEMMA VisitWrites ==
  ASSUME CacheInv, NEW s \in Sets, NEW t \in Tags, NEW extra \in {0, 1},
         NEW victim \in Lines, visit(s, t, extra, victim)
  PROVE  \E w \in Lines :
           /\ Put(s, Aged(cache[s], t), w, t)
           /\ Writes(s, w, t)
           /\ \A y \in Lines : y # w => ~Matches(cache[s], y, t)
           /\ Outcome(s, t, extra, w, victim)
<1> DEFINE set == Aged(cache[s], t)
<1>0. TypeOK /\ TagsDistinct
  BY DEF CacheInv
<1>1. cache[s] \in [Lines -> Line]
  BY <1>0 DEF TypeOK
<1>2. set \in [Lines -> Line] /\ \A y \in Lines : set[y].valid = cache[s][y].valid
  BY <1>1, AgedLines
<1>3. CASE visitHit(s, t, extra)
  <2>1. PICK w \in Lines : Matches(cache[s], w, t) /\ Put(s, set, w, t)
    BY <1>3 DEF visitHit
  <2>2. Writes(s, w, t)
    BY <1>0, <2>1, PutWrites
  <2>3. \A y \in Lines : y # w => ~Matches(cache[s], y, t)
    BY <1>0, <2>1 DEF TagsDistinct, Matches
  <2> QED
    BY <1>3, <2>1, <2>2, <2>3 DEF visitHit, Outcome
<1>4. CASE visitFill(s, t, extra)
  <2>1. Empty(set) \in Lines /\ ~cache[s][Empty(set)].valid
    BY <1>2, <1>4, EmptyIsInvalid DEF visitFill
  <2>2. PICK w \in Lines : w = Empty(set)
    BY <2>1
  <2>3. Put(s, set, w, t)
    BY <1>4, <2>2 DEF visitFill
  <2>4. Writes(s, w, t)
    BY <1>0, <2>3, PutWrites
  <2> QED
    BY <1>4, <2>1, <2>2, <2>3, <2>4 DEF visitFill, Found, Outcome
<1>5. CASE visitReplace(s, t, extra, victim)
  <2>1. Put(s, set, victim, t)
    BY <1>5 DEF visitReplace
  <2>2. Writes(s, victim, t)
    BY <1>0, <2>1, PutWrites
  <2>3. \A y \in Lines : cache[s][y].valid
    BY <1>2, <1>5 DEF visitReplace
  <2> QED
    BY <1>5, <2>1, <2>2, <2>3 DEF visitReplace, Found, Outcome
<1> QED
  BY <1>3, <1>4, <1>5 DEF visit

LEMMA StepPreserves ==
  ASSUME CacheInv, NEW s \in Sets, NEW t \in Tags, NEW extra \in {0, 1},
         NEW victim \in Lines, visit(s, t, extra, victim), Note(s, t, 1 + extra)
  PROVE  CacheInv'
<1>1. PICK w \in Lines :
        /\ Writes(s, w, t)
        /\ \A y \in Lines : y # w => ~Matches(cache[s], y, t)
        /\ Outcome(s, t, extra, w, victim)
  BY VisitWrites
<1>2. TypeOK /\ TagsDistinct /\ SummaryAddsUp /\ ValidTags
  BY DEF CacheInv
<1>3. TagsDistinct' /\ ValidTags'
  <2>1. TagsDistinct'
    BY <1>1, <1>2, WritesDistinct
  <2>2. ValidTags'
    BY <1>1, <1>2 DEF ValidTags, Writes
  <2> QED
    BY <2>1, <2>2
<1>4. used' \in [Sets -> [Tags -> Nat]]
  BY <1>2 DEF Note, TypeOK
<1>5. TypeOK'
  BY <1>1, <1>2, <1>4 DEF TypeOK, Writes, Note, Outcome
<1>6. hits' + misses' = accesses'
  BY <1>1, <1>2 DEF SummaryAddsUp, Note, TypeOK, Outcome
<1>7. Cardinality(Filled)' = misses' - evictions'
  <2>1. Cardinality(Filled)' =
          IF cache[s][w].valid THEN Cardinality(Filled) ELSE Cardinality(Filled) + 1
    BY <1>1, <1>2, WritesFilled
  <2>2. Cardinality(Filled) = misses - evictions
    BY <1>2 DEF SummaryAddsUp
  <2> QED
    BY <1>1, <1>2, <2>1, <2>2 DEF TypeOK, Outcome, Matches
<1> QED
  BY <1>3, <1>5, <1>6, <1>7 DEF CacheInv, SummaryAddsUp

LEMMA CacheInitially ==
  ASSUME Init
  PROVE  CacheInv
<1>1. \A s \in Sets, w \in Lines : cache[s][w] = [valid |-> FALSE, lru |-> 0, tag |-> NoTag]
  BY DEF Init
<1>2. TypeOK
  BY DEF Init, TypeOK, Line
<1>3. Filled = {}
  BY <1>1 DEF Filled
<1>4. SummaryAddsUp
  BY <1>3, FS_EmptySet DEF SummaryAddsUp, Init
<1> QED
  BY <1>1, <1>2, <1>4 DEF CacheInv, TagsDistinct, ValidTags

\* A step of simulate with visitCache is a visit that may replace some line.
LEMMA StepVisits ==
  ASSUME CacheInv, Next
  PROVE  \E s \in Sets, t \in Tags, extra \in {0, 1} :
           /\ visit(s, t, extra, FirstOldest(Aged(cache[s], t)))
           /\ FirstOldest(Aged(cache[s], t)) \in Lines
           /\ Note(s, t, 1 + extra)
<1>1. PICK s \in Sets, t \in Tags : Access(s, t) \/ Modify(s, t)
  BY DEF Next
<1>2. FirstOldest(Aged(cache[s], t)) \in Lines
  BY AgedLines, FirstOldestIsLine DEF CacheInv, TypeOK
<1>3. \E extra \in {0, 1} : visitCache(s, t, extra) /\ Note(s, t, 1 + extra)
  BY <1>1 DEF Access, Modify
<1> QED
  BY <1>2, <1>3 DEF visitCache

\* The same of a step with visitCache2.
LEMMA StepVisitsToo ==
  ASSUME CacheInv, Next2
  PROVE  \E s \in Sets, t \in Tags, extra \in {0, 1} :
           /\ visit(s, t, extra, LastOldest(Aged(cache[s], t)))
           /\ LastOldest(Aged(cache[s], t)) \in Lines
           /\ Note(s, t, 1 + extra)
<1>1. PICK s \in Sets, t \in Tags : Access2(s, t) \/ Modify2(s, t)
  BY DEF Next2
<1>2. LastOldest(Aged(cache[s], t)) \in Lines
  BY AgedLines, LastOldestIsLine DEF CacheInv, TypeOK
<1>3. \E extra \in {0, 1} : visitCache2(s, t, extra) /\ Note(s, t, 1 + extra)
  BY <1>1 DEF Access2, Modify2
<1> QED
  BY <1>2, <1>3 DEF visitCache2

LEMMA CacheStuttering ==
  ASSUME CacheInv, UNCHANGED vars
  PROVE  CacheInv'
BY DEF vars, counters, CacheInv, TypeOK, TagsDistinct, ValidTags, SummaryAddsUp, Filled

\* The parts of CacheInv together are inductive for the loop of simulate, with
\* either function.
LEMMA CacheKeeps == CacheInv /\ [Next]_vars => CacheInv'
BY StepVisits, StepPreserves, CacheStuttering

LEMMA CacheKeepsToo == CacheInv /\ [Next2]_vars => CacheInv'
BY StepVisitsToo, StepPreserves, CacheStuttering

LEMMA CacheInvariance == Spec => []CacheInv
BY CacheKeeps, CacheInitially, PTL DEF Spec

\* visitCache2 too stores no tag twice in a set and counts every access, every
\* fill and every eviction, although it replaces another of the oldest lines,
\* for every geometry and every trace.
THEOREM OtherVariantCounts == Spec2 => []CacheInv
BY CacheKeepsToo, CacheInitially, PTL DEF Spec2

\* Lines, ages, counters and the tags in use keep their types.
THEOREM TypesOfTheCache == Spec => []TypeOK
<1>1. CacheInv => TypeOK
  BY DEF CacheInv
<1> QED
  BY <1>1, CacheInvariance, PTL

\* visitCache never stores a tag twice in a set, for every geometry -s, -E and
\* every trace.
THEOREM NoTagTwice == Spec => []TagsDistinct
<1>1. CacheInv => TagsDistinct
  BY DEF CacheInv
<1> QED
  BY <1>1, CacheInvariance, PTL

\* The line printSummary prints adds up, for every geometry and every trace:
\* hits and misses are the accesses, and misses that evicted nothing are the
\* lines in use.
THEOREM SummaryCorrect == Spec => []SummaryAddsUp
<1>1. CacheInv => SummaryAddsUp
  BY DEF CacheInv
<1> QED
  BY <1>1, CacheInvariance, PTL

-----------------------------------------------------------------------------
(* Least recently used replacement.                                        *)

\* A visit fills one line more of its set, unless the line was in use.
LEMMA InUseCount ==
  ASSUME TypeOK, NEW s \in Sets, NEW t \in Tags, NEW w \in Lines, Writes(s, w, t)
  PROVE  /\ Cardinality(InUse(s)) \in Nat /\ Cardinality(InUse(s)) <= E
         /\ Cardinality(InUse(s)) = E <=> \A y \in Lines : cache[s][y].valid
         /\ Cardinality(InUse(s)') = IF cache[s][w].valid THEN Cardinality(InUse(s))
                                     ELSE Cardinality(InUse(s)) + 1
         /\ \A r \in Sets : r # s => InUse(r)' = InUse(r)
<1>1. IsFiniteSet(InUse(s)) /\ InUse(s) \subseteq Lines
  BY LinesFinite, FS_Subset DEF InUse
<1>2. Cardinality(Lines) = E
  BY EAssumption, FS_Interval DEF Lines
<1>3. Cardinality(InUse(s)) <= E /\ (Cardinality(InUse(s)) = E <=> InUse(s) = Lines)
  BY <1>1, <1>2, LinesFinite, FS_Subset
<1>4. InUse(s)' = InUse(s) \cup {w}
  BY DEF InUse, Writes
<1>5. \A r \in Sets : r # s => InUse(r)' = InUse(r)
  BY DEF InUse, Writes
<1> QED
  BY <1>1, <1>3, <1>4, <1>5, FS_AddElement, FS_CardinalityType DEF InUse

\* A visit whose victim, when there is one, was used before every other line
\* of its set is a step of the abstract cache.
LEMMA VisitRefines ==
  ASSUME CacheInv, NEW s \in Sets, NEW t \in Tags, NEW extra \in {0, 1},
         NEW victim \in Lines, visit(s, t, extra, victim), Note(s, t, 1 + extra),
         ~Found(cache[s], t) /\ (\A y \in Lines : cache[s][y].valid) =>
           \A y \in Lines : used[s][cache[s][victim].tag] <= used[s][cache[s][y].tag]
  PROVE  LRU!Next
<1>1. PICK w \in Lines :
        /\ Writes(s, w, t)
        /\ \A y \in Lines : y # w => ~Matches(cache[s], y, t)
        /\ Outcome(s, t, extra, w, victim)
  BY VisitWrites
<1>2. TagsDistinct /\ ValidTags /\ TypeOK /\ hits + misses = accesses
  BY DEF CacheInv, SummaryAddsUp
<1>3. hits' + misses' = accesses + (1 + extra)
  BY <1>1, <1>2 DEF Outcome, TypeOK
<1>4. LRU!Use(s, t)
  BY <1>3 DEF Note, LRU!Use
<1>5. /\ \A u \in Tags : u \in Held(s)' <=>
           u = t \/ \E y \in Lines : y # w /\ Matches(cache[s], y, u)
      /\ \A r \in Sets : r # s => Held(r)' = Held(r)
  <2>1. \A y \in Lines, u \in Tags :
          Matches(cache'[s], y, u) <=> IF y = w THEN u = t ELSE Matches(cache[s], y, u)
    BY <1>1 DEF Matches, Writes
  <2>2. \A r \in Sets, y \in Lines, u \in Tags : r # s => (Matches(cache'[r], y, u) <=> Matches(cache[r], y, u))
    BY <1>1 DEF Matches, Writes
  <2>3. \A u \in Tags : Found(cache'[s], u) <=> u = t \/ \E y \in Lines : y # w /\ Matches(cache[s], y, u)
    BY <2>1 DEF Found
  <2>4. \A r \in Sets : r # s => Held(r)' = Held(r)
    BY <2>2 DEF Held, Found
  <2> QED
    BY <2>3, <2>4 DEF Held
<1>6. t \in Held(s) <=> Found(cache[s], t)
  BY DEF Held
<1> DEFINE H    == [r \in Sets |-> Held(r)]
           Room == [r \in Sets |-> E - Cardinality(InUse(r))]
<1>7. /\ Held(s) = Held(s)' => H' = H
      /\ H' = [H EXCEPT ![s] = Held(s)']
  BY <1>5
<1>8. /\ cache[s][w].valid => Room' = Room
      /\ ~cache[s][w].valid => Room' = [Room EXCEPT ![s] = @ - 1] /\ Room[s] > 0
      /\ (\A y \in Lines : cache[s][y].valid) => Room[s] = 0
  <2>1. /\ Cardinality(InUse(s)) \in Nat /\ Cardinality(InUse(s)) <= E
        /\ Cardinality(InUse(s)) = E <=> \A y \in Lines : cache[s][y].valid
        /\ Cardinality(InUse(s)') = IF cache[s][w].valid THEN Cardinality(InUse(s))
                                    ELSE Cardinality(InUse(s)) + 1
        /\ \A r \in Sets : r # s => InUse(r)' = InUse(r)
    BY <1>1, <1>2, InUseCount
  <2>2. \A r \in Sets : r # s => E - Cardinality(InUse(r)') = E - Cardinality(InUse(r))
    BY <2>1
  <2>3. /\ cache[s][w].valid => E - Cardinality(InUse(s)') = E - Cardinality(InUse(s))
        /\ ~cache[s][w].valid =>
             /\ E - Cardinality(InUse(s)') = (E - Cardinality(InUse(s))) - 1
             /\ E - Cardinality(InUse(s)) > 0
        /\ (\A y \in Lines : cache[s][y].valid) => E - Cardinality(InUse(s)) = 0
    BY <2>1, EAssumption
  <2>4. cache[s][w].valid => Room' = Room
    BY <2>2, <2>3
  <2>5. ~cache[s][w].valid => Room' = [Room EXCEPT ![s] = @ - 1]
    BY <2>2, <2>3
  <2> QED
    BY <2>3, <2>4, <2>5
<1>9. CASE Matches(cache[s], w, t) /\ misses' = misses /\ evictions' = evictions
           /\ hits' = hits + 1 + extra
  <2>1. t \in Held(s)
    BY <1>6, <1>9 DEF Found
  <2>2. Held(s)' = Held(s)
    BY <1>2, <1>5, <1>9 DEF Held, Found, Matches, TagsDistinct
  <2>3. LRU!Hit(s, t, extra)
    BY <1>4, <1>7, <1>8, <1>9, <2>1, <2>2 DEF LRU!Hit, Matches
  <2> QED
    BY <2>3 DEF LRU!Next
<1>10. CASE ~cache[s][w].valid /\ ~Found(cache[s], t) /\ misses' = misses + 1
            /\ evictions' = evictions /\ hits' = hits + extra
  <2>1. t \notin Held(s)
    BY <1>6, <1>10
  <2>2. Held(s)' = Held(s) \cup {t}
    BY <1>5, <1>10 DEF Held, Found, Matches
  <2>3. LRU!Fill(s, t, extra)
    BY <1>4, <1>7, <1>8, <1>10, <2>1, <2>2 DEF LRU!Fill
  <2> QED
    BY <2>3 DEF LRU!Next
<1>11. CASE (\A y \in Lines : cache[s][y].valid) /\ ~Found(cache[s], t) /\ w = victim
            /\ misses' = misses + 1 /\ evictions' = evictions + 1 /\ hits' = hits + extra
  <2>1. t \notin Held(s)
    BY <1>6, <1>11
  <2> DEFINE v == cache[s][victim].tag
  <2>2. v \in Held(s)
    BY <1>2, <1>11 DEF Held, Found, Matches, ValidTags
  <2>3. Held(s)' = (Held(s) \ {v}) \cup {t}
    BY <1>2, <1>5, <1>11, <2>1 DEF Held, Found, Matches, TagsDistinct
  <2>4. \A u \in Held(s) : used[s][v] <= used[s][u]
    BY <1>11 DEF Held, Found, Matches
  <2>5. LRU!Replace(s, t, extra)
    <3> HIDE DEF v
    <3> QED
      BY <1>4, <1>7, <1>8, <1>11, <2>1, <2>2, <2>3, <2>4 DEF LRU!Replace
  <2> QED
    BY <2>5 DEF LRU!Next
<1> QED
  BY <1>1, <1>9, <1>10, <1>11 DEF Outcome

LEMMA InitRefines ==
  ASSUME Init
  PROVE  LRU!Init
<1>1. \A s \in Sets, w \in Lines : ~cache[s][w].valid
  BY DEF Init
<1>2. \A s \in Sets : Held(s) = {} /\ InUse(s) = {}
  BY <1>1 DEF Held, Found, Matches, InUse
<1>3. \A s \in Sets : E - Cardinality(InUse(s)) = E
  BY <1>2, FS_EmptySet, EAssumption
<1> QED
  BY <1>2, <1>3 DEF Init, LRU!Init

LEMMA StutteringRefines ==
  ASSUME UNCHANGED vars
  PROVE  UNCHANGED LRU!lruVars
BY DEF vars, counters, LRU!lruVars, Held, InUse, Found, Matches

\* The simulated cache is a least recently used cache when it is direct mapped
\* (-E 1): visitCache then has one line to replace.
THEOREM DirectMapped ==
  ASSUME E = 1
  PROVE  Spec => ImplementsLRU
<1>1. ASSUME CacheInv, [Next]_vars PROVE [LRU!Next]_(LRU!lruVars)
  <2>1. CASE Next
    <3>1. PICK s \in Sets, t \in Tags, extra \in {0, 1} :
            /\ visit(s, t, extra, FirstOldest(Aged(cache[s], t)))
            /\ FirstOldest(Aged(cache[s], t)) \in Lines
            /\ Note(s, t, 1 + extra)
      BY <1>1, <2>1, StepVisits
    <3>2. PICK victim \in Lines : victim = FirstOldest(Aged(cache[s], t))
      BY <3>1
    <3>3. \A y \in Lines : y = victim
      BY DEF Lines
    <3>4. (\A y \in Lines : cache[s][y].valid) =>
            \A y \in Lines : used[s][cache[s][victim].tag] <= used[s][cache[s][y].tag]
      BY <1>1, <3>3 DEF CacheInv, ValidTags, TypeOK
    <3> QED
      BY <1>1, <3>1, <3>2, <3>4, VisitRefines
  <2>2. CASE UNCHANGED vars
    BY <2>2, StutteringRefines
  <2> QED
    BY <1>1, <2>1, <2>2
<1> QED
  BY <1>1, InitRefines, CacheInvariance, PTL DEF Spec, ImplementsLRU, LRU!Spec

-----------------------------------------------------------------------------
(* visitCache2 with two lines per set.                                     *)

\* The ages of the two lines tell which was used before.  Equal ages mean the
\* second one: its age did not grow when the first one was hit.
AgesRankUses ==
  \A s \in Sets :
    /\ \A w \in {0, 1} : cache[s][w].valid =>
         /\ cache[s][w].lru > 0
         /\ used[s][cache[s][w].tag] > 0 /\ used[s][cache[s][w].tag] <= accesses
    /\ cache[s][0].valid /\ cache[s][1].valid =>
         \/ /\ used[s][cache[s][0].tag] < used[s][cache[s][1].tag]
            /\ cache[s][0].lru > cache[s][1].lru
         \/ /\ used[s][cache[s][1].tag] < used[s][cache[s][0].tag]
            /\ cache[s][1].lru >= cache[s][0].lru

\* A line that is not written keeps its age or grows older, and grows older when
\* it comes before the line written.
LEMMA PutAges ==
  ASSUME TypeOK, NEW s \in Sets, NEW t \in Tags, NEW w \in Lines,
         Put(s, Aged(cache[s], t), w, t),
         \A y \in Lines : y # w => ~Matches(cache[s], y, t)
  PROVE  /\ cache'[s][w].lru = 1
         /\ \A y \in Lines : y # w /\ cache[s][y].valid =>
              /\ cache'[s][y].lru >= cache[s][y].lru
              /\ y < w => cache'[s][y].lru = cache[s][y].lru + 1
              /\ ~Found(cache[s], t) => cache'[s][y].lru = cache[s][y].lru + 1
         /\ \A r \in Sets : r # s => cache'[r] = cache[r]
<1> DEFINE set == Aged(cache[s], t)
<1>1. cache[s] \in [Lines -> Line]
  BY DEF TypeOK
<1>2. set \in [Lines -> Line]
  BY <1>1, AgedLines
<1>3. cache' = [cache EXCEPT ![s] = [set EXCEPT ![w] = Used(t)]]
  BY DEF Put
<1>4. ASSUME NEW y \in Lines, cache[s][y].valid
      PROVE  set[y].lru = IF \A k \in 0 .. y : ~Matches(cache[s], k, t)
                          THEN cache[s][y].lru + 1 ELSE cache[s][y].lru
  <2>1. cache[s][y] \in Line
    BY <1>1
  <2>2. [cache[s][y] EXCEPT !.lru = @ + 1].lru = cache[s][y].lru + 1
    BY <2>1 DEF Line
  <2> QED
    BY <1>1, <1>4, <2>2 DEF Aged
<1>5. ASSUME NEW y \in Lines, y < w, NEW k \in 0 .. y PROVE ~Matches(cache[s], k, t)
  BY <1>5, EAssumption DEF Lines
<1>6. ~Found(cache[s], t) => \A y \in Lines : \A k \in 0 .. y : ~Matches(cache[s], k, t)
  BY EAssumption DEF Found, Lines
<1> HIDE DEF set
<1>7. /\ cache'[s] = [set EXCEPT ![w] = Used(t)]
      /\ \A r \in Sets : r # s => cache'[r] = cache[r]
  BY <1>3 DEF TypeOK
<1>8. /\ cache'[s][w] = Used(t)
      /\ \A y \in Lines : y # w => cache'[s][y] = set[y]
  BY <1>2, <1>7
<1>9. \A y \in Lines : cache[s][y].lru \in Nat
  BY <1>1 DEF Line
<1> QED
  BY <1>4, <1>5, <1>6, <1>7, <1>8, <1>9 DEF Used

\* The line visitCache2 replaces was used before the other one.
LEMMA LastOldestIsLRU ==
  ASSUME E = 2, CacheInv, AgesRankUses, NEW s \in Sets, NEW t \in Tags
  PROVE  /\ LastOldest(Aged(cache[s], t)) \in Lines
         /\ ~Found(cache[s], t) /\ (\A y \in Lines : cache[s][y].valid) =>
              \A y \in Lines :
                used[s][cache[s][LastOldest(Aged(cache[s], t))].tag]
                  <= used[s][cache[s][y].tag]
<1> DEFINE set == Aged(cache[s], t)
<1>1. Lines = {0, 1}
  BY DEF Lines
<1>2. cache[s] \in [Lines -> Line] /\ set \in [Lines -> Line]
  BY AgedLines DEF CacheInv, TypeOK
<1>3. \A w \in Lines : set[w].lru \in Nat /\ cache[s][w].lru \in Nat
  BY <1>2 DEF Line
<1>4. \E w \in Lines : \A y \in Lines :
        set[y].lru < set[w].lru \/ (set[y].lru = set[w].lru /\ y <= w)
  <2>1. CASE set[0].lru > set[1].lru
    BY <1>1, <1>3, <2>1
  <2>2. CASE ~(set[0].lru > set[1].lru)
    BY <1>1, <1>3, <2>2
  <2> QED
    BY <2>1, <2>2
<1>5. PICK v \in Lines : v = LastOldest(set) /\ \A y \in Lines :
        set[y].lru < set[v].lru \/ (set[y].lru = set[v].lru /\ y <= v)
  <2> HIDE DEF set
  <2> QED
    BY <1>4 DEF LastOldest
<1>6. ASSUME ~Found(cache[s], t), \A y \in Lines : cache[s][y].valid
      PROVE  \A y \in Lines : used[s][cache[s][v].tag] <= used[s][cache[s][y].tag]
  <2>1. \A y \in Lines : set[y].lru = cache[s][y].lru + 1
    <3>1. ASSUME NEW y \in Lines PROVE [cache[s][y] EXCEPT !.lru = @ + 1].lru = cache[s][y].lru + 1
      <4>1. cache[s][y] \in Line
        BY <1>2
      <4> QED
        BY <4>1 DEF Line
    <3>2. \A y \in Lines : \A k \in 0 .. y : ~Matches(cache[s], k, t)
      BY <1>6 DEF Found, Lines
    <3> QED
      BY <1>6, <3>1, <3>2 DEF Aged
  <2>2. \A y \in Lines : used[s][cache[s][y].tag] \in Nat
    BY <1>6 DEF CacheInv, TypeOK, ValidTags
  <2>3. cache[s][0].valid /\ cache[s][1].valid
    BY <1>1, <1>6
  <2>4. CASE v = 0
    <3>1. cache[s][1].lru < cache[s][0].lru
      BY <1>1, <1>3, <1>5, <2>1, <2>4
    <3> QED
      BY <1>1, <1>3, <2>2, <2>3, <2>4, <3>1 DEF AgesRankUses
  <2>5. CASE v = 1
    <3>1. cache[s][0].lru <= cache[s][1].lru
      BY <1>1, <1>3, <1>5, <2>1, <2>5
    <3> QED
      BY <1>1, <1>3, <2>2, <2>3, <2>5, <3>1 DEF AgesRankUses
  <2> QED
    BY <1>1, <2>4, <2>5
<1> QED
  BY <1>5, <1>6

\* A step of simulate with visitCache2.
LEMMA Step2Visits ==
  ASSUME E = 2, CacheInv, AgesRankUses, Next2
  PROVE  \E s \in Sets, t \in Tags, extra \in {0, 1}, victim \in Lines :
           /\ visit(s, t, extra, victim)
           /\ Note(s, t, 1 + extra)
           /\ ~Found(cache[s], t) /\ (\A y \in Lines : cache[s][y].valid) =>
                \A y \in Lines : used[s][cache[s][victim].tag] <= used[s][cache[s][y].tag]
<1>1. PICK s \in Sets, t \in Tags : Access2(s, t) \/ Modify2(s, t)
  BY DEF Next2
<1>2. PICK victim \in Lines : victim = LastOldest(Aged(cache[s], t))
  BY LastOldestIsLRU
<1>3. ~Found(cache[s], t) /\ (\A y \in Lines : cache[s][y].valid) =>
        \A y \in Lines : used[s][cache[s][victim].tag] <= used[s][cache[s][y].tag]
  BY <1>2, LastOldestIsLRU
<1>4. PICK extra \in {0, 1} : visitCache2(s, t, extra) /\ Note(s, t, 1 + extra)
  BY <1>1 DEF Access2, Modify2
<1> QED
  BY <1>2, <1>3, <1>4 DEF visitCache2

LEMMA VisitKeepsRank ==
  ASSUME E = 2, CacheInv, AgesRankUses, NEW s \in Sets, NEW t \in Tags, NEW extra \in {0, 1},
         NEW victim \in Lines, visit(s, t, extra, victim), Note(s, t, 1 + extra)
  PROVE  AgesRankUses'
<1>1. PICK w \in Lines :
        /\ Put(s, Aged(cache[s], t), w, t)
        /\ Writes(s, w, t)
        /\ \A y \in Lines : y # w => ~Matches(cache[s], y, t)
        /\ Outcome(s, t, extra, w, victim)
  BY VisitWrites
<1>2. TypeOK /\ ValidTags
  BY DEF CacheInv
<1>3. Lines = {0, 1}
  BY DEF Lines
<1>4. /\ cache'[s][w].lru = 1
      /\ \A y \in Lines : y # w /\ cache[s][y].valid =>
           /\ cache'[s][y].lru >= cache[s][y].lru
           /\ y < w => cache'[s][y].lru = cache[s][y].lru + 1
           /\ ~Found(cache[s], t) => cache'[s][y].lru = cache[s][y].lru + 1
      /\ \A r \in Sets : r # s => cache'[r] = cache[r]
  BY <1>1, <1>2, PutAges
<1>5. /\ \A r \in Sets : r # s => used'[r] = used[r]
      /\ used'[s][t] = accesses' /\ accesses' > accesses /\ accesses \in Nat
      /\ \A u \in Tags : u # t => used'[s][u] = used[s][u]
      /\ accesses' \in Nat
  BY <1>2 DEF Note, TypeOK
<1>6. ASSUME NEW r \in Sets, r # s
      PROVE  /\ \A k \in {0, 1} : cache'[r][k].valid =>
                  /\ cache'[r][k].lru > 0
                  /\ used'[r][cache'[r][k].tag] > 0 /\ used'[r][cache'[r][k].tag] <= accesses'
             /\ cache'[r][0].valid /\ cache'[r][1].valid =>
                  \/ /\ used'[r][cache'[r][0].tag] < used'[r][cache'[r][1].tag]
                     /\ cache'[r][0].lru > cache'[r][1].lru
                  \/ /\ used'[r][cache'[r][1].tag] < used'[r][cache'[r][0].tag]
                     /\ cache'[r][1].lru >= cache'[r][0].lru
  <2>1. cache'[r] = cache[r] /\ used'[r] = used[r]
    BY <1>4, <1>5, <1>6
  <2>2. \A k \in Lines : cache[r][k].valid => used[r][cache[r][k].tag] \in Nat
    BY <1>2 DEF TypeOK, ValidTags
  <2> QED
    BY <1>3, <1>5, <2>1, <2>2 DEF AgesRankUses
<1>7. ASSUME NEW y \in Lines, y # w, cache'[s][y].valid
      PROVE  /\ cache'[s][y].tag = cache[s][y].tag /\ cache[s][y].valid
             /\ used'[s][cache'[s][y].tag] = used[s][cache[s][y].tag]
             /\ used[s][cache[s][y].tag] > 0 /\ used[s][cache[s][y].tag] <= accesses
             /\ cache'[s][y].lru \in Nat /\ cache'[s][y].lru > 0
             /\ used[s][cache[s][y].tag] \in Nat
             /\ y < w => cache'[s][y].lru > 1
  <2>1. cache'[s][y].tag = cache[s][y].tag /\ cache[s][y].valid
    BY <1>1, <1>7 DEF Writes
  <2>2. cache[s][y].tag # t /\ cache[s][y].tag \in Tags
    BY <1>1, <1>2, <1>7, <2>1 DEF Matches, ValidTags
  <2>3. cache[s][y].lru \in Nat /\ cache'[s][y].lru \in Nat
    BY <1>1, <1>2 DEF TypeOK, Line, Writes
  <2>4. used[s][cache[s][y].tag] \in Nat
    BY <1>2, <2>2 DEF TypeOK
  <2> QED
    BY <1>3, <1>4, <1>5, <1>7, <2>1, <2>2, <2>3, <2>4 DEF AgesRankUses
<1>8. cache'[s][w].valid /\ cache'[s][w].tag = t
  BY <1>1 DEF Writes
<1>9. CASE w = 0
  BY <1>3, <1>4, <1>5, <1>6, <1>7, <1>8, <1>9 DEF AgesRankUses
<1>10. CASE w = 1
  BY <1>3, <1>4, <1>5, <1>6, <1>7, <1>8, <1>10 DEF AgesRankUses
<1> QED
  BY <1>3, <1>9, <1>10

LEMMA RankInitially ==
  ASSUME E = 2, Init
  PROVE  AgesRankUses
BY DEF Init, AgesRankUses, Lines

LEMMA RankStep ==
  ASSUME E = 2, CacheInv, AgesRankUses, [Next2]_vars
  PROVE  AgesRankUses' /\ [LRU!Next]_(LRU!lruVars)
<1>1. CASE Next2
  <2>1. PICK s \in Sets, t \in Tags, extra \in {0, 1}, victim \in Lines :
          /\ visit(s, t, extra, victim)
          /\ Note(s, t, 1 + extra)
          /\ ~Found(cache[s], t) /\ (\A y \in Lines : cache[s][y].valid) =>
               \A y \in Lines : used[s][cache[s][victim].tag] <= used[s][cache[s][y].tag]
    BY <1>1, Step2Visits
  <2> QED
    BY <2>1, VisitKeepsRank, VisitRefines
<1>2. CASE UNCHANGED vars
  BY <1>2, StutteringRefines DEF vars, counters, AgesRankUses
<1> QED
  BY <1>1, <1>2

\* With <= in place of < (visitCache2) the simulated cache is a least recently
\* used cache for two lines per set too, for every trace.
THEOREM TwoWay ==
  ASSUME E = 2
  PROVE  Spec2 => ImplementsLRU
<1>1. CacheInv /\ AgesRankUses /\ [Next2]_vars => AgesRankUses' /\ [LRU!Next]_(LRU!lruVars)
  BY RankStep
<1> QED
  BY <1>1, OtherVariantCounts, RankInitially, InitRefines, PTL DEF Spec2, ImplementsLRU, LRU!Spec
=================================================================================
