--------------------------- MODULE CombineRevisions ---------------------------
(***************************************************************************)
(* The revisions of combine.c that the Makefile of csapp-master/opt saved  *)
(* beside their assembly code (cp -p combine.c dpb-O1.c, ...): the names   *)
(* give type, operation and optimisation.  A section of a revision is      *)
(* written as what it has of, or changes in, the section of combine.c; the *)
(* vector kernels differ in how they fill and drain accum, which leaves    *)
(* their loops as they are.                                                *)
(***************************************************************************)
EXTENDS CombineKernels

Without(section, names) == [x \in DOMAIN section \ names |-> section[x]]

\* The first unroll8x4: every accumulator one further, the rest into acc3.
Rotated ==
  LET into == [i \in 0 .. 7 |-> (i + 3) % 4] IN Kernel(8, 1, into, into, 3, 4, "last")

\* The first unroll8x8: acc6 = acc5 OP data[5]; acc6 = acc6 OP data[6].
Forgetful ==
  LET into == [i \in 0 .. 7 |-> IF i = 5 THEN 6 ELSE i]
  IN  Kernel(8, 1, into, [into EXCEPT ![5] = 5], 0, 8, "last")

\* The pointer kernels as they were.
firstPointers == [pointersInParallel EXCEPT !.unroll8x4 = Rotated, !.unroll8x8 = Forgetful]

\* dpb-O1.c: double products, VBYTES 32.
dpb_O1_basic == basic
dpb_O1_arrayBy3to6 == arrayBy3to6
dpb_O1_arrayBy7to16 == arrayBy7to16
dpb_O1_pointers == pointers
dpb_O1_upToFour == upToFour
dpb_O1_upToSixteen == upToSixteen
dpb_O1_fiveToSeven == fiveToSeven
dpb_O1_eightToTen == eightToTen
dpb_O1_pointersInParallel == pointersInParallel
dpb_O1_regrouped == regrouped
dpb_O1_vector1 == vector1(4)
dpb_O1_vectors2to8 == vectors2to8(4)
dpb_O1_vectors10and12 == vectors10and12(4)
dpb_O1_vectorsRegrouped == vectorsRegrouped(4)

dpb_O1 ==
  dpb_O1_basic @@ dpb_O1_arrayBy3to6 @@ dpb_O1_arrayBy7to16 @@ dpb_O1_pointers
  @@ dpb_O1_upToFour @@ dpb_O1_upToSixteen @@ dpb_O1_fiveToSeven @@ dpb_O1_eightToTen
  @@ dpb_O1_pointersInParallel @@ dpb_O1_regrouped @@ dpb_O1_vector1 @@ dpb_O1_vectors2to8
  @@ dpb_O1_vectors10and12 @@ dpb_O1_vectorsRegrouped

\* dpb-O2.c: the same file, compiled with -O2.
dpb_O2_basic == basic
dpb_O2_arrayBy3to6 == arrayBy3to6
dpb_O2_arrayBy7to16 == arrayBy7to16
dpb_O2_pointers == pointers
dpb_O2_upToFour == upToFour
dpb_O2_upToSixteen == upToSixteen
dpb_O2_fiveToSeven == fiveToSeven
dpb_O2_eightToTen == eightToTen
dpb_O2_pointersInParallel == pointersInParallel
dpb_O2_regrouped == regrouped
dpb_O2_vector1 == vector1(4)
dpb_O2_vectors2to8 == vectors2to8(4)
dpb_O2_vectors10and12 == vectors10and12(4)
dpb_O2_vectorsRegrouped == vectorsRegrouped(4)

dpb_O2 ==
  dpb_O2_basic @@ dpb_O2_arrayBy3to6 @@ dpb_O2_arrayBy7to16 @@ dpb_O2_pointers
  @@ dpb_O2_upToFour @@ dpb_O2_upToSixteen @@ dpb_O2_fiveToSeven @@ dpb_O2_eightToTen
  @@ dpb_O2_pointersInParallel @@ dpb_O2_regrouped @@ dpb_O2_vector1 @@ dpb_O2_vectors2to8
  @@ dpb_O2_vectors10and12 @@ dpb_O2_vectorsRegrouped

\* fpb-O1.c: float products, VBYTES 32.
fpb_O1_basic == basic
fpb_O1_arrayBy3to6 == arrayBy3to6
fpb_O1_arrayBy7to16 == arrayBy7to16
fpb_O1_pointers == pointers
fpb_O1_upToFour == upToFour
fpb_O1_upToSixteen == upToSixteen
fpb_O1_fiveToSeven == fiveToSeven
fpb_O1_eightToTen == eightToTen
fpb_O1_pointersInParallel == firstPointers
fpb_O1_regrouped == regrouped
fpb_O1_vector1 == vector1(8)
fpb_O1_vectors2to8 == vectors2to8(8)
fpb_O1_vectors10and12 == vectors10and12(8)
fpb_O1_vectorsRegrouped == vectorsRegrouped(8)

fpb_O1 ==
  fpb_O1_basic @@ fpb_O1_arrayBy3to6 @@ fpb_O1_arrayBy7to16 @@ fpb_O1_pointers
  @@ fpb_O1_upToFour @@ fpb_O1_upToSixteen @@ fpb_O1_fiveToSeven @@ fpb_O1_eightToTen
  @@ fpb_O1_pointersInParallel @@ fpb_O1_regrouped @@ fpb_O1_vector1 @@ fpb_O1_vectors2to8
  @@ fpb_O1_vectors10and12 @@ fpb_O1_vectorsRegrouped

\* fpb-O2.c: the same file, compiled with -O2.
fpb_O2_basic == basic
fpb_O2_arrayBy3to6 == arrayBy3to6
fpb_O2_arrayBy7to16 == arrayBy7to16
fpb_O2_pointers == pointers
fpb_O2_upToFour == upToFour
fpb_O2_upToSixteen == upToSixteen
fpb_O2_fiveToSeven == fiveToSeven
fpb_O2_eightToTen == eightToTen
fpb_O2_pointersInParallel == firstPointers
fpb_O2_regrouped == regrouped
fpb_O2_vector1 == vector1(8)
fpb_O2_vectors2to8 == vectors2to8(8)
fpb_O2_vectors10and12 == vectors10and12(8)
fpb_O2_vectorsRegrouped == vectorsRegrouped(8)

fpb_O2 ==
  fpb_O2_basic @@ fpb_O2_arrayBy3to6 @@ fpb_O2_arrayBy7to16 @@ fpb_O2_pointers
  @@ fpb_O2_upToFour @@ fpb_O2_upToSixteen @@ fpb_O2_fiveToSeven @@ fpb_O2_eightToTen
  @@ fpb_O2_pointersInParallel @@ fpb_O2_regrouped @@ fpb_O2_vector1 @@ fpb_O2_vectors2to8
  @@ fpb_O2_vectors10and12 @@ fpb_O2_vectorsRegrouped

\* lsb-O1.c: long sums, before unroll20x20a.
lsb_O1_basic == basic
lsb_O1_arrayBy3to6 == arrayBy3to6
lsb_O1_arrayBy7to16 == arrayBy7to16
lsb_O1_pointers == pointers
lsb_O1_upToFour == upToFour
lsb_O1_upToSixteen == upToSixteen
lsb_O1_fiveToSeven == Without(fiveToSeven, {"unroll20x20a"})
lsb_O1_eightToTen == eightToTen
lsb_O1_pointersInParallel == firstPointers
lsb_O1_regrouped == regrouped
lsb_O1_vector1 == vector1(4)
lsb_O1_vectors2to8 == vectors2to8(4)
lsb_O1_vectors10and12 == vectors10and12(4)
lsb_O1_vectorsRegrouped == vectorsRegrouped(4)

lsb_O1 ==
  lsb_O1_basic @@ lsb_O1_arrayBy3to6 @@ lsb_O1_arrayBy7to16 @@ lsb_O1_pointers
  @@ lsb_O1_upToFour @@ lsb_O1_upToSixteen @@ lsb_O1_fiveToSeven @@ lsb_O1_eightToTen
  @@ lsb_O1_pointersInParallel @@ lsb_O1_regrouped @@ lsb_O1_vector1 @@ lsb_O1_vectors2to8
  @@ lsb_O1_vectors10and12 @@ lsb_O1_vectorsRegrouped

\* lpb-O1.c: long products, before unroll16x16a and simd_v10.
lpb_O1_basic == basic
lpb_O1_arrayBy3to6 == arrayBy3to6
lpb_O1_arrayBy7to16 == arrayBy7to16
lpb_O1_pointers == pointers
lpb_O1_upToFour == upToFour
lpb_O1_upToSixteen == Without(upToSixteen, {"unroll16x16a"})
lpb_O1_fiveToSeven == Without(fiveToSeven, {"unroll20x20a"})
lpb_O1_eightToTen == eightToTen
lpb_O1_pointersInParallel == firstPointers
lpb_O1_regrouped == regrouped
lpb_O1_vector1 == vector1(4)
lpb_O1_vectors2to8 == vectors2to8(4)
lpb_O1_vectors10and12 == Without(vectors10and12(4), {"simd_v10"})
lpb_O1_vectorsRegrouped == vectorsRegrouped(4)

lpb_O1 ==
  lpb_O1_basic @@ lpb_O1_arrayBy3to6 @@ lpb_O1_arrayBy7to16 @@ lpb_O1_pointers
  @@ lpb_O1_upToFour @@ lpb_O1_upToSixteen @@ lpb_O1_fiveToSeven @@ lpb_O1_eightToTen
  @@ lpb_O1_pointersInParallel @@ lpb_O1_regrouped @@ lpb_O1_vector1 @@ lpb_O1_vectors2to8
  @@ lpb_O1_vectors10and12 @@ lpb_O1_vectorsRegrouped

\* ipb-O1.c: int products, the same file.
ipb_O1_basic == basic
ipb_O1_arrayBy3to6 == arrayBy3to6
ipb_O1_arrayBy7to16 == arrayBy7to16
ipb_O1_pointers == pointers
ipb_O1_upToFour == upToFour
ipb_O1_upToSixteen == Without(upToSixteen, {"unroll16x16a"})
ipb_O1_fiveToSeven == Without(fiveToSeven, {"unroll20x20a"})
ipb_O1_eightToTen == eightToTen
ipb_O1_pointersInParallel == firstPointers
ipb_O1_regrouped == regrouped
ipb_O1_vector1 == vector1(8)
ipb_O1_vectors2to8 == vectors2to8(8)
ipb_O1_vectors10and12 == Without(vectors10and12(8), {"simd_v10"})
ipb_O1_vectorsRegrouped == vectorsRegrouped(8)

ipb_O1 ==
  ipb_O1_basic @@ ipb_O1_arrayBy3to6 @@ ipb_O1_arrayBy7to16 @@ ipb_O1_pointers
  @@ ipb_O1_upToFour @@ ipb_O1_upToSixteen @@ ipb_O1_fiveToSeven @@ ipb_O1_eightToTen
  @@ ipb_O1_pointersInParallel @@ ipb_O1_regrouped @@ ipb_O1_vector1 @@ ipb_O1_vectors2to8
  @@ ipb_O1_vectors10and12 @@ ipb_O1_vectorsRegrouped

\* dpb.c: double products, VBYTES 16.
dpb_basic == basic
dpb_arrayBy3to6 == arrayBy3to6
dpb_arrayBy7to16 == arrayBy7to16
dpb_pointers == pointers
dpb_upToFour == upToFour
dpb_upToSixteen == Without(upToSixteen, {"unroll16x16a"})
dpb_fiveToSeven == Without(fiveToSeven, {"unroll20x20a"})
dpb_eightToTen == eightToTen
dpb_pointersInParallel == firstPointers
dpb_regrouped == regrouped
dpb_vector1 == vector1(2)
dpb_vectors2to8 == vectors2to8(2)
dpb_vectors10and12 == Without(vectors10and12(2), {"simd_v10"})
dpb_vectorsRegrouped == vectorsRegrouped(2)

dpb ==
  dpb_basic @@ dpb_arrayBy3to6 @@ dpb_arrayBy7to16 @@ dpb_pointers @@ dpb_upToFour
  @@ dpb_upToSixteen @@ dpb_fiveToSeven @@ dpb_eightToTen @@ dpb_pointersInParallel
  @@ dpb_regrouped @@ dpb_vector1 @@ dpb_vectors2to8 @@ dpb_vectors10and12
  @@ dpb_vectorsRegrouped

-----------------------------------------------------------------------------
(* The calls a benchmark makes of the kernels named in f.                  *)

\* No kernel of the table is the one that loses acc6.
KernelsOf(f) == {f[x] : x \in DOMAIN f} \ {Forgetful}

\* Lengths around the rounds of a kernel, and below the first one.
Lengths(c) ==
  IF c.v = 1 THEN 0 .. 2 * c.k + 1 ELSE {0, 1, c.k - 1, c.k, c.k + 1, 2 * c.k + c.v - 1}

Placements(c) == {0, 1, c.v - 1} \cap (0 .. c.v - 1)

Calls(kernels) ==
  UNION {[kernel : {c}, n : Lengths(c), skew : Placements(c)] : c \in kernels}

Saved == {dpb_O1, dpb_O2, fpb_O1, fpb_O2, lsb_O1, lpb_O1, ipb_O1, dpb}

\* combine.c with the vectors of int and float, and of long and double.
MCProblems == Calls(UNION {KernelsOf(f) : f \in Saved \cup {combine(4), combine(8)}})
=============================================================================
