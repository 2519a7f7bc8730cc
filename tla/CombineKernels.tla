---------------------------- MODULE CombineKernels ----------------------------
(***************************************************************************)
(* The kernels of csapp-master/opt/combine.c, in the order of the file, by *)
(* name.  They are in sections of five or so: a definition each.           *)
(*                                                                         *)
(* V is VSIZE, the elements in a vector: VBYTES / sizeof(data_t).          *)
(***************************************************************************)
EXTENDS Combine, TLC

basic == [
  combine1 |-> Unrolled(1, 1), combine2 |-> Unrolled(1, 1), combine3 |-> Unrolled(1, 1),
  combine3w |-> Unrolled(1, 1), combine4 |-> Unrolled(1, 1), combine4b |-> Unrolled(1, 1),
  combine4p |-> Unrolled(1, 1), combine5 |-> Unrolled(2, 1)]

arrayBy3to6 == [
  unroll3a |-> Unrolled(3, 1), combine5p |-> Unrolled(2, 1), unroll2aw |-> Unrolled(2, 1),
  unroll4a |-> Unrolled(4, 1), unroll5a |-> Unrolled(5, 1), unroll6a |-> Unrolled(6, 1)]

arrayBy7to16 == [
  unroll7a |-> Unrolled(7, 1), unroll8a |-> Unrolled(8, 1), unroll9a |-> Unrolled(9, 1),
  unroll10a |-> Unrolled(10, 1), unroll16a |-> Unrolled(16, 1), unroll2 |-> UnrolledOver(2)]

pointers == [
  unroll3 |-> Unrolled(3, 1), unroll4 |-> Unrolled(4, 1), unroll8 |-> UnrolledOver(8),
  unroll16 |-> UnrolledOver(16), combine6 |-> Unrolled(2, 2)]

upToFour == [
  unroll4x2a |-> Unrolled(4, 2), unroll8x2a |-> Unrolled(8, 2), unroll3x3a |-> Unrolled(3, 3),
  unroll4x4a |-> Unrolled(4, 4), unroll8x4a |-> Unrolled(8, 4)]

upToSixteen == [
  unroll12x6a |-> Unrolled(12, 6), unroll12x12a |-> Unrolled(12, 12),
  unroll16x16a |-> Unrolled(16, 16)]

fiveToSeven == [
  unroll20x20a |-> Unrolled(20, 20), unroll5x5a |-> Unrolled(5, 5),
  unroll6x6a |-> Unrolled(6, 6), unroll7x7a |-> Unrolled(7, 7)]

eightToTen == [
  unroll8x8a |-> Unrolled(8, 8), unroll9x9a |-> Unrolled(9, 9),
  unroll10x10a |-> Unrolled(10, 10), unrollx2as |-> Halves, unroll4x2as |-> Halves]

pointersInParallel == [
  unroll8x2 |-> Unrolled(8, 2), unroll9x3 |-> Unrolled(9, 3), unroll8x4 |-> Unrolled(8, 4),
  unroll8x8 |-> Unrolled(8, 8), combine7 |-> Unrolled(2, 1)]

\* acc = acc OP (data[i] OP data[i+1] ...).
regrouped == [
  unroll3aa |-> Unrolled(3, 1), unroll4aa |-> Unrolled(4, 1), unroll5aa |-> Unrolled(5, 1),
  unroll6aa |-> Unrolled(6, 1), unroll7aa |-> Unrolled(7, 1), unroll8aa |-> Unrolled(8, 1)]

vector1(V) == [
  unroll9aa |-> Unrolled(9, 1), unroll10aa |-> Unrolled(10, 1), unroll12aa |-> Unrolled(12, 1),
  simd_v1 |-> Vector(1, 1, V)]

vectors2to8(V) == [
  simd_v2 |-> Vector(2, 2, V), simd_v4 |-> Vector(4, 4, V), simd_v8 |-> Vector(8, 8, V)]

vectors10and12(V) == [simd_v10 |-> Vector(10, 10, V), simd_v12 |-> Vector(12, 12, V)]

vectorsRegrouped(V) == [
  simd_v2a |-> Vector(2, 1, V), simd_v4a |-> Vector(4, 1, V), simd_v8a |-> Vector(8, 1, V)]

\* The whole of combine.c.
combine(V) ==
  basic @@ arrayBy3to6 @@ arrayBy7to16 @@ pointers @@ upToFour @@ upToSixteen @@ fiveToSeven
  @@ eightToTen @@ pointersInParallel @@ regrouped @@ vector1(V) @@ vectors2to8(V)
  @@ vectors10and12(V) @@ vectorsRegrouped(V)
=============================================================================
