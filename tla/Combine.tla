------------------------------- MODULE Combine -------------------------------
(***************************************************************************)
(* The loop of a combining kernel, csapp-master/opt/combine.c: combine the *)
(* elements of a vector with OP, several in each round of an unrolled loop *)
(* and into several accumulators, then the elements that are left one by   *)
(* one.  The kernels themselves are in module CombineKernels.              *)
(*                                                                         *)
(* OP is taken as associative and commutative, as the kernels do, so an    *)
(* accumulator is the set of the indexes combined into it, IDENT the empty *)
(* set, and the result the union of the accumulators.                      *)
(***************************************************************************)
EXTENDS Integers, FiniteSets

CONSTANT Problems  (* The calls: a kernel, a length and a placement each.  *)

(***************************************************************************)
(* A kernel: its loop goes on while the last element of a round is there   *)
(* ("last": i < length-(k-1), cnt >= k), while there is a round left       *)
(* ("over": data < dend with dend short of length%k elements) or through   *)
(* both halves of the vector at once ("halves").  The j-th of the k        *)
(* statements of a round is acc[into[j]] = acc[from[j]] OP data[...].  The *)
(* elements before the first aligned one, and after the last round, go to  *)
(* acc[rest]; vectors are v elements wide.                                 *)
(***************************************************************************)
Loops == {"last", "over", "halves"}

Kernel(k, v, into, from, rest, accs, limit) ==
  [k |-> k, v |-> v, into |-> into, from |-> from, rest |-> rest, accs |-> accs, limit |-> limit]

\* k elements a round, over l accumulators in turn; the rest into the first.
Unrolled(k, l) ==
  LET into == [j \in 0 .. k - 1 |-> j % l] IN Kernel(k, 1, into, into, 0, l, "last")

\* The pointer loops that test for the end with length % k.
UnrolledOver(k) == [Unrolled(k, 1) EXCEPT !.limit = "over"]

\* c vectors of v elements a round, over l vector accumulators; `result'
\* comes after the elements of these.
Vector(c, l, v) ==
  LET into == [j \in 0 .. c * v - 1 |-> j % (l * v)]
  IN  Kernel(c * v, v, into, into, l * v, l * v + 1, "last")

\* unrollx2as: one element of each half a round, the odd one with the second.
Halves ==
  LET into == [j \in 0 .. 1 |-> j] IN Kernel(2, 1, into, into, 1, 2, "halves")

\* What any kernel looks like, whatever its author wrote in the statements.
IsKernel(c) ==
  /\ c.k \in Nat \ {0} /\ c.v \in Nat \ {0} /\ c.accs \in Nat \ {0}
  /\ c.rest \in 0 .. c.accs - 1
  /\ c.into \in [0 .. c.k - 1 -> 0 .. c.accs - 1]
  /\ c.from \in [0 .. c.k - 1 -> 0 .. c.accs - 1]
  /\ c.limit \in Loops
  /\ c.limit # "last" => c.v = 1
  /\ c.limit = "halves" => c.k = 2

ASSUME ProblemsAssumption ==
  \A pr \in Problems : IsKernel(pr.kernel) /\ pr.n \in Nat /\ pr.skew \in Nat

\* What the author of a kernel must get right in the statements, and a round
\* of whole vectors.
Sound(c) == c.from = c.into /\ c.k % c.v = 0

AllSound == \A pr \in Problems : Sound(pr.kernel)

-----------------------------------------------------------------------------
VARIABLES
  problem,  (* The call: never changes.                                    *)
  phase,
  p,        (* `i', or `data' as an index: where the round starts.         *)
  j,        (* The statement of the round.                                 *)
  acc,
  reads     (* History: how many elements were read.                       *)

kernelVars == <<problem, phase, p, j, acc, reads>>

kernel == problem.kernel
length == problem.n
Accs   == 0 .. kernel.accs - 1

\* A fault: the second half is taken to start one element late.
IndexLate(q, s) == IF kernel.limit = "halves" THEN q + s * ((length + 1) \div 2) ELSE q + s

\* The index statement s of the round at q reads.
Index(q, s) == IF kernel.limit = "halves" THEN q + s * (length \div 2) ELSE q + s

\* By how much a round moves i or data.
Stride == IF kernel.limit = "halves" THEN 1 ELSE kernel.k

\* A fault: the limit is short by k-2.
LastLate(q) == q < length - (kernel.k - 2)

\* Is there another round at q?
Last(q)   == q < length - (kernel.k - 1)
Over(q)   == q < length - (length % kernel.k)
Half(q)   == q < length \div 2

Round(q) ==
  \/ kernel.limit = "last" /\ Last(q)
  \/ kernel.limit = "over" /\ Over(q)
  \/ kernel.limit = "halves" /\ Half(q)

\* data % VBYTES: is the element at q where no vector may start?
Unaligned(q) == (problem.skew + q) % kernel.v # 0

KernelInit ==
  /\ problem \in Problems
  /\ phase = "align" /\ p = 0 /\ j = 0
  /\ acc = [a \in Accs |-> {}]
  /\ reads = 0

Combined(into, from, i) ==
  /\ acc' = [acc EXCEPT ![into] = acc[from] \cup {i}]
  /\ reads' = reads + 1

\* Single step until the data are aligned.
Align ==
  /\ phase = "align" /\ Unaligned(p) /\ p < length
  /\ Combined(kernel.rest, kernel.rest, p)
  /\ p' = p + 1
  /\ UNCHANGED <<problem, phase, j>>

Aligned ==
  /\ phase = "align" /\ ~(Unaligned(p) /\ p < length)
  /\ phase' = "rounds"
  /\ UNCHANGED <<problem, p, j, acc, reads>>

\* One statement of the unrolled loop; the last one moves to the next round.
Statement ==
  /\ phase = "rounds" /\ (j > 0 \/ Round(p))
  /\ Combined(kernel.into[j], kernel.from[j], Index(p, j))
  /\ IF j + 1 < kernel.k THEN j' = j + 1 /\ p' = p ELSE j' = 0 /\ p' = p + Stride
  /\ UNCHANGED <<problem, phase>>

NoRoundLeft ==
  /\ phase = "rounds" /\ j = 0 /\ ~Round(p)
  /\ phase' = "rest"
  /\ p' = IF kernel.limit = "halves" THEN 2 * (length \div 2) ELSE p
  /\ UNCHANGED <<problem, j, acc, reads>>

\* Finish any remaining elements.
Finish ==
  /\ phase = "rest" /\ p < length
  /\ Combined(kernel.rest, kernel.rest, p)
  /\ p' = p + 1
  /\ UNCHANGED <<problem, phase, j>>

Return ==
  /\ phase = "rest" /\ p >= length
  /\ phase' = "done"
  /\ UNCHANGED <<problem, p, j, acc, reads>>

KernelNext == Align \/ Aligned \/ Statement \/ NoRoundLeft \/ Finish \/ Return

KernelSpec == KernelInit /\ [][KernelNext]_kernelVars

-----------------------------------------------------------------------------
(* Properties.                                                             *)

Phases == {"align", "rounds", "rest", "done"}

KernelTypeOK ==
  /\ IsKernel(kernel) /\ length \in Nat /\ problem.skew \in Nat
  /\ phase \in Phases
  /\ p \in Nat /\ j \in 0 .. kernel.k - 1 /\ reads \in Nat
  /\ acc \in [Accs -> SUBSET Nat]

\* No statement of a round reads before or past the vector: the bound of the
\* loop leaves room for all k of them, for lengths shorter than k too.
ReadsInside == UNION {acc[a] : a \in Accs} \subseteq 0 .. length - 1

\* The result is the combination of every element once: none is left out
\* between the prologue, the rounds and the rest, none is combined twice, and
\* no accumulator loses what it held.
EachElementOnce ==
  phase = "done" =>
    /\ UNION {acc[a] : a \in Accs} = 0 .. length - 1
    /\ \A a, b \in Accs : a # b => acc[a] \cap acc[b] = {}
    /\ reads = length

\* A round loads its vectors from aligned addresses only, wherever the vector
\* was placed and however many elements the prologue consumed.
LoadsAligned ==
  phase = "rounds" /\ j = 0 /\ Round(p) => (problem.skew + p) % kernel.v = 0

\* Both: whatever the length and the placement, every load is of elements of
\* the vector, and at an address that the instruction takes.
LoadsAreLegal == ReadsInside /\ LoadsAligned
=============================================================================
