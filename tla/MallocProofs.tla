----------------------------- MODULE MallocProofs -----------------------------
(***************************************************************************)
(* Proofs about mm.c, for any maximal length of the heap, any number of    *)
(* names for the client's blocks, any sizes it asks for and any size of    *)
(* the chunks by which the heap grows.  The invariant says that there is a *)
(* set T of headers such that the blocks at T tile the heap; that the      *)
(* lists hold the free ones by class and size, each once; that no two free *)
(* blocks touch; and that each name of the client has a block of its own.  *)
(* Each function of mm.c is a lemma about T, and the walk from header to   *)
(* header, with which the properties are stated, comes to T at the end.    *)
(***************************************************************************)
EXTENDS MMalloc, SequenceTheorems, WellFoundedInduction, TLAPS

\* The words of the heap.
Word == [is : {"tag", "link", "junk"} \cup Ids, n : Nat, free : BOOLEAN]

\* The header of the epilog.
End(h) == Len(h) - 1

\* A block of mm.c: an even number of words, at least two, between two equal tags.
IsBlock(h, t) == h[t].is = "tag" /\ h[t].n % 2 = 0 /\ h[t].n >= 2 /\ h[FTRP(h, t)] = h[t]

\* T are the headers of heap h, from the first block to the epilog.
Tiled(h, T) ==
  /\ h \in Seq(Word) /\ 3 \in T /\ End(h) \in T /\ T \subseteq 3 .. End(h)
  /\ h[1] = Tag(0, FALSE) /\ h[2] = Tag(0, FALSE)
  /\ h[End(h)] = Tag(0, FALSE) /\ h[End(h) + 1] = Tag(0, FALSE)
  /\ \A t \in T : t % 2 = 1
  /\ \A t \in T : t # End(h) => IsBlock(h, t) /\ NextBlock(h, t) \in T
  /\ \A t, u \in T : t < u => NextBlock(h, t) <= u

\* The headers of the free blocks and of those that are not.
FreeOf(h, T)  == {t \in T : h[t].free}
TakenOf(h, T) == {t \in T : ~h[t].free /\ t # End(h)}

\* The lists hold F, by size and from the largest to the smallest.
Listed(h, ls, F) ==
  /\ ls \in [Classes -> Seq(Nat)]
  /\ \A c \in Classes : \A i \in 1 .. Len(ls[c]) :
       ls[c][i] \in F /\ find_free_list_index[h[ls[c][i]].n] = c
  /\ \A p \in F : \E c \in Classes : \E i \in 1 .. Len(ls[c]) : ls[c][i] = p
  /\ \A c \in Classes : \A i, j \in 1 .. Len(ls[c]) :
       i < j => ls[c][i] # ls[c][j] /\ h[ls[c][i]].n >= h[ls[c][j]].n

\* No free block follows a free block, but for the blocks of X.
Apart(h, T, X) == \A t, u \in FreeOf(h, T) \ X : NextBlock(h, t) # u

\* A memory whose blocks are T; those of L are free and not listed.
Ordered(m, T, L, X) ==
  /\ m \in [heap : Seq(Word), lists : [Classes -> Seq(Nat)]]
  /\ Tiled(m.heap, T)
  /\ Listed(m.heap, m.lists, FreeOf(m.heap, T) \ L)
  /\ Apart(m.heap, T, X)
  /\ Len(m.heap) <= MaxHeap

\* Each name holds a block of its own, and all that are taken are held.
Held(T) ==
  /\ live \in [Ids -> [bp : Nat, words : Nat]]
  /\ TakenOf(heap, T) = {live[i].bp : i \in Ids} \ {0}
  /\ \A i, j \in Ids : i # j /\ live[i].bp = live[j].bp => live[i].bp = 0
  /\ \A i \in Ids :
       /\ live[i].bp = 0 => live[i].words = 0
       /\ live[i].bp # 0 => live[i].words <= heap[live[i].bp].n
       /\ \A k \in 1 .. live[i].words : heap[live[i].bp + k] = Data(i)

\* T are the blocks, in order, and the client's are held.
MInvOn(T) ==
  /\ Ordered(Memory, T, {}, {}) /\ Held(T)
  /\ previous_size \in Bytes \cup {0} /\ trapped \in {"no", "0 % 0", "copy to NULL"}

\* The inductive invariant.
MInv == \E T \in SUBSET Nat : MInvOn(T)

-----------------------------------------------------------------------------
(* How the blocks change.                                                  *)

\* The heaps differ only from a to z.
Same(h, h2, a, z) ==
  h2 \in Seq(Word) /\ Len(h2) = Len(h) /\ \A k \in 1 .. Len(h) : k \notin a .. z - 1 => h2[k] = h[k]

\* N cuts the words from a to z into blocks.
Cut(h, N, a, z) ==
  /\ a \in N /\ N \subseteq a .. z - 1
  /\ \A t \in N : t % 2 = 1 /\ IsBlock(h, t) /\ (NextBlock(h, t) \in N \/ NextBlock(h, t) = z)
  /\ \A t, u \in N : t < u => NextBlock(h, t) <= u

\* The taken blocks outside P stay, with what they hold.
Kept(h, T, h2, T2, P) ==
  \A t \in TakenOf(h, T) \ P :
    t \in TakenOf(h2, T2) /\ \A k \in t .. t + h[t].n + 1 : h2[k] = h[k]

\* The taken blocks change by P and Q only; the others keep what they hold.
Moves(m, T, m2, T2, P, Q) ==
  /\ TakenOf(m2.heap, T2) = (TakenOf(m.heap, T) \ P) \cup Q
  /\ Kept(m.heap, T, m2.heap, T2, P)

-----------------------------------------------------------------------------
(* Arithmetic.                                                             *)

\* The last word of a block of d words at b that ends before z.
LEMMA LastWord == \A b, d, z \in Int : d >= 0 /\ z = b + d + 2 => b <= z - 1
OBVIOUS

\* What rounding a number of bytes to words gives.
LEMMA WordsFacts ==
  \A b \in Nat : /\ Words(b) \in Nat /\ Words(b) % 2 = 0 /\ 4 * Words(b) >= b
                 /\ b > 0 => Words(b) >= 2
                 /\ Asked(b) \in Nat /\ \A w \in Nat : 4 * w >= b => Asked(b) <= w
BY DEF Words, Asked

\* extend_heap's rounding.
LEMMA EvenFacts ==
  \A x \in Nat \ {0} : Even(x) \in Nat /\ Even(x) % 2 = 0 /\ Even(x) >= x /\ Even(x) >= 2 /\ Even(x) <= x + 1
BY DEF Even

\* What round_up_power_2 may return up to a page.
Powers == {1, 2, 4, 8, 16, 32, 64, 128, 256, 512, 1024, 2048, 4096}

\* What round_up_power_2 looks for.
Reaches(p, x) == p >= x /\ p < 2 * x

\* round_up_power_2 gives a power of two that is large enough.
LEMMA RoundUp ==
  /\ round_up_power_2(0) = 0
  /\ \A x \in Nat : x # 0 /\ x <= 4096 => round_up_power_2(x) \in Powers /\ round_up_power_2(x) >= x
<1>1. {2 ^ k : k \in 0 .. 12} = Powers
  <2>1. /\ 2 ^ 0 = 1 /\ 2 ^ 1 = 2 /\ 2 ^ 2 = 4 /\ 2 ^ 3 = 8 /\ 2 ^ 4 = 16 /\ 2 ^ 5 = 32 /\ 2 ^ 6 = 64
        /\ 2 ^ 7 = 128 /\ 2 ^ 8 = 256 /\ 2 ^ 9 = 512 /\ 2 ^ 10 = 1024 /\ 2 ^ 11 = 2048 /\ 2 ^ 12 = 4096
    OBVIOUS
  <2>2. 0 .. 12 = {0, 1, 2, 3, 4, 5, 6, 7, 8, 9, 10, 11, 12}
    OBVIOUS
  <2>3. {2 ^ k : k \in {0, 1, 2, 3, 4, 5, 6, 7, 8, 9, 10, 11, 12}}
          = {2 ^ 0, 2 ^ 1, 2 ^ 2, 2 ^ 3, 2 ^ 4, 2 ^ 5, 2 ^ 6, 2 ^ 7, 2 ^ 8, 2 ^ 9, 2 ^ 10, 2 ^ 11, 2 ^ 12}
    OBVIOUS
  <2> QED BY <2>1, <2>2, <2>3 DEF Powers
<1>2. ASSUME NEW x \in Nat, x # 0, x <= 4096
      PROVE  \E p \in Powers : Reaches(p, x)
  BY <1>2 DEF Powers, Reaches
<1>3. ASSUME NEW x \in Nat, x # 0, x <= 4096
      PROVE  round_up_power_2(x) \in Powers /\ round_up_power_2(x) >= x
  <2>1. x # 0
    BY <1>3
  <2>2. round_up_power_2(x) = CHOOSE p \in {2 ^ k : k \in 0 .. 12} : Reaches(p, x)
    BY <2>1 DEF round_up_power_2, Reaches
  <2>3. round_up_power_2(x) = CHOOSE p \in Powers : Reaches(p, x)
    BY <1>1, <2>2
  <2>4. \E p \in Powers : Reaches(p, x)
    BY <1>2, <1>3
  <2>5. round_up_power_2(x) \in Powers /\ Reaches(round_up_power_2(x), x)
    BY <2>3, <2>4
  <2> QED BY <2>5 DEF Reaches
<1>4. round_up_power_2(0) = 0
  BY DEF round_up_power_2
<1> QED BY <1>3, <1>4

\* All of them are even but 1.
LEMMA PowersFacts == \A q \in Powers : q \in Nat /\ q >= 1 /\ (q # 1 => q % 2 = 0)
BY DEF Powers

\* mm_malloc's size in words is even, at least two, and holds what was asked.
LEMMA GrantedFacts ==
  \A b \in Nat \ {0} : Granted(b) \in Nat /\ Granted(b) % 2 = 0 /\ Granted(b) >= 2 /\ 4 * Granted(b) >= b
<1> SUFFICES ASSUME NEW b \in Nat \ {0}
             PROVE  Granted(b) \in Nat /\ Granted(b) % 2 = 0 /\ Granted(b) >= 2 /\ 4 * Granted(b) >= b
  OBVIOUS
<1>1. PICK x \in Nat : Granted(b) = Words(x) /\ x >= b
  <2>1. CASE b <= 4096
    <3>1. b # 0 /\ b <= 4096
      BY <2>1
    <3>2. round_up_power_2(b) \in Powers /\ round_up_power_2(b) >= b
      BY <3>1, RoundUp
    <3>3. round_up_power_2(b) \in Nat
      BY <3>2, PowersFacts
    <3> QED BY <2>1, <3>2, <3>3 DEF Granted
  <2>2. CASE b > 4096
    BY <2>2 DEF Granted
  <2> QED BY <2>1, <2>2
<1>2. /\ Words(x) \in Nat /\ Words(x) % 2 = 0 /\ 4 * Words(x) >= x
      /\ x > 0 => Words(x) >= 2
  BY WordsFacts
<1> QED BY <1>1, <1>2

\* mm_realloc's buffer, when it does not divide by zero.
LEMMA BufferFacts ==
  \A b, a \in Nat : a # b => Buffer(b, a) \in Nat /\ Buffer(b, a) % 2 = 0
<1> SUFFICES ASSUME NEW b \in Nat, NEW a \in Nat, a # b
             PROVE  Buffer(b, a) \in Nat /\ Buffer(b, a) % 2 = 0
  OBVIOUS
<1>1. Thousand(b) \in Nat /\ Thousand(b) % 2 = 0
  BY DEF Thousand
<1>2. PICK d \in Nat \ {0} : d = IF b >= a THEN b - a ELSE a - b
  OBVIOUS
<1>3. Buffer(b, a) = IF d < 4096 /\ d % round_up_power_2(d) # 0 THEN round_up_power_2(d) ELSE Thousand(b)
  BY <1>2 DEF Buffer
<1>4. CASE d < 4096 /\ d % round_up_power_2(d) # 0
  <2>1. d # 0 /\ d <= 4096
    BY <1>4
  <2>2. round_up_power_2(d) \in Powers
    BY <2>1, RoundUp
  <2>3. d % 1 = 0
    OBVIOUS
  <2>4. round_up_power_2(d) # 1
    BY <1>4, <2>3
  <2>5. \A q \in Powers : q # 1 => q \in Nat /\ q % 2 = 0
    BY PowersFacts
  <2> QED BY <1>3, <1>4, <2>2, <2>4, <2>5
<1>5. CASE ~(d < 4096 /\ d % round_up_power_2(d) # 0)
  BY <1>1, <1>3, <1>5
<1> QED BY <1>4, <1>5

-----------------------------------------------------------------------------
(* The class of a size.                                                    *)

\* A nonempty set of natural numbers has a least element.
LEMMA Least ==
  ASSUME NEW S, S \subseteq Nat, S # {}
  PROVE  \E n \in S : \A k \in S : n <= k
<1>1. IsWellFoundedOn(OpToRel(<, Nat), Nat)
  BY NatLessThanWellFounded
<1>2. PICK n \in S : \A k \in S : ~(<<k, n>> \in OpToRel(<, Nat))
  BY <1>1, WFMin
<1>3. ASSUME NEW k \in S
      PROVE  n <= k
  <2>1. k \in Nat /\ n \in Nat
    OBVIOUS
  <2>2. ~(k < n)
    BY <1>2, <2>1 DEF OpToRel
  <2> QED BY <2>1, <2>2
<1> QED BY <1>3

\* The halvings of the sizes up to n.
Halved(n, g) == g \in [0 .. n -> Nat] /\ \A k \in 0 .. n : g[k] = IF k > 1 THEN g[k \div 2] + 1 ELSE 0

\* Halving, which find_free_list_index does.
LEMMA Half ==
  \A k \in Nat : k > 1 =>
    /\ k \div 2 \in Nat /\ k \div 2 < k /\ k \div 2 >= 1
    /\ \A n \in Nat : n <= k /\ n > 1 => n \div 2 <= k \div 2
OBVIOUS

\* The number of halvings is one number,
LEMMA HalvedUnique ==
  ASSUME NEW a \in Nat, NEW b \in Nat, NEW f, NEW g, Halved(a, f), Halved(b, g)
  PROVE  \A k \in Nat : k <= a /\ k <= b => f[k] = g[k]
<1> DEFINE Bad == {k \in Nat : k <= a /\ k <= b /\ f[k] # g[k]}
<1> SUFFICES ASSUME Bad # {} PROVE FALSE
  OBVIOUS
<1>1. PICK k \in Bad : \A j \in Bad : k <= j
  BY Least
<1>2. k \in 0 .. a /\ k \in 0 .. b /\ f[k] # g[k]
  OBVIOUS
<1>3. k > 1
  BY <1>2 DEF Halved
<1>4. k \div 2 \in Nat /\ k \div 2 < k
  BY <1>2, <1>3, Half
<1>5. f[k \div 2] = g[k \div 2]
  <2>1. ~(k <= k \div 2)
    BY <1>4
  <2>2. k \div 2 \notin Bad
    BY <1>1, <2>1
  <2> QED BY <1>2, <1>4, <2>2
<1>6. f[k] = f[k \div 2] + 1 /\ g[k] = g[k \div 2] + 1
  BY <1>2, <1>3 DEF Halved
<1> QED BY <1>2, <1>5, <1>6

\* and there is one for each size.
LEMMA HalvedExists == \A n \in Nat : \E g : Halved(n, g)
<1> DEFINE Bad == {n \in Nat : \A g : ~Halved(n, g)}
<1> SUFFICES ASSUME Bad # {} PROVE FALSE
  OBVIOUS
<1>1. PICK n \in Bad : \A j \in Bad : n <= j
  BY Least
<1>2. n # 0
  <2>1. ASSUME n = 0 PROVE FALSE
    <3>1. PICK g : g = [k \in 0 .. 0 |-> 0]
      OBVIOUS
    <3>2. Halved(0, g)
      BY <3>1 DEF Halved
    <3> QED BY <2>1, <3>2
  <2> QED BY <2>1
<1>3. PICK a \in Nat : n = a + 1
  <2>1. n - 1 \in Nat /\ n = n - 1 + 1
    BY <1>2
  <2> QED BY <2>1
<1>4. PICK g : Halved(a, g)
  <2>1. ~(n <= a)
    BY <1>3
  <2> QED BY <1>1, <2>1
<1>5. PICK v \in Nat : v = IF n > 1 THEN g[n \div 2] + 1 ELSE 0
  <2>1. CASE n > 1
    <3>1. n \div 2 \in 0 .. a
      BY <1>3, <2>1, Half
    <3>2. g[n \div 2] \in Nat
      BY <1>4, <3>1 DEF Halved
    <3> QED BY <2>1, <3>2
  <2>2. CASE ~(n > 1)
    BY <2>2
  <2> QED BY <2>1, <2>2
<1>6. PICK h : h = [k \in 0 .. n |-> IF k = n THEN v ELSE g[k]]
  OBVIOUS
<1>7. \A k \in 0 .. n : k # n => k \in 0 .. a /\ g[k] \in Nat
  <2>1. \A k \in 0 .. n : k # n => k \in 0 .. a
    BY <1>3
  <2> QED BY <1>4, <2>1 DEF Halved
<1>8. h \in [0 .. n -> Nat]
  BY <1>5, <1>6, <1>7
<1>9. ASSUME NEW k \in 0 .. n
      PROVE  h[k] = IF k > 1 THEN h[k \div 2] + 1 ELSE 0
  <2>1. k > 1 => k \div 2 \in 0 .. n /\ k \div 2 # n /\ k \div 2 < k
    BY Half
  <2>2. k > 1 => h[k \div 2] = g[k \div 2]
    BY <1>6, <2>1
  <2>3. CASE k = n
    BY <1>5, <1>6, <2>2, <2>3
  <2>4. CASE k # n
    <3>1. k \in 0 .. a /\ h[k] = g[k]
      BY <1>6, <1>7, <2>4
    <3>2. g[k] = IF k > 1 THEN g[k \div 2] + 1 ELSE 0
      BY <1>4, <3>1 DEF Halved
    <3> QED BY <2>2, <3>1, <3>2
  <2> QED BY <2>3, <2>4
<1> QED BY <1>8, <1>9 DEF Halved

\* find_free_list_index, without the recursion.
LEMMA FindClass ==
  /\ find_free_list_index \in [Nat -> Nat]
  /\ \A n \in Nat : find_free_list_index[n] = IF n > 1 THEN find_free_list_index[n \div 2] + 1 ELSE 0
<1> DEFINE G(n) == CHOOSE g : Halved(n, g)
           F == [n \in Nat |-> G(n)[n]]
<1>1. \A n \in Nat : Halved(n, G(n))
  BY HalvedExists
<1>2. \A n \in Nat : n \in 0 .. n
  OBVIOUS
<1>3. F \in [Nat -> Nat]
  <2>1. \A n \in Nat : G(n)[n] \in Nat
    <3> HIDE DEF G
    <3> QED BY <1>1, <1>2 DEF Halved
  <2> QED BY <2>1
<1>4. ASSUME NEW n \in Nat
      PROVE  F[n] = IF n > 1 THEN F[n \div 2] + 1 ELSE 0
  <2> HIDE DEF G
  <2>1. F[n] = IF n > 1 THEN G(n)[n \div 2] + 1 ELSE 0
    BY <1>1, <1>2 DEF Halved
  <2>2. ASSUME n > 1
        PROVE  G(n)[n \div 2] = F[n \div 2]
    <3>1. PICK k : k = n \div 2
      OBVIOUS
    <3>2. k \in Nat /\ k <= n /\ k <= k
      BY <2>2, <3>1, Half
    <3>3. G(n)[k] = G(k)[k]
      BY <1>1, <3>2, HalvedUnique
    <3> QED BY <3>1, <3>2, <3>3
  <2> QED BY <2>1, <2>2
<1>5. F = [n \in Nat |-> IF n > 1 THEN F[n \div 2] + 1 ELSE 0]
  <2> HIDE DEF F
  <2>1. F = [n \in Nat |-> F[n]]
    BY <1>3
  <2> QED BY <1>4, <2>1
<1>6. \E f : f = [n \in Nat |-> IF n > 1 THEN f[n \div 2] + 1 ELSE 0]
  <2> HIDE DEF F
  <2> QED BY <1>5
<1>7. find_free_list_index = [n \in Nat |-> IF n > 1 THEN find_free_list_index[n \div 2] + 1 ELSE 0]
  BY <1>6 DEF find_free_list_index
<1>8. \A n \in Nat : find_free_list_index[n] = IF n > 1 THEN find_free_list_index[n \div 2] + 1 ELSE 0
  BY <1>7
<1>9. \A n \in Nat : find_free_list_index[n] \in Nat
  <2> DEFINE Bad == {n \in Nat : find_free_list_index[n] \notin Nat}
  <2> SUFFICES ASSUME Bad # {} PROVE FALSE
    OBVIOUS
  <2>1. PICK n \in Bad : \A j \in Bad : n <= j
    BY Least
  <2>2. n > 1
    BY <1>8
  <2>3. n \div 2 \in Nat /\ ~(n <= n \div 2)
    BY <2>2, Half
  <2>4. find_free_list_index[n \div 2] \in Nat
    BY <2>1, <2>3
  <2> QED BY <1>8, <2>2, <2>4
<1> QED BY <1>7, <1>8, <1>9

\* A larger size is in the same class or a later one.
LEMMA ClassGrows ==
  \A a, b \in Nat : a <= b => find_free_list_index[a] <= find_free_list_index[b]
<1> DEFINE Bad == {b \in Nat : \E a \in Nat : a <= b /\ ~(find_free_list_index[a] <= find_free_list_index[b])}
<1> SUFFICES ASSUME Bad # {} PROVE FALSE
  OBVIOUS
<1>1. PICK b \in Bad : \A j \in Bad : b <= j
  BY Least
<1>2. PICK a \in Nat : a <= b /\ ~(find_free_list_index[a] <= find_free_list_index[b])
  OBVIOUS
<1>3. \A n \in Nat : find_free_list_index[n] \in Nat
  BY FindClass
<1>4. a > 1 /\ b > 1
  <2>1. find_free_list_index[a] # 0
    BY <1>2, <1>3
  <2>2. a > 1
    BY <2>1, FindClass
  <2> QED BY <1>2, <2>2
<1>5. /\ find_free_list_index[a] = find_free_list_index[a \div 2] + 1
      /\ find_free_list_index[b] = find_free_list_index[b \div 2] + 1
  BY <1>4, FindClass
<1>6. a \div 2 \in Nat /\ b \div 2 \in Nat /\ b \div 2 < b /\ a \div 2 <= b \div 2
  BY <1>2, <1>4, Half
<1>7. ~(b <= b \div 2)
  BY <1>6
<1>8. find_free_list_index[a \div 2] <= find_free_list_index[b \div 2]
  BY <1>1, <1>6, <1>7
<1> QED BY <1>2, <1>3, <1>5, <1>6, <1>8

-----------------------------------------------------------------------------
(* Blocks.                                                                 *)

\* The fields of a word of a heap.
LEMMA WordFacts ==
  ASSUME NEW h \in Seq(Word)
  PROVE  \A k \in 1 .. Len(h) : /\ h[k] \in Word /\ h[k].n \in Nat /\ h[k].n \in Int /\ h[k].free \in BOOLEAN
                                /\ FTRP(h, k) = k + h[k].n + 1 /\ NextBlock(h, k) = k + h[k].n + 2
<1> SUFFICES ASSUME NEW k \in 1 .. Len(h)
             PROVE  /\ h[k] \in Word /\ h[k].n \in Nat /\ h[k].n \in Int /\ h[k].free \in BOOLEAN
                    /\ FTRP(h, k) = k + h[k].n + 1 /\ NextBlock(h, k) = k + h[k].n + 2
  OBVIOUS
<1>1. h[k] \in Word
  OBVIOUS
<1>2. h[k].n \in Nat /\ h[k].free \in BOOLEAN
  BY <1>1 DEF Word
<1>3. FTRP(h, k) = k + h[k].n + 1
  BY DEF FTRP
<1>4. NextBlock(h, k) = k + h[k].n + 2
  BY <1>2, <1>3 DEF NextBlock
<1> QED BY <1>1, <1>2, <1>3, <1>4

\* The fields of a tag.
LEMMA TagFacts ==
  \A n \in Nat, f \in BOOLEAN : Tag(n, f) \in Word /\ Tag(n, f).n = n /\ Tag(n, f).free = f /\ Tag(n, f).is = "tag"
BY DEF Tag, Word

\* Where a block is.
LEMMA TileFacts ==
  ASSUME NEW h, NEW T, Tiled(h, T)
  PROVE  /\ Len(h) \in Nat /\ End(h) \in T /\ 3 \in T /\ h[End(h)].n = 0 /\ ~h[End(h)].free
         /\ End(h) = Len(h) - 1 /\ Len(h) >= 4
         /\ \A t \in T : /\ t \in Nat /\ t \in Int /\ t >= 3 /\ t <= End(h) /\ t \in 1 .. Len(h)
                         /\ h[t] \in Word /\ h[t].n \in Nat /\ h[t].n \in Int /\ h[t].n % 2 = 0
                         /\ FTRP(h, t) = t + h[t].n + 1 /\ NextBlock(h, t) = t + h[t].n + 2
         /\ \A t \in T : t # End(h) => /\ h[t].n >= 2 /\ NextBlock(h, t) \in T /\ t + h[t].n + 2 <= End(h)
                                       /\ t + h[t].n + 1 \in 1 .. Len(h)
<1>1. h \in Seq(Word) /\ Len(h) \in Nat /\ End(h) \in T /\ 3 \in T /\ T \subseteq 3 .. End(h)
  BY DEF Tiled
<1>2. h[End(h)].n = 0 /\ ~h[End(h)].free
  BY DEF Tiled, Tag
<1>3. End(h) = Len(h) - 1
  BY DEF End
<1>4. \A t \in T : t \in Nat /\ t \in Int /\ t >= 3 /\ t <= End(h) /\ t \in 1 .. Len(h)
  BY <1>1, <1>3
<1>5. \A t \in T : /\ h[t] \in Word /\ h[t].n \in Nat /\ h[t].n \in Int
                   /\ FTRP(h, t) = t + h[t].n + 1 /\ NextBlock(h, t) = t + h[t].n + 2
  BY <1>1, <1>4, WordFacts
<1>6. \A t \in T : t # End(h) => h[t].n >= 2 /\ h[t].n % 2 = 0 /\ NextBlock(h, t) \in T
  BY DEF Tiled, IsBlock
<1>7. \A t \in T : h[t].n % 2 = 0
  BY <1>2, <1>6
<1>8. \A t \in T : t # End(h) => t + h[t].n + 2 <= End(h)
  BY <1>4, <1>5, <1>6
<1>9. \A t \in T : t # End(h) => t + h[t].n + 1 \in 1 .. Len(h)
  <2> SUFFICES ASSUME NEW t \in T, t # End(h) PROVE t + h[t].n + 1 \in 1 .. Len(h)
    OBVIOUS
  <2>1. t \in Nat /\ h[t].n \in Nat /\ t + h[t].n + 2 <= End(h)
    BY <1>4, <1>5, <1>8
  <2>2. PICK n \in Nat, l \in Nat : n = h[t].n /\ l = Len(h) /\ t + n + 2 <= l - 1
    BY <1>1, <1>3, <2>1
  <2>3. t + n + 1 \in 1 .. l
    BY <2>1, <2>2
  <2> QED BY <2>2, <2>3
<1> QED BY <1>1, <1>2, <1>3, <1>4, <1>5, <1>6, <1>7, <1>8, <1>9

\* A nonempty set of numbers up to e has a greatest element.
LEMMA Greatest ==
  ASSUME NEW e \in Nat, NEW S, S \subseteq 0 .. e, S # {}
  PROVE  \E n \in S : \A k \in S : k <= n
<1> DEFINE R == {k \in 0 .. e : e - k \in S}
<1>1. PICK s \in S : TRUE
  OBVIOUS
<1>2. s \in 0 .. e /\ e - s \in 0 .. e /\ e - (e - s) = s
  OBVIOUS
<1>3. R # {} /\ R \subseteq Nat
  <2>1. PICK r \in 0 .. e : e - r = s
    BY <1>2
  <2>2. e - r \in S
    BY <2>1
  <2>3. r \in R
    BY Zenon, <2>2
  <2>4. R \subseteq Nat
    OBVIOUS
  <2> QED BY Zenon, <2>3, <2>4
<1>4. PICK n \in R : \A k \in R : n <= k
  BY <1>3, Least
<1>5. e - n \in S /\ n \in 0 .. e
  OBVIOUS
<1>6. ASSUME NEW k \in S PROVE k <= e - n
  <2>1. k \in 0 .. e /\ e - k \in 0 .. e /\ e - (e - k) = k
    OBVIOUS
  <2>2. n <= e - k
    BY <1>4, <2>1
  <2> QED BY <1>5, <2>1, <2>2
<1> QED BY <1>5, <1>6

\* The block before another, found by its footer.
LEMMA Before ==
  ASSUME NEW h, NEW T, Tiled(h, T), NEW p \in T
  PROVE  /\ p = 3 => PrevBlock(h, p) = 1 /\ ~PrevIsFree(h, p)
         /\ p # 3 => /\ PrevBlock(h, p) \in T /\ PrevBlock(h, p) < p /\ PrevBlock(h, p) # End(h)
                     /\ NextBlock(h, PrevBlock(h, p)) = p
         /\ \A u \in T : NextBlock(h, u) = p => u = PrevBlock(h, p)
<1>1. ASSUME p = 3 PROVE PrevBlock(h, p) = 1 /\ ~PrevIsFree(h, p)
  <2>1. h[1] = Tag(0, FALSE) /\ h[2] = Tag(0, FALSE)
    BY DEF Tiled
  <2>2. h[1].free = FALSE /\ h[2].n = 0
    BY <2>1, TagFacts
  <2>3. PrevBlock(h, p) = 1
    BY <1>1, <2>2 DEF PrevBlock
  <2> QED BY <2>2, <2>3 DEF PrevIsFree
<1>2. ASSUME NEW u \in T, NextBlock(h, u) = p PROVE u = PrevBlock(h, p) /\ u # End(h) /\ u < p
  <2>1. /\ u \in Int /\ h[u].n \in Int /\ h[u].n \in Nat /\ p \in Int /\ p <= End(h) /\ u <= End(h)
        /\ FTRP(h, u) = u + h[u].n + 1 /\ p = u + h[u].n + 2
    BY <1>2, TileFacts
  <2>2. u < p
    BY <2>1
  <2>3. End(h) \in Int
    BY TileFacts
  <2>4. u # End(h)
    BY <2>1, <2>2, <2>3
  <2>5. h[FTRP(h, u)] = h[u]
    BY <2>4 DEF Tiled, IsBlock
  <2>6. FTRP(h, u) = p - 1
    BY <2>1
  <2>7. PrevBlock(h, p) = p - (h[u].n + 2)
    BY <2>5, <2>6 DEF PrevBlock
  <2> QED BY <2>1, <2>2, <2>4, <2>7
<1>3. ASSUME p # 3 PROVE \E u \in T : NextBlock(h, u) = p
  <2> DEFINE S == {t \in T : t < p}
  <2>1. p \in Nat /\ p >= 3 /\ p <= End(h) /\ 3 \in T
    BY TileFacts
  <2>2. S \subseteq 0 .. p
    BY <2>1, TileFacts
  <2>3. 3 \in S
    BY <1>3, <2>1
  <2>4. PICK u \in S : \A k \in S : k <= u
    BY <2>1, <2>2, <2>3, Greatest
  <2>5. u \in T /\ u < p /\ u # End(h)
    BY <2>1, <2>4, TileFacts
  <2>6. NextBlock(h, u) \in T /\ NextBlock(h, u) <= p
    BY <2>5 DEF Tiled
  <2>7. NextBlock(h, u) \in Nat /\ u \in Nat /\ NextBlock(h, u) > u
    BY <2>5, <2>6, TileFacts
  <2>8. ~(NextBlock(h, u) < p)
    BY <2>4, <2>6, <2>7
  <2> QED BY <2>1, <2>5, <2>6, <2>7, <2>8
<1> QED BY <1>1, <1>2, <1>3

\* The blocks from a to z give way to those of N.
LEMMA Replace ==
  ASSUME NEW h, NEW T, Tiled(h, T), NEW h2, NEW a \in T, NEW z \in T, a < z,
         NEW N, Same(h, h2, a, z), Cut(h2, N, a, z)
  PROVE  Tiled(h2, (T \ (a .. z - 1)) \cup N)
<1> DEFINE T2 == (T \ (a .. z - 1)) \cup N
<1>1. /\ Len(h) \in Nat /\ End(h) \in T /\ 3 \in T /\ End(h) = Len(h) - 1
      /\ \A t \in T : t \in Int /\ t >= 3 /\ t <= End(h) /\ t \in 1 .. Len(h)
  BY TileFacts
<1>2. Len(h2) = Len(h) /\ End(h2) = End(h) /\ h2 \in Seq(Word)
  BY DEF Same, End
<1>3. a \in Int /\ z \in Int /\ a >= 3 /\ z <= End(h) /\ End(h) \in Int
  BY <1>1
<1>4. \A t \in N : t \in Int /\ a <= t /\ t < z
  BY <1>3 DEF Cut
<1>5. 3 \in T2
  <2>1. CASE a = 3
    BY <2>1 DEF Cut
  <2>2. CASE a # 3
    BY <1>1, <1>3, <2>2
  <2> QED BY <2>1, <2>2
<1>6. End(h2) \in T2
  BY <1>1, <1>2, <1>3
<1>7. T2 \subseteq 3 .. End(h2)
  <2>1. \A t \in T : t \in 3 .. End(h)
    BY DEF Tiled
  <2>2. \A t \in N : t \in 3 .. End(h)
    BY <1>3, <1>4
  <2> QED BY <1>2, <2>1, <2>2
<1>8. h2[1] = Tag(0, FALSE) /\ h2[2] = Tag(0, FALSE) /\ h2[End(h)] = Tag(0, FALSE) /\ h2[End(h) + 1] = Tag(0, FALSE)
  <2>1. /\ 1 \in 1 .. Len(h) /\ 2 \in 1 .. Len(h) /\ End(h) \in 1 .. Len(h) /\ End(h) + 1 \in 1 .. Len(h)
        /\ 1 \notin a .. z - 1 /\ 2 \notin a .. z - 1 /\ End(h) \notin a .. z - 1 /\ End(h) + 1 \notin a .. z - 1
    BY <1>1, <1>3
  <2>2. h2[1] = h[1] /\ h2[2] = h[2] /\ h2[End(h)] = h[End(h)] /\ h2[End(h) + 1] = h[End(h) + 1]
    BY <2>1 DEF Same
  <2> QED BY <2>2 DEF Tiled
<1>9. \A t \in T2 : t % 2 = 1
  BY DEF Cut, Tiled
\* A block that stays.
<1>10. ASSUME NEW t \in T, t \notin a .. z - 1
       PROVE  /\ h2[t] = h[t] /\ NextBlock(h2, t) = NextBlock(h, t) /\ FTRP(h2, t) = FTRP(h, t)
              /\ t # End(h) => h2[FTRP(h, t)] = h[FTRP(h, t)] /\ NextBlock(h, t) \in T2
  <2>1. h2[t] = h[t]
    BY <1>1, <1>10 DEF Same
  <2>2. NextBlock(h2, t) = NextBlock(h, t) /\ FTRP(h2, t) = FTRP(h, t)
    BY <2>1 DEF NextBlock, FTRP
  <2>3. ASSUME t # End(h) PROVE h2[FTRP(h, t)] = h[FTRP(h, t)] /\ NextBlock(h, t) \in T2
    <3>1. /\ t \in Int /\ h[t].n \in Int /\ h[t].n >= 2 /\ NextBlock(h, t) \in T
          /\ FTRP(h, t) = t + h[t].n + 1 /\ NextBlock(h, t) = t + h[t].n + 2 /\ t + h[t].n + 1 \in 1 .. Len(h)
      BY <2>3, TileFacts
    <3>2. CASE t < a
      <4>1. NextBlock(h, t) <= a
        BY <3>2 DEF Tiled
      <4>2. FTRP(h, t) \notin a .. z - 1 /\ FTRP(h, t) \in 1 .. Len(h)
        BY <1>3, <3>1, <4>1
      <4>3. NextBlock(h, t) = a \/ NextBlock(h, t) \notin a .. z - 1
        BY <1>3, <3>1, <4>1
      <4>4. a \in N
        BY DEF Cut
      <4> QED BY <3>1, <4>2, <4>3, <4>4 DEF Same
    <3>3. CASE t >= z
      <4>1. FTRP(h, t) \notin a .. z - 1 /\ FTRP(h, t) \in 1 .. Len(h) /\ NextBlock(h, t) \notin a .. z - 1
        BY <1>3, <3>1, <3>3
      <4> QED BY <3>1, <4>1 DEF Same
    <3> QED BY <1>3, <1>10, <3>1, <3>2, <3>3
  <2> QED BY <2>1, <2>2, <2>3
<1>11. ASSUME NEW t \in T2, t # End(h2) PROVE IsBlock(h2, t) /\ NextBlock(h2, t) \in T2
  <2>1. CASE t \in N
    <3>1. z \in T2
      BY <1>3
    <3> QED BY <2>1, <3>1 DEF Cut
  <2>2. CASE t \in T /\ t \notin a .. z - 1
    <3>1. IsBlock(h, t)
      BY <1>2, <1>11, <2>2 DEF Tiled
    <3>2. /\ h2[t] = h[t] /\ NextBlock(h2, t) = NextBlock(h, t) /\ FTRP(h2, t) = FTRP(h, t)
          /\ h2[FTRP(h, t)] = h[FTRP(h, t)] /\ NextBlock(h, t) \in T2
      BY <1>2, <1>10, <1>11, <2>2
    <3> QED BY <3>1, <3>2 DEF IsBlock
  <2> QED BY <2>1, <2>2
<1>12. ASSUME NEW t \in T2, NEW u \in T2, t < u PROVE NextBlock(h2, t) <= u
  <2>1. CASE t \in N /\ u \in N
    BY <1>12, <2>1 DEF Cut
  <2>2. CASE t \in N /\ u \in T /\ u \notin a .. z - 1
    <3>1. u \in Int /\ z <= u
      BY <1>1, <1>3, <1>4, <1>12, <2>2
    <3>2. NextBlock(h2, t) \in N \/ NextBlock(h2, t) = z
      BY <2>2 DEF Cut
    <3>3. NextBlock(h2, t) \in Int /\ NextBlock(h2, t) <= z
      BY <1>3, <1>4, <3>2
    <3> QED BY <1>3, <3>1, <3>3
  <2>3. CASE t \in T /\ t \notin a .. z - 1 /\ u \in N
    <3>1. t \in Int /\ u \in Int /\ a <= u /\ t < a
      BY <1>1, <1>3, <1>4, <1>12, <2>3
    <3>2. NextBlock(h, t) <= a
      BY <2>3, <3>1 DEF Tiled
    <3>3. NextBlock(h2, t) = NextBlock(h, t)
      BY <1>10, <2>3
    <3>4. h[t].n \in Int /\ NextBlock(h, t) = t + h[t].n + 2
      BY <2>3, TileFacts
    <3> QED BY <1>3, <3>1, <3>2, <3>3, <3>4
  <2>4. CASE t \in T /\ t \notin a .. z - 1 /\ u \in T
    BY <1>10, <1>12, <2>4 DEF Tiled
  <2> QED BY <2>1, <2>2, <2>3, <2>4
<1> QED BY <1>2, <1>5, <1>6, <1>7, <1>8, <1>9, <1>11, <1>12 DEF Tiled

\* What a cut leaves as it was, and what it changes.
Changed(h, T, h2, T2, R, N) ==
  /\ FreeOf(h2, T2) = (FreeOf(h, T) \ R) \cup {t \in N : h2[t].free}
  /\ TakenOf(h2, T2) = (TakenOf(h, T) \ R) \cup {t \in N : ~h2[t].free}
  /\ Kept(h, T, h2, T2, R)
  /\ \A X : X \subseteq R /\ Apart(h, T, X) => Apart(h2, T2, N)
  /\ \A t \in T \ R : h2[t] = h[t]

\* What a cut does to the blocks around it.
LEMMA Around ==
  ASSUME NEW h, NEW T, Tiled(h, T), NEW h2, NEW a \in T, NEW z \in T, a < z,
         NEW N, Same(h, h2, a, z), Cut(h2, N, a, z),
         NEW T2, T2 = (T \ (a .. z - 1)) \cup N
  PROVE  Changed(h, T, h2, T2, a .. z - 1, N)
<1>1. /\ Len(h) \in Nat /\ End(h) \in T /\ End(h) = Len(h) - 1
      /\ \A t \in T : t \in Int /\ t >= 3 /\ t <= End(h) /\ t \in 1 .. Len(h)
  BY TileFacts
<1>2. Len(h2) = Len(h) /\ End(h2) = End(h)
  BY DEF Same, End
<1>3. a \in Int /\ z \in Int /\ a >= 3 /\ z <= End(h)
  BY <1>1
<1>4. \A t \in T \ (a .. z - 1) : h2[t] = h[t]
  BY <1>1 DEF Same
<1>5. \A t \in N : t # End(h)
  BY <1>1, <1>3 DEF Cut
<1>6. FreeOf(h2, T2) = (FreeOf(h, T) \ (a .. z - 1)) \cup {t \in N : h2[t].free}
  BY <1>4 DEF FreeOf
<1>7. TakenOf(h2, T2) = (TakenOf(h, T) \ (a .. z - 1)) \cup {t \in N : ~h2[t].free}
  BY <1>2, <1>4, <1>5 DEF TakenOf
<1>8. ASSUME NEW t \in TakenOf(h, T) \ (a .. z - 1), NEW k \in t .. t + h[t].n + 1
      PROVE  h2[k] = h[k]
  <2>1. t \in T /\ t # End(h) /\ t \notin a .. z - 1
    BY DEF TakenOf
  <2>2. /\ t \in Int /\ h[t].n \in Int /\ t >= 3
        /\ NextBlock(h, t) = t + h[t].n + 2 /\ t + h[t].n + 2 <= End(h)
    BY <2>1, TileFacts
  <2>3. k \in Int /\ t <= k /\ k < t + h[t].n + 2 /\ k \in 1 .. Len(h)
    BY <1>1, <2>2
  <2>4. k \notin a .. z - 1
    <3>1. CASE t < a
      <4>1. NextBlock(h, t) <= a
        BY <2>1, <3>1 DEF Tiled
      <4> QED BY <1>3, <2>2, <2>3, <4>1
    <3>2. CASE t >= z
      BY <1>3, <2>2, <2>3, <3>2
    <3> QED BY <1>3, <2>1, <2>2, <3>1, <3>2
  <2> QED BY <2>3, <2>4 DEF Same
<1>9. Kept(h, T, h2, T2, a .. z - 1)
  BY <1>7, <1>8 DEF Kept
<1>10. ASSUME NEW X, X \subseteq a .. z - 1, Apart(h, T, X) PROVE Apart(h2, T2, N)
  <2> SUFFICES ASSUME NEW t \in FreeOf(h2, T2) \ N, NEW u \in FreeOf(h2, T2) \ N
               PROVE  NextBlock(h2, t) # u
    BY DEF Apart
  <2>1. t \in FreeOf(h, T) \ X /\ u \in FreeOf(h, T) \ X /\ t \in T \ (a .. z - 1)
    BY <1>6, <1>10 DEF FreeOf
  <2>2. NextBlock(h2, t) = NextBlock(h, t)
    BY <1>4, <2>1 DEF NextBlock, FTRP
  <2> QED BY <1>10, <2>1, <2>2 DEF Apart
<1> QED BY <1>4, <1>6, <1>7, <1>9, <1>10 DEF Changed

\* A block is alone from its header to its footer.
LEMMA Alone ==
  ASSUME NEW h, NEW T, Tiled(h, T), NEW p \in T, p # End(h)
  PROVE  \A t \in T : t \in p .. NextBlock(h, p) - 1 <=> t = p
<1>1. p \in Int /\ h[p].n \in Int /\ h[p].n >= 2 /\ NextBlock(h, p) = p + h[p].n + 2 /\ \A t \in T : t \in Int
  BY TileFacts
<1>2. \A t \in T : p < t => NextBlock(h, p) <= t
  BY DEF Tiled
<1> QED BY <1>1, <1>2

\* Free blocks are apart when the one in doubt has no free neighbour.
LEMMA ApartDone ==
  ASSUME NEW h, NEW T, Tiled(h, T), NEW p \in T, Apart(h, T, {p}),
         ~h[p].free \/ (~PrevIsFree(h, p) /\ ~NextIsFree(h, p))
  PROVE  Apart(h, T, {})
<1> SUFFICES ASSUME NEW t \in FreeOf(h, T), NEW u \in FreeOf(h, T), NextBlock(h, t) = u
             PROVE  FALSE
  BY DEF Apart
<1>1. t \in T /\ u \in T /\ h[t].free /\ h[u].free
  BY DEF FreeOf
<1>2. CASE t = p
  BY <1>1, <1>2 DEF NextIsFree
<1>3. CASE u = p
  <2>1. t = PrevBlock(h, p)
    BY <1>1, <1>3, Before
  <2> QED BY <1>1, <1>3, <2>1 DEF PrevIsFree
<1>4. CASE t # p /\ u # p
  BY <1>4 DEF Apart
<1> QED BY <1>2, <1>3, <1>4

-----------------------------------------------------------------------------
(* The lists.                                                              *)

\* Only the sizes of listed blocks matter to the lists.
LEMMA ListedSame ==
  ASSUME NEW h, NEW ls, NEW F, Listed(h, ls, F), NEW h2, \A p \in F : h2[p].n = h[p].n
  PROVE  Listed(h2, ls, F)
<1>1. \A c \in Classes : \A i \in 1 .. Len(ls[c]) :
        ls[c][i] \in F /\ find_free_list_index[h[ls[c][i]].n] = c /\ h2[ls[c][i]].n = h[ls[c][i]].n
  BY DEF Listed
<1>2. \A c \in Classes : \A i \in 1 .. Len(ls[c]) :
        ls[c][i] \in F /\ find_free_list_index[h2[ls[c][i]].n] = c
  BY <1>1
<1>3. \A c \in Classes : \A i, j \in 1 .. Len(ls[c]) :
        i < j => ls[c][i] # ls[c][j] /\ h2[ls[c][i]].n >= h2[ls[c][j]].n
  <2> SUFFICES ASSUME NEW c \in Classes, NEW i \in 1 .. Len(ls[c]), NEW j \in 1 .. Len(ls[c]), i < j
               PROVE  ls[c][i] # ls[c][j] /\ h2[ls[c][i]].n >= h2[ls[c][j]].n
    OBVIOUS
  <2>1. ls[c][i] # ls[c][j] /\ h[ls[c][i]].n >= h[ls[c][j]].n
    BY DEF Listed
  <2>2. h2[ls[c][i]].n = h[ls[c][i]].n /\ h2[ls[c][j]].n = h[ls[c][j]].n
    BY <1>1
  <2> QED BY <2>1, <2>2
<1>4. ls \in [Classes -> Seq(Nat)] /\ \A p \in F : \E c \in Classes : \E i \in 1 .. Len(ls[c]) : ls[c][i] = p
  BY DEF Listed
<1> QED BY <1>2, <1>3, <1>4 DEF Listed

\* A sequence without its i-th element.
LEMMA RemoveAtFacts ==
  ASSUME NEW s \in Seq(Nat), NEW i \in 1 .. Len(s)
  PROVE  /\ RemoveAt(s, i) \in Seq(Nat) /\ Len(RemoveAt(s, i)) = Len(s) - 1
         /\ \A k \in 1 .. Len(s) - 1 : RemoveAt(s, i)[k] = IF k < i THEN s[k] ELSE s[k + 1]
<1>1. i \in Int /\ Len(s) \in Nat /\ 1 <= i /\ i <= Len(s)
  OBVIOUS
<1>2. SubSeq(s, 1, i - 1) \in Seq(Nat) /\ Len(SubSeq(s, 1, i - 1)) = i - 1
      /\ \A k \in 1 .. i - 1 : SubSeq(s, 1, i - 1)[k] = s[k]
  BY <1>1
<1>3. SubSeq(s, i + 1, Len(s)) \in Seq(Nat) /\ Len(SubSeq(s, i + 1, Len(s))) = Len(s) - i
      /\ \A k \in 1 .. Len(s) - i : SubSeq(s, i + 1, Len(s))[k] = s[i + k]
  BY <1>1
<1>4. PICK u \in Seq(Nat), v \in Seq(Nat) : u = SubSeq(s, 1, i - 1) /\ v = SubSeq(s, i + 1, Len(s))
  BY <1>2, <1>3
<1>5. RemoveAt(s, i) = u \o v
  BY <1>4 DEF RemoveAt
<1>6. Len(u) = i - 1 /\ Len(v) = Len(s) - i
  BY <1>2, <1>3, <1>4
<1>7. u \o v \in Seq(Nat) /\ Len(u \o v) = Len(s) - 1
  <2>1. u \o v \in Seq(Nat) /\ Len(u \o v) = Len(u) + Len(v)
    OBVIOUS
  <2> QED BY <1>1, <1>6, <2>1
<1>8. ASSUME NEW k \in 1 .. Len(s) - 1
      PROVE  (u \o v)[k] = IF k < i THEN s[k] ELSE s[k + 1]
  <2>1. CASE k < i
    <3>1. k \in 1 .. i - 1 /\ k \in 1 .. Len(u)
      BY <1>1, <1>6, <2>1
    <3>2. u[k] = s[k]
      BY <1>2, <1>4, <3>1
    <3> QED BY <2>1, <3>1, <3>2
  <2>2. CASE ~(k < i)
    <3>1. k - (i - 1) \in 1 .. Len(s) - i /\ i + (k - (i - 1)) = k + 1
      BY <1>1, <2>2
    <3>2. v[k - (i - 1)] = s[k + 1]
      BY <1>3, <1>4, <3>1
    <3>3. (u \o v)[k] = v[k - (i - 1)]
      <4>1. k \in 1 .. Len(u) + Len(v) /\ ~(k <= Len(u))
        BY <1>1, <1>6, <2>2
      <4>2. (u \o v)[k] = v[k - Len(u)]
        BY <4>1
      <4> QED BY <1>6, <4>2
    <3> QED BY <2>2, <3>2, <3>3
  <2> QED BY <2>1, <2>2
<1> QED BY <1>5, <1>7, <1>8

\* s2 is s with e at place i.
PutsAt(s, i, e, s2) ==
  /\ s2 \in Seq(Nat) /\ Len(s2) = Len(s) + 1
  /\ \A k \in 1 .. Len(s) + 1 : s2[k] = IF k < i THEN s[k] ELSE IF k = i THEN e ELSE s[k - 1]

\* A sequence with an element put in at i.
LEMMA InsertAtFacts ==
  ASSUME NEW s \in Seq(Nat), NEW i \in 1 .. Len(s) + 1, NEW e \in Nat
  PROVE  PutsAt(s, i, e, InsertAt(s, i, e))
<1>1. i \in Int /\ Len(s) \in Nat /\ 1 <= i /\ i <= Len(s) + 1
  OBVIOUS
<1>2. SubSeq(s, 1, i - 1) \in Seq(Nat) /\ Len(SubSeq(s, 1, i - 1)) = i - 1
      /\ \A k \in 1 .. i - 1 : SubSeq(s, 1, i - 1)[k] = s[k]
  BY <1>1
<1>3. SubSeq(s, i, Len(s)) \in Seq(Nat) /\ Len(SubSeq(s, i, Len(s))) = Len(s) + 1 - i
      /\ \A k \in 1 .. Len(s) + 1 - i : SubSeq(s, i, Len(s))[k] = s[i + k - 1]
  BY <1>1
<1>4. PICK u \in Seq(Nat), v \in Seq(Nat) : u = SubSeq(s, 1, i - 1) /\ v = SubSeq(s, i, Len(s))
  BY <1>2, <1>3
<1>5. InsertAt(s, i, e) = (u \o <<e>>) \o v
  BY <1>4 DEF InsertAt
<1>6. Len(u) = i - 1 /\ Len(v) = Len(s) + 1 - i
  BY <1>2, <1>3, <1>4
<1>7. PICK w \in Seq(Nat) : /\ w = u \o <<e>> /\ Len(w) = i
                            /\ \A k \in 1 .. i : w[k] = IF k < i THEN s[k] ELSE e
  <2>1. u \o <<e>> \in Seq(Nat) /\ Len(u \o <<e>>) = i
    BY <1>1, <1>6
  <2>2. ASSUME NEW k \in 1 .. i PROVE (u \o <<e>>)[k] = IF k < i THEN s[k] ELSE e
    <3>1. CASE k < i
      <4>1. k \in 1 .. i - 1 /\ k \in 1 .. Len(u)
        BY <1>1, <1>6, <3>1
      <4>2. u[k] = s[k]
        BY <1>2, <1>4, <4>1
      <4> QED BY <3>1, <4>1, <4>2
    <3>2. CASE k = i
      BY <1>1, <1>6, <3>2
    <3>3. k < i \/ k = i
      BY <1>1
    <3> QED BY <3>1, <3>2, <3>3
  <2> QED BY <2>1, <2>2
<1>8. w \o v \in Seq(Nat) /\ Len(w \o v) = Len(s) + 1
  BY <1>1, <1>6, <1>7
<1>9. ASSUME NEW k \in 1 .. Len(s) + 1
      PROVE  (w \o v)[k] = IF k < i THEN s[k] ELSE IF k = i THEN e ELSE s[k - 1]
  <2>1. CASE k <= i
    <3>1. k \in 1 .. i
      BY <1>1, <2>1
    <3>2. (w \o v)[k] = w[k]
      BY <1>7, <3>1
    <3> QED BY <1>7, <2>1, <3>1, <3>2
  <2>2. CASE ~(k <= i)
    <3>1. k - i \in 1 .. Len(s) + 1 - i /\ i + (k - i) - 1 = k - 1
      BY <1>1, <2>2
    <3>2. v[k - i] = s[k - 1]
      BY <1>3, <1>4, <3>1
    <3>3. (w \o v)[k] = v[k - i]
      <4>1. k \in 1 .. Len(w) + Len(v) /\ ~(k <= Len(w))
        BY <1>1, <1>6, <1>7, <2>2
      <4>2. (w \o v)[k] = v[k - Len(w)]
        BY <4>1
      <4> QED BY <1>7, <4>2
    <3> QED BY <1>1, <2>2, <3>2, <3>3
  <2> QED BY <2>1, <2>2
<1> QED BY <1>5, <1>7, <1>8, <1>9 DEF PutsAt

\* The first place where a test holds.
LEMMA MinFacts ==
  ASSUME NEW S, S \subseteq Nat, S # {}
  PROVE  Min(S) \in S /\ \A k \in S : Min(S) <= k
<1>1. \E n \in S : \A k \in S : n <= k
  BY Least
<1> QED BY Zenon, <1>1 DEF Min

\* RemoveFirst takes one occurrence out, if there is one.
LEMMA RemoveFirstFacts ==
  ASSUME NEW s \in Seq(Nat), NEW e
  PROVE  IF \E i \in 1 .. Len(s) : s[i] = e
         THEN \E i \in 1 .. Len(s) : s[i] = e /\ RemoveFirst(s, e) = RemoveAt(s, i)
         ELSE RemoveFirst(s, e) = s
<1> DEFINE I == {i \in 1 .. Len(s) : s[i] = e}
<1>1. ASSUME NEW i \in 1 .. Len(s), s[i] = e
      PROVE  \E j \in 1 .. Len(s) : s[j] = e /\ RemoveFirst(s, e) = RemoveAt(s, j)
  <2>1. I # {} /\ I \subseteq Nat
    BY <1>1
  <2>2. Min(I) \in I
    BY <2>1, MinFacts
  <2>3. SelectInSeq(s, LAMBDA v : v = e) = Min(I)
    BY <2>1 DEF SelectInSeq
  <2>4. RemoveFirst(s, e) = RemoveAt(s, Min(I))
    BY <1>1, <2>3 DEF RemoveFirst
  <2> QED BY <2>2, <2>4
<1>2. ASSUME ~\E i \in 1 .. Len(s) : s[i] = e
      PROVE  RemoveFirst(s, e) = s
  BY <1>2 DEF RemoveFirst
<1> QED BY <1>1, <1>2

\* A list without one of its blocks.
Distinct(s) == \A i, j \in 1 .. Len(s) : i < j => s[i] # s[j]

\* s2 is s without e, in the same order.
Drops(s, e, s2) ==
  /\ s2 \in Seq(Nat)
  /\ \A i \in 1 .. Len(s2) : s2[i] # e /\ \E j \in 1 .. Len(s) : s2[i] = s[j]
  /\ \A j \in 1 .. Len(s) : s[j] # e => \E i \in 1 .. Len(s2) : s2[i] = s[j]
  /\ \A i, j \in 1 .. Len(s2) : i < j => \E k, l \in 1 .. Len(s) : k < l /\ s2[i] = s[k] /\ s2[j] = s[l]

\* RemoveFirst takes an element out of a list that has it once.
LEMMA Dropped ==
  ASSUME NEW s \in Seq(Nat), NEW e, Distinct(s)
  PROVE  Drops(s, e, RemoveFirst(s, e))
<1> DEFINE s2 == RemoveFirst(s, e)
<1> SUFFICES Drops(s, e, s2)
  OBVIOUS
<1> HIDE DEF s2
<1>1. CASE \E i \in 1 .. Len(s) : s[i] = e
  <2>1. PICK a \in 1 .. Len(s) : s[a] = e /\ s2 = RemoveAt(s, a)
    BY <1>1, RemoveFirstFacts DEF s2
  <2>2. /\ s2 \in Seq(Nat) /\ Len(s2) = Len(s) - 1
        /\ \A k \in 1 .. Len(s) - 1 : s2[k] = IF k < a THEN s[k] ELSE s[k + 1]
    BY <2>1, RemoveAtFacts
  <2>3. Len(s) \in Nat /\ a \in Int /\ 1 <= a /\ a <= Len(s)
    OBVIOUS
  <2> DEFINE from(k) == IF k < a THEN k ELSE k + 1
  <2>4. ASSUME NEW k \in 1 .. Len(s2)
        PROVE  from(k) \in 1 .. Len(s) /\ from(k) # a /\ s2[k] = s[from(k)]
    <3>1. k \in 1 .. Len(s) - 1
      BY <2>2
    <3>2. s2[k] = IF k < a THEN s[k] ELSE s[k + 1]
      BY <2>2, <3>1
    <3> QED BY <2>3, <3>1, <3>2
  <2>5. ASSUME NEW k \in 1 .. Len(s2), NEW l \in 1 .. Len(s2), k < l
        PROVE  from(k) < from(l)
    BY <2>2, <2>3, <2>5
  <2>6. ASSUME NEW j \in 1 .. Len(s), s[j] # e
        PROVE  \E i \in 1 .. Len(s2) : s2[i] = s[j]
    <3>1. j # a
      BY <2>1, <2>6
    <3>2. CASE j < a
      <4>1. j \in 1 .. Len(s2) /\ from(j) = j
        BY <2>2, <2>3, <3>2
      <4> QED BY <2>4, <4>1
    <3>3. CASE j > a
      <4>1. PICK i \in 1 .. Len(s2) : i = j - 1 /\ from(i) = j
        BY <2>2, <2>3, <3>3
      <4> QED BY <2>4, <4>1
    <3> QED BY <2>3, <3>1, <3>2, <3>3
  <2> HIDE DEF from
  <2>7. ASSUME NEW i \in 1 .. Len(s2)
        PROVE  s2[i] # e /\ \E j \in 1 .. Len(s) : s2[i] = s[j]
    <3>1. PICK k \in 1 .. Len(s) : k = from(i) /\ k # a /\ s2[i] = s[k]
      BY <2>4
    <3>2. k < a \/ a < k
      BY <2>3, <3>1
    <3>3. s[k] # s[a]
      BY <3>2 DEF Distinct
    <3> QED BY <2>1, <3>1, <3>3
  <2>8. ASSUME NEW i \in 1 .. Len(s2), NEW j \in 1 .. Len(s2), i < j
        PROVE  \E k, l \in 1 .. Len(s) : k < l /\ s2[i] = s[k] /\ s2[j] = s[l]
    <3>1. PICK k \in 1 .. Len(s) : k = from(i) /\ s2[i] = s[k]
      BY <2>4
    <3>2. PICK l \in 1 .. Len(s) : l = from(j) /\ s2[j] = s[l]
      BY <2>4
    <3>3. k < l
      BY <2>5, <2>8, <3>1, <3>2
    <3> QED BY <3>1, <3>2, <3>3
  <2>9. s2 \in Seq(Nat)
    BY <2>2
  <2> QED BY <2>6, <2>7, <2>8, <2>9 DEF Drops
<1>2. CASE ~\E i \in 1 .. Len(s) : s[i] = e
  <2>1. s2 = s
    BY <1>2, RemoveFirstFacts DEF s2
  <2>2. \A i \in 1 .. Len(s) : s[i] # e /\ \E j \in 1 .. Len(s) : s[i] = s[j]
    BY <1>2
  <2>3. \A i, j \in 1 .. Len(s) : i < j => \E k, l \in 1 .. Len(s) : k < l /\ s[i] = s[k] /\ s[j] = s[l]
    OBVIOUS
  <2>4. \A j \in 1 .. Len(s) : s[j] # e => \E i \in 1 .. Len(s) : s[i] = s[j]
    OBVIOUS
  <2>5. Drops(s, e, s)
    BY <2>2, <2>3, <2>4 DEF Drops
  <2> QED BY <2>1, <2>5
<1> QED BY <1>1, <1>2

\* The lists, when p leaves them.
LEMMA ListedRemove ==
  ASSUME NEW h, NEW ls, NEW F, Listed(h, ls, F), NEW p
  PROVE  Listed(h, [c \in Classes |-> RemoveFirst(ls[c], p)], F \ {p})
<1> DEFINE ls2 == [c \in Classes |-> RemoveFirst(ls[c], p)]
<1>1. ASSUME NEW c \in Classes
      PROVE  Drops(ls[c], p, ls2[c])
  <2>1. ls[c] \in Seq(Nat) /\ Distinct(ls[c])
    BY DEF Listed, Distinct
  <2> QED BY <2>1, Dropped
<1>2. DOMAIN ls2 = Classes /\ ls2 = [c \in Classes |-> ls2[c]]
  OBVIOUS
<1> HIDE DEF ls2
<1>3. ls2 \in [Classes -> Seq(Nat)]
  BY <1>1, <1>2 DEF Drops
<1>4. ASSUME NEW c \in Classes, NEW i \in 1 .. Len(ls2[c])
      PROVE  ls2[c][i] \in F \ {p} /\ find_free_list_index[h[ls2[c][i]].n] = c
  <2>1. PICK j \in 1 .. Len(ls[c]) : ls2[c][i] = ls[c][j]
    BY <1>1 DEF Drops
  <2>2. ls2[c][i] # p
    BY <1>1 DEF Drops
  <2>3. ls[c][j] \in F /\ find_free_list_index[h[ls[c][j]].n] = c
    BY DEF Listed
  <2> QED BY <2>1, <2>2, <2>3
<1>5. ASSUME NEW q \in F \ {p}
      PROVE  \E c \in Classes : \E i \in 1 .. Len(ls2[c]) : ls2[c][i] = q
  <2>1. PICK c \in Classes : \E j \in 1 .. Len(ls[c]) : ls[c][j] = q
    BY DEF Listed
  <2>2. PICK j \in 1 .. Len(ls[c]) : ls[c][j] = q
    BY <2>1
  <2>3. Drops(ls[c], p, ls2[c]) /\ ls[c][j] # p
    BY <1>1, <2>2
  <2>4. \E i \in 1 .. Len(ls2[c]) : ls2[c][i] = ls[c][j]
    BY <2>3 DEF Drops
  <2> QED BY <2>2, <2>4
<1>6. ASSUME NEW c \in Classes, NEW i \in 1 .. Len(ls2[c]), NEW j \in 1 .. Len(ls2[c]), i < j
      PROVE  ls2[c][i] # ls2[c][j] /\ h[ls2[c][i]].n >= h[ls2[c][j]].n
  <2>1. PICK k \in 1 .. Len(ls[c]), l \in 1 .. Len(ls[c]) : k < l /\ ls2[c][i] = ls[c][k] /\ ls2[c][j] = ls[c][l]
    BY <1>1, <1>6 DEF Drops
  <2>2. ls[c][k] # ls[c][l] /\ h[ls[c][k]].n >= h[ls[c][l]].n
    BY <2>1 DEF Listed
  <2> QED BY <2>1, <2>2
<1>7. Listed(h, ls2, F \ {p})
  BY <1>3, <1>4, <1>5, <1>6 DEF Listed
<1> QED BY <1>7 DEF ls2

\* The place of a block in the list of its size.
PutIn(h, s, p) ==
  LET here == FirstNotLarger(h, s, h[p].n) IN IF here = 0 THEN Append(s, p) ELSE InsertAt(s, here, p)

\* A list by size, each block once.
Sorted(h, s) == \A i, j \in 1 .. Len(s) : i < j => s[i] # s[j] /\ h[s[i]].n >= h[s[j]].n

\* p is not in the list s.
Without(h, s, p) == h[p].n \in Int /\ \A i \in 1 .. Len(s) : s[i] # p /\ h[s[i]].n \in Int

\* s2 has what s has, and p.
Inserts(s, p, s2) ==
  /\ \A i \in 1 .. Len(s2) : s2[i] = p \/ \E j \in 1 .. Len(s) : s2[i] = s[j]
  /\ \A j \in 1 .. Len(s) : \E i \in 1 .. Len(s2) : s2[i] = s[j]
  /\ \E i \in 1 .. Len(s2) : s2[i] = p

\* PutIn keeps a list sorted.
LEMMA Inserted ==
  ASSUME NEW h, NEW s \in Seq(Nat), NEW p \in Nat, Without(h, s, p), Sorted(h, s)
  PROVE  PutIn(h, s, p) \in Seq(Nat) /\ Sorted(h, PutIn(h, s, p)) /\ Inserts(s, p, PutIn(h, s, p))
<1>a. h[p].n \in Int /\ \A i \in 1 .. Len(s) : s[i] # p /\ h[s[i]].n \in Int
  BY DEF Without
<1> DEFINE s2 == PutIn(h, s, p)
<1> SUFFICES s2 \in Seq(Nat) /\ Sorted(h, s2) /\ Inserts(s, p, s2)
  OBVIOUS
<1>0. PICK here : here = FirstNotLarger(h, s, h[p].n) /\ s2 = IF here = 0 THEN Append(s, p) ELSE InsertAt(s, here, p)
  BY DEF PutIn
<1> HIDE DEF s2
<1> DEFINE I == {i \in 1 .. Len(s) : h[s[i]].n <= h[p].n}
<1>1. Len(s) \in Nat
  OBVIOUS
<1>2. here = IF I # {} THEN Min(I) ELSE 0
  BY <1>0 DEF FirstNotLarger, SelectInSeq
<1>3. PICK a \in 1 .. Len(s) + 1 :
        /\ s2 \in Seq(Nat) /\ Len(s2) = Len(s) + 1
        /\ \A k \in 1 .. Len(s) + 1 : s2[k] = IF k < a THEN s[k] ELSE IF k = a THEN p ELSE s[k - 1]
        /\ \A k \in 1 .. Len(s) : k < a => h[s[k]].n >= h[p].n
        /\ \A k \in 1 .. Len(s) : k >= a => h[s[k]].n <= h[p].n
  <2>1. CASE I = {}
    <3>1. s2 = Append(s, p)
      BY <1>0, <1>2, <2>1
    <3>2. s2 \in Seq(Nat) /\ Len(s2) = Len(s) + 1
      BY <3>1
    <3>3. \A k \in 1 .. Len(s) + 1 : s2[k] = IF k < Len(s) + 1 THEN s[k] ELSE p
      BY <3>1
    <3>4. \A k \in 1 .. Len(s) : h[s[k]].n >= h[p].n
      <4>1. \A k \in 1 .. Len(s) : ~(h[s[k]].n <= h[p].n)
        BY <2>1
      <4> QED BY <1>a, <4>1
    <3>5. PICK a \in 1 .. Len(s) + 1 : a = Len(s) + 1
      BY <1>1
    <3>6. \A k \in 1 .. Len(s) : ~(k >= a)
      BY <1>1, <3>5
    <3>7. \A k \in 1 .. Len(s) + 1 : s2[k] = IF k < a THEN s[k] ELSE IF k = a THEN p ELSE s[k - 1]
      BY <1>1, <3>3, <3>5
    <3> QED BY <3>2, <3>4, <3>6, <3>7
  <2>2. CASE I # {}
    <3>1. I \subseteq Nat
      OBVIOUS
    <3>2. here \in I /\ \A k \in I : here <= k
      BY <1>2, <2>2, <3>1, MinFacts
    <3> HIDE DEF I
    <3>3. here \in 1 .. Len(s) /\ here # 0 /\ here \in 1 .. Len(s) + 1 /\ here \in Int /\ h[s[here]].n <= h[p].n
      BY <1>1, <3>2 DEF I
    <3>4. s2 = InsertAt(s, here, p)
      BY <1>0, <3>3
    <3>5. /\ s2 \in Seq(Nat) /\ Len(s2) = Len(s) + 1
          /\ \A k \in 1 .. Len(s) + 1 : s2[k] = IF k < here THEN s[k] ELSE IF k = here THEN p ELSE s[k - 1]
      <4>1. here \in 1 .. Len(s) + 1
        BY <3>3
      <4>2. PutsAt(s, here, p, s2)
        BY <3>4, <4>1, InsertAtFacts
      <4> QED BY <4>2 DEF PutsAt
    <3>6. ASSUME NEW k \in 1 .. Len(s), k < here PROVE h[s[k]].n >= h[p].n
      <4>1. k \notin I
        BY <3>2, <3>3, <3>6
      <4>2. ~(h[s[k]].n <= h[p].n) /\ h[s[k]].n \in Int
        BY <1>a, <4>1 DEF I
      <4> QED BY <1>a, <4>2
    <3>7. ASSUME NEW k \in 1 .. Len(s), k >= here PROVE h[s[k]].n <= h[p].n
      <4>1. h[s[k]].n \in Int /\ h[s[here]].n \in Int
        BY <1>a, <3>3
      <4>2. CASE k = here
        BY <3>3, <4>2
      <4>3. CASE here < k
        <5>1. h[s[here]].n >= h[s[k]].n
          BY <3>3, <4>3 DEF Sorted
        <5> QED BY <1>a, <3>3, <4>1, <5>1
      <4> QED BY <3>3, <3>7, <4>2, <4>3
    <3> QED BY <3>3, <3>5, <3>6, <3>7
  <2> QED BY <2>1, <2>2
<1>4. a \in Int /\ 1 <= a /\ a <= Len(s) + 1
  BY <1>1
<1>5. ASSUME NEW k \in 1 .. Len(s) + 1, k # a
      PROVE  \E j \in 1 .. Len(s) : s2[k] = s[j] /\ (k < a => j = k) /\ (k > a => j = k - 1)
  <2>1. CASE k < a
    <3>1. k \in 1 .. Len(s) /\ s2[k] = s[k] /\ ~(k > a)
      BY <1>1, <1>3, <1>4, <2>1
    <3> QED BY <3>1
  <2>2. CASE k > a
    <3>1. k - 1 \in 1 .. Len(s) /\ s2[k] = s[k - 1] /\ ~(k < a)
      BY <1>1, <1>3, <1>4, <2>2
    <3> QED BY <3>1
  <2>3. k < a \/ k > a
    BY <1>4, <1>5
  <2> QED BY <2>1, <2>2, <2>3
<1>6. s2[a] = p
  BY <1>3, <1>4
<1>7. ASSUME NEW i \in 1 .. Len(s2) PROVE s2[i] = p \/ \E j \in 1 .. Len(s) : s2[i] = s[j]
  BY <1>3, <1>5, <1>6
<1>8. ASSUME NEW j \in 1 .. Len(s) PROVE \E i \in 1 .. Len(s2) : s2[i] = s[j]
  <2>1. CASE j < a
    <3>1. j \in 1 .. Len(s) + 1 /\ s2[j] = s[j]
      BY <1>1, <1>3, <2>1
    <3> QED BY <1>3, <3>1
  <2>2. CASE j >= a
    <3>1. PICK i \in 1 .. Len(s) + 1 : i = j + 1 /\ i - 1 = j /\ ~(i < a) /\ i # a
      BY <1>1, <1>4, <2>2
    <3>2. s2[i] = s[j]
      BY <1>3, <3>1
    <3> QED BY <1>3, <3>2
  <2> QED BY <1>4, <2>1, <2>2
<1>9. ASSUME NEW i \in 1 .. Len(s2), NEW j \in 1 .. Len(s2), i < j
      PROVE  s2[i] # s2[j] /\ h[s2[i]].n >= h[s2[j]].n
  <2>1. i \in 1 .. Len(s) + 1 /\ j \in 1 .. Len(s) + 1
    BY <1>3
  <2>2. CASE i = a
    <3>1. PICK l \in 1 .. Len(s) : s2[j] = s[l] /\ l = j - 1
      BY <1>4, <1>5, <1>9, <2>1, <2>2
    <3>2. l >= a
      BY <1>4, <1>9, <2>1, <2>2, <3>1
    <3>3. h[s[l]].n <= h[p].n /\ s[l] # p /\ h[s[l]].n \in Int
      BY <1>a, <1>3, <3>2
    <3> QED BY <1>a, <1>6, <2>2, <3>1, <3>3
  <2>3. CASE j = a
    <3>1. PICK k \in 1 .. Len(s) : s2[i] = s[k] /\ k = i
      BY <1>4, <1>5, <1>9, <2>1, <2>3
    <3>2. h[s[k]].n >= h[p].n /\ s[k] # p
      BY <1>a, <1>3, <1>9, <2>3, <3>1
    <3> QED BY <1>6, <2>3, <3>1, <3>2
  <2>4. CASE i # a /\ j # a
    <3>1. PICK k \in 1 .. Len(s) : s2[i] = s[k] /\ (i < a => k = i) /\ (i > a => k = i - 1)
      BY <1>5, <2>1, <2>4
    <3>2. PICK l \in 1 .. Len(s) : s2[j] = s[l] /\ (j < a => l = j) /\ (j > a => l = j - 1)
      BY <1>5, <2>1, <2>4
    <3>3. k < l
      BY <1>4, <1>9, <2>1, <2>4, <3>1, <3>2
    <3>4. s[k] # s[l] /\ h[s[k]].n >= h[s[l]].n
      BY <3>3 DEF Sorted
    <3> QED BY <3>1, <3>2, <3>4
  <2> QED BY <2>2, <2>3, <2>4
<1>10. Sorted(h, s2)
  BY <1>9 DEF Sorted
<1>11. \E i \in 1 .. Len(s2) : s2[i] = p
  BY <1>3, <1>6
<1>12. Inserts(s, p, s2)
  BY <1>7, <1>8, <1>11 DEF Inserts
<1> QED BY <1>3, <1>10, <1>12

\* The lists, when p joins them.
LEMMA ListedPlace ==
  ASSUME NEW h, NEW ls, NEW F, Listed(h, ls, F), NEW p \in Nat, p \notin F,
         \A q \in F \cup {p} : h[q].n \in Int,
         NEW c \in Classes, c = find_free_list_index[h[p].n]
  PROVE  Listed(h, [ls EXCEPT ![c] = PutIn(h, ls[c], p)], F \cup {p})
<1>1. ls \in [Classes -> Seq(Nat)] /\ ls[c] \in Seq(Nat) /\ Sorted(h, ls[c])
      /\ \A i \in 1 .. Len(ls[c]) : ls[c][i] \in F
  BY DEF Listed, Sorted
<1>14. \A d \in Classes : \A i \in 1 .. Len(ls[d]) : ls[d][i] \in F /\ find_free_list_index[h[ls[d][i]].n] = d
  BY DEF Listed
<1>2. PICK ls2 : ls2 = [ls EXCEPT ![c] = PutIn(h, ls[c], p)]
  OBVIOUS
<1>3. PICK s \in Seq(Nat) : s = ls[c]
  BY <1>1
<1>4. PICK s2 : s2 = PutIn(h, s, p)
  OBVIOUS
<1>5. Sorted(h, s) /\ Without(h, s, p)
  BY <1>1, <1>3 DEF Without
<1>6. s2 \in Seq(Nat) /\ Sorted(h, s2) /\ Inserts(s, p, s2)
  BY <1>4, <1>5, Inserted
<1>7. ls2[c] = s2 /\ \A d \in Classes : d # c => ls2[d] = ls[d]
  BY <1>1, <1>2, <1>3, <1>4
<1>8. ls2 \in [Classes -> Seq(Nat)]
  BY <1>1, <1>2, <1>3, <1>4, <1>6
<1>9. ASSUME NEW d \in Classes, NEW i \in 1 .. Len(ls2[d])
      PROVE  ls2[d][i] \in F \cup {p} /\ find_free_list_index[h[ls2[d][i]].n] = d
  <2>1. CASE d = c
    <3>1. CASE s2[i] = p
      BY <1>7, <2>1, <3>1
    <3>2. CASE s2[i] # p
      <4>1. PICK j \in 1 .. Len(s) : s2[i] = s[j]
        BY <1>6, <1>7, <2>1, <3>2 DEF Inserts
      <4>2. j \in 1 .. Len(ls[c])
        BY <1>3
      <4>3. ls[c][j] \in F /\ find_free_list_index[h[ls[c][j]].n] = c
        BY <1>14, <4>2
      <4>4. ls2[d][i] = ls[c][j] /\ ls[c][j] \in F
        BY <1>3, <1>7, <2>1, <4>1, <4>3
      <4> QED BY <2>1, <4>3, <4>4
    <3> QED BY <3>1, <3>2
  <2>2. CASE d # c
    BY <1>7, <2>2 DEF Listed
  <2> QED BY <2>1, <2>2
<1>10. ASSUME NEW q \in F \cup {p}
       PROVE  \E d \in Classes : \E i \in 1 .. Len(ls2[d]) : ls2[d][i] = q
  <2>1. CASE q = p
    BY <1>6, <1>7, <2>1 DEF Inserts
  <2>2. CASE q \in F
    <3>1. PICK d \in Classes : \E i \in 1 .. Len(ls[d]) : ls[d][i] = q
      BY <2>2 DEF Listed
    <3>2. CASE d = c
      <4>1. PICK j \in 1 .. Len(s) : s[j] = q
        BY <1>3, <3>1, <3>2
      <4> QED BY <1>6, <1>7, <4>1 DEF Inserts
    <3>3. CASE d # c
      BY <1>7, <3>1, <3>3
    <3> QED BY <3>2, <3>3
  <2> QED BY <2>1, <2>2
<1>11. ASSUME NEW d \in Classes, NEW i \in 1 .. Len(ls2[d]), NEW j \in 1 .. Len(ls2[d]), i < j
       PROVE  ls2[d][i] # ls2[d][j] /\ h[ls2[d][i]].n >= h[ls2[d][j]].n
  <2>1. CASE d = c
    BY <1>6, <1>7, <1>11, <2>1 DEF Sorted
  <2>2. CASE d # c
    <3>1. ls2[d] = ls[d]
      BY <1>7, <2>2
    <3>2. ls[d][i] # ls[d][j] /\ h[ls[d][i]].n >= h[ls[d][j]].n
      BY <1>11, <3>1 DEF Listed
    <3> QED BY <3>1, <3>2
  <2> QED BY <2>1, <2>2
<1>12. Listed(h, ls2, F \cup {p})
  BY <1>8, <1>9, <1>10, <1>11 DEF Listed
<1> QED BY <1>2, <1>12

-----------------------------------------------------------------------------
(* Heaps.                                                                  *)

\* The heap g is h with the two tags of a block of n words at p.
Tags(h, p, n, f, g) ==
  /\ g \in Seq(Word) /\ Len(g) = Len(h)
  /\ \A k \in 1 .. Len(h) : g[k] = IF k = p \/ k = p + n + 1 THEN Tag(n, f) ELSE h[k]

\* There is room for them.
HasRoom(h, p, n) == h \in Seq(Word) /\ p \in 1 .. Len(h) /\ n \in Nat /\ p + n + 1 <= Len(h)

\* What PutBlock writes.
LEMMA PutFacts ==
  ASSUME NEW h, NEW p, NEW n, NEW f \in BOOLEAN, HasRoom(h, p, n)
  PROVE  Tags(h, p, n, f, PutBlock(h, p, n, f))
<1>0. h \in Seq(Word) /\ p \in 1 .. Len(h) /\ n \in Nat /\ p + n + 1 <= Len(h)
  BY DEF HasRoom
<1>1. Tag(n, f) \in Word
  BY <1>0, TagFacts
<1>2. p + n + 1 \in 1 .. Len(h)
  BY <1>0
<1>3. PICK w \in Word : w = Tag(n, f)
  BY <1>1
<1>4. PICK e : e = p + n + 1 /\ e \in 1 .. Len(h)
  BY <1>2
<1>5. PutBlock(h, p, n, f) = [h EXCEPT ![p] = w, ![e] = w]
  BY <1>3, <1>4 DEF PutBlock
<1>6. PICK g : g = [h EXCEPT ![p] = w, ![e] = w]
  OBVIOUS
<1>7. g \in Seq(Word) /\ Len(g) = Len(h) /\ \A k \in 1 .. Len(h) : g[k] = IF k = p \/ k = e THEN w ELSE h[k]
  BY <1>0, <1>4, <1>6
<1>8. Tags(h, p, n, f, g)
  BY <1>3, <1>4, <1>7 DEF Tags
<1> QED BY <1>5, <1>6, <1>8

\* The words that are not tags.
LEMMA OtherFacts == Link \in Word /\ Junk \in Word /\ \A i \in Ids : Data(i) \in Word
BY DEF Link, Junk, Data, Other, Word

\* h2 differs from h inside the block p only.
Payload(h, h2, p) ==
  h2 \in Seq(Word) /\ Len(h2) = Len(h) /\ \A k \in 1 .. Len(h) : k \notin p + 1 .. p + h[p].n => h2[k] = h[k]

\* The blocks are the same, and what is in them but for what is in p.
SameBlocks(h, T, p, h2) ==
  /\ Tiled(h2, T) /\ End(h2) = End(h)
  /\ \A t \in T : h2[t] = h[t]
  /\ FreeOf(h2, T) = FreeOf(h, T) /\ TakenOf(h2, T) = TakenOf(h, T)
  /\ Kept(h, T, h2, T, {p})

\* Writing what is inside a block leaves all blocks as they are.
LEMMA Inside ==
  ASSUME NEW h, NEW T, Tiled(h, T), NEW p \in T, p # End(h), NEW h2, Payload(h, h2, p)
  PROVE  SameBlocks(h, T, p, h2)
<1> DEFINE z == NextBlock(h, p)
<1>1. /\ p \in Int /\ h[p].n \in Int /\ h[p].n >= 2 /\ z = p + h[p].n + 2 /\ FTRP(h, p) = p + h[p].n + 1
      /\ p + h[p].n + 1 \in 1 .. Len(h) /\ p \in 1 .. Len(h) /\ z \in T /\ p < z
  BY TileFacts
<1> HIDE DEF z
<1>2. End(h2) = End(h)
  BY DEF Payload, End
<1>3. Same(h, h2, p, z)
  <2>1. \A k \in 1 .. Len(h) : k \notin p .. z - 1 => k \notin p + 1 .. p + h[p].n
    BY <1>1
  <2> QED BY <2>1 DEF Same, Payload
<1>4. h2[p] = h[p] /\ h2[p + h[p].n + 1] = h[p + h[p].n + 1]
  <2>1. p \notin p + 1 .. p + h[p].n /\ p + h[p].n + 1 \notin p + 1 .. p + h[p].n
    BY <1>1
  <2> QED BY <1>1, <2>1 DEF Payload
<1>5. NextBlock(h2, p) = z /\ FTRP(h2, p) = FTRP(h, p)
  BY <1>4 DEF NextBlock, FTRP, z
<1>6. Cut(h2, {p}, p, z)
  <2>1. IsBlock(h, p) /\ p % 2 = 1
    BY DEF Tiled
  <2>2. IsBlock(h2, p)
    BY <1>1, <1>4, <1>5, <2>1 DEF IsBlock
  <2> QED BY <1>1, <1>5, <2>1, <2>2 DEF Cut
<1>7. T \cap (p .. z - 1) = {p}
  <2>1. \A t \in T : t \in p .. z - 1 <=> t = p
    BY Alone DEF z
  <2> QED BY <2>1
<1>8. T = (T \ (p .. z - 1)) \cup {p}
  BY <1>7
<1>9. Tiled(h2, T)
  BY <1>1, <1>3, <1>6, <1>8, Replace
<1>10. /\ Kept(h, T, h2, T, p .. z - 1)
       /\ \A t \in T \ (p .. z - 1) : h2[t] = h[t]
  <2>1. p \in T /\ z \in T /\ p < z /\ Tiled(h, T)
    BY <1>1
  <2>2. Changed(h, T, h2, T, p .. z - 1, {p})
    BY <1>3, <1>6, <1>8, <2>1, Around
  <2> QED BY <2>2 DEF Changed
<1>11. \A t \in T : h2[t] = h[t]
  BY <1>4, <1>8, <1>10
<1>12. FreeOf(h2, T) = FreeOf(h, T) /\ TakenOf(h2, T) = TakenOf(h, T)
  BY <1>2, <1>11 DEF FreeOf, TakenOf
<1>13. Kept(h, T, h2, T, {p})
  <2>1. \A t \in TakenOf(h, T) \ {p} : t \in TakenOf(h, T) \ (p .. z - 1)
    BY <1>7 DEF TakenOf
  <2> QED BY <1>10, <2>1 DEF Kept
<1> QED BY <1>2, <1>9, <1>11, <1>12, <1>13 DEF SameBlocks

\* Then no two free blocks touch if none did,
LEMMA InsideApart ==
  ASSUME NEW h, NEW T, NEW p, NEW h2, SameBlocks(h, T, p, h2), NEW X, Apart(h, T, X)
  PROVE  Apart(h2, T, X)
<1>1. \A t \in T : NextBlock(h2, t) = NextBlock(h, t)
  BY DEF NextBlock, FTRP, SameBlocks
<1> QED BY <1>1 DEF Apart, FreeOf, SameBlocks

\* and the lists are still right.
LEMMA InsideListed ==
  ASSUME NEW h, NEW T, NEW p, NEW h2, SameBlocks(h, T, p, h2), NEW ls, NEW F, F \subseteq T, Listed(h, ls, F)
  PROVE  Listed(h2, ls, F)
<1>1. \A q \in F : h2[q].n = h[q].n
  BY DEF SameBlocks
<1> QED BY <1>1, ListedSame

\* A free block is a block.
LEMMA FreeFacts ==
  ASSUME NEW h, NEW T, Tiled(h, T), NEW p \in FreeOf(h, T)
  PROVE  p \in T /\ h[p].free /\ p # End(h) /\ h[p].n >= 2 /\ NextBlock(h, p) \in T
BY TileFacts DEF FreeOf

\* And so is one that is not free.
LEMMA TakenFacts ==
  ASSUME NEW h, NEW T, Tiled(h, T), NEW p \in TakenOf(h, T)
  PROVE  p \in T /\ ~h[p].free /\ p # End(h) /\ h[p].n >= 2 /\ NextBlock(h, p) \in T
BY TileFacts DEF TakenOf

\* The class of a block's size is one of the lists.
LEMMA BlockClass ==
  ASSUME NEW h, NEW T, Tiled(h, T), Len(h) <= MaxHeap, NEW p \in T
  PROVE  find_free_list_index[h[p].n] \in Classes
<1>1. h[p].n \in Nat /\ Len(h) \in Nat /\ MaxHeap \in Nat
  BY TileFacts, MaxHeapAssumption
<1>2. h[p].n <= Len(h)
  <2>1. p \in Int /\ p >= 3 /\ End(h) = Len(h) - 1 /\ h[End(h)].n = 0 /\ (p # End(h) => p + h[p].n + 2 <= End(h))
    BY TileFacts
  <2> QED BY <1>1, <2>1
<1>3. h[p].n \in 0 .. MaxHeap
  BY <1>1, <1>2
<1> QED BY <1>3, ClassesAssumption

\* p is in the lists, and nothing else has changed.
Places(m, T, X, m2) ==
  /\ Ordered(m2, T, {}, X) /\ Moves(m, T, m2, T, {}, {})
  /\ Len(m2.heap) = Len(m.heap) /\ \A t \in T : m2.heap[t] = m.heap[t]

\* place_block_into_free_list.
LEMMA Placed ==
  ASSUME NEW m, NEW T, NEW X, NEW p, Ordered(m, T, {p}, X), p \in FreeOf(m.heap, T),
         NEW m2, m2 = place_block_into_free_list(m, p)
  PROVE  Places(m, T, X, m2)
<1> DEFINE h == m.heap
           n == h[p].n
           g == [k \in DOMAIN h |-> IF k \in p + 1 .. p + 2 THEN Link ELSE IF k \in p + 3 .. p + n THEN Junk ELSE h[k]]
<1>1. Tiled(h, T) /\ Listed(h, m.lists, FreeOf(h, T) \ {p}) /\ Apart(h, T, X) /\ Len(h) <= MaxHeap /\ h \in Seq(Word)
  BY DEF Ordered
<1>2. p \in T /\ h[p].free /\ p # End(h) /\ n >= 2 /\ n \in Nat /\ p \in Int /\ p \in Nat
  BY <1>1, FreeFacts, TileFacts
<1>3. find_free_list_index[n] \in Classes
  BY <1>1, <1>2, BlockClass
<1>4. m2 = [heap |-> g, lists |-> [m.lists EXCEPT ![find_free_list_index[n]] = PutIn(h, m.lists[find_free_list_index[n]], p)]]
  <2>1. n # 0
    BY <1>2
  <2> QED BY <2>1 DEF place_block_into_free_list, PutIn
<1>5. Payload(h, g, p)
  <2>1. g \in Seq(Word) /\ Len(g) = Len(h)
    BY <1>1, OtherFacts
  <2>2. \A k \in 1 .. Len(h) : k \notin p + 1 .. p + n => k \notin p + 1 .. p + 2 /\ k \notin p + 3 .. p + n
    BY <1>2
  <2>3. \A k \in 1 .. Len(h) : k \notin p + 1 .. p + n => g[k] = h[k]
    BY <1>1, <2>2
  <2> QED BY <2>1, <2>3 DEF Payload
<1>6. PICK h2 : h2 = g
  OBVIOUS
<1>7. PICK c \in Classes : c = find_free_list_index[n]
  BY <1>3
<1>8. PICK ls2 : ls2 = [m.lists EXCEPT ![c] = PutIn(h, m.lists[c], p)]
  OBVIOUS
<1> HIDE DEF g
<1>9. m2.heap = h2 /\ m2.lists = ls2 /\ m2 = [heap |-> h2, lists |-> ls2]
  BY <1>4, <1>6, <1>7, <1>8
<1> DEFINE F == FreeOf(h, T)
<1>10. Listed(h, ls2, F)
  <2>1. p \notin F \ {p} /\ (F \ {p}) \cup {p} = F
    OBVIOUS
  <2>2. \A q \in (F \ {p}) \cup {p} : h[q].n \in Int
    BY <1>1, <1>2, TileFacts DEF FreeOf
  <2> HIDE DEF F
  <2>3. Listed(h, m.lists, F \ {p})
    BY <1>1 DEF F
  <2>4. PICK G : G = F \ {p}
    OBVIOUS
  <2>5. Listed(h, [m.lists EXCEPT ![c] = PutIn(h, m.lists[c], p)], G \cup {p})
    BY <1>2, <1>7, <2>1, <2>2, <2>3, <2>4, ListedPlace
  <2> QED BY <1>8, <2>1, <2>4, <2>5
<1>11. /\ Tiled(h2, T) /\ \A t \in T : h2[t] = h[t]
       /\ FreeOf(h2, T) = FreeOf(h, T) /\ TakenOf(h2, T) = TakenOf(h, T)
       /\ Kept(h, T, h2, T, {p}) /\ Apart(h2, T, X) /\ Listed(h2, ls2, F)
  <2>1. F \subseteq T
    BY DEF FreeOf
  <2>2. Payload(h, h2, p) /\ Tiled(h, T)
    BY <1>1, <1>5, <1>6
  <2>3. p \in T /\ p # End(h)
    BY <1>2
  <2> HIDE DEF F, h
  <2>4. SameBlocks(h, T, p, h2)
    BY <2>2, <2>3, Inside
  <2>5. Apart(h2, T, X)
    BY <1>1, <2>4, InsideApart
  <2>6. Listed(h2, ls2, F)
    BY <1>10, <2>1, <2>4, InsideListed
  <2> QED BY <2>4, <2>5, <2>6 DEF SameBlocks
<1>12. Len(h2) = Len(h) /\ h2 \in Seq(Word)
  BY <1>5, <1>6 DEF Payload
<1>13. ls2 \in [Classes -> Seq(Nat)]
  BY <1>10 DEF Listed
<1>14. Kept(h, T, h2, T, {})
  <2>1. p \notin TakenOf(h, T)
    BY <1>2 DEF TakenOf
  <2> QED BY <1>11, <2>1 DEF Kept
<1>15. Ordered(m2, T, {}, X)
  BY <1>1, <1>9, <1>11, <1>12, <1>13 DEF Ordered
<1>16. Moves(m, T, m2, T, {}, {})
  BY <1>9, <1>11, <1>14 DEF Moves
<1> QED BY <1>9, <1>11, <1>12, <1>15, <1>16 DEF Places

\* remove_block_from_free_list.
LEMMA Removed ==
  ASSUME NEW m, NEW T, NEW L, NEW X, NEW p, Ordered(m, T, L, X), p \in FreeOf(m.heap, T),
         NEW m2, m2 = remove_block_from_free_list(m, p)
  PROVE  Ordered(m2, T, L \cup {p}, X) /\ m2.heap = m.heap
<1> DEFINE h == m.heap
<1>1. /\ m \in [heap : Seq(Word), lists : [Classes -> Seq(Nat)]]
      /\ Tiled(h, T) /\ Listed(h, m.lists, FreeOf(h, T) \ L) /\ Apart(h, T, X) /\ Len(h) <= MaxHeap
  BY DEF Ordered
<1>2. h[p].n # 0
  <2>1. h[p].n >= 2
    BY <1>1, FreeFacts
  <2> QED BY <2>1
<1>3. PICK ls2 : ls2 = [c \in Classes |-> RemoveFirst(m.lists[c], p)]
  OBVIOUS
<1>4. m2 = [m EXCEPT !.lists = ls2]
  BY <1>2, <1>3 DEF remove_block_from_free_list
<1>5. Listed(h, ls2, (FreeOf(h, T) \ L) \ {p})
  BY <1>1, <1>3, ListedRemove
<1>6. ls2 \in [Classes -> Seq(Nat)]
  BY <1>5 DEF Listed
<1>7. m2.heap = h /\ m2.lists = ls2 /\ m2 \in [heap : Seq(Word), lists : [Classes -> Seq(Nat)]]
  BY <1>1, <1>4, <1>6
<1>8. (FreeOf(h, T) \ L) \ {p} = FreeOf(h, T) \ (L \cup {p})
  OBVIOUS
<1> QED BY <1>1, <1>5, <1>7, <1>8 DEF Ordered

-----------------------------------------------------------------------------
(* Blocks that join.                                                       *)

\* The blocks are T2 after c joined p with its neighbours to the block c.bp.
Joins(m, T, p, c, T2) ==
  /\ Ordered(c.mem, T2, {c.bp}, {}) /\ c.bp \in FreeOf(c.mem.heap, T2)
  /\ Moves(m, T, c.mem, T2, {}, {}) /\ Len(c.mem.heap) = Len(m.heap)
  /\ c.bp <= p /\ c.bp + c.mem.heap[c.bp].n >= p + m.heap[p].n
  /\ \A k \in p + 1 .. p + m.heap[p].n : c.mem.heap[k] = m.heap[k]

\* Free blocks from a to z, p among them, and none before or after them.
Run(h, T, a, p, b, z) ==
  /\ T \subseteq Nat /\ a \in FreeOf(h, T) /\ p \in FreeOf(h, T) /\ b \in FreeOf(h, T)
  /\ a <= p /\ p <= b /\ z = NextBlock(h, b)
  /\ \A t \in T : t \in a .. z - 1 => t \in {a, p, b}
  /\ \A u \in FreeOf(h, T) : NextBlock(h, u) # a
  /\ z \notin FreeOf(h, T)

\* The words from a to z as one free block.
OneBlock(m, a, z) ==
  [mem |-> [m EXCEPT !.heap = [@ EXCEPT ![a] = Tag(z - a - 2, TRUE), ![z - 1] = Tag(z - a - 2, TRUE)]], bp |-> a]

\* The blocks of a run, all out of the lists, become one.
LEMMA JoinedRun ==
  ASSUME NEW m, NEW T, NEW a, NEW p, NEW b, NEW z,
         Ordered(m, T, {p, a, b}, {p}), Run(m.heap, T, a, p, b, z)
  PROVE  \E T2 \in SUBSET Nat : Joins(m, T, p, OneBlock(m, a, z), T2)
<1>a. PICK c : c = OneBlock(m, a, z)
  OBVIOUS
<1>b. PICK h : h = m.heap
  OBVIOUS
<1>c. PICK n : n = z - a - 2
  OBVIOUS
<1>1. /\ m \in [heap : Seq(Word), lists : [Classes -> Seq(Nat)]]
      /\ Tiled(h, T) /\ Listed(h, m.lists, FreeOf(h, T) \ {p, a, b}) /\ Apart(h, T, {p}) /\ Len(h) <= MaxHeap
  BY <1>b DEF Ordered
<1>d. /\ T \subseteq Nat /\ a \in FreeOf(h, T) /\ p \in FreeOf(h, T) /\ b \in FreeOf(h, T)
      /\ a <= p /\ p <= b /\ z = NextBlock(h, b)
      /\ \A t \in T : t \in a .. z - 1 => t \in {a, p, b}
      /\ \A u \in FreeOf(h, T) : NextBlock(h, u) # a
      /\ z \notin FreeOf(h, T)
  BY <1>b DEF Run
<1>2. /\ a \in T /\ p \in T /\ b \in T /\ z \in T /\ a # End(h) /\ b # End(h) /\ p # End(h)
      /\ h[a].free /\ h[p].free /\ h[b].free
  BY <1>1, <1>d, FreeFacts
<1>3. /\ a \in Int /\ p \in Int /\ b \in Int /\ z \in Int /\ h[b].n \in Int /\ h[b].n >= 2 /\ z = b + h[b].n + 2
      /\ a >= 3 /\ z <= End(h) /\ z \in 1 .. Len(h) /\ a \in 1 .. Len(h) /\ End(h) = Len(h) - 1 /\ Len(h) \in Nat
      /\ h[p].n \in Int /\ h[p].n >= 2 /\ NextBlock(h, p) = p + h[p].n + 2 /\ a <= p /\ p <= b
  <2>1. z = NextBlock(h, b) /\ a <= p /\ p <= b
    BY <1>d
  <2>2. /\ a \in Int /\ a >= 3 /\ a \in 1 .. Len(h)
        /\ z \in Int /\ z <= End(h) /\ z \in 1 .. Len(h) /\ End(h) = Len(h) - 1 /\ Len(h) \in Nat
    BY <1>1, <1>2, TileFacts
  <2>3. p \in Int /\ h[p].n \in Int /\ h[p].n >= 2 /\ NextBlock(h, p) = p + h[p].n + 2
    BY <1>1, <1>2, TileFacts
  <2>4. b \in Int /\ h[b].n \in Int /\ h[b].n >= 2 /\ NextBlock(h, b) = b + h[b].n + 2
    BY <1>1, <1>2, TileFacts
  <2> QED BY <2>1, <2>2, <2>3, <2>4
<1>4. a < z /\ n \in Nat /\ n >= 2 /\ a + n + 1 = z - 1 /\ a + n + 2 = z /\ z - 1 \in 1 .. Len(h) /\ z - 1 # a
  <2>1. PICK e : e = h[b].n /\ e \in Int /\ e >= 2 /\ z = b + e + 2
    BY <1>3
  <2>2. a \in Int /\ b \in Int /\ a <= b /\ a >= 3
    BY <1>3
  <2>3. PICK l \in Nat : l = Len(h) /\ z <= l - 1
    BY <1>3
  <2>4. a < z /\ n \in Nat /\ n >= 2 /\ a + n + 1 = z - 1 /\ a + n + 2 = z /\ z - 1 # a
    BY <1>c, <2>1, <2>2
  <2>5. z - 1 \in 1 .. l
    BY <2>1, <2>2, <2>3
  <2> QED BY <2>3, <2>4, <2>5
<1>5. a % 2 = 1 /\ z % 2 = 1
  BY <1>1, <1>2 DEF Tiled
<1>6. n % 2 = 0
  <2>1. a \in Int /\ z \in Int
    BY <1>3
  <2> QED BY <1>c, <1>5, <2>1
<1>7. PICK w \in Word : w = Tag(n, TRUE) /\ w.n = n /\ w.free /\ w.is = "tag"
  BY <1>4, TagFacts
<1>8. PICK y \in 1 .. Len(h) : y = z - 1
  BY <1>4
<1>9. PICK h2 : h2 = [h EXCEPT ![a] = w, ![y] = w]
  OBVIOUS
<1>10. c.mem.heap = h2 /\ c.mem.lists = m.lists /\ c.bp = a /\ c.mem = [heap |-> h2, lists |-> m.lists]
  <2>1. c = [mem |-> [m EXCEPT !.heap = h2], bp |-> a]
    BY <1>a, <1>b, <1>c, <1>7, <1>8, <1>9 DEF OneBlock
  <2>2. m = [heap |-> m.heap, lists |-> m.lists]
    BY <1>1
  <2> QED BY <2>1, <2>2
<1>11. /\ h2 \in Seq(Word) /\ Len(h2) = Len(h) /\ h2[a] = w /\ h2[z - 1] = w
       /\ \A k \in 1 .. Len(h) : k # a /\ k # z - 1 => h2[k] = h[k]
  <2>1. h \in Seq(Word)
    BY <1>1 DEF Tiled
  <2>2. a \in 1 .. Len(h)
    BY <1>3
  <2> QED BY <1>8, <1>9, <2>1, <2>2
<1>12. Same(h, h2, a, z)
  <2>1. \A k \in 1 .. Len(h) : k \notin a .. z - 1 => k # a /\ k # z - 1
    <3>1. a \in Int /\ z \in Int /\ a < z
      BY <1>3, <1>4
    <3> QED BY <3>1
  <2> QED BY <1>11, <2>1 DEF Same
<1>13. FTRP(h2, a) = z - 1 /\ NextBlock(h2, a) = z
  <2>1. FTRP(h2, a) = z - 1
    BY <1>4, <1>7, <1>11 DEF FTRP
  <2> QED BY <1>3, <2>1 DEF NextBlock
<1>14. Cut(h2, {a}, a, z)
  <2>1. IsBlock(h2, a)
    BY <1>4, <1>6, <1>7, <1>11, <1>13 DEF IsBlock
  <2> QED BY <1>3, <1>4, <1>5, <1>13, <2>1 DEF Cut
<1>15. PICK T2 : T2 = (T \ (a .. z - 1)) \cup {a}
  OBVIOUS
<1>16. Tiled(h2, T2)
  BY <1>1, <1>2, <1>4, <1>12, <1>14, <1>15, Replace
<1>17. Changed(h, T, h2, T2, a .. z - 1, {a})
  BY <1>1, <1>2, <1>4, <1>12, <1>14, <1>15, Around
<1>18. \A t \in T : t \in a .. z - 1 <=> t \in {a, p, b}
  <2>1. a \in a .. z - 1 /\ p \in a .. z - 1 /\ b \in a .. z - 1
    <3>1. PICK d \in Int : d = h[b].n /\ d >= 2 /\ z = b + d + 2
      BY <1>3
    <3>2. a \in Int /\ p \in Int /\ b \in Int /\ z \in Int /\ a <= p /\ p <= b
      BY <1>3
    <3>3. b <= z - 1
      <4>1. b \in Int /\ d \in Int /\ z \in Int /\ d >= 0 /\ z = b + d + 2
        BY <3>1, <3>2
      <4> QED BY <4>1, LastWord
    <3>4. PICK last \in Int : last = z - 1 /\ b <= last
      BY <3>2, <3>3
    <3>5. a \in a .. last /\ p \in a .. last /\ b \in a .. last
      BY <3>2, <3>4
    <3> QED BY <3>4, <3>5
  <2>2. \A t \in T : t \in a .. z - 1 => t \in {a, p, b}
    BY <1>d
  <2> QED BY <2>1, <2>2
<1>19. FreeOf(h2, T2) = (FreeOf(h, T) \ {p, a, b}) \cup {a}
  <2>1. FreeOf(h2, T2) = (FreeOf(h, T) \ (a .. z - 1)) \cup {t \in {a} : h2[t].free}
    BY <1>17 DEF Changed
  <2>2. {t \in {a} : h2[t].free} = {a}
    BY <1>7, <1>11
  <2>3. FreeOf(h, T) \ (a .. z - 1) = FreeOf(h, T) \ {p, a, b}
    BY <1>18 DEF FreeOf
  <2> QED BY <2>1, <2>2, <2>3
<1>20. TakenOf(h2, T2) = TakenOf(h, T) /\ TakenOf(h, T) \ (a .. z - 1) = TakenOf(h, T)
  <2>1. TakenOf(h2, T2) = (TakenOf(h, T) \ (a .. z - 1)) \cup {t \in {a} : ~h2[t].free}
    BY <1>17 DEF Changed
  <2>2. {t \in {a} : ~h2[t].free} = {}
    BY <1>7, <1>11
  <2>3. \A t \in TakenOf(h, T) : t \notin {a, p, b} /\ t \in T
    BY <1>2 DEF TakenOf
  <2>4. TakenOf(h, T) \ (a .. z - 1) = TakenOf(h, T)
    BY <1>18, <2>3
  <2> QED BY <2>1, <2>2, <2>4
<1>21. Moves(m, T, c.mem, T2, {}, {})
  <2>1. Kept(h, T, h2, T2, a .. z - 1)
    BY <1>17 DEF Changed
  <2>2. Kept(h, T, h2, T2, {})
    BY <1>20, <2>1 DEF Kept
  <2> QED BY <1>b, <1>10, <1>20, <2>2 DEF Moves
<1>22. Apart(h2, T2, {})
  <2>1. Apart(h2, T2, {a})
    <3>1. {p} \subseteq a .. z - 1
      BY <1>2, <1>18
    <3> QED BY <1>1, <1>17, <3>1 DEF Changed
  <2>2. a \in T2
    BY <1>15
  <2>3. ~NextIsFree(h2, a)
    <3>1. z \in T \ (a .. z - 1)
      BY <1>2, <1>3
    <3>2. h2[z] = h[z]
      BY <1>17, <3>1 DEF Changed
    <3>3. ~h[z].free
      BY <1>2, <1>d DEF FreeOf
    <3> QED BY <1>13, <3>2, <3>3 DEF NextIsFree
  <2>4. ~PrevIsFree(h2, a)
    <3>1. CASE a = 3
      BY <1>16, <2>2, <3>1, Before
    <3>2. CASE a # 3
      <4>1. PICK u : u = PrevBlock(h2, a) /\ u \in T2 /\ u < a /\ NextBlock(h2, u) = a
        BY <1>16, <2>2, <3>2, Before
      <4>2. u \in T \ (a .. z - 1)
        BY <1>3, <1>15, <4>1
      <4>3. h2[u] = h[u]
        BY <1>17, <4>2 DEF Changed
      <4>4. NextBlock(h, u) = a
        BY <4>1, <4>3 DEF NextBlock, FTRP
      <4>5. ~h[u].free
        BY <1>d, <4>2, <4>4 DEF FreeOf
      <4> QED BY <4>1, <4>3, <4>5 DEF PrevIsFree
    <3> QED BY <3>1, <3>2
  <2> QED BY <1>16, <2>1, <2>2, <2>3, <2>4, ApartDone
<1>23. Ordered(c.mem, T2, {a}, {})
  <2>1. FreeOf(h2, T2) \ {a} = FreeOf(h, T) \ {p, a, b}
    BY <1>19
  <2>2. Listed(h2, m.lists, FreeOf(h, T) \ {p, a, b})
    <3>1. \A q \in FreeOf(h, T) \ {p, a, b} : h2[q] = h[q]
      BY <1>17, <1>18 DEF Changed, FreeOf
    <3> QED BY <1>1, <3>1, ListedSame
  <2>3. m.lists \in [Classes -> Seq(Nat)]
    BY <1>1
  <2>4. Listed(h2, m.lists, FreeOf(h2, T2) \ {a})
    BY <2>1, <2>2
  <2> QED BY <1>1, <1>10, <1>11, <1>16, <1>22, <2>3, <2>4 DEF Ordered
<1>24. a \in FreeOf(h2, T2)
  BY <1>19
<1>25. a + h2[a].n >= p + h[p].n /\ \A k \in p + 1 .. p + h[p].n : k # z - 1
  <2>1. h2[a].n = n
    BY <1>7, <1>11
  <2>2. PICK e : e = h[p].n /\ e \in Int /\ p + e + 2 <= z
    <3>1. CASE p = b
      BY <1>3, <3>1
    <3>2. CASE p < b
      <4>1. NextBlock(h, p) <= b
        BY <1>1, <1>2, <3>2 DEF Tiled
      <4>2. PICK d \in Int : d = h[p].n /\ p + d + 2 <= b
        BY <1>3, <4>1
      <4>3. b \in Int /\ z \in Int /\ p \in Int /\ b < z
        <5>1. PICK f \in Int : f = h[b].n /\ f >= 2 /\ z = b + f + 2
          BY <1>3
        <5> QED BY <1>3, <5>1
      <4> QED BY <4>2, <4>3
    <3>3. p = b \/ p < b
      <4>1. p \in Int /\ b \in Int /\ p <= b
        BY <1>3
      <4> QED BY <4>1
    <3> QED BY <3>1, <3>2, <3>3
  <2>3. a + n >= p + e /\ \A k \in p + 1 .. p + e : k # z - 1
    <3>1. a \in Int /\ z \in Int /\ p \in Int /\ n \in Int /\ a + n + 2 = z
      BY <1>3, <1>4
    <3> QED BY <2>2, <3>1
  <2> QED BY <2>1, <2>2, <2>3
<1>26. \A k \in p + 1 .. p + h[p].n : h2[k] = h[k]
  <2>1. p + h[p].n + 2 <= End(h)
    BY <1>1, <1>2, TileFacts
  <2>2. \A k \in p + 1 .. p + h[p].n : k \in 1 .. Len(h) /\ k # a
    <3>1. PICK e : e = h[p].n /\ e \in Int /\ p + e + 2 <= End(h)
      BY <1>3, <2>1
    <3>2. PICK l \in Int : l = Len(h) /\ p + e + 2 <= l - 1
      BY <1>3, <3>1
    <3>3. \A k \in p + 1 .. p + e : k \in 1 .. l /\ k # a
      <4>1. a \in Int /\ p \in Int /\ a >= 3 /\ a <= p
        BY <1>3
      <4> QED BY <3>1, <3>2, <4>1
    <3> QED BY <3>1, <3>2, <3>3
  <2> QED BY <1>11, <1>25, <2>2
<1>27. Joins(m, T, p, c, T2)
  BY <1>b, <1>3, <1>10, <1>11, <1>21, <1>23, <1>24, <1>25, <1>26 DEF Joins
<1>28. T2 \in SUBSET Nat
  BY <1>2, <1>15, <1>d
<1> QED BY <1>27, <1>28, <1>a

\* coalesce.
LEMMA Coalesced ==
  ASSUME NEW m, NEW T, NEW p, Ordered(m, T, {p}, {p}), p \in FreeOf(m.heap, T), T \subseteq Nat
  PROVE  \E T2 \in SUBSET Nat : Joins(m, T, p, coalesce(m, p), T2)
<1>a. PICK c : c = coalesce(m, p)
  OBVIOUS
<1>b. PICK h : h = m.heap
  OBVIOUS
<1>1. /\ m \in [heap : Seq(Word), lists : [Classes -> Seq(Nat)]]
      /\ Tiled(h, T) /\ Listed(h, m.lists, FreeOf(h, T) \ {p}) /\ Apart(h, T, {p}) /\ Len(h) <= MaxHeap /\ p \in FreeOf(h, T)
  BY <1>b DEF Ordered
<1>2. p \in T /\ h[p].free /\ p # End(h) /\ NextBlock(h, p) \in T
  BY <1>1, FreeFacts
<1>3. p \in Int /\ h[p].n \in Int /\ h[p].n >= 2 /\ NextBlock(h, p) = p + h[p].n + 2 /\ FTRP(h, p) = p + h[p].n + 1
  BY <1>1, <1>2, TileFacts
<1>4. PICK a : a = IF PrevIsFree(h, p) THEN PrevBlock(h, p) ELSE p
  OBVIOUS
<1>5. PICK b : b = IF NextIsFree(h, p) THEN NextBlock(h, p) ELSE p
  OBVIOUS
<1>6. a # p => a \in FreeOf(h, T) /\ NextBlock(h, a) = p
  <2> SUFFICES ASSUME a # p PROVE a \in FreeOf(h, T) /\ NextBlock(h, a) = p
    OBVIOUS
  <2>1. PrevIsFree(h, p) /\ a = PrevBlock(h, p)
    BY <1>4
  <2>2. p # 3
    BY <1>1, <1>2, <2>1, Before
  <2>3. a \in T /\ NextBlock(h, a) = p
    BY <1>1, <1>2, <2>1, <2>2, Before
  <2> QED BY <2>1, <2>3 DEF PrevIsFree, FreeOf
<1>7. b # p => b \in FreeOf(h, T) /\ b = NextBlock(h, p)
  BY <1>2, <1>5 DEF NextIsFree, FreeOf
<1>8. a \in FreeOf(h, T) /\ b \in FreeOf(h, T) /\ a \in T /\ b \in T
  BY <1>1, <1>6, <1>7 DEF FreeOf
<1>9. PICK z : z = NextBlock(h, b) /\ z \in T
  BY <1>1, <1>8, FreeFacts
<1>10. /\ a \in Int /\ h[a].n \in Int /\ h[a].n >= 2 /\ NextBlock(h, a) = a + h[a].n + 2
       /\ b \in Int /\ h[b].n \in Int /\ h[b].n >= 2 /\ z = b + h[b].n + 2 /\ FTRP(h, b) = z - 1
       /\ z \in Int
  <2>1. a # End(h) /\ b # End(h)
    BY <1>1, <1>8, FreeFacts
  <2>2. /\ a \in Int /\ h[a].n \in Int /\ h[a].n >= 2 /\ NextBlock(h, a) = a + h[a].n + 2
        /\ b \in Int /\ h[b].n \in Int /\ h[b].n >= 2 /\ NextBlock(h, b) = b + h[b].n + 2
        /\ FTRP(h, b) = b + h[b].n + 1
    BY <1>1, <1>8, <2>1, TileFacts
  <2> QED BY <1>9, <2>2
<1>11. /\ a <= p /\ p <= b /\ (a # p => a + h[a].n + 2 = p) /\ (b # p => p + h[p].n + 2 = b)
  BY <1>3, <1>6, <1>7, <1>10
<1>12. ASSUME NEW t \in T, t \in a .. z - 1 PROVE t \in {a, p, b}
  <2>1. t \in Int
    BY <1>1, TileFacts
  <2>2. a < t => NextBlock(h, a) <= t
    BY <1>1, <1>8 DEF Tiled
  <2>3. p < t => NextBlock(h, p) <= t
    BY <1>1, <1>2 DEF Tiled
  <2>4. b < t => z <= t
    BY <1>1, <1>8, <1>9 DEF Tiled
  <2>5. ~(b < t)
    BY <1>10, <1>12, <2>1, <2>4
  <2>6. CASE t > p
    <3>1. b # p
      BY <1>10, <2>1, <2>5, <2>6
    <3> QED BY <1>3, <1>10, <1>11, <2>1, <2>3, <2>5, <2>6, <3>1
  <2>7. CASE t < p
    <3>1. a # p
      BY <1>10, <1>12, <2>1, <2>7
    <3> QED BY <1>3, <1>10, <1>11, <1>12, <2>1, <2>2, <2>7, <3>1
  <2> QED BY <1>3, <2>1, <2>6, <2>7
<1>13. ASSUME NEW u \in FreeOf(h, T), NextBlock(h, u) = a PROVE FALSE
  <2>1. u \in T /\ h[u].free
    BY DEF FreeOf
  <2>2. u \in Int /\ h[u].n \in Int /\ h[u].n >= 0 /\ a = u + h[u].n + 2
    BY <1>1, <1>13, <2>1, TileFacts
  <2>3. u # p /\ u < a
    BY <1>3, <1>10, <1>11, <2>2
  <2>4. CASE a = p
    <3>1. u = PrevBlock(h, p)
      BY <1>1, <1>2, <1>13, <2>1, <2>4, Before
    <3>2. PrevIsFree(h, p)
      BY <2>1, <3>1 DEF PrevIsFree
    <3> QED BY <1>3, <1>4, <2>3, <2>4, <3>1, <3>2
  <2>5. CASE a # p
    BY <1>1, <1>8, <1>13, <2>3, <2>5 DEF Apart
  <2> QED BY <2>4, <2>5
<1>14. z \notin FreeOf(h, T)
  <2> SUFFICES ASSUME z \in FreeOf(h, T) PROVE FALSE
    OBVIOUS
  <2>1. z # p
    BY <1>3, <1>10, <1>11
  <2>2. CASE b = p
    <3>1. NextIsFree(h, p)
      BY <1>9, <2>2 DEF NextIsFree, FreeOf
    <3> QED BY <1>5, <1>9, <2>1, <2>2, <3>1
  <2>3. CASE b # p
    BY <1>1, <1>8, <1>9, <2>1, <2>3 DEF Apart
  <2> QED BY <2>2, <2>3
<1>15. Run(h, T, a, p, b, z)
  BY <1>1, <1>8, <1>9, <1>11, <1>12, <1>13, <1>14 DEF Run
<1>16. CASE a = p /\ b = p
  <2>1. c = [mem |-> m, bp |-> p]
    BY <1>a, <1>b, <1>4, <1>5, <1>16 DEF coalesce
  <2>2. c.mem = m /\ c.bp = p
    BY <2>1
  <2>3. ~PrevIsFree(h, p)
    <3>1. PrevIsFree(h, p) => PrevBlock(h, p) \in FreeOf(h, T) /\ NextBlock(h, PrevBlock(h, p)) = p
      <4>1. PrevIsFree(h, p) => p # 3
        BY <1>1, <1>2, Before
      <4>2. p # 3 => PrevBlock(h, p) \in T /\ NextBlock(h, PrevBlock(h, p)) = p
        BY <1>1, <1>2, Before
      <4> QED BY <4>1, <4>2 DEF PrevIsFree, FreeOf
    <3> QED BY <1>13, <1>16, <3>1
  <2>4. ~NextIsFree(h, p)
    BY <1>2, <1>9, <1>14, <1>16 DEF NextIsFree, FreeOf
  <2>5. Apart(h, T, {})
    BY <1>1, <1>2, <2>3, <2>4, ApartDone
  <2>6. Ordered(m, T, {p}, {})
    BY <1>b, <2>5 DEF Ordered
  <2>7. Kept(h, T, h, T, {}) /\ TakenOf(h, T) = (TakenOf(h, T) \ {}) \cup {}
    BY DEF Kept
  <2>8. Moves(m, T, m, T, {}, {})
    BY <1>b, <2>7 DEF Moves
  <2>9. Joins(m, T, p, c, T)
    BY <1>b, <1>1, <1>3, <2>2, <2>6, <2>8 DEF Joins
  <2> QED BY <1>a, <2>9
<1>17. CASE ~(a = p /\ b = p)
  <2>1. a # b
    BY <1>10, <1>11, <1>3, <1>17
  <2>2. PICK m1 : m1 = IF a # p THEN remove_block_from_free_list(m, a) ELSE m
    OBVIOUS
  <2>3. PICK m2 : m2 = IF b # p THEN remove_block_from_free_list(m1, b) ELSE m1
    OBVIOUS
  <2>4. Ordered(m1, T, {p, a}, {p}) /\ m1.heap = h
    <3>1. CASE a # p
      <4>1. Ordered(m1, T, {p} \cup {a}, {p}) /\ m1.heap = m.heap
        BY <1>b, <1>8, <2>2, <3>1, Removed
      <4>2. {p} \cup {a} = {p, a}
        OBVIOUS
      <4> QED BY <1>b, <4>1, <4>2
    <3>2. CASE a = p
      BY <1>b, <2>2, <3>2
    <3> QED BY <3>1, <3>2
  <2>5. Ordered(m2, T, {p, a, b}, {p}) /\ m2.heap = h
    <3>1. CASE b # p
      <4>1. Ordered(m2, T, {p, a} \cup {b}, {p}) /\ m2.heap = m1.heap
        <5>1. b \in FreeOf(m1.heap, T) /\ m2 = remove_block_from_free_list(m1, b)
          BY <1>8, <2>3, <2>4, <3>1
        <5>2. PICK L : L = {p, a}
          OBVIOUS
        <5>3. PICK X : X = {p}
          OBVIOUS
        <5>4. Ordered(m1, T, L, X)
          BY <2>4, <5>2, <5>3
        <5>5. Ordered(m2, T, L \cup {b}, X) /\ m2.heap = m1.heap
          BY <5>1, <5>4, Removed
        <5> QED BY <5>2, <5>3, <5>5
      <4>2. {p, a} \cup {b} = {p, a, b}
        OBVIOUS
      <4> QED BY <2>4, <4>1, <4>2
    <3>2. CASE b = p
      <4>1. {p, a} = {p, a, b}
        BY <3>2
      <4> QED BY <2>3, <2>4, <3>2, <4>1
    <3> QED BY <3>1, <3>2
  <2>6. PICK n : n = h[p].n + (IF a # p THEN h[a].n + 2 ELSE 0) + (IF b # p THEN h[b].n + 2 ELSE 0)
    OBVIOUS
  <2>7. n = z - a - 2
    BY <1>3, <1>10, <1>11, <2>6
  <2>8. PICK tag : tag = Tag(n, TRUE)
    OBVIOUS
  <2>9. c = [mem |-> [m2 EXCEPT !.heap[a] = tag, !.heap[FTRP(h, b)] = tag], bp |-> a]
    BY <1>a, <1>b, <1>4, <1>5, <2>1, <2>2, <2>3, <2>6, <2>8 DEF coalesce
  <2>10. c = [mem |-> [m2 EXCEPT !.heap = [@ EXCEPT ![a] = tag, ![z - 1] = tag]], bp |-> a]
    <3>1. PICK e : e = z - 1 /\ FTRP(h, b) = e
      BY <1>10
    <3>2. m2 \in [heap : Seq(Word), lists : [Classes -> Seq(Nat)]]
      BY <2>5 DEF Ordered
    <3>3. [m2 EXCEPT !.heap[a] = tag, !.heap[e] = tag] = [m2 EXCEPT !.heap = [@ EXCEPT ![a] = tag, ![e] = tag]]
      BY <3>2
    <3> QED BY <2>9, <3>1, <3>3
  <2>11. c = OneBlock(m2, a, z)
    BY <2>7, <2>8, <2>10 DEF OneBlock
  <2>12. \E T2 \in SUBSET Nat : Joins(m2, T, p, c, T2)
    BY <1>15, <2>5, <2>11, JoinedRun
  <2>13. ASSUME NEW T2, Joins(m2, T, p, c, T2) PROVE Joins(m, T, p, c, T2)
    BY <1>b, <2>5, <2>13 DEF Joins, Moves
  <2> QED BY <1>a, <2>12, <2>13
<1> QED BY <1>16, <1>17

-----------------------------------------------------------------------------
(* Blocks that are taken.                                                  *)

\* Two steps that keep the taken blocks.
LEMMA KeptTrans ==
  ASSUME NEW h, NEW T, NEW h2, NEW T2, NEW h3, NEW T3, NEW P, NEW P2,
         Tiled(h, T), Kept(h, T, h2, T2, P), Kept(h2, T2, h3, T3, P2)
  PROVE  Kept(h, T, h3, T3, P \cup P2)
<1> SUFFICES ASSUME NEW t \in TakenOf(h, T) \ (P \cup P2)
             PROVE  t \in TakenOf(h3, T3) /\ \A k \in t .. t + h[t].n + 1 : h3[k] = h[k]
  BY DEF Kept
<1>1. t \in TakenOf(h2, T2) /\ \A k \in t .. t + h[t].n + 1 : h2[k] = h[k]
  BY DEF Kept
<1>2. t \in TakenOf(h3, T3) /\ \A k \in t .. t + h2[t].n + 1 : h3[k] = h2[k]
  BY <1>1 DEF Kept
<1>3. t \in Int /\ h[t].n \in Int /\ h[t].n >= 0
  BY TileFacts DEF TakenOf
<1>4. t \in t .. t + h[t].n + 1
  BY <1>3
<1>5. h2[t] = h[t]
  BY <1>1, <1>4
<1> QED BY <1>1, <1>2, <1>5

\* The header and the footer of a block written again, with another status.
Retagged(h, T, p, f, h2) ==
  /\ Tiled(h2, T) /\ Len(h2) = Len(h) /\ h2[p] = Tag(h[p].n, f) /\ h2[p].n = h[p].n /\ h2[p].free = f
  /\ \A k \in p + 1 .. p + h[p].n : h2[k] = h[k]
  /\ FreeOf(h2, T) \ {p} = FreeOf(h, T) \ {p} /\ TakenOf(h2, T) \ {p} = TakenOf(h, T) \ {p}
  /\ Kept(h, T, h2, T, {p})
  /\ \A t \in T : t # p => h2[t] = h[t]
  /\ \A X : X \subseteq {p} /\ Apart(h, T, X) => Apart(h2, T, {p})

\* A block that changes from free to taken or back.
LEMMA Retag ==
  ASSUME NEW h, NEW T, Tiled(h, T), NEW p \in T, p # End(h), NEW f \in BOOLEAN
  PROVE  Retagged(h, T, p, f, PutBlock(h, p, h[p].n, f))
<1>a. PICK h2 : h2 = PutBlock(h, p, h[p].n, f)
  OBVIOUS
<1>1. PICK n \in Nat : n = h[p].n /\ n >= 2 /\ n % 2 = 0
  BY TileFacts
<1>2. PICK z \in T : z = NextBlock(h, p) /\ z = p + n + 2 /\ z \in Int /\ z <= End(h) /\ z \in 1 .. Len(h)
  BY <1>1, TileFacts
<1>3. p \in Int /\ p \in 1 .. Len(h) /\ End(h) = Len(h) - 1 /\ Len(h) \in Nat /\ p >= 3 /\ p < z
  BY <1>1, <1>2, TileFacts
<1>4. p + n + 1 <= Len(h) /\ h \in Seq(Word)
  BY <1>2, <1>3 DEF Tiled
<1>5. /\ h2 \in Seq(Word) /\ Len(h2) = Len(h)
      /\ \A k \in 1 .. Len(h) : h2[k] = IF k = p \/ k = p + n + 1 THEN Tag(n, f) ELSE h[k]
  <2>1. HasRoom(h, p, n)
    BY <1>1, <1>3, <1>4 DEF HasRoom
  <2>2. Tags(h, p, n, f, h2)
    BY <1>a, <1>1, <2>1, PutFacts
  <2> QED BY <2>2 DEF Tags
<1>6. h2[p] = Tag(n, f) /\ h2[p + n + 1] = Tag(n, f) /\ h2[p].n = n /\ h2[p].free = f /\ h2[p].is = "tag"
  <2>1. p + n + 1 \in 1 .. Len(h)
    BY <1>3, <1>4
  <2>2. h2[p] = Tag(n, f) /\ h2[p + n + 1] = Tag(n, f)
    BY <1>3, <1>5, <2>1
  <2> QED BY <2>2, TagFacts
<1>7. Same(h, h2, p, z)
  <2>1. \A k \in 1 .. Len(h) : k \notin p .. z - 1 => k # p /\ k # p + n + 1
    BY <1>2, <1>3
  <2> QED BY <1>5, <2>1 DEF Same
<1>8. FTRP(h2, p) = p + n + 1 /\ NextBlock(h2, p) = z
  BY <1>2, <1>3, <1>6 DEF FTRP, NextBlock
<1>9. Cut(h2, {p}, p, z)
  <2>1. p % 2 = 1
    BY DEF Tiled
  <2>2. IsBlock(h2, p)
    BY <1>1, <1>6, <1>8 DEF IsBlock
  <2> QED BY <1>2, <1>3, <1>8, <2>1, <2>2 DEF Cut
<1>10. \A t \in T : t \in p .. z - 1 <=> t = p
  BY <1>2, Alone
<1>11. T = (T \ (p .. z - 1)) \cup {p}
  BY <1>10
<1>12. Tiled(h2, T)
  BY <1>3, <1>7, <1>9, <1>11, Replace
<1>13. Changed(h, T, h2, T, p .. z - 1, {p})
  BY <1>3, <1>7, <1>9, <1>11, Around
<1>14. \A t \in T : t # p => h2[t] = h[t]
  BY <1>10, <1>13 DEF Changed
<1>15. End(h2) = End(h)
  BY <1>5 DEF End
<1>16. FreeOf(h2, T) \ {p} = FreeOf(h, T) \ {p} /\ TakenOf(h2, T) \ {p} = TakenOf(h, T) \ {p}
  BY <1>14, <1>15 DEF FreeOf, TakenOf
<1>17. Kept(h, T, h2, T, {p})
  <2>1. \A t \in TakenOf(h, T) \ {p} : t \in TakenOf(h, T) \ (p .. z - 1)
    BY <1>10 DEF TakenOf
  <2>2. Kept(h, T, h2, T, p .. z - 1)
    BY <1>13 DEF Changed
  <2> QED BY <2>1, <2>2 DEF Kept
<1>18. ASSUME NEW X, X \subseteq {p}, Apart(h, T, X) PROVE Apart(h2, T, {p})
  <2>1. X \subseteq p .. z - 1
    BY <1>10, <1>18
  <2> QED BY <1>13, <1>18, <2>1 DEF Changed
<1>19. \A k \in p + 1 .. p + n : h2[k] = h[k]
  <2>1. \A k \in p + 1 .. p + n : k \in 1 .. Len(h) /\ k # p /\ k # p + n + 1
    BY <1>3, <1>4
  <2> QED BY <1>5, <2>1
<1>20. Retagged(h, T, p, f, h2)
  BY <1>1, <1>5, <1>6, <1>12, <1>14, <1>16, <1>17, <1>18, <1>19 DEF Retagged
<1> QED BY <1>a, <1>20

\* The blocks are T2 after words of the block p were taken.
Takes(m, T, p, words, m2, T2) ==
  /\ Ordered(m2, T2, {}, {}) /\ Moves(m, T, m2, T2, {}, {p}) /\ Len(m2.heap) = Len(m.heap)
  /\ p \in T2 /\ m2.heap[p].n >= words
  /\ \A k \in p + 1 .. p + words : m2.heap[k] = m.heap[k]

\* alloc_free_block of a block that is not cut.
LEMMA AllocWhole ==
  ASSUME NEW m, NEW T, NEW p, Ordered(m, T, {p}, {p}), p \in FreeOf(m.heap, T),
         NEW words \in Nat, words <= m.heap[p].n
  PROVE  Takes(m, T, p, words, [m EXCEPT !.heap = PutBlock(@, p, @[p].n, FALSE)], T)
<1>b. PICK h : h = m.heap
  OBVIOUS
<1>c. PICK h2 : h2 = PutBlock(h, p, h[p].n, FALSE)
  OBVIOUS
<1>d. PICK m2 : m2 = [m EXCEPT !.heap = PutBlock(@, p, @[p].n, FALSE)]
  OBVIOUS
<1>1. /\ m \in [heap : Seq(Word), lists : [Classes -> Seq(Nat)]]
      /\ Tiled(h, T) /\ Listed(h, m.lists, FreeOf(h, T) \ {p}) /\ Apart(h, T, {p}) /\ Len(h) <= MaxHeap /\ p \in FreeOf(h, T)
  BY <1>b DEF Ordered
<1>2. p \in T /\ h[p].free /\ p # End(h) /\ h[p].n \in Nat /\ p \in Int
  BY <1>1, FreeFacts, TileFacts
<1>3. Retagged(h, T, p, FALSE, h2)
  BY <1>c, <1>1, <1>2, Retag
<1>4. m2.heap = h2 /\ m2.lists = m.lists /\ m2 = [heap |-> h2, lists |-> m.lists]
  BY <1>b, <1>c, <1>d, <1>1
<1>5. Tiled(h2, T) /\ Len(h2) = Len(h) /\ h2[p].n = h[p].n /\ ~h2[p].free
  BY <1>3 DEF Retagged
<1>6. FreeOf(h2, T) = FreeOf(h, T) \ {p}
  <2>1. p \notin FreeOf(h2, T)
    BY <1>5 DEF FreeOf
  <2>2. FreeOf(h2, T) \ {p} = FreeOf(h, T) \ {p}
    BY <1>3 DEF Retagged
  <2> QED BY <2>1, <2>2
<1>7. TakenOf(h2, T) = (TakenOf(h, T) \ {}) \cup {p} /\ Kept(h, T, h2, T, {})
  <2>1. End(h2) = End(h)
    BY <1>5 DEF End
  <2>2. p \in TakenOf(h2, T)
    BY <1>2, <1>5, <2>1 DEF TakenOf
  <2>3. p \notin TakenOf(h, T)
    BY <1>2 DEF TakenOf
  <2>4. TakenOf(h2, T) \ {p} = TakenOf(h, T) \ {p} /\ Kept(h, T, h2, T, {p})
    BY <1>3 DEF Retagged
  <2>5. Kept(h, T, h2, T, {})
    BY <2>3, <2>4 DEF Kept
  <2> QED BY <2>2, <2>3, <2>4, <2>5
<1>8. Apart(h2, T, {})
  <2>1. Apart(h2, T, {p})
    BY <1>1, <1>3 DEF Retagged
  <2> QED BY <1>2, <1>5, <2>1, ApartDone
<1>9. Listed(h2, m.lists, FreeOf(h2, T) \ {})
  <2>1. \A q \in FreeOf(h, T) \ {p} : h2[q].n = h[q].n
    BY <1>3 DEF Retagged, FreeOf
  <2>2. Listed(h2, m.lists, FreeOf(h, T) \ {p})
    BY <1>1, <2>1, ListedSame
  <2>3. FreeOf(h2, T) \ {} = FreeOf(h, T) \ {p}
    BY <1>6
  <2> QED BY <2>2, <2>3
<1>10. Ordered(m2, T, {}, {})
  <2>1. h2 \in Seq(Word) /\ m.lists \in [Classes -> Seq(Nat)]
    BY <1>1, <1>5 DEF Tiled
  <2> QED BY <1>1, <1>4, <1>5, <1>8, <1>9, <2>1 DEF Ordered
<1>11. \A k \in p + 1 .. p + words : h2[k] = h[k]
  <2>1. \A k \in p + 1 .. p + h[p].n : h2[k] = h[k]
    BY <1>3 DEF Retagged
  <2>2. words <= h[p].n
    BY <1>b
  <2>3. \A k \in p + 1 .. p + words : k \in p + 1 .. p + h[p].n
    BY <1>2, <2>2
  <2> QED BY <2>1, <2>3
<1>12. Moves(m, T, m2, T, {}, {p})
  BY <1>b, <1>4, <1>7 DEF Moves
<1>13. Takes(m, T, p, words, m2, T)
  BY <1>b, <1>2, <1>4, <1>5, <1>10, <1>11, <1>12 DEF Takes
<1> QED BY <1>d, <1>13

\* A block cut in two, the second one free.
Halves(h, p, words, rest, h2) ==
  h2 = PutBlock(PutBlock(h, p + words + 2, rest, TRUE), p, words, FALSE)

\* alloc_free_block cuts p in two: words, and rest words at new.
Fits(h, p, words, rest, new) ==
  words % 2 = 0 /\ words >= 2 /\ rest = h[p].n - words - 2 /\ rest > 0 /\ new = p + words + 2

\* The memory with another heap.
SetHeap(m, h) == [m EXCEPT !.heap = h]

\* p is taken with that many words, and what is left is free, at new.
TakenFirst(h, T, p, words, new, h2, T2) ==
  /\ new \in FreeOf(h2, T2) /\ p \in TakenOf(h2, T2) /\ Len(h2) = Len(h) /\ h2[p].n = words
  /\ TakenOf(h2, T2) = TakenOf(h, T) \cup {p} /\ Kept(h, T, h2, T2, {})
  /\ \A k \in p + 1 .. p + words : h2[k] = h[k]

\* The blocks after the cut.
LEMMA AllocCut ==
  ASSUME NEW m, NEW T, NEW p, Ordered(m, T, {p}, {p}), p \in FreeOf(m.heap, T),
         NEW words \in Nat, NEW rest \in Nat, NEW new, Fits(m.heap, p, words, rest, new),
         NEW h2, Halves(m.heap, p, words, rest, h2)
  PROVE  \E T2 \in SUBSET Nat : Ordered(SetHeap(m, h2), T2, {new}, {new}) /\ TakenFirst(m.heap, T, p, words, new, h2, T2)
<1>b. PICK h : h = m.heap
  OBVIOUS
<1>1. /\ m \in [heap : Seq(Word), lists : [Classes -> Seq(Nat)]]
      /\ Tiled(h, T) /\ Listed(h, m.lists, FreeOf(h, T) \ {p}) /\ Apart(h, T, {p}) /\ Len(h) <= MaxHeap /\ p \in FreeOf(h, T)
  BY <1>b DEF Ordered
<1>2. p \in T /\ h[p].free /\ p # End(h)
  BY <1>1, FreeFacts
<1>3. PICK n \in Nat : n = h[p].n /\ n % 2 = 0 /\ n = words + rest + 2 /\ rest % 2 = 0 /\ rest >= 2 /\ words >= 2 /\ words % 2 = 0
  <2>1. PICK n \in Nat : n = h[p].n /\ n % 2 = 0
    BY <1>1, <1>2, TileFacts
  <2>2. rest = n - words - 2 /\ rest > 0 /\ words >= 2 /\ words % 2 = 0
    BY <1>b, <2>1 DEF Fits
  <2> QED BY <2>1, <2>2
<1>4. PICK z \in T : z = NextBlock(h, p) /\ z = p + n + 2 /\ z \in Int /\ z <= End(h)
  <2>1. NextBlock(h, p) \in T /\ NextBlock(h, p) = p + h[p].n + 2
    BY <1>1, <1>2, TileFacts
  <2>2. NextBlock(h, p) \in Int /\ NextBlock(h, p) <= End(h)
    BY <1>1, <2>1, TileFacts
  <2> QED BY <1>3, <2>1, <2>2
<1>5. p \in Nat /\ p \in Int /\ p \in 1 .. Len(h) /\ End(h) = Len(h) - 1 /\ Len(h) \in Nat /\ p >= 3
  BY <1>1, <1>2, TileFacts
<1>6. new \in Nat /\ new = p + words + 2
  <2>1. new = p + words + 2
    BY DEF Fits
  <2> QED BY <1>5, <2>1
<1>7. PICK e \in Int : e = p + words + 1 /\ e + 1 = new /\ p < e /\ e < new
  BY <1>3, <1>5, <1>6
<1>70. PICK f \in Int : f = new + rest + 1 /\ f + 1 = z /\ new < f /\ f < z
  <2>1. z = new + rest + 2
    BY <1>3, <1>4, <1>5, <1>6
  <2> QED BY <1>3, <1>6, <2>1
<1>8. /\ p \in 1 .. Len(h) /\ e \in 1 .. Len(h) /\ new \in 1 .. Len(h) /\ f \in 1 .. Len(h)
      /\ e <= Len(h) /\ f <= Len(h) /\ p < new /\ new < z /\ p < z
  <2>1. PICK l \in Nat : l = Len(h) /\ z <= l - 1
    BY <1>4, <1>5
  <2>2. /\ p \in 1 .. l /\ e \in 1 .. l /\ new \in 1 .. l /\ f \in 1 .. l
        /\ e <= l /\ f <= l /\ p < new /\ new < z /\ p < z
    <3>1. z \in Int /\ p \in Int /\ p >= 3 /\ new \in Int
      BY <1>4, <1>5, <1>6
    <3> QED BY <1>7, <1>70, <2>1, <3>1
  <2> QED BY <2>1, <2>2
<1>9. PICK h1 : h1 = PutBlock(h, new, rest, TRUE)
  OBVIOUS
<1>10. /\ h1 \in Seq(Word) /\ Len(h1) = Len(h)
       /\ \A k \in 1 .. Len(h) : h1[k] = IF k = new \/ k = f THEN Tag(rest, TRUE) ELSE h[k]
  <2>1. HasRoom(h, new, rest)
    BY <1>1, <1>8, <1>70 DEF Tiled, HasRoom
  <2>2. Tags(h, new, rest, TRUE, h1)
    BY <1>9, <2>1, PutFacts
  <2> QED BY <1>70, <2>2 DEF Tags
<1>11. h2 = PutBlock(h1, p, words, FALSE)
  BY <1>b, <1>6, <1>9 DEF Halves
<1>12. /\ h2 \in Seq(Word) /\ Len(h2) = Len(h)
       /\ \A k \in 1 .. Len(h) : h2[k] = IF k = p \/ k = e THEN Tag(words, FALSE) ELSE h1[k]
  <2>1. HasRoom(h1, p, words)
    BY <1>8, <1>7, <1>10 DEF HasRoom
  <2>2. Tags(h1, p, words, FALSE, h2)
    BY <1>11, <2>1, PutFacts
  <2> QED BY <1>7, <1>10, <2>2 DEF Tags
<1>13. h2[p] = Tag(words, FALSE) /\ h2[e] = Tag(words, FALSE) /\ h2[new] = Tag(rest, TRUE) /\ h2[f] = Tag(rest, TRUE)
  <2>1. new # p /\ new # e /\ f # p /\ f # e
    BY <1>5, <1>6, <1>7, <1>70
  <2> QED BY <1>8, <1>10, <1>12, <2>1
<1>14. /\ h2[p].n = words /\ ~h2[p].free /\ h2[p].is = "tag"
       /\ h2[new].n = rest /\ h2[new].free /\ h2[new].is = "tag"
  BY <1>13, TagFacts
<1>15. FTRP(h2, p) = e /\ NextBlock(h2, p) = new /\ FTRP(h2, new) = f /\ NextBlock(h2, new) = z
  <2>1. FTRP(h2, p) = e /\ FTRP(h2, new) = f
    BY <1>7, <1>70, <1>14 DEF FTRP
  <2> QED BY <1>7, <1>70, <2>1 DEF NextBlock
<1>16. Same(h, h2, p, z)
  <2>1. p \in p .. z - 1 /\ e \in p .. z - 1 /\ new \in p .. z - 1 /\ f \in p .. z - 1
    BY <1>4, <1>5, <1>6, <1>7, <1>70
  <2> QED BY <1>10, <1>12, <2>1 DEF Same
<1>17. Cut(h2, {p, new}, p, z)
  <2>1. p % 2 = 1
    BY <1>1, <1>2 DEF Tiled
  <2>2. new % 2 = 1
    <3>1. words % 2 = 0
      BY <1>3
    <3> QED BY <1>5, <1>6, <2>1, <3>1
  <2>3. IsBlock(h2, p) /\ IsBlock(h2, new)
    BY <1>3, <1>13, <1>14, <1>15 DEF IsBlock
  <2>4. {p, new} \subseteq p .. z - 1
    BY <1>4, <1>5, <1>8
  <2>5. \A t, u \in {p, new} : t < u => NextBlock(h2, t) <= u
    <3>1. ~(p < p) /\ ~(new < new) /\ ~(new < p) /\ new <= new
      BY <1>5, <1>8
    <3> QED BY <1>15, <3>1
  <2> QED BY <1>15, <2>1, <2>2, <2>3, <2>4, <2>5 DEF Cut
<1>18. PICK T2 : T2 = (T \ (p .. z - 1)) \cup {p, new}
  OBVIOUS
<1>19. Tiled(h2, T2)
  BY <1>1, <1>2, <1>4, <1>8, <1>16, <1>17, <1>18, Replace
<1>20. Changed(h, T, h2, T2, p .. z - 1, {p, new})
  BY <1>1, <1>2, <1>4, <1>8, <1>16, <1>17, <1>18, Around
<1>21. \A t \in T : t \in p .. z - 1 <=> t = p
  BY <1>1, <1>2, <1>4, Alone
<1>22. new \notin T
  <2>1. new \in p .. z - 1 /\ new # p
    BY <1>4, <1>5, <1>8
  <2> QED BY <1>21, <2>1
<1>23. FreeOf(h2, T2) \ {new} = FreeOf(h, T) \ {p} /\ new \in FreeOf(h2, T2)
  <2>1. FreeOf(h2, T2) = (FreeOf(h, T) \ (p .. z - 1)) \cup {t \in {p, new} : h2[t].free}
    BY <1>20 DEF Changed
  <2>2. {t \in {p, new} : h2[t].free} = {new}
    BY <1>14
  <2>3. FreeOf(h, T) \ (p .. z - 1) = FreeOf(h, T) \ {p}
    BY <1>21 DEF FreeOf
  <2>4. new \notin FreeOf(h, T)
    BY <1>22 DEF FreeOf
  <2> QED BY <2>1, <2>2, <2>3, <2>4
<1>24. TakenOf(h2, T2) = TakenOf(h, T) \cup {p} /\ TakenOf(h, T) \ (p .. z - 1) = TakenOf(h, T)
  <2>1. TakenOf(h2, T2) = (TakenOf(h, T) \ (p .. z - 1)) \cup {t \in {p, new} : ~h2[t].free}
    BY <1>20 DEF Changed
  <2>2. {t \in {p, new} : ~h2[t].free} = {p}
    BY <1>14
  <2>3. TakenOf(h, T) \ (p .. z - 1) = TakenOf(h, T)
    BY <1>2, <1>21 DEF TakenOf
  <2> QED BY <2>1, <2>2, <2>3
<1>25. Kept(h, T, h2, T2, {})
  <2>1. Kept(h, T, h2, T2, p .. z - 1)
    BY <1>20 DEF Changed
  <2> QED BY <1>24, <2>1 DEF Kept
<1>26. Apart(h2, T2, {new})
  <2>1. {p} \subseteq p .. z - 1
    BY <1>2, <1>21
  <2>2. Apart(h2, T2, {p, new})
    BY <1>1, <1>20, <2>1 DEF Changed
  <2>3. p \notin FreeOf(h2, T2)
    BY <1>14 DEF FreeOf
  <2> QED BY <2>2, <2>3 DEF Apart
<1>27. Listed(h2, m.lists, FreeOf(h2, T2) \ {new})
  <2>1. \A q \in FreeOf(h, T) \ {p} : h2[q].n = h[q].n
    BY <1>20, <1>21 DEF Changed, FreeOf
  <2>2. Listed(h2, m.lists, FreeOf(h, T) \ {p})
    BY <1>1, <2>1, ListedSame
  <2> QED BY <1>23, <2>2
<1>28. PICK m2 : m2 = SetHeap(m, h2)
  OBVIOUS
<1>29. m2.heap = h2 /\ m2.lists = m.lists /\ m2 \in [heap : Seq(Word), lists : [Classes -> Seq(Nat)]]
  BY <1>1, <1>12, <1>28 DEF SetHeap
<1>30. Ordered(m2, T2, {new}, {new})
  BY <1>1, <1>12, <1>19, <1>26, <1>27, <1>29 DEF Ordered
<1>31. \A k \in p + 1 .. p + words : h2[k] = h[k]
  <2>1. \A k \in p + 1 .. p + words : k \in Int /\ p < k /\ k < e
    BY <1>5, <1>7
  <2>2. \A k \in p + 1 .. p + words : k \in 1 .. Len(h) /\ k # p /\ k # e /\ k # new /\ k # f
    BY <1>5, <1>6, <1>7, <1>70, <1>8, <2>1
  <2> QED BY <1>10, <1>12, <2>2
<1>32. T2 \in SUBSET Nat
  <2>1. \A t \in T : t \in Nat
    BY <1>1, TileFacts
  <2> QED BY <1>5, <1>6, <1>18, <2>1
<1>33. p \in TakenOf(h2, T2)
  BY <1>24
<1>34. TakenFirst(h, T, p, words, new, h2, T2)
  BY <1>12, <1>14, <1>23, <1>24, <1>25, <1>31, <1>33 DEF TakenFirst
<1> QED BY <1>b, <1>28, <1>30, <1>32, <1>34

\* How many words of p may be asked for.
Asks(h, p, words) == words % 2 = 0 /\ words >= 2 /\ words <= h[p].n

\* alloc_free_block.
LEMMA Alloced ==
  ASSUME NEW m, NEW T, NEW p, Ordered(m, T, {p}, {p}), p \in FreeOf(m.heap, T), T \subseteq Nat,
         NEW words \in Nat, Asks(m.heap, p, words)
  PROVE  \E T2 \in SUBSET Nat : Takes(m, T, p, words, alloc_free_block(m, p, words), T2)
<1>b. PICK h : h = m.heap
  OBVIOUS
<1>1. Tiled(h, T) /\ p \in FreeOf(h, T) /\ m \in [heap : Seq(Word), lists : [Classes -> Seq(Nat)]]
  BY <1>b DEF Ordered
<1>2. p \in T /\ p \in Nat /\ h[p].n \in Int /\ h[p].n % 2 = 0
  BY <1>1, FreeFacts, TileFacts
<1>3. PICK rest \in Int : rest = h[p].n - words - 2
  BY <1>2
<1>4. rest <= 0 => (IF rest = 0 THEN words + 2 ELSE words) = h[p].n
  <2>1. PICK n \in Int : n = h[p].n /\ n % 2 = 0 /\ words <= n
    BY <1>b, <1>2 DEF Asks
  <2>2. words % 2 = 0
    BY DEF Asks
  <2> QED BY <1>3, <2>1, <2>2
<1>5. CASE ~(rest > 0)
  <2>1. alloc_free_block(m, p, words) = [m EXCEPT !.heap = PutBlock(@, p, h[p].n, FALSE)]
    <3>1. ~Cuts(m.heap[p].n - words - 2)
      BY <1>b, <1>3, <1>5 DEF Cuts
    <3>2. (IF m.heap[p].n - words - 2 = 0 THEN words + 2 ELSE words) = h[p].n
      BY <1>b, <1>3, <1>4, <1>5
    <3>3. alloc_free_block(m, p, words)
            = [m EXCEPT !.heap = PutBlock(@, p, IF m.heap[p].n - words - 2 = 0 THEN words + 2 ELSE words, FALSE)]
      BY <3>1 DEF alloc_free_block
    <3> QED BY <3>2, <3>3
  <2>2. alloc_free_block(m, p, words) = [m EXCEPT !.heap = PutBlock(@, p, @[p].n, FALSE)]
    BY <1>b, <1>1, <2>1
  <2>3. words <= m.heap[p].n
    BY DEF Asks
  <2>4. Takes(m, T, p, words, alloc_free_block(m, p, words), T)
    <3>1. Takes(m, T, p, words, [m EXCEPT !.heap = PutBlock(@, p, @[p].n, FALSE)], T)
      BY <2>3, AllocWhole
    <3> QED BY <2>2, <3>1
  <2> QED BY <2>4
<1>6. CASE rest > 0
  <2>1. PICK h2 : Halves(h, p, words, rest, h2)
    BY DEF Halves
  <2>2. PICK new : new = p + words + 2
    OBVIOUS
  <2>3. PICK m1 : m1 = [m EXCEPT !.heap = h2]
    OBVIOUS
  <2>4. PICK c : c = coalesce(m1, new)
    OBVIOUS
  <2>5. PICK m2 : m2 = place_block_into_free_list(c.mem, c.bp)
    OBVIOUS
  <2>6. alloc_free_block(m, p, words) = m2
    BY <1>b, <1>3, <1>6, <2>1, <2>2, <2>3, <2>4, <2>5 DEF alloc_free_block, Cuts, Halves
  <2>7. m1.heap = h2
    BY <1>1, <2>3
  <2>8. PICK T1 \in SUBSET Nat :
           /\ Ordered(m1, T1, {new}, {new}) /\ new \in FreeOf(h2, T1)
           /\ p \in TakenOf(h2, T1) /\ Len(h2) = Len(h) /\ h2[p].n = words
           /\ TakenOf(h2, T1) = TakenOf(h, T) \cup {p} /\ Kept(h, T, h2, T1, {})
           /\ \A k \in p + 1 .. p + words : h2[k] = h[k]
    <3>1. rest \in Nat
      BY <1>6
    <3>2. Fits(m.heap, p, words, rest, new)
      BY <1>b, <1>3, <1>6, <2>2 DEF Fits, Asks
    <3>3. Halves(m.heap, p, words, rest, h2)
      BY <1>b, <2>1
    <3>4. PICK T1 \in SUBSET Nat :
             Ordered(SetHeap(m, h2), T1, {new}, {new}) /\ TakenFirst(m.heap, T, p, words, new, h2, T1)
      BY <3>1, <3>2, <3>3, AllocCut
    <3>5. m1 = SetHeap(m, h2)
      BY <2>3 DEF SetHeap
    <3> QED BY <1>b, <3>4, <3>5 DEF TakenFirst
  <2>9. PICK T2 \in SUBSET Nat : Joins(m1, T1, new, c, T2)
    BY <2>4, <2>7, <2>8, Coalesced
  <2>10. PICK g : g = c.mem.heap
    OBVIOUS
  <2>11. /\ Ordered(c.mem, T2, {c.bp}, {}) /\ c.bp \in FreeOf(g, T2) /\ Len(g) = Len(h2)
         /\ TakenOf(g, T2) = TakenOf(h2, T1) /\ Kept(h2, T1, g, T2, {})
    BY <2>7, <2>9, <2>10 DEF Joins, Moves
  <2>12. /\ Ordered(m2, T2, {}, {}) /\ Moves(c.mem, T2, m2, T2, {}, {})
         /\ Len(m2.heap) = Len(g) /\ \A t \in T2 : m2.heap[t] = g[t]
    <3>1. PICK mm : mm = c.mem
      OBVIOUS
    <3>2. PICK q : q = c.bp
      OBVIOUS
    <3>3. Ordered(mm, T2, {q}, {}) /\ q \in FreeOf(mm.heap, T2) /\ m2 = place_block_into_free_list(mm, q)
      BY <2>5, <2>10, <2>11, <3>1, <3>2
    <3>4. /\ Ordered(m2, T2, {}, {}) /\ Moves(mm, T2, m2, T2, {}, {})
          /\ Len(m2.heap) = Len(mm.heap) /\ \A t \in T2 : m2.heap[t] = mm.heap[t]
      <4>1. Places(mm, T2, {}, m2)
        BY <3>3, Placed
      <4> QED BY <4>1 DEF Places
    <3> QED BY <2>10, <3>1, <3>4
  <2>13. TakenOf(m2.heap, T2) = TakenOf(g, T2) /\ Kept(g, T2, m2.heap, T2, {})
    BY <2>10, <2>12 DEF Moves
  <2>14. Kept(h2, T1, m2.heap, T2, {}) /\ Kept(h, T, m2.heap, T2, {})
    <3>1. Tiled(h2, T1)
      BY <2>7, <2>8 DEF Ordered
    <3>2. Kept(h2, T1, m2.heap, T2, {} \cup {})
      BY <2>11, <2>13, <3>1, KeptTrans
    <3>3. {} \cup {} = {}
      OBVIOUS
    <3>4. Kept(h2, T1, m2.heap, T2, {})
      BY <3>2, <3>3
    <3>5. Kept(h, T, m2.heap, T2, {} \cup {})
      BY <1>1, <2>8, <3>4, KeptTrans
    <3> QED BY <3>3, <3>4, <3>5
  <2>15. p \in TakenOf(m2.heap, T2) /\ \A k \in p .. p + words + 1 : m2.heap[k] = h2[k]
    BY <2>8, <2>14 DEF Kept
  <2>16. m2.heap[p].n = words /\ \A k \in p + 1 .. p + words : m2.heap[k] = h[k]
    <3>1. p \in p .. p + words + 1 /\ \A k \in p + 1 .. p + words : k \in p .. p + words + 1
      BY <1>2
    <3> QED BY <2>8, <2>15, <3>1
  <2>17. Moves(m, T, m2, T2, {}, {p})
    BY <1>b, <2>8, <2>11, <2>13, <2>14 DEF Moves
  <2>18. p \in T2
    BY <2>15 DEF TakenOf
  <2>19. Takes(m, T, p, words, m2, T2)
    BY <1>b, <2>8, <2>11, <2>12, <2>16, <2>17, <2>18 DEF Takes
  <2> QED BY <2>6, <2>19
<1> QED BY <1>3, <1>5, <1>6

-----------------------------------------------------------------------------
(* The search and the extension of the heap.                               *)

\* A smallest free block with room for words, or 0.
Best(h, F, words, f) ==
  IF f = 0 THEN \A q \in F : h[q].n < words
  ELSE f \in F /\ h[f].n >= words /\ \A q \in F : h[q].n >= words => h[f].n <= h[q].n

\* find_free_block.
LEMMA Found ==
  ASSUME NEW m, NEW T, NEW X, Ordered(m, T, {}, X), NEW words \in Nat, find_free_list_index[words] \in Classes
  PROVE  Best(m.heap, FreeOf(m.heap, T), words, find_free_block(m, words))
<1>b. PICK h : h = m.heap
  OBVIOUS
<1>c. PICK c \in Classes : c = find_free_list_index[words]
  OBVIOUS
<1>d. PICK F : F = FreeOf(h, T)
  OBVIOUS
<1>e. PICK ls : ls = m.lists
  OBVIOUS
<1>1. Tiled(h, T) /\ Listed(h, ls, F)
  <2>1. FreeOf(h, T) \ {} = F
    BY <1>d
  <2> QED BY <1>b, <1>e, <2>1 DEF Ordered
<1>2. \A q \in F : q \in T /\ q # 0 /\ h[q].n \in Nat
  BY <1>1, <1>d, TileFacts DEF FreeOf
<1>3. ls \in [Classes -> Seq(Nat)]
  BY <1>1 DEF Listed
<1>4. ASSUME NEW k \in Classes, NEW i \in 1 .. Len(ls[k])
      PROVE  ls[k][i] \in F /\ find_free_list_index[h[ls[k][i]].n] = k /\ h[ls[k][i]].n \in Nat
  BY <1>1, <1>2 DEF Listed
<1>5. ASSUME NEW k \in Classes, NEW i \in 1 .. Len(ls[k]), NEW j \in 1 .. Len(ls[k]), i <= j
      PROVE  h[ls[k][j]].n <= h[ls[k][i]].n
  <2>1. h[ls[k][j]].n \in Nat /\ h[ls[k][i]].n \in Nat
    BY <1>4
  <2>2. CASE i = j
    BY <2>1, <2>2
  <2>3. CASE i < j
    BY <1>1, <2>1, <2>3 DEF Listed
  <2> QED BY <1>5, <2>2, <2>3
\* Each free block stands in the list of its class.
<1>6. ASSUME NEW q \in F
      PROVE  \E k \in Classes : k = find_free_list_index[h[q].n] /\ \E i \in 1 .. Len(ls[k]) : ls[k][i] = q
  <2>1. PICK k \in Classes : \E i \in 1 .. Len(ls[k]) : ls[k][i] = q
    BY <1>1 DEF Listed
  <2> QED BY <1>4, <2>1
\* Sizes compare as their classes do.
<1>7. ASSUME NEW a \in Nat, NEW b \in Nat, find_free_list_index[a] < find_free_list_index[b]
      PROVE  a <= b
  <2>1. find_free_list_index[a] \in Nat /\ find_free_list_index[b] \in Nat
    BY FindClass
  <2>2. b <= a => find_free_list_index[b] <= find_free_list_index[a]
    BY ClassGrows
  <2> QED BY <1>7, <2>1, <2>2
<1>8. ASSUME NEW q \in F, h[q].n >= words
      PROVE  c <= find_free_list_index[h[q].n]
  BY <1>2, <1>8, <1>c, ClassGrows
<1>9. \A k \in Classes : k \in Int /\ k \in Nat
  BY DEF Classes
<1> DEFINE Size(i) == h[ls[c][i]].n
           Stops(i) == Size(i) = words \/ i = Len(ls[c]) \/ Size(i + 1) < words
           S == {i \in 1 .. Len(ls[c]) : Stops(i)}
           larger == {k \in Classes : k > c /\ ls[k] # <<>>}
<1>10. find_free_block(m, words) =
         IF ls[c] # <<>> /\ Size(1) >= words THEN ls[c][Min(S)]
         ELSE IF larger # {} THEN Last(ls[Min(larger)]) ELSE 0
  BY <1>b, <1>c, <1>e DEF find_free_block
<1>11. Len(ls[c]) \in Nat /\ ls[c] \in Seq(Nat)
  BY <1>3
<1>12. CASE ls[c] # <<>> /\ Size(1) >= words
  <2>1. Len(ls[c]) >= 1
    BY <1>11, <1>12
  <2>2. Len(ls[c]) \in S
    BY <1>11, <2>1
  <2>3. PICK i \in S : i = Min(S) /\ \A k \in S : i <= k
    <3>1. S # {} /\ S \subseteq Nat
      BY <2>2
    <3> HIDE DEF S
    <3> QED BY <3>1, MinFacts
  <2>4. find_free_block(m, words) = ls[c][i]
    BY <1>10, <1>12, <2>3
  <2>5. i \in 1 .. Len(ls[c]) /\ Stops(i) /\ i \in Int
    <3>1. i \in 1 .. Len(ls[c])
      OBVIOUS
    <3>2. Stops(i)
      <4> HIDE DEF Stops
      <4> QED OBVIOUS
    <3> QED BY <3>1, <3>2
  <2>6. \A k \in 1 .. Len(ls[c]) : Size(k) \in Nat
    BY <1>4
  <2>7. Size(i) >= words
    <3>1. CASE i = 1
      BY <1>12, <3>1
    <3>2. CASE i # 1
      <4>1. PICK k \in 1 .. Len(ls[c]) : k + 1 = i /\ k \in Int
        BY <1>11, <2>5, <3>2
      <4>2. k \notin S
        <5>1. ~(i <= k)
          BY <2>5, <4>1
        <5> HIDE DEF S
        <5> QED BY <2>3, <5>1
      <4>3. ~(Size(k + 1) < words)
        BY <4>2
      <4>4. ~(Size(i) < words)
        BY <4>1, <4>3
      <4> HIDE DEF Size
      <4> QED BY <2>5, <2>6, <4>4
    <3> QED BY <3>1, <3>2
  <2>8. ASSUME NEW q \in F, h[q].n >= words PROVE Size(i) <= h[q].n
    <3>1. PICK k \in Classes : k = find_free_list_index[h[q].n] /\ \E j \in 1 .. Len(ls[k]) : ls[k][j] = q
      BY <1>6
    <3>2. c <= k
      BY <1>8, <2>8, <3>1
    <3>3. CASE k = c
      <4>1. PICK j \in 1 .. Len(ls[c]) : ls[c][j] = q
        BY <3>1, <3>3
      <4>2. CASE j <= i
        BY <1>5, <2>5, <4>1, <4>2
      <4>3. CASE i < j
        <5>1. i # Len(ls[c]) /\ i + 1 \in 1 .. Len(ls[c]) /\ i + 1 <= j
          BY <1>11, <2>5, <4>3
        <5>2. Size(j) <= Size(i + 1)
          BY <1>5, <5>1
        <5>3. Size(j) \in Nat /\ Size(i + 1) \in Nat /\ Size(j) >= words
          BY <2>6, <2>8, <4>1, <5>1
        <5>4. Size(i) = words \/ Size(i + 1) < words
          BY <2>5, <5>1
        <5>5. Size(i) = words /\ Size(j) = h[q].n
          <6> HIDE DEF Size
          <6>1. Size(i) = words
            BY <5>2, <5>3, <5>4
          <6> QED BY <4>1, <6>1 DEF Size
        <5> QED BY <2>8, <5>5
      <4> QED BY <2>5, <4>2, <4>3
    <3>4. CASE k # c
      <4>1. c < k
        BY <1>9, <3>2, <3>4
      <4>2. Size(i) \in Nat /\ find_free_list_index[Size(i)] = c /\ h[q].n \in Nat
        BY <1>2, <1>4, <2>5
      <4> HIDE DEF Size
      <4> QED BY <1>7, <3>1, <4>1, <4>2
    <3> QED BY <3>3, <3>4
  <2>9. ls[c][i] \in F /\ ls[c][i] # 0
    BY <1>2, <1>4, <2>5
  <2> QED BY <1>b, <1>d, <2>4, <2>7, <2>8, <2>9 DEF Best
<1>13. CASE ~(ls[c] # <<>> /\ Size(1) >= words)
  \* No block of this class is large enough.
  <2>1. ASSUME NEW q \in F, h[q].n >= words
        PROVE  \E k \in larger : k = find_free_list_index[h[q].n] /\ \E j \in 1 .. Len(ls[k]) : ls[k][j] = q
    <3>1. PICK k \in Classes : k = find_free_list_index[h[q].n] /\ \E j \in 1 .. Len(ls[k]) : ls[k][j] = q
      BY <1>6
    <3>2. PICK j \in 1 .. Len(ls[k]) : ls[k][j] = q
      BY <3>1
    <3>3. ls[k] # <<>>
      BY <1>3, <3>2
    <3>4. k # c
      <4> SUFFICES ASSUME k = c PROVE FALSE
        OBVIOUS
      <4>1. 1 \in 1 .. Len(ls[c]) /\ 1 <= j /\ j \in 1 .. Len(ls[c])
        BY <1>11, <3>2
      <4>2. h[q].n <= Size(1)
        BY <1>5, <3>2, <4>1
      <4>3. Size(1) \in Nat /\ h[q].n \in Nat
        BY <1>2, <1>4, <4>1
      <4>4. Size(1) >= words
        BY <2>1, <4>2, <4>3
      <4> QED BY <1>13, <3>3, <4>4
    <3>5. c <= k
      BY <1>8, <2>1, <3>1
    <3>6. k > c
      BY <1>9, <3>4, <3>5
    <3> QED BY <3>1, <3>3, <3>6
  <2>2. CASE larger = {}
    <3>1. find_free_block(m, words) = 0
      BY <1>10, <1>13, <2>2
    <3>2. ASSUME NEW q \in F PROVE h[q].n < words
      <4>1. ~(h[q].n >= words)
        BY <2>1, <2>2
      <4> QED BY <1>2, <4>1
    <3> QED BY <1>b, <1>d, <3>1, <3>2 DEF Best
  <2>3. CASE larger # {}
    <3>1. PICK k \in larger : k = Min(larger) /\ \A l \in larger : k <= l
      <4>1. larger \subseteq Nat
        BY <1>9
      <4> HIDE DEF larger
      <4> QED BY <2>3, <4>1, MinFacts
    <3>2. k \in Classes /\ k > c /\ ls[k] # <<>> /\ k \in Int
      BY <1>9, <3>1
    <3>3. PICK e : e = Len(ls[k]) /\ e \in 1 .. Len(ls[k])
      <4>1. ls[k] \in Seq(Nat) /\ ls[k] # <<>>
        BY <1>3, <3>2
      <4>2. Len(ls[k]) \in 1 .. Len(ls[k])
        BY <4>1
      <4> QED BY <4>2
    <3>4. PICK f : f = ls[k][e]
      OBVIOUS
    <3>5. find_free_block(m, words) = f
      BY <1>10, <1>13, <2>3, <3>1, <3>3, <3>4 DEF Last
    <3>6. f \in F /\ f # 0 /\ h[f].n \in Nat /\ find_free_list_index[h[f].n] = k
      BY <1>2, <1>4, <3>2, <3>3, <3>4
    <3>7. h[f].n >= words
      <4>1. words <= h[f].n
        BY <1>7, <1>c, <3>2, <3>6
      <4> QED BY <3>6, <4>1
    <3>8. ASSUME NEW q \in F, h[q].n >= words PROVE h[f].n <= h[q].n
      <4>1. PICK l \in larger : l = find_free_list_index[h[q].n] /\ \E j \in 1 .. Len(ls[l]) : ls[l][j] = q
        BY <2>1, <3>8
      <4>2. k <= l /\ l \in Int
        BY <1>9, <3>1, <4>1
      <4>3. CASE l = k
        <5>1. PICK j \in 1 .. Len(ls[k]) : ls[k][j] = q
          BY <4>1, <4>3
        <5>2. j <= e
          BY <3>3
        <5> QED BY <1>5, <3>2, <3>3, <3>4, <5>1, <5>2
      <4>4. CASE l # k
        <5>1. k < l
          BY <3>2, <4>2, <4>4
        <5> QED BY <1>2, <1>7, <3>6, <4>1, <5>1
      <4> QED BY <4>3, <4>4
    <3> QED BY <1>b, <1>d, <3>5, <3>6, <3>7, <3>8 DEF Best
  <2> QED BY <2>2, <2>3
<1> QED BY <1>12, <1>13

\* A heap that grew by the free block p.
Grows(m, T, r, words, T2) ==
  /\ Ordered(r.mem, T2, {r.bp}, {r.bp}) /\ r.bp \in FreeOf(r.mem.heap, T2)
  /\ Moves(m, T, r.mem, T2, {}, {}) /\ r.mem.heap[r.bp].n >= words
  /\ FreeOf(r.mem.heap, T2) = FreeOf(m.heap, T) \cup {r.bp}

\* extend_heap.
LEMMA Extended ==
  ASSUME NEW m, NEW T, Ordered(m, T, {}, {}), NEW words \in Nat \ {0}
  PROVE  \/ extend_heap(m, words) = [mem |-> m, bp |-> 0] /\ Len(m.heap) + Even(words) + 2 > MaxHeap
         \/ \E T2 \in SUBSET Nat : Grows(m, T, extend_heap(m, words), words, T2)
<1>b. PICK h : h = m.heap
  OBVIOUS
<1>1. /\ m \in [heap : Seq(Word), lists : [Classes -> Seq(Nat)]]
      /\ Tiled(h, T) /\ Listed(h, m.lists, FreeOf(h, T)) /\ Apart(h, T, {}) /\ h \in Seq(Word)
  <2>1. FreeOf(h, T) \ {} = FreeOf(h, T)
    OBVIOUS
  <2> QED BY <1>b, <2>1 DEF Ordered
<1>2. PICK n \in Nat : n = Even(words) /\ n >= 2 /\ n % 2 = 0 /\ n >= words
  BY EvenFacts
<1>3. PICK p \in Nat : p = Len(h) - 1 /\ p = End(h) /\ p \in T /\ p >= 3 /\ Len(h) = p + 1
  BY <1>1, TileFacts
<1>4. PICK hx : hx = h \o [k \in 1 .. n + 2 |-> Junk]
  OBVIOUS
<1>5. hx \in Seq(Word) /\ Len(hx) = p + n + 3 /\ \A k \in 1 .. p + 1 : hx[k] = h[k]
  <2>1. PICK j \in Seq(Word) : j = [k \in 1 .. n + 2 |-> Junk] /\ Len(j) = n + 2
    <3>1. [k \in 1 .. n + 2 |-> Junk] \in Seq(Word)
      BY OtherFacts
    <3>2. Len([k \in 1 .. n + 2 |-> Junk]) = n + 2
      OBVIOUS
    <3> QED BY <3>1, <3>2
  <2>2. hx = h \o j
    BY <1>4, <2>1
  <2>3. h \o j \in Seq(Word) /\ Len(h \o j) = Len(h) + Len(j) /\ \A k \in 1 .. Len(h) : (h \o j)[k] = h[k]
    BY <1>1
  <2>4. Len(h) + Len(j) = p + n + 3
    BY <1>3, <2>1
  <2> QED BY <1>3, <2>2, <2>3, <2>4
<1>6. PICK z \in Nat : z = p + n + 2
  OBVIOUS
<1>7. PICK h1 : h1 = PutBlock(hx, p, n, TRUE)
  OBVIOUS
<1>8. PICK h2 : h2 = PutBlock(h1, z, 0, FALSE)
  OBVIOUS
<1>9. extend_heap(m, words) =
        IF Len(hx) > MaxHeap THEN [mem |-> m, bp |-> 0] ELSE [mem |-> [m EXCEPT !.heap = h2], bp |-> p]
  BY <1>b, <1>2, <1>3, <1>4, <1>6, <1>7, <1>8 DEF extend_heap, Full
<1>10. CASE Len(hx) > MaxHeap
  <2>1. extend_heap(m, words) = [mem |-> m, bp |-> 0]
    BY <1>9, <1>10
  <2>2. Len(m.heap) + Even(words) + 2 = Len(hx)
    BY <1>b, <1>2, <1>3, <1>5
  <2> QED BY <1>10, <2>1, <2>2
<1>11. CASE ~(Len(hx) > MaxHeap)
  <2>1. PICK c : c = extend_heap(m, words)
    OBVIOUS
  <2>2. c = [mem |-> [m EXCEPT !.heap = h2], bp |-> p]
    BY <1>9, <1>11, <2>1
  <2>3. c.bp = p /\ c.mem.heap = h2 /\ c.mem.lists = m.lists /\ c.mem = [heap |-> h2, lists |-> m.lists]
    BY <1>1, <2>2
  <2>4. PICK f \in Nat : f = p + n + 1 /\ f + 1 = z /\ p < f
    BY <1>6
  <2>5. /\ h1 \in Seq(Word) /\ Len(h1) = z + 1
        /\ \A k \in 1 .. z + 1 : h1[k] = IF k = p \/ k = f THEN Tag(n, TRUE) ELSE hx[k]
    <3>1. HasRoom(hx, p, n)
      BY <1>3, <1>5 DEF HasRoom
    <3>2. Tags(hx, p, n, TRUE, h1)
      BY <1>7, <3>1, PutFacts
    <3>3. Len(hx) = z + 1
      BY <1>5, <1>6
    <3> QED BY <2>4, <3>2, <3>3 DEF Tags
  <2>6. /\ h2 \in Seq(Word) /\ Len(h2) = z + 1
        /\ \A k \in 1 .. z + 1 : h2[k] = IF k = z \/ k = z + 1 THEN Tag(0, FALSE) ELSE h1[k]
    <3>1. HasRoom(h1, z, 0)
      BY <1>3, <1>6, <2>5 DEF HasRoom
    <3>2. Tags(h1, z, 0, FALSE, h2)
      BY <1>8, <3>1, PutFacts
    <3>3. z + 0 + 1 = z + 1
      OBVIOUS
    <3> QED BY <2>5, <3>2, <3>3 DEF Tags
  <2>7. \A k \in 1 .. p - 1 : h2[k] = h[k]
    <3>1. \A k \in 1 .. p - 1 : k \in 1 .. z + 1 /\ k \in 1 .. p + 1 /\ k # p /\ k # f /\ k # z /\ k # z + 1
      BY <1>6, <2>4
    <3> QED BY <1>5, <2>5, <2>6, <3>1
  <2>8. h2[p] = Tag(n, TRUE) /\ h2[f] = Tag(n, TRUE) /\ h2[z] = Tag(0, FALSE) /\ h2[z + 1] = Tag(0, FALSE)
    <3>1. /\ p \in 1 .. z + 1 /\ f \in 1 .. z + 1 /\ z \in 1 .. z + 1 /\ z + 1 \in 1 .. z + 1
          /\ p # z /\ p # z + 1 /\ f # z /\ f # z + 1
      BY <1>3, <1>6, <2>4
    <3> QED BY <2>5, <2>6, <3>1
  <2>9. h2[p].n = n /\ h2[p].free /\ h2[p].is = "tag" /\ h2[z].n = 0 /\ ~h2[z].free
    BY <2>8, TagFacts
  <2>10. FTRP(h2, p) = f /\ NextBlock(h2, p) = z /\ End(h2) = z
    <3>1. FTRP(h2, p) = f
      BY <2>4, <2>9 DEF FTRP
    <3> QED BY <2>4, <2>6, <3>1 DEF NextBlock, End
  <2>11. IsBlock(h2, p)
    BY <1>2, <2>8, <2>9, <2>10 DEF IsBlock
  <2>12. PICK T2 : T2 = T \cup {z}
    OBVIOUS
  <2>13. \A t \in T : t \in Int /\ t >= 3 /\ t <= p
    BY <1>1, <1>3, TileFacts
  \* A block that stays.
  <2>14. ASSUME NEW t \in T, t # p
         PROVE  /\ t < p /\ \A k \in t .. t + h[t].n + 1 : h2[k] = h[k]
                /\ h2[t] = h[t] /\ IsBlock(h2, t) /\ NextBlock(h2, t) = NextBlock(h, t)
                /\ NextBlock(h, t) \in T /\ NextBlock(h, t) <= p /\ NextBlock(h, t) \in Int
    <3>1. IsBlock(h, t) /\ NextBlock(h, t) \in T
      BY <1>1, <1>3, <2>14 DEF Tiled
    <3>20. h[t].n \in Nat /\ FTRP(h, t) = t + h[t].n + 1 /\ NextBlock(h, t) = t + h[t].n + 2
      BY <1>1, TileFacts
    <3>2. PICK e \in Nat : e = h[t].n /\ FTRP(h, t) = t + e + 1 /\ NextBlock(h, t) = t + e + 2
      BY <3>20
    <3>3. t \in Int /\ t >= 3 /\ t < p /\ t + e + 2 <= p
      <4>1. t \in Int /\ t <= p /\ t >= 3 /\ t + e + 2 <= p
        BY <2>13, <3>1, <3>2
      <4> QED BY <2>14, <4>1
    <3>4. \A k \in t .. t + e + 1 : k \in 1 .. p - 1
      BY <3>3
    <3>5. \A k \in t .. t + e + 1 : h2[k] = h[k]
      BY <2>7, <3>4
    <3>6. t \in t .. t + e + 1 /\ t + e + 1 \in t .. t + e + 1
      BY <3>3
    <3>7. h2[t] = h[t] /\ h2[FTRP(h, t)] = h[FTRP(h, t)]
      BY <3>2, <3>5, <3>6
    <3>8. FTRP(h2, t) = FTRP(h, t) /\ NextBlock(h2, t) = NextBlock(h, t)
      BY <3>7 DEF FTRP, NextBlock
    <3>9. IsBlock(h2, t)
      BY <3>1, <3>7, <3>8 DEF IsBlock
    <3> QED BY <3>1, <3>2, <3>3, <3>5, <3>7, <3>8, <3>9
  <2>15. Tiled(h2, T2)
    <3>1. h2[1] = Tag(0, FALSE) /\ h2[2] = Tag(0, FALSE)
      <4>1. 1 \in 1 .. p - 1 /\ 2 \in 1 .. p - 1
        BY <1>3
      <4> QED BY <1>1, <2>7, <4>1 DEF Tiled
    <3>2. z % 2 = 1 /\ \A t \in T : t % 2 = 1
      <4>1. \A t \in T : t % 2 = 1
        BY <1>1 DEF Tiled
      <4>2. p % 2 = 1
        BY <1>3, <4>1
      <4>3. n % 2 = 0
        BY <1>2
      <4> QED BY <1>6, <4>1, <4>2, <4>3
    <3>3. 3 \in T2 /\ End(h2) \in T2
      BY <1>1, <2>10, <2>12 DEF Tiled
    <3>4. p < z
      BY <2>4
    <3>5. T2 \subseteq 3 .. End(h2)
      <4>1. z >= 3 /\ \A t \in T : t \in 3 .. z
        BY <1>3, <2>13, <3>4
      <4> QED BY <2>10, <2>12, <4>1
    <3>6. \A t \in T2 : t # End(h2) => IsBlock(h2, t) /\ NextBlock(h2, t) \in T2
      BY <2>10, <2>11, <2>12, <2>14
    <3>7. ASSUME NEW t \in T2, NEW u \in T2, t < u PROVE NextBlock(h2, t) <= u
      <4>1. CASE t = z
        BY <2>12, <2>13, <3>4, <3>7, <4>1
      <4>2. CASE t = p
        <5>1. u = z
          BY <2>12, <2>13, <3>7, <4>2
        <5> QED BY <2>10, <4>2, <5>1
      <4>3. CASE t \in T /\ t # p /\ u = z
        BY <2>14, <3>4, <4>3
      <4>4. CASE t \in T /\ t # p /\ u \in T
        <5>1. NextBlock(h, t) <= u
          BY <1>1, <3>7, <4>4 DEF Tiled
        <5> QED BY <2>14, <4>4, <5>1
      <4> QED BY <2>12, <4>1, <4>2, <4>3, <4>4
    <3> QED BY <2>6, <2>8, <2>10, <2>12, <3>1, <3>2, <3>3, <3>5, <3>6, <3>7 DEF Tiled
  <2>16. z \notin T /\ ~h[p].free
    <3>1. ~h[p].free
      BY <1>1, <1>3, TileFacts
    <3> QED BY <2>4, <2>13, <3>1
  <2>17. FreeOf(h2, T2) = FreeOf(h, T) \cup {p}
    <3>1. \A t \in T2 : h2[t].free <=> t \in FreeOf(h, T) \cup {p}
      BY <2>9, <2>12, <2>14, <2>16 DEF FreeOf
    <3>2. FreeOf(h, T) \cup {p} \subseteq T2
      BY <1>3, <2>12 DEF FreeOf
    <3> QED BY <3>1, <3>2 DEF FreeOf
  <2>18. p \notin FreeOf(h, T)
    BY <2>16 DEF FreeOf
  <2>19. TakenOf(h2, T2) = TakenOf(h, T)
    <3>1. \A t \in T2 : (~h2[t].free /\ t # End(h2)) <=> t \in TakenOf(h, T)
      BY <1>3, <2>9, <2>10, <2>12, <2>14, <2>16 DEF TakenOf
    <3>2. TakenOf(h, T) \subseteq T2
      BY <2>12 DEF TakenOf
    <3> QED BY <3>1, <3>2 DEF TakenOf
  <2>20. Kept(h, T, h2, T2, {})
    <3>1. \A t \in TakenOf(h, T) : t \in T /\ t # p
      BY <1>3 DEF TakenOf
    <3> QED BY <2>14, <2>19, <3>1 DEF Kept
  <2>21. Apart(h2, T2, {p})
    <3>1. ASSUME NEW t \in FreeOf(h2, T2) \ {p}, NEW u \in FreeOf(h2, T2) \ {p} PROVE NextBlock(h2, t) # u
      <4>1. t \in FreeOf(h, T) /\ u \in FreeOf(h, T) /\ t \in T /\ t # p
        BY <2>17 DEF FreeOf
      <4>2. NextBlock(h2, t) = NextBlock(h, t)
        BY <2>14, <4>1
      <4> QED BY <1>1, <4>1, <4>2 DEF Apart
    <3> QED BY <3>1 DEF Apart
  <2>22. Listed(h2, m.lists, FreeOf(h2, T2) \ {p})
    <3>1. FreeOf(h2, T2) \ {p} = FreeOf(h, T)
      BY <2>17, <2>18
    <3>2. \A q \in FreeOf(h, T) : h2[q].n = h[q].n
      BY <2>14, <2>18 DEF FreeOf
    <3>3. Listed(h2, m.lists, FreeOf(h, T))
      BY <1>1, <3>2, ListedSame
    <3> QED BY <3>1, <3>3
  <2>23. Ordered(c.mem, T2, {p}, {p})
    <3>1. m.lists \in [Classes -> Seq(Nat)]
      BY <1>1
    <3>2. Len(h2) <= MaxHeap
      <4>1. Len(h2) = Len(hx)
        BY <1>5, <1>6, <2>6
      <4>2. Len(hx) \in Nat /\ MaxHeap \in Nat
        BY <1>5, MaxHeapAssumption
      <4> QED BY <1>11, <4>1, <4>2
    <3> QED BY <2>3, <2>6, <2>15, <2>21, <2>22, <3>1, <3>2 DEF Ordered
  <2>24. Moves(m, T, c.mem, T2, {}, {})
    BY <1>b, <2>3, <2>19, <2>20 DEF Moves
  <2>25. T2 \in SUBSET Nat
    <3>1. \A t \in T : t \in Nat
      BY <1>1, TileFacts
    <3> QED BY <2>12, <3>1
  <2>26. Grows(m, T, c, words, T2)
    BY <1>b, <1>2, <2>3, <2>9, <2>17, <2>23, <2>24 DEF Grows
  <2> QED BY <2>1, <2>25, <2>26
<1> QED BY <1>10, <1>11

-----------------------------------------------------------------------------
(* malloc.                                                                 *)

\* What two changes of the taken blocks come to.
Sums(A, P, Q, P2, Q2, P3, Q3) ==
  (((A \ P) \cup Q) \ P2) \cup Q2 = (A \ P3) \cup Q3 /\ A \cap (P \cup P2) \subseteq P3

\* Two functions one after the other.
LEMMA MovesTwice ==
  ASSUME NEW m, NEW T, NEW m1, NEW T1, NEW m2, NEW T2, NEW P, NEW Q, NEW P2, NEW Q2, NEW P3, NEW Q3,
         Tiled(m.heap, T), Moves(m, T, m1, T1, P, Q), Moves(m1, T1, m2, T2, P2, Q2),
         Sums(TakenOf(m.heap, T), P, Q, P2, Q2, P3, Q3)
  PROVE  Moves(m, T, m2, T2, P3, Q3)
<1>1. TakenOf(m2.heap, T2) = (((TakenOf(m.heap, T) \ P) \cup Q) \ P2) \cup Q2
  BY DEF Moves
<1>2. TakenOf(m2.heap, T2) = (TakenOf(m.heap, T) \ P3) \cup Q3
  BY <1>1 DEF Sums
<1>3. Kept(m.heap, T, m2.heap, T2, P \cup P2)
  BY KeptTrans DEF Moves
<1>4. \A t \in TakenOf(m.heap, T) \ P3 : t \in TakenOf(m.heap, T) \ (P \cup P2)
  BY DEF Sums
<1>5. Kept(m.heap, T, m2.heap, T2, P3)
  BY <1>3, <1>4 DEF Kept
<1> QED BY <1>2, <1>5 DEF Moves

\* The blocks are T2 after r.bp, a block of at least words, was granted.
Grants(m, T, r, words, T2) ==
  /\ Ordered(r.mem, T2, {}, {}) /\ Moves(m, T, r.mem, T2, {}, {r.bp})
  /\ r.bp \notin TakenOf(m.heap, T) /\ r.bp \in T2 /\ r.mem.heap[r.bp].n >= words

\* A request whose size has a list.
Classed(bytes) == bytes # 0 => find_free_list_index[Granted(bytes)] \in Classes

\* mm_malloc.
LEMMA Malloced ==
  ASSUME NEW m, NEW T, Ordered(m, T, {}, {}), T \subseteq Nat, NEW bytes \in Nat, Classed(bytes)
  PROVE  \/ mm_malloc(m, bytes) = [mem |-> m, bp |-> 0]
         \/ \E T2 \in SUBSET Nat : Grants(m, T, mm_malloc(m, bytes), Granted(bytes), T2)
<1>b. PICK h : h = m.heap
  OBVIOUS
<1>c. PICK r : r = mm_malloc(m, bytes)
  OBVIOUS
<1>1. Tiled(h, T) /\ Apart(h, T, {})
  BY <1>b DEF Ordered
<1>2. CASE bytes = 0
  BY <1>2 DEF mm_malloc
<1>3. CASE bytes # 0
  <2>1. PICK words \in Nat : words = Granted(bytes) /\ words % 2 = 0 /\ words >= 2
    BY <1>3, GrantedFacts
  <2>2. find_free_list_index[words] \in Classes
    BY <1>3, <2>1 DEF Classed
  <2>3. PICK found : found = find_free_block(m, words)
    OBVIOUS
  <2>4. PICK size \in Nat \ {0} : size = (IF words > CHUNK THEN words ELSE CHUNK) /\ size >= words
    BY <2>1, ChunkAssumption
  <2>5. Best(h, FreeOf(h, T), words, found)
    BY <1>b, <2>2, <2>3, Found
  <2>6. CASE found # 0
    <3>1. found \in FreeOf(h, T) /\ h[found].n >= words
      BY <2>5, <2>6 DEF Best
    <3>2. PICK m1 : m1 = remove_block_from_free_list(m, found)
      OBVIOUS
    <3>3. r = [mem |-> alloc_free_block(m1, found, words), bp |-> found]
      BY <1>c, <1>3, <2>1, <2>3, <2>6, <3>2 DEF mm_malloc
    <3>4. Ordered(m1, T, {} \cup {found}, {}) /\ m1.heap = h
      BY <1>b, <3>1, <3>2, Removed
    <3>5. Ordered(m1, T, {found}, {found})
      <4>1. {} \cup {found} = {found}
        OBVIOUS
      <4>2. Ordered(m1, T, {found}, {})
        BY <3>4, <4>1
      <4>3. Apart(m1.heap, T, {found})
        BY <1>1, <3>4 DEF Apart
      <4> QED BY <4>2, <4>3 DEF Ordered
    <3>6. Asks(m1.heap, found, words)
      <4>1. found \in T /\ h[found].n \in Int
        BY <1>1, <3>1, FreeFacts, TileFacts
      <4>2. words <= h[found].n
        BY <3>1, <4>1
      <4> QED BY <2>1, <3>4, <4>2 DEF Asks
    <3>7. PICK T2 \in SUBSET Nat : Takes(m1, T, found, words, alloc_free_block(m1, found, words), T2)
      BY <3>1, <3>4, <3>5, <3>6, Alloced
    <3>8. r.bp = found /\ r.mem = alloc_free_block(m1, found, words)
      BY <3>3
    <3>9. Takes(m1, T, found, words, r.mem, T2)
      BY <3>7, <3>8
    <3>10. found \notin TakenOf(h, T)
      BY <3>1 DEF FreeOf, TakenOf
    <3>11. Moves(m, T, r.mem, T2, {}, {found})
      BY <1>b, <3>4, <3>9 DEF Takes, Moves
    <3>12. Grants(m, T, r, words, T2)
      BY <1>b, <3>8, <3>9, <3>10, <3>11 DEF Grants, Takes
    <3> QED BY <1>c, <2>1, <3>12
  <2>7. CASE found = 0
    <3>1. PICK c : c = extend_heap(m, size)
      OBVIOUS
    <3>2. r = IF c.bp = 0 THEN [mem |-> m, bp |-> 0]
                ELSE [mem |-> alloc_free_block(c.mem, c.bp, words), bp |-> c.bp]
      BY <1>c, <1>3, <2>1, <2>3, <2>4, <2>7, <3>1 DEF mm_malloc
    <3>3. CASE c = [mem |-> m, bp |-> 0]
      BY <1>c, <3>2, <3>3
    <3>4. CASE \E T1 \in SUBSET Nat : Grows(m, T, extend_heap(m, size), size, T1)
      <4>1. PICK T1 \in SUBSET Nat : Grows(m, T, c, size, T1)
        BY <3>1, <3>4
      <4>2. PICK p : p = c.bp
        OBVIOUS
      <4>3. PICK m1 : m1 = c.mem
        OBVIOUS
      <4>4. /\ Ordered(m1, T1, {p}, {p}) /\ p \in FreeOf(m1.heap, T1)
            /\ Moves(m, T, m1, T1, {}, {}) /\ m1.heap[p].n >= size
        BY <4>1, <4>2, <4>3 DEF Grows
      <4>5. p # 0 /\ m1.heap[p].n \in Int
        <5>1. Tiled(m1.heap, T1)
          BY <4>4 DEF Ordered
        <5>2. p \in T1
          BY <4>4 DEF FreeOf
        <5>3. p >= 3 /\ m1.heap[p].n \in Int /\ p \in Int
          BY <5>1, <5>2, TileFacts
        <5> QED BY <5>3
      <4>6. Asks(m1.heap, p, words)
        <5>1. words <= m1.heap[p].n
          BY <2>4, <4>4, <4>5
        <5> QED BY <2>1, <5>1 DEF Asks
      <4>7. PICK T2 \in SUBSET Nat : Takes(m1, T1, p, words, alloc_free_block(m1, p, words), T2)
        BY <4>4, <4>6, Alloced
      <4>8. r.bp = p /\ r.mem = alloc_free_block(m1, p, words)
        BY <3>2, <4>2, <4>3, <4>5
      <4>9. Takes(m1, T1, p, words, r.mem, T2)
        BY <4>7, <4>8
      <4>10. p \notin TakenOf(h, T)
        <5>1. TakenOf(m1.heap, T1) = TakenOf(h, T)
          BY <1>b, <4>4 DEF Moves
        <5>2. p \notin TakenOf(m1.heap, T1)
          BY <4>4 DEF FreeOf, TakenOf
        <5> QED BY <5>1, <5>2
      <4>11. Moves(m, T, r.mem, T2, {}, {p})
        <5>1. Moves(m1, T1, r.mem, T2, {}, {p})
          BY <4>9 DEF Takes
        <5>2. Sums(TakenOf(m.heap, T), {}, {}, {}, {p}, {}, {p})
          BY DEF Sums
        <5> QED BY <1>b, <1>1, <4>4, <5>1, <5>2, MovesTwice
      <4>12. Grants(m, T, r, words, T2)
        BY <1>b, <4>8, <4>9, <4>10, <4>11 DEF Grants, Takes
      <4> QED BY <1>c, <2>1, <4>12
    <3> QED BY <2>4, <3>1, <3>3, <3>4, Extended
  <2> QED BY <2>6, <2>7
<1> QED BY <1>2, <1>3

-----------------------------------------------------------------------------
(* free.                                                                   *)

\* The blocks are T2 after the taken block p was joined to the block c.bp.
Unites(m, T, p, c, T2) ==
  /\ Ordered(c.mem, T2, {c.bp}, {}) /\ c.bp \in FreeOf(c.mem.heap, T2)
  /\ Moves(m, T, c.mem, T2, {p}, {})
  /\ c.bp <= p /\ c.bp + c.mem.heap[c.bp].n >= p + m.heap[p].n
  /\ \A k \in p + 1 .. p + m.heap[p].n : c.mem.heap[k] = m.heap[k]

\* A block that is freed and joined, but not yet in a list.
LEMMA JoinedFacts ==
  ASSUME NEW m, NEW T, Ordered(m, T, {}, {}), T \subseteq Nat, NEW p \in TakenOf(m.heap, T)
  PROVE  \E T2 \in SUBSET Nat : Unites(m, T, p, Joined(m, p), T2)
<1>b. PICK h : h = m.heap
  OBVIOUS
<1>1. /\ m \in [heap : Seq(Word), lists : [Classes -> Seq(Nat)]]
      /\ Tiled(h, T) /\ Listed(h, m.lists, FreeOf(h, T)) /\ Apart(h, T, {}) /\ Len(h) <= MaxHeap
  <2>1. FreeOf(h, T) \ {} = FreeOf(h, T)
    OBVIOUS
  <2> QED BY <1>b, <2>1 DEF Ordered
<1>2. p \in T /\ ~h[p].free /\ p # End(h) /\ p \in TakenOf(h, T)
  BY <1>b, <1>1, TakenFacts
<1>3. PICK h1 : h1 = PutBlock(h, p, h[p].n, TRUE)
  OBVIOUS
<1>4. PICK m1 : m1 = [m EXCEPT !.heap = PutBlock(@, p, @[p].n, TRUE)]
  OBVIOUS
<1>5. m1.heap = h1 /\ m1.lists = m.lists /\ m1 = [heap |-> h1, lists |-> m.lists]
  BY <1>b, <1>1, <1>3, <1>4
<1>6. Retagged(h, T, p, TRUE, h1)
  BY <1>1, <1>2, <1>3, Retag
<1>7. Tiled(h1, T) /\ Len(h1) = Len(h) /\ h1[p].n = h[p].n /\ h1[p].free
  BY <1>6 DEF Retagged
<1>8. FreeOf(h1, T) \ {p} = FreeOf(h, T) /\ p \in FreeOf(h1, T)
  <2>1. FreeOf(h1, T) \ {p} = FreeOf(h, T) \ {p}
    BY <1>6 DEF Retagged
  <2>2. p \notin FreeOf(h, T) /\ p \in FreeOf(h1, T)
    BY <1>2, <1>7 DEF FreeOf
  <2> QED BY <2>1, <2>2
<1>9. TakenOf(h1, T) = (TakenOf(h, T) \ {p}) \cup {}
  <2>1. TakenOf(h1, T) \ {p} = TakenOf(h, T) \ {p}
    BY <1>6 DEF Retagged
  <2>2. p \notin TakenOf(h1, T)
    BY <1>7 DEF TakenOf
  <2> QED BY <2>1, <2>2
<1>10. Moves(m, T, m1, T, {p}, {})
  BY <1>b, <1>5, <1>6, <1>9 DEF Moves, Retagged
<1>11. Listed(h1, m.lists, FreeOf(h1, T) \ {p})
  <2>1. \A q \in FreeOf(h, T) : h1[q].n = h[q].n
    BY <1>2, <1>6 DEF Retagged, FreeOf
  <2>2. Listed(h1, m.lists, FreeOf(h, T))
    BY <1>1, <2>1, ListedSame
  <2> QED BY <1>8, <2>2
<1>12. Apart(h1, T, {p})
  <2>1. {} \subseteq {p} /\ Apart(h, T, {})
    BY <1>1
  <2> QED BY <1>6, <2>1 DEF Retagged
<1>13. Ordered(m1, T, {p}, {p})
  <2>1. h1 \in Seq(Word) /\ m.lists \in [Classes -> Seq(Nat)]
    BY <1>1, <1>7 DEF Tiled
  <2> QED BY <1>1, <1>5, <1>7, <1>11, <1>12, <2>1 DEF Ordered
<1>14. PICK c : c = coalesce(m1, p)
  OBVIOUS
<1>15. Joined(m, p) = c
  BY <1>4, <1>14 DEF Joined
<1>16. PICK T2 \in SUBSET Nat : Joins(m1, T, p, c, T2)
  BY <1>5, <1>8, <1>13, <1>14, Coalesced
<1>17. /\ Ordered(c.mem, T2, {c.bp}, {}) /\ c.bp \in FreeOf(c.mem.heap, T2)
       /\ Moves(m1, T, c.mem, T2, {}, {})
       /\ c.bp <= p /\ c.bp + c.mem.heap[c.bp].n >= p + h[p].n
       /\ \A k \in p + 1 .. p + h[p].n : c.mem.heap[k] = h1[k]
  BY <1>5, <1>7, <1>16 DEF Joins
<1>18. \A k \in p + 1 .. p + h[p].n : c.mem.heap[k] = h[k]
  BY <1>6, <1>17 DEF Retagged
<1>19. Moves(m, T, c.mem, T2, {p}, {})
  <2>1. Sums(TakenOf(m.heap, T), {p}, {}, {}, {}, {p}, {})
    BY DEF Sums
  <2> QED BY <1>b, <1>1, <1>10, <1>17, <2>1, MovesTwice
<1>20. Unites(m, T, p, c, T2)
  BY <1>b, <1>17, <1>18, <1>19 DEF Unites
<1> QED BY <1>15, <1>20

\* mm_free.
LEMMA Freed ==
  ASSUME NEW m, NEW T, Ordered(m, T, {}, {}), T \subseteq Nat, NEW p \in TakenOf(m.heap, T)
  PROVE  \E T2 \in SUBSET Nat : Ordered(mm_free(m, p), T2, {}, {}) /\ Moves(m, T, mm_free(m, p), T2, {p}, {})
<1>1. PICK c : c = Joined(m, p)
  OBVIOUS
<1>2. PICK T2 \in SUBSET Nat : Unites(m, T, p, c, T2)
  BY <1>1, JoinedFacts
<1>3. PICK mm : mm = c.mem
  OBVIOUS
<1>4. PICK q : q = c.bp
  OBVIOUS
<1>5. PICK m2 : m2 = place_block_into_free_list(mm, q)
  OBVIOUS
<1>6. mm_free(m, p) = m2
  BY <1>1, <1>3, <1>4, <1>5 DEF mm_free
<1>7. Ordered(mm, T2, {q}, {}) /\ q \in FreeOf(mm.heap, T2) /\ Moves(m, T, mm, T2, {p}, {})
  BY <1>2, <1>3, <1>4 DEF Unites
<1>8. Places(mm, T2, {}, m2)
  BY <1>5, <1>7, Placed
<1>9. Ordered(m2, T2, {}, {}) /\ Moves(mm, T2, m2, T2, {}, {})
  BY <1>8 DEF Places
<1>10. Moves(m, T, m2, T2, {p}, {})
  <2>1. Sums(TakenOf(m.heap, T), {p}, {}, {}, {}, {p}, {})
    BY DEF Sums
  <2>2. Tiled(m.heap, T)
    BY DEF Ordered
  <2> QED BY <1>7, <1>9, <2>1, <2>2, MovesTwice
<1> QED BY <1>6, <1>9, <1>10

-----------------------------------------------------------------------------
(* Writes to what is inside a block.                                       *)

\* The memory m2 has the blocks of m; only what is inside p may differ.
Writes(m, T, p, L, X, m2) ==
  /\ Ordered(m2, T, L, X) /\ Moves(m, T, m2, T, {p}, {p} \cap TakenOf(m.heap, T))
  /\ \A t \in T : m2.heap[t] = m.heap[t]
  /\ FreeOf(m2.heap, T) = FreeOf(m.heap, T) /\ TakenOf(m2.heap, T) = TakenOf(m.heap, T)

\* Writing inside a block keeps the memory in order.
LEMMA Written ==
  ASSUME NEW m, NEW T, NEW L, NEW X, Ordered(m, T, L, X), NEW p \in T, p # End(m.heap),
         NEW h2, Payload(m.heap, h2, p)
  PROVE  Writes(m, T, p, L, X, SetHeap(m, h2))
<1>b. PICK h : h = m.heap
  OBVIOUS
<1>1. /\ m \in [heap : Seq(Word), lists : [Classes -> Seq(Nat)]]
      /\ Tiled(h, T) /\ Listed(h, m.lists, FreeOf(h, T) \ L) /\ Apart(h, T, X) /\ Len(h) <= MaxHeap
      /\ Payload(h, h2, p) /\ p # End(h) /\ p \in T
  BY <1>b DEF Ordered
<1>2. PICK m2 : m2 = SetHeap(m, h2)
  OBVIOUS
<1>3. h2 \in Seq(Word) /\ Len(h2) = Len(h)
  BY <1>1 DEF Payload
<1>4. m2.heap = h2 /\ m2.lists = m.lists /\ m2 \in [heap : Seq(Word), lists : [Classes -> Seq(Nat)]]
  BY <1>1, <1>2, <1>3 DEF SetHeap
<1>50. SameBlocks(h, T, p, h2)
  <2>1. Tiled(h, T) /\ p \in T /\ p # End(h) /\ Payload(h, h2, p)
    BY <1>1
  <2> QED BY <2>1, Inside
<1>5. /\ Tiled(h2, T) /\ \A t \in T : h2[t] = h[t]
      /\ FreeOf(h2, T) = FreeOf(h, T) /\ TakenOf(h2, T) = TakenOf(h, T) /\ Kept(h, T, h2, T, {p})
  BY <1>50 DEF SameBlocks
<1>6. Apart(h2, T, X)
  BY <1>1, <1>50, InsideApart
<1>7. Listed(h2, m.lists, FreeOf(h2, T) \ L)
  <2>1. FreeOf(h, T) \ L \subseteq T
    BY DEF FreeOf
  <2>2. Listed(h2, m.lists, FreeOf(h, T) \ L)
    BY <1>1, <1>50, <2>1, InsideListed
  <2> QED BY <1>5, <2>2
<1>8. Ordered(m2, T, L, X)
  BY <1>1, <1>3, <1>4, <1>5, <1>6, <1>7 DEF Ordered
<1>9. Moves(m, T, m2, T, {p}, {p} \cap TakenOf(m.heap, T))
  BY <1>b, <1>4, <1>5 DEF Moves
<1>10. Writes(m, T, p, L, X, m2)
  BY <1>b, <1>4, <1>5, <1>8, <1>9 DEF Writes
<1> QED BY <1>2, <1>10

\* Copy of n words into the block p.
Roomy(m, T, p, from, n) ==
  p \in T /\ p # End(m.heap) /\ from \in Nat /\ n \in Nat /\ n <= m.heap[p].n /\ from + n <= Len(m.heap)

\* A copy writes inside p, and p holds what was copied.
Copies(m, T, L, X, p, from, n, m2) ==
  Writes(m, T, p, L, X, m2) /\ \A k \in 1 .. n : m2.heap[p + k] = m.heap[from + k]

\* memcpy of n words into the block p.
LEMMA Copied ==
  ASSUME NEW m, NEW T, NEW L, NEW X, Ordered(m, T, L, X), NEW p, NEW from, NEW n, Roomy(m, T, p, from, n)
  PROVE  Copies(m, T, L, X, p, from, n, Copy(m, from, p, n))
<1>a. p \in T /\ p # End(m.heap) /\ from \in Nat /\ n \in Nat /\ n <= m.heap[p].n /\ from + n <= Len(m.heap)
  BY DEF Roomy
<1>b. PICK h : h = m.heap
  OBVIOUS
<1>1. m \in [heap : Seq(Word), lists : [Classes -> Seq(Nat)]] /\ Tiled(h, T) /\ h \in Seq(Word)
  BY <1>b DEF Ordered
<1>2. PICK s \in Nat : s = h[p].n /\ n <= s /\ p + s + 1 \in 1 .. Len(h)
  <2>1. h[p].n \in Nat /\ p + h[p].n + 1 \in 1 .. Len(h)
    BY <1>a, <1>b, <1>1, TileFacts
  <2> QED BY <1>a, <1>b, <2>1
<1>3. p \in Nat /\ from \in Nat /\ n \in Nat /\ Len(h) \in Nat /\ p >= 3
  BY <1>a, <1>1, TileFacts
<1>4. PICK h2 : h2 = [k \in DOMAIN h |-> IF k \in p + 1 .. p + n THEN h[k - p + from] ELSE h[k]]
  OBVIOUS
<1>5. Copy(m, from, p, n) = SetHeap(m, h2)
  BY <1>b, <1>1, <1>4 DEF Copy, SetHeap
<1>6. \A k \in p + 1 .. p + n : k \in 1 .. Len(h) /\ k - p + from \in 1 .. Len(h) /\ k \in p + 1 .. p + s
  <2>1. PICK l \in Nat : l = Len(h) /\ from + n <= l /\ p + s + 1 <= l
    BY <1>a, <1>b, <1>2, <1>3
  <2>2. \A k \in p + 1 .. p + n : k \in 1 .. l /\ k - p + from \in 1 .. l /\ k \in p + 1 .. p + s
    BY <1>2, <1>3, <2>1
  <2> QED BY <2>1, <2>2
<1>7. h2 \in Seq(Word) /\ Len(h2) = Len(h)
  <2>1. DOMAIN h = 1 .. Len(h) /\ Len(h) \in Nat /\ \A k \in 1 .. Len(h) : h[k] \in Word
    BY <1>1
  <2>2. \A k \in 1 .. Len(h) : h2[k] \in Word
    BY <1>4, <1>6, <2>1
  <2>3. h2 \in [1 .. Len(h) -> Word]
    BY <1>4, <2>1, <2>2
  <2> QED BY <2>1, <2>3
<1>8. \A k \in 1 .. Len(h) : k \notin p + 1 .. p + s => h2[k] = h[k]
  BY <1>1, <1>4, <1>6
<1>9. Payload(h, h2, p)
  BY <1>2, <1>7, <1>8 DEF Payload
<1>10. Writes(m, T, p, L, X, SetHeap(m, h2))
  BY <1>a, <1>b, <1>9, Written
<1>11. \A k \in 1 .. n : h2[p + k] = h[from + k]
  <2> SUFFICES ASSUME NEW k \in 1 .. n PROVE h2[p + k] = h[from + k]
    OBVIOUS
  <2>1. p + k \in p + 1 .. p + n /\ (p + k) - p + from = from + k
    BY <1>3
  <2> QED BY <1>1, <1>4, <1>6, <2>1
<1>12. SetHeap(m, h2).heap = h2
  BY <1>1 DEF SetHeap
<1> QED BY <1>b, <1>5, <1>10, <1>11, <1>12 DEF Copies

\* What the client writes.
LEMMA Filled ==
  ASSUME NEW m, NEW T, Ordered(m, T, {}, {}), NEW i \in Ids, NEW p \in TakenOf(m.heap, T),
         NEW a \in Nat, NEW b \in Nat, b <= m.heap[p].n, a >= 1
  PROVE  /\ Writes(m, T, p, {}, {}, Fill(m, i, p, a, b))
         /\ \A k \in 1 .. b : Fill(m, i, p, a, b).heap[p + k] = IF k >= a THEN Data(i) ELSE m.heap[p + k]
<1>b. PICK h : h = m.heap
  OBVIOUS
<1>1. m \in [heap : Seq(Word), lists : [Classes -> Seq(Nat)]] /\ Tiled(h, T) /\ h \in Seq(Word)
  BY <1>b DEF Ordered
<1>0. p \in T /\ p # End(h)
  BY <1>b, <1>1, TakenFacts
<1>2. PICK s \in Nat : s = h[p].n /\ b <= s /\ p + s + 1 \in 1 .. Len(h)
  <2>1. h[p].n \in Nat /\ p + h[p].n + 1 \in 1 .. Len(h)
    BY <1>0, <1>1, TileFacts
  <2> QED BY <1>b, <2>1
<1>3. p \in Nat /\ Len(h) \in Nat /\ p >= 3
  BY <1>0, <1>1, TileFacts
<1>4. PICK h2 : h2 = [k \in DOMAIN h |-> IF k \in p + a .. p + b THEN Data(i)
                                         ELSE IF k \in p + b + 1 .. p + s THEN Junk ELSE h[k]]
  OBVIOUS
<1>5. Fill(m, i, p, a, b) = SetHeap(m, h2)
  BY <1>b, <1>1, <1>2, <1>4 DEF Fill, SetHeap
<1>6. Data(i) \in Word /\ Junk \in Word
  BY OtherFacts
<1>7. h2 \in Seq(Word) /\ Len(h2) = Len(h)
  <2>1. PICK d \in Word, u \in Word : d = Data(i) /\ u = Junk
    BY <1>6
  <2>2. h2 = [k \in DOMAIN h |-> IF k \in p + a .. p + b THEN d
                                ELSE IF k \in p + b + 1 .. p + s THEN u ELSE h[k]]
    BY <1>4, <2>1
  <2>3. \A k \in DOMAIN h : h2[k] \in Word
    BY <1>1, <2>2
  <2>4. DOMAIN h = 1 .. Len(h) /\ Len(h) \in Nat
    BY <1>1
  <2>5. h2 \in [1 .. Len(h) -> Word]
    BY <2>2, <2>3, <2>4
  <2> QED BY <2>4, <2>5
<1>8. \A k \in 1 .. Len(h) : k \notin p + 1 .. p + s => h2[k] = h[k]
  <2>1. \A k \in 1 .. Len(h) : k \notin p + 1 .. p + s => k \notin p + a .. p + b /\ k \notin p + b + 1 .. p + s
    BY <1>2, <1>3
  <2> QED BY <1>1, <1>4, <2>1
<1>9. Payload(h, h2, p)
  BY <1>2, <1>7, <1>8 DEF Payload
<1>10. Writes(m, T, p, {}, {}, SetHeap(m, h2))
  BY <1>b, <1>0, <1>9, Written
<1>11. \A k \in 1 .. b : h2[p + k] = IF k >= a THEN Data(i) ELSE h[p + k]
  <2> SUFFICES ASSUME NEW k \in 1 .. b PROVE h2[p + k] = IF k >= a THEN Data(i) ELSE h[p + k]
    OBVIOUS
  <2>1. p + k \in 1 .. Len(h) /\ (p + k \in p + a .. p + b <=> k >= a) /\ p + k \notin p + b + 1 .. p + s
    BY <1>2, <1>3
  <2> QED BY <1>1, <1>4, <2>1
<1>12. SetHeap(m, h2).heap = h2
  BY <1>1 DEF SetHeap
<1> QED BY <1>b, <1>5, <1>10, <1>11, <1>12

-----------------------------------------------------------------------------
(* realloc.                                                                *)

\* The blocks are T2 after p, with what it holds, became r.bp.
Resized(m, T, p, r, words, T2) ==
  /\ Ordered(r.mem, T2, {}, {}) /\ Moves(m, T, r.mem, T2, {p}, {r.bp})
  /\ r.bp \notin TakenOf(m.heap, T) \ {p} /\ r.bp \in Nat /\ r.bp # 0 /\ r.mem.heap[r.bp].n >= words
  /\ \A k \in 1 .. m.heap[p].n : r.mem.heap[r.bp + k] = m.heap[p + k]

\* A block that has the right size, or is larger than asked for.
LEMMA Unchanged ==
  ASSUME NEW m, NEW T, Ordered(m, T, {}, {}), NEW p \in TakenOf(m.heap, T), NEW words \in Nat, words <= m.heap[p].n
  PROVE  Resized(m, T, p, [mem |-> m, bp |-> p], words, T)
<1>1. Tiled(m.heap, T)
  BY DEF Ordered
<1>2. p \in T
  BY <1>1, TakenFacts
<1>3. p \in Nat /\ p # 0 /\ m.heap[p].n \in Nat
  BY <1>1, <1>2, TileFacts
<1>4. Moves(m, T, m, T, {p}, {p})
  BY DEF Moves, Kept
<1> QED BY <1>3, <1>4 DEF Resized

\* A size larger than the block, and what the block has.
Grown(m, p, old, size) == old = m.heap[p].n /\ size % 2 = 0 /\ old < size

\* The block and its free neighbours have room.
LEMMA GrownInPlace ==
  ASSUME NEW m, NEW T, Ordered(m, T, {}, {}), T \subseteq Nat, NEW p \in TakenOf(m.heap, T),
         NEW old \in Nat, NEW size \in Nat, Grown(m, p, old, size),
         NEW c, c = Joined(m, p), c.mem.heap[c.bp].n >= size,
         NEW cm, cm = IF c.bp = p THEN c.mem ELSE Copy(c.mem, p, c.bp, old)
  PROVE  \E T2 \in SUBSET Nat : Resized(m, T, p, [mem |-> alloc_free_block(cm, c.bp, size), bp |-> c.bp], size, T2)
<1>b. PICK h : h = m.heap
  OBVIOUS
<1>c. PICK q : q = c.bp
  OBVIOUS
<1>d. PICK g : g = c.mem.heap
  OBVIOUS
<1>e. PICK mm : mm = c.mem
  OBVIOUS
<1>1. Tiled(h, T)
  BY <1>b DEF Ordered
<1>2. p \in T /\ p \in TakenOf(h, T) /\ p \in Nat /\ p >= 3 /\ h[p].n >= 2 /\ old = h[p].n
  <2>1. p \in T /\ h[p].n >= 2 /\ p \in TakenOf(h, T)
    BY <1>b, <1>1, TakenFacts
  <2> QED BY <1>b, <1>1, <2>1, TileFacts DEF Grown
<1>3. old < size /\ size % 2 = 0 /\ old >= 2
  BY <1>2 DEF Grown
<1>4. PICK T1 \in SUBSET Nat : Unites(m, T, p, c, T1)
  BY JoinedFacts
<1>5. /\ Ordered(mm, T1, {q}, {}) /\ q \in FreeOf(g, T1) /\ Moves(m, T, mm, T1, {p}, {})
      /\ q <= p /\ q + g[q].n >= p + old
      /\ \A k \in p + 1 .. p + old : g[k] = h[k]
  BY <1>b, <1>c, <1>d, <1>e, <1>2, <1>4 DEF Unites
<1>6. Tiled(g, T1) /\ mm.heap = g
  BY <1>d, <1>e, <1>5 DEF Ordered
<1>7. q \in T1 /\ q # End(g) /\ q \in Nat /\ q >= 3 /\ g[q].n \in Nat /\ q + g[q].n + 2 <= End(g) /\ End(g) = Len(g) - 1
  <2>1. q \in T1 /\ q # End(g)
    BY <1>5, <1>6, FreeFacts
  <2> QED BY <1>6, <2>1, TileFacts
<1>8. TakenOf(g, T1) = TakenOf(h, T) \ {p}
  BY <1>b, <1>5, <1>6 DEF Moves
<1>9. q \notin TakenOf(g, T1)
  BY <1>5 DEF FreeOf, TakenOf
<1>10. PICK n \in Nat : n = g[q].n /\ size <= n /\ q + n >= p + old
  <2>1. g[q].n >= size
    BY <1>c, <1>d
  <2> QED BY <1>5, <1>7, <2>1
<1>11. /\ Ordered(cm, T1, {q}, {}) /\ q \in FreeOf(cm.heap, T1) /\ Moves(m, T, cm, T1, {p}, {})
       /\ cm.heap[q].n = n /\ \A k \in 1 .. old : cm.heap[q + k] = h[p + k]
  <2>1. \A k \in 1 .. old : g[p + k] = h[p + k]
    <3>1. \A k \in 1 .. old : p + k \in p + 1 .. p + old
      BY <1>2
    <3> QED BY <1>5, <3>1
  <2>2. CASE q = p
    <3>1. cm = mm
      BY <1>c, <1>e, <2>2
    <3> QED BY <1>5, <1>6, <1>10, <2>1, <2>2, <3>1
  <2>3. CASE q # p
    <3>1. cm = Copy(mm, p, q, old)
      BY <1>c, <1>e, <2>3
    <3>2. old <= mm.heap[q].n /\ p + old <= Len(mm.heap) /\ q # End(mm.heap)
      <4>1. old <= n
        BY <1>3, <1>10
      <4>2. PICK l \in Int : l = Len(g) /\ q + n + 2 <= l - 1
        BY <1>6, <1>7, <1>10, TileFacts
      <4>3. p + old <= l
        <5>1. p \in Int /\ q \in Int /\ old \in Int /\ q + n >= p + old
          BY <1>2, <1>7, <1>10
        <5> QED BY <4>2, <5>1
      <4> QED BY <1>6, <1>7, <1>10, <4>1, <4>2, <4>3
    <3>3. Copies(mm, T1, {q}, {}, q, p, old, Copy(mm, p, q, old))
      <4>1. Roomy(mm, T1, q, p, old)
        BY <1>2, <1>7, <3>2 DEF Roomy
      <4> QED BY <1>5, <4>1, Copied
    <3>4. Writes(mm, T1, q, {q}, {}, cm) /\ \A k \in 1 .. old : cm.heap[q + k] = g[p + k]
      BY <1>6, <3>1, <3>3 DEF Copies
    <3>5. /\ Ordered(cm, T1, {q}, {}) /\ Moves(mm, T1, cm, T1, {q}, {q} \cap TakenOf(g, T1))
          /\ cm.heap[q] = g[q] /\ FreeOf(cm.heap, T1) = FreeOf(g, T1)
      BY <1>6, <1>7, <3>4 DEF Writes
    <3>6. Moves(m, T, cm, T1, {p}, {})
      <4>1. Sums(TakenOf(m.heap, T), {p}, {}, {q}, {q} \cap TakenOf(g, T1), {p}, {})
        BY <1>b, <1>8, <1>9 DEF Sums
      <4> QED BY <1>b, <1>1, <1>5, <3>5, <4>1, MovesTwice
    <3> QED BY <1>5, <1>10, <2>1, <3>4, <3>5, <3>6
  <2> QED BY <2>2, <2>3
<1>12. Ordered(cm, T1, {q}, {q})
  BY <1>11 DEF Ordered, Apart
<1>13. Asks(cm.heap, q, size)
  <2>1. size >= 2
    BY <1>3
  <2> QED BY <1>3, <1>10, <1>11, <2>1 DEF Asks
<1>14. PICK m2 : m2 = alloc_free_block(cm, q, size)
  OBVIOUS
<1>15. PICK T2 \in SUBSET Nat : Takes(cm, T1, q, size, m2, T2)
  <2>1. T1 \subseteq Nat
    OBVIOUS
  <2> QED BY <1>11, <1>12, <1>13, <1>14, <2>1, Alloced
<1>16. /\ Ordered(m2, T2, {}, {}) /\ Moves(cm, T1, m2, T2, {}, {q}) /\ m2.heap[q].n >= size
       /\ \A k \in q + 1 .. q + size : m2.heap[k] = cm.heap[k]
  BY <1>15 DEF Takes
<1>17. Moves(m, T, m2, T2, {p}, {q})
  <2>1. Sums(TakenOf(m.heap, T), {p}, {}, {}, {q}, {p}, {q})
    BY DEF Sums
  <2> QED BY <1>b, <1>1, <1>11, <1>16, <2>1, MovesTwice
<1>18. \A k \in 1 .. old : m2.heap[q + k] = h[p + k]
  <2>1. \A k \in 1 .. old : q + k \in q + 1 .. q + size
    BY <1>3, <1>7
  <2> QED BY <1>11, <1>16, <2>1
<1>19. PICK r : r = [mem |-> m2, bp |-> q]
  OBVIOUS
<1>20. r.mem = m2 /\ r.bp = q
  BY <1>19
<1>21. q \notin TakenOf(h, T) \ {p} /\ q # 0
  BY <1>7, <1>8, <1>9
<1>22. Resized(m, T, p, r, size, T2)
  BY <1>b, <1>2, <1>7, <1>16, <1>17, <1>18, <1>20, <1>21 DEF Resized
<1> QED BY <1>c, <1>14, <1>19, <1>22

\* Another block is granted, and takes what this one held.
LEMMA MovedAway ==
  ASSUME NEW m, NEW T, Ordered(m, T, {}, {}), T \subseteq Nat, NEW p \in TakenOf(m.heap, T),
         NEW old \in Nat, NEW size \in Nat, Grown(m, p, old, size), Classed(Moved(size)),
         NEW o, o = mm_malloc(m, Moved(size)), o.bp # 0
  PROVE  \E T2 \in SUBSET Nat : Resized(m, T, p, [mem |-> mm_free(Copy(o.mem, p, o.bp, old), p), bp |-> o.bp], size, T2)
<1>b. PICK h : h = m.heap
  OBVIOUS
<1>c. PICK q : q = o.bp
  OBVIOUS
<1>e. PICK mm : mm = o.mem
  OBVIOUS
<1>d. PICK g : g = mm.heap
  OBVIOUS
<1>1. Tiled(h, T)
  BY <1>b DEF Ordered
<1>2. p \in T /\ p \in TakenOf(h, T) /\ p \in Nat /\ old = h[p].n
  <2>1. p \in T /\ p \in TakenOf(h, T)
    BY <1>b, <1>1, TakenFacts
  <2> QED BY <1>b, <1>1, <2>1, TileFacts DEF Grown
<1>3. old < size
  BY DEF Grown
<1>4. Moved(size) \in Nat \ {0} /\ Moved(size) = 4 * size + 4
  BY DEF Moved
<1>5. PICK w \in Nat : w = Granted(Moved(size)) /\ w > size
  <2>1. Granted(Moved(size)) \in Nat /\ 4 * Granted(Moved(size)) >= Moved(size)
    BY <1>4, GrantedFacts
  <2>2. Granted(Moved(size)) > size
    BY <1>4, <2>1
  <2> QED BY <2>1, <2>2
<1>6. PICK T1 \in SUBSET Nat : Grants(m, T, o, w, T1)
  <2>1. o # [mem |-> m, bp |-> 0]
    OBVIOUS
  <2> QED BY <1>4, <1>5, <2>1, Malloced
<1>7. /\ Ordered(mm, T1, {}, {}) /\ Moves(m, T, mm, T1, {}, {q})
      /\ q \notin TakenOf(h, T) /\ q \in T1 /\ g[q].n >= w
  BY <1>b, <1>c, <1>d, <1>e, <1>6 DEF Grants
<1>8. Tiled(g, T1) /\ q \in TakenOf(g, T1) /\ TakenOf(g, T1) = TakenOf(h, T) \cup {q} /\ Kept(h, T, g, T1, {})
  BY <1>b, <1>d, <1>7 DEF Moves, Ordered
<1>9. q # End(g) /\ q \in Nat /\ q # 0 /\ g[q].n \in Nat
  BY <1>7, <1>8, TakenFacts, TileFacts
<1>10. p \in TakenOf(g, T1) /\ \A k \in p .. p + old + 1 : g[k] = h[k]
  BY <1>2, <1>8 DEF Kept
<1>11. g[p].n = old /\ p \in T1 /\ p # End(g) /\ \A k \in 1 .. old : g[p + k] = h[p + k]
  <2>1. p \in p .. p + old + 1 /\ \A k \in 1 .. old : p + k \in p .. p + old + 1
    BY <1>2
  <2> QED BY <1>2, <1>8, <1>10, <2>1, TakenFacts
<1>12. p + old <= Len(g)
  <2>1. p + g[p].n + 1 \in 1 .. Len(g) /\ Len(g) \in Nat
    BY <1>8, <1>11, TileFacts
  <2> QED BY <1>2, <1>11, <2>1
<1>13. old <= g[q].n /\ size <= g[q].n
  BY <1>3, <1>5, <1>7, <1>9
<1>14. PICK cm : cm = Copy(mm, p, q, old)
  OBVIOUS
<1>15. Copies(mm, T1, {}, {}, q, p, old, Copy(mm, p, q, old))
  <2>1. Roomy(mm, T1, q, p, old)
    BY <1>d, <1>2, <1>7, <1>9, <1>12, <1>13 DEF Roomy
  <2> QED BY <1>7, <2>1, Copied
<1>16. Writes(mm, T1, q, {}, {}, cm) /\ \A k \in 1 .. old : cm.heap[q + k] = h[p + k]
  BY <1>d, <1>11, <1>14, <1>15 DEF Copies
<1>17. /\ Ordered(cm, T1, {}, {}) /\ Moves(mm, T1, cm, T1, {q}, {q} \cap TakenOf(g, T1))
       /\ cm.heap[q] = g[q] /\ TakenOf(cm.heap, T1) = TakenOf(g, T1)
  BY <1>d, <1>7, <1>16 DEF Writes
<1>18. Moves(m, T, cm, T1, {}, {q})
  <2>1. Sums(TakenOf(m.heap, T), {}, {q}, {q}, {q} \cap TakenOf(g, T1), {}, {q})
    BY <1>b, <1>7, <1>8 DEF Sums
  <2> QED BY <1>b, <1>1, <1>7, <1>17, <2>1, MovesTwice
<1>19. PICK m2 : m2 = mm_free(cm, p)
  OBVIOUS
<1>20. PICK T2 \in SUBSET Nat : Ordered(m2, T2, {}, {}) /\ Moves(cm, T1, m2, T2, {p}, {})
  <2>1. p \in TakenOf(cm.heap, T1) /\ T1 \subseteq Nat
    BY <1>10, <1>17
  <2> QED BY <1>17, <1>19, <2>1, Freed
<1>21. p # q
  BY <1>2, <1>7
<1>22. Moves(m, T, m2, T2, {p}, {q})
  <2>1. Sums(TakenOf(m.heap, T), {}, {q}, {p}, {}, {p}, {q})
    BY <1>21 DEF Sums
  <2> QED BY <1>b, <1>1, <1>18, <1>20, <2>1, MovesTwice
<1>23. \A k \in q .. q + g[q].n + 1 : m2.heap[k] = cm.heap[k]
  <2>1. q \in TakenOf(cm.heap, T1) \ {p}
    BY <1>8, <1>17, <1>21
  <2> QED BY <1>17, <1>20, <2>1 DEF Moves, Kept
<1>24. m2.heap[q] = g[q] /\ \A k \in 1 .. old : m2.heap[q + k] = h[p + k]
  <2>1. q \in q .. q + g[q].n + 1 /\ \A k \in 1 .. old : q + k \in q .. q + g[q].n + 1
    BY <1>9, <1>13
  <2> QED BY <1>16, <1>17, <1>23, <2>1
<1>25. m2.heap[q].n >= size
  BY <1>9, <1>13, <1>24
<1>26. PICK r : r = [mem |-> m2, bp |-> q]
  OBVIOUS
<1>27. r.mem = m2 /\ r.bp = q
  BY <1>26
<1>28. Resized(m, T, p, r, size, T2)
  BY <1>b, <1>2, <1>7, <1>9, <1>20, <1>22, <1>24, <1>25, <1>27 DEF Resized
<1> QED BY <1>c, <1>e, <1>14, <1>19, <1>26, <1>28

\* The blocks are T2 after realloc freed p.
Releases(m, T, p, m2, T2) == Ordered(m2, T2, {}, {}) /\ Moves(m, T, m2, T2, {p}, {})

\* mm_realloc fails, moves a block and loses it, or returns it resized.
Outcome(m, T, p, words, r) ==
  \/ r.bp = -1
  \/ r.bp = 0 /\ \E T2 \in SUBSET Nat : Releases(m, T, p, r.mem, T2)
  \/ \E T2 \in SUBSET Nat : Resized(m, T, p, r, words, T2)

\* mm_realloc_wrapped.
LEMMA Reallocated ==
  ASSUME NEW m, NEW T, Ordered(m, T, {}, {}), T \subseteq Nat, NEW p \in TakenOf(m.heap, T),
         NEW bytes \in Nat, NEW buffer \in Nat, buffer % 2 = 0, Classed(Moved(Words(bytes) + buffer))
  PROVE  Outcome(m, T, p, Words(bytes), mm_realloc_wrapped(m, p, bytes, buffer))
<1>a. PICK r : r = mm_realloc_wrapped(m, p, bytes, buffer)
  OBVIOUS
<1>1. PICK new \in Nat : new = Words(bytes) /\ new % 2 = 0
  BY WordsFacts
<1>2. PICK size \in Nat : size = new + buffer /\ size = Words(bytes) + buffer /\ size % 2 = 0 /\ new <= size
  BY <1>1
<1>3. PICK old \in Nat : old = m.heap[p].n
  <2>1. Tiled(m.heap, T)
    BY DEF Ordered
  <2> QED BY <2>1, TakenFacts, TileFacts
<1>4. PICK c : c = Joined(m, p)
  OBVIOUS
<1>5. PICK cm : cm = IF c.bp = p THEN c.mem ELSE Copy(c.mem, p, c.bp, old)
  OBVIOUS
<1>6. PICK o : o = mm_malloc(m, Moved(size))
  OBVIOUS
<1>7. PICK joins : joins = (PrevIsFree(m.heap, p) \/ NextIsFree(m.heap, p))
  OBVIOUS
<1>8. r = IF size = old THEN [mem |-> m, bp |-> p]
          ELSE IF new = 0 THEN [mem |-> mm_free(m, p), bp |-> 0]
          ELSE IF new <= old THEN [mem |-> m, bp |-> p]
          ELSE IF joins /\ c.mem.heap[c.bp].n >= size
            THEN [mem |-> alloc_free_block(cm, c.bp, size), bp |-> c.bp]
          ELSE IF o.bp = 0 THEN [mem |-> m, bp |-> -1]
          ELSE [mem |-> mm_free(Copy(o.mem, p, o.bp, old), p), bp |-> o.bp]
  BY <1>a, <1>1, <1>2, <1>3, <1>4, <1>5, <1>6, <1>7 DEF mm_realloc_wrapped
<1>9. CASE size = old \/ (new # 0 /\ new <= old)
  <2>1. r = [mem |-> m, bp |-> p]
    BY <1>8, <1>9
  <2>2. new <= m.heap[p].n
    BY <1>2, <1>3, <1>9
  <2>3. Resized(m, T, p, [mem |-> m, bp |-> p], new, T)
    BY <2>2, Unchanged
  <2>4. T \in SUBSET Nat
    OBVIOUS
  <2> QED BY <1>a, <1>1, <2>1, <2>3, <2>4 DEF Outcome
<1>10. CASE size # old /\ new = 0
  <2>1. PICK m2 : m2 = mm_free(m, p)
    OBVIOUS
  <2>2. r = [mem |-> m2, bp |-> 0]
    BY <1>8, <1>10, <2>1
  <2>3. r.mem = m2 /\ r.bp = 0
    BY <2>2
  <2>4. PICK T2 \in SUBSET Nat : Ordered(m2, T2, {}, {}) /\ Moves(m, T, m2, T2, {p}, {})
    BY <2>1, Freed
  <2>5. Releases(m, T, p, r.mem, T2)
    BY <2>3, <2>4 DEF Releases
  <2> QED BY <1>a, <1>1, <2>3, <2>5 DEF Outcome
<1>11. CASE size # old /\ new # 0 /\ ~(new <= old)
  <2>1. Grown(m, p, old, size)
    <3>1. old < size
      BY <1>2, <1>11
    <3> QED BY <1>2, <1>3, <3>1 DEF Grown
  <2>2. ASSUME NEW q, NEW T2 \in SUBSET Nat, Resized(m, T, p, q, size, T2), r = q
        PROVE  Outcome(m, T, p, Words(bytes), r)
    <3>1. PICK n : n = q.mem.heap[q.bp].n
      OBVIOUS
    <3>2. n >= size
      BY <2>2, <3>1 DEF Resized
    <3>3. n \in Int
      <4>1. Tiled(q.mem.heap, T2) /\ q.bp \in TakenOf(q.mem.heap, T2)
        BY <2>2 DEF Resized, Ordered, Moves
      <4> QED BY <3>1, <4>1, TakenFacts, TileFacts
    <3>4. n >= new
      BY <1>2, <3>2, <3>3
    <3>5. Resized(m, T, p, r, new, T2)
      BY <2>2, <3>1, <3>4 DEF Resized
    <3> QED BY <1>1, <3>5 DEF Outcome
  <2>3. CASE joins /\ c.mem.heap[c.bp].n >= size
    <3>1. r = [mem |-> alloc_free_block(cm, c.bp, size), bp |-> c.bp]
      BY <1>8, <1>11, <2>3
    <3>2. \E T2 \in SUBSET Nat : Resized(m, T, p, [mem |-> alloc_free_block(cm, c.bp, size), bp |-> c.bp], size, T2)
      BY <1>4, <1>5, <2>1, <2>3, GrownInPlace
    <3> QED BY <1>a, <2>2, <3>1, <3>2
  <2>4. CASE ~(joins /\ c.mem.heap[c.bp].n >= size) /\ o.bp = 0
    <3>1. r = [mem |-> m, bp |-> -1]
      BY <1>8, <1>11, <2>4
    <3> QED BY <1>a, <3>1 DEF Outcome
  <2>5. CASE ~(joins /\ c.mem.heap[c.bp].n >= size) /\ o.bp # 0
    <3>1. r = [mem |-> mm_free(Copy(o.mem, p, o.bp, old), p), bp |-> o.bp]
      BY <1>8, <1>11, <2>5
    <3>2. Classed(Moved(size))
      BY <1>2
    <3>3. \E T2 \in SUBSET Nat : Resized(m, T, p, [mem |-> mm_free(Copy(o.mem, p, o.bp, old), p), bp |-> o.bp], size, T2)
      BY <1>6, <2>1, <2>5, <3>2, MovedAway
    <3> QED BY <1>a, <2>2, <3>1, <3>3
  <2> QED BY <1>a, <2>3, <2>4, <2>5
<1> QED BY <1>a, <1>9, <1>10, <1>11

-----------------------------------------------------------------------------
(* mm_init.                                                                *)

\* The heap of mm_init before it is extended.
NoBlocks == [heap |-> [k \in 1 .. 4 |-> Tag(0, FALSE)], lists |-> [c \in Classes |-> <<>>]]

\* It is in order, with its epilog only.
LEMMA NoBlocksFacts ==
  Ordered(NoBlocks, {3}, {}, {}) /\ FreeOf(NoBlocks.heap, {3}) = {} /\ TakenOf(NoBlocks.heap, {3}) = {}
                       /\ Len(NoBlocks.heap) = 4
<1>1. PICK w \in Word : w = Tag(0, FALSE) /\ w.n = 0 /\ w.free = FALSE
  <2>1. Tag(0, FALSE) \in Word /\ Tag(0, FALSE).n = 0 /\ Tag(0, FALSE).free = FALSE
    BY TagFacts
  <2> QED BY <2>1
<1>2. PICK h : h = [k \in 1 .. 4 |-> w]
  OBVIOUS
<1>3. PICK ls : ls = [c \in Classes |-> <<>>]
  OBVIOUS
<1>4. PICK m : m = NoBlocks
  OBVIOUS
<1>5. m = [heap |-> h, lists |-> ls] /\ m.heap = h /\ m.lists = ls
  BY <1>1, <1>2, <1>3, <1>4 DEF NoBlocks
<1>6. h \in Seq(Word) /\ Len(h) = 4 /\ End(h) = 3 /\ h[1] = w /\ h[2] = w /\ h[3] = w /\ h[4] = w
  BY <1>2 DEF End
<1>7. ls \in [Classes -> Seq(Nat)] /\ \A c \in Classes : Len(ls[c]) = 0
  BY <1>3
<1>8. Tiled(h, {3})
  <2>1. {3} \subseteq 3 .. 3 /\ 3 % 2 = 1 /\ ~(3 < 3) /\ 3 + 1 = 4
    OBVIOUS
  <2> QED BY <1>1, <1>6, <2>1 DEF Tiled
<1>9. FreeOf(h, {3}) = {} /\ TakenOf(h, {3}) = {}
  BY <1>1, <1>6 DEF FreeOf, TakenOf
<1>10. Listed(h, ls, {})
  <2>1. \A c \in Classes : 1 .. Len(ls[c]) = {}
    BY <1>7
  <2> QED BY <1>7, <2>1 DEF Listed
<1>11. Apart(h, {3}, {})
  BY <1>9 DEF Apart
<1>12. MaxHeap \in Nat /\ 4 <= MaxHeap
  BY MaxHeapAssumption, ChunkAssumption
<1>13. Ordered(m, {3}, {}, {})
  <2>1. FreeOf(h, {3}) \ {} = {}
    BY <1>9
  <2> QED BY <1>5, <1>6, <1>7, <1>8, <1>10, <1>11, <1>12, <2>1 DEF Ordered
<1> QED BY <1>4, <1>5, <1>6, <1>9, <1>13

\* mm_init leaves one free block.
LEMMA InitialMemory ==
  ASSUME NEW e, e = extend_heap(NoBlocks, CHUNK), NEW m, m = place_block_into_free_list(e.mem, e.bp)
  PROVE  \E T \in SUBSET Nat : Ordered(m, T, {}, {}) /\ TakenOf(m.heap, T) = {}
<1>1. PICK m0 : m0 = NoBlocks
  OBVIOUS
<1>2. Ordered(m0, {3}, {}, {}) /\ FreeOf(m0.heap, {3}) = {} /\ TakenOf(m0.heap, {3}) = {} /\ Len(m0.heap) = 4
  BY <1>1, NoBlocksFacts
<1>3. ~(Len(m0.heap) + Even(CHUNK) + 2 > MaxHeap)
  <2>1. Even(CHUNK) \in Nat /\ Even(CHUNK) <= CHUNK + 1 /\ CHUNK \in Nat
    BY EvenFacts, ChunkAssumption
  <2>2. MaxHeap \in Nat /\ MaxHeap >= CHUNK + 7
    BY MaxHeapAssumption
  <2> QED BY <1>2, <2>1, <2>2
<1>4. PICK T \in SUBSET Nat : Grows(m0, {3}, e, CHUNK, T)
  <2>1. CHUNK \in Nat \ {0}
    BY ChunkAssumption
  <2>2. \/ extend_heap(m0, CHUNK) = [mem |-> m0, bp |-> 0] /\ Len(m0.heap) + Even(CHUNK) + 2 > MaxHeap
        \/ \E T2 \in SUBSET Nat : Grows(m0, {3}, extend_heap(m0, CHUNK), CHUNK, T2)
    BY <1>2, <2>1, Extended
  <2> QED BY <1>1, <1>3, <2>2
<1>5. PICK mm : mm = e.mem
  OBVIOUS
<1>6. PICK p : p = e.bp
  OBVIOUS
<1>7. /\ Ordered(mm, T, {p}, {p}) /\ p \in FreeOf(mm.heap, T) /\ Moves(m0, {3}, mm, T, {}, {})
      /\ FreeOf(mm.heap, T) = {p}
  BY <1>2, <1>4, <1>5, <1>6 DEF Grows
<1>8. Apart(mm.heap, T, {})
  <2>1. Tiled(mm.heap, T)
    BY <1>7 DEF Ordered
  <2>2. p \in Int /\ mm.heap[p].n \in Int /\ mm.heap[p].n >= 0 /\ NextBlock(mm.heap, p) = p + mm.heap[p].n + 2
    BY <1>7, <2>1, FreeFacts, TileFacts
  <2>3. NextBlock(mm.heap, p) # p
    BY <2>2
  <2> QED BY <1>7, <2>3 DEF Apart
<1>9. Ordered(mm, T, {p}, {})
  BY <1>7, <1>8 DEF Ordered
<1>10. m = place_block_into_free_list(mm, p)
  BY <1>5, <1>6
<1>11. Places(mm, T, {}, m)
  BY <1>7, <1>9, <1>10, Placed
<1>12. TakenOf(m.heap, T) = {}
  BY <1>2, <1>7, <1>11 DEF Places, Moves
<1> QED BY <1>11, <1>12 DEF Places

-----------------------------------------------------------------------------
(* The invariant.                                                          *)

\* The sizes asked for are numbers.
LEMMA Constants == Bytes \subseteq Nat /\ \A b \in Bytes : b \in Nat
BY BytesAssumption

\* A memory taken over as it is.
LEMMA Taken ==
  ASSUME NEW m, m \in [heap : Seq(Word), lists : [Classes -> Seq(Nat)]], SetMemory(m)
  PROVE  Memory' = m /\ heap' = m.heap
<1>1. heap' = m.heap /\ lists' = m.lists
  BY DEF SetMemory
<1>2. Memory' = [heap |-> heap', lists |-> lists']
  BY DEF Memory
<1> QED BY <1>1, <1>2

\* A step that leaves the memory alone.
LEMMA OrderedSame ==
  ASSUME NEW T, Ordered(Memory, T, {}, {}), heap' = heap, lists' = lists
  PROVE  Ordered(Memory, T, {}, {})'
<1>1. Memory' = Memory
  BY DEF Memory
<1> QED BY <1>1 DEF Ordered

\* The name i, that held p, holds words of the block q.
Rehold(T, T2, i, q, words) ==
  /\ live' = [live EXCEPT ![i] = [bp |-> q, words |-> words]]
  /\ q \in Nat /\ words \in Nat
  /\ TakenOf(heap', T2) = (TakenOf(heap, T) \ {live[i].bp}) \cup ({q} \ {0})
  /\ Kept(heap, T, heap', T2, {live[i].bp})
  /\ q \notin TakenOf(heap, T) \ {live[i].bp}
  /\ q = 0 => words = 0
  /\ q # 0 => words <= heap'[q].n
  /\ \A k \in 1 .. words : heap'[q + k] = Data(i)

\* Each name still has its block when one name changes.
LEMMA HeldAfter ==
  ASSUME NEW T, NEW T2, Held(T), Tiled(heap, T), NEW i \in Ids, NEW q, NEW words, Rehold(T, T2, i, q, words)
  PROVE  Held(T2)'
<1>1. PICK p : p = live[i].bp
  OBVIOUS
<1>2. PICK lv : lv = live'
  OBVIOUS
<1>3. q \in Nat /\ words \in Nat /\ live \in [Ids -> [bp : Nat, words : Nat]]
  BY DEF Rehold, Held
<1>4. lv \in [Ids -> [bp : Nat, words : Nat]] /\ lv[i].bp = q /\ lv[i].words = words
  <2>1. lv = [live EXCEPT ![i] = [bp |-> q, words |-> words]]
    BY <1>2 DEF Rehold
  <2> QED BY <1>3, <2>1
<1>5. \A j \in Ids : j # i => lv[j] = live[j]
  BY <1>2, <1>3 DEF Rehold
<1>6. \A t \in TakenOf(heap, T) : t # 0
  BY TileFacts DEF TakenOf
<1>7. /\ TakenOf(heap, T) = {live[j].bp : j \in Ids} \ {0}
      /\ \A j, k \in Ids : j # k /\ live[j].bp = live[k].bp => live[j].bp = 0
  BY DEF Held
<1>8. \A j \in Ids : j # i /\ live[j].bp # 0 => live[j].bp \in TakenOf(heap, T) \ {p}
  BY <1>1, <1>7
<1>9. TakenOf(heap', T2) = (TakenOf(heap, T) \ {p}) \cup ({q} \ {0}) /\ q \notin TakenOf(heap, T) \ {p}
  BY <1>1 DEF Rehold
<1>10. TakenOf(heap', T2) = {lv[j].bp : j \in Ids} \ {0}
  <2>1. ASSUME NEW t \in TakenOf(heap', T2) PROVE t \in {lv[j].bp : j \in Ids} \ {0}
    <3>1. CASE t \in TakenOf(heap, T) \ {p}
      <4>1. PICK j \in Ids : t = live[j].bp
        BY <1>7, <3>1
      <4>2. j # i
        BY <1>1, <3>1, <4>1
      <4> QED BY <1>5, <1>6, <3>1, <4>1, <4>2
    <3>2. CASE t \in {q} \ {0}
      BY <1>4, <3>2
    <3> QED BY <1>9, <2>1, <3>1, <3>2
  <2>2. ASSUME NEW j \in Ids, lv[j].bp # 0 PROVE lv[j].bp \in TakenOf(heap', T2)
    <3>1. CASE j = i
      BY <1>4, <1>9, <2>2, <3>1
    <3>2. CASE j # i
      BY <1>5, <1>8, <1>9, <2>2, <3>2
    <3> QED BY <3>1, <3>2
  <2> QED BY <2>1, <2>2
<1>11. ASSUME NEW j \in Ids, NEW k \in Ids, j # k, lv[j].bp = lv[k].bp PROVE lv[j].bp = 0
  <2>1. ASSUME NEW u \in Ids, u # i, q = live[u].bp PROVE q = 0
    BY <1>8, <1>9, <2>1
  <2>2. CASE j = i
    BY <1>4, <1>5, <1>11, <2>1, <2>2
  <2>3. CASE k = i
    BY <1>4, <1>5, <1>11, <2>1, <2>3
  <2>4. CASE j # i /\ k # i
    BY <1>5, <1>7, <1>11, <2>4
  <2> QED BY <2>2, <2>3, <2>4
<1>12. ASSUME NEW j \in Ids
       PROVE  /\ lv[j].bp = 0 => lv[j].words = 0
              /\ lv[j].bp # 0 => lv[j].words <= heap'[lv[j].bp].n
              /\ \A k \in 1 .. lv[j].words : heap'[lv[j].bp + k] = Data(j)
  <2>1. CASE j = i
    <3>1. /\ q = 0 => words = 0
          /\ q # 0 => words <= heap'[q].n
          /\ \A k \in 1 .. words : heap'[q + k] = Data(i)
      BY DEF Rehold
    <3> QED BY <1>4, <2>1, <3>1
  <2>2. CASE j # i
    <3>1. PICK t \in Nat, w \in Nat : t = live[j].bp /\ w = live[j].words
      BY <1>3
    <3>2. (t = 0 => w = 0) /\ (t # 0 => w <= heap[t].n) /\ \A k \in 1 .. w : heap[t + k] = Data(j)
      BY <3>1 DEF Held
    <3>3. lv[j].bp = t /\ lv[j].words = w
      BY <1>5, <2>2, <3>1
    <3>4. CASE t = 0
      <4>1. 1 .. w = {}
        BY <3>2, <3>4
      <4> QED BY <3>2, <3>3, <3>4, <4>1
    <3>5. CASE t # 0
      <4>1. t \in TakenOf(heap, T) \ {p}
        BY <1>8, <2>2, <3>1, <3>5
      <4>2. \A k \in t .. t + heap[t].n + 1 : heap'[k] = heap[k]
        BY <1>1, <4>1 DEF Rehold, Kept
      <4>3. heap[t].n \in Nat /\ w <= heap[t].n
        BY <3>2, <3>5, <4>1, TileFacts DEF TakenOf
      <4>4. t \in t .. t + heap[t].n + 1 /\ \A k \in 1 .. w : t + k \in t .. t + heap[t].n + 1
        BY <4>3
      <4>5. heap'[t] = heap[t] /\ \A k \in 1 .. w : heap'[t + k] = Data(j)
        BY <3>2, <4>2, <4>4
      <4> QED BY <3>3, <3>5, <4>3, <4>5
    <3> QED BY <3>4, <3>5
  <2> QED BY <2>1, <2>2
<1> QED BY <1>2, <1>4, <1>10, <1>11, <1>12 DEF Held

\* mm_init establishes the invariant,
LEMMA InitMInv == Init => MInv
<1> SUFFICES ASSUME Init PROVE MInv
  OBVIOUS
<1>1. PICK e : e = extend_heap(NoBlocks, CHUNK)
  OBVIOUS
<1>2. PICK m : m = place_block_into_free_list(e.mem, e.bp)
  OBVIOUS
<1>3. heap = m.heap /\ lists = m.lists /\ previous_size = 0 /\ trapped = "no" /\ live = [i \in Ids |-> Nothing]
  BY <1>1, <1>2 DEF Init, NoBlocks
<1>4. PICK T \in SUBSET Nat : Ordered(m, T, {}, {}) /\ TakenOf(m.heap, T) = {}
  BY <1>1, <1>2, InitialMemory
<1>5. Memory = m
  <2>1. m \in [heap : Seq(Word), lists : [Classes -> Seq(Nat)]]
    BY <1>4 DEF Ordered
  <2> QED BY <1>3, <2>1 DEF Memory
<1>6. Held(T)
  <2>1. \A i \in Ids : live[i] = Nothing /\ live[i].bp = 0 /\ live[i].words = 0
    BY <1>3 DEF Nothing
  <2>2. live \in [Ids -> [bp : Nat, words : Nat]]
    BY <1>3 DEF Nothing
  <2>3. {live[i].bp : i \in Ids} \ {0} = {}
    BY <2>1
  <2>4. \A i \in Ids : 1 .. live[i].words = {}
    BY <2>1
  <2> QED BY <1>3, <1>4, <2>1, <2>2, <2>3, <2>4 DEF Held
<1> QED BY <1>3, <1>4, <1>5, <1>6 DEF MInv, MInvOn

\* mm_malloc, and what the client writes.
LEMMA MallocKeeps ==
  ASSUME NEW T \in SUBSET Nat, MInvOn(T), NEW i \in Ids, NEW bytes \in Bytes, Malloc(i, bytes)
  PROVE  MInv'
<1>1. Ordered(Memory, T, {}, {}) /\ Held(T) /\ Memory.heap = heap /\ Tiled(heap, T)
  BY DEF MInvOn, Memory, Ordered
<1>2. PICK r : r = mm_malloc(Memory, bytes)
  OBVIOUS
<1>3. PICK q : q = r.bp
  OBVIOUS
<1>4. PICK b : b = Asked(bytes)
  OBVIOUS
<1>5. PICK m : m = Fill(r.mem, i, q, 1, b)
  OBVIOUS
<1>6. /\ q # 0 /\ live[i] = Nothing /\ SetMemory(m)
      /\ live' = [live EXCEPT ![i] = [bp |-> q, words |-> b]] /\ previous_size' = previous_size /\ trapped' = trapped
  BY <1>2, <1>3, <1>4, <1>5 DEF Malloc
<1>7. bytes \in Nat /\ Classed(bytes)
  BY Constants, ClassesAssumption DEF Classed
<1>8. PICK T2 \in SUBSET Nat : Grants(Memory, T, r, Granted(bytes), T2)
  <2>1. r # [mem |-> Memory, bp |-> 0]
    BY <1>3, <1>6
  <2>2. T \subseteq Nat
    OBVIOUS
  <2> QED BY <1>1, <1>2, <1>7, <2>1, <2>2, Malloced
<1>9. PICK g : g = r.mem
  OBVIOUS
<1>10. /\ Ordered(g, T2, {}, {}) /\ Moves(Memory, T, g, T2, {}, {q})
       /\ q \notin TakenOf(heap, T) /\ g.heap[q].n >= Granted(bytes)
  BY <1>1, <1>3, <1>8, <1>9 DEF Grants
<1>11. q \in TakenOf(g.heap, T2)
  BY <1>10 DEF Moves
<1>12. g.heap[q].n \in Nat /\ q \in Nat
  <2>1. Tiled(g.heap, T2)
    BY <1>10 DEF Ordered
  <2> QED BY <1>11, <2>1, TakenFacts, TileFacts
<1>13. b \in Nat /\ b <= g.heap[q].n
  <2>1. bytes # 0
    <3>1. bytes = 0 => r = [mem |-> Memory, bp |-> 0]
      BY <1>2 DEF mm_malloc
    <3> QED BY <1>3, <1>6, <3>1
  <2>2. Granted(bytes) \in Nat /\ 4 * Granted(bytes) >= bytes
    BY <1>7, <2>1, GrantedFacts
  <2>3. b \in Nat /\ b <= Granted(bytes)
    BY <1>4, <1>7, <2>2, WordsFacts
  <2> QED BY <1>10, <1>12, <2>2, <2>3
<1>14. Writes(g, T2, q, {}, {}, m) /\ \A k \in 1 .. b : m.heap[q + k] = Data(i)
  <2>1. /\ Writes(g, T2, q, {}, {}, Fill(g, i, q, 1, b))
        /\ \A k \in 1 .. b : Fill(g, i, q, 1, b).heap[q + k] = IF k >= 1 THEN Data(i) ELSE g.heap[q + k]
    BY <1>10, <1>11, <1>13, Filled
  <2> QED BY <1>5, <1>9, <2>1
<1>15. /\ Ordered(m, T2, {}, {}) /\ Moves(g, T2, m, T2, {q}, {q} \cap TakenOf(g.heap, T2))
       /\ m.heap[q] = g.heap[q]
  BY <1>11, <1>14 DEF Writes, TakenOf
<1>16. Moves(Memory, T, m, T2, {}, {q})
  <2>1. Sums(TakenOf(Memory.heap, T), {}, {q}, {q}, {q} \cap TakenOf(g.heap, T2), {}, {q})
    BY <1>1, <1>10, <1>11 DEF Sums
  <2> QED BY <1>1, <1>10, <1>15, <2>1, MovesTwice
<1>17. Memory' = m /\ heap' = m.heap
  BY <1>6, <1>15, Taken DEF Ordered
<1>18. live[i].bp = 0 /\ 0 \notin TakenOf(heap, T)
  <2>1. live[i].bp = 0
    BY <1>6 DEF Nothing
  <2> QED BY <1>1, <2>1, TileFacts DEF TakenOf
<1>19. Rehold(T, T2, i, q, b)
  <2>1. TakenOf(m.heap, T2) = (TakenOf(heap, T) \ {0}) \cup ({q} \ {0})
    BY <1>1, <1>6, <1>16, <1>18 DEF Moves
  <2>2. Kept(heap, T, m.heap, T2, {0})
    BY <1>1, <1>16, <1>18 DEF Moves, Kept
  <2> QED BY <1>6, <1>10, <1>12, <1>13, <1>14, <1>15, <1>17, <1>18, <2>1, <2>2 DEF Rehold
<1>20. Held(T2)'
  BY <1>1, <1>19, HeldAfter
<1>21. Ordered(Memory, T2, {}, {})'
  BY <1>15, <1>17
<1> QED BY <1>6, <1>20, <1>21 DEF MInv, MInvOn

\* mm_free, and what realloc does with a block for nothing.
LEMMA ReleaseKeeps ==
  ASSUME NEW T \in SUBSET Nat, MInvOn(T), NEW i \in Ids, live[i] # Nothing, NEW m, NEW T2 \in SUBSET Nat,
         Releases(Memory, T, live[i].bp, m, T2), SetMemory(m), live' = [live EXCEPT ![i] = Nothing],
         previous_size' \in Bytes \cup {0}, trapped' = trapped
  PROVE  MInv'
<1>1. Ordered(Memory, T, {}, {}) /\ Held(T) /\ Memory.heap = heap /\ Tiled(heap, T)
  BY DEF MInvOn, Memory, Ordered
<1>2. PICK p : p = live[i].bp
  OBVIOUS
<1>3. Ordered(m, T2, {}, {}) /\ Moves(Memory, T, m, T2, {p}, {})
  BY <1>2 DEF Releases
<1>4. Memory' = m /\ heap' = m.heap
  BY <1>3, Taken DEF Ordered
<1>5. Rehold(T, T2, i, 0, 0)
  <2>1. live' = [live EXCEPT ![i] = [bp |-> 0, words |-> 0]]
    BY DEF Nothing
  <2>2. 0 \notin TakenOf(heap, T)
    BY <1>1, TileFacts DEF TakenOf
  <2>3. 1 .. 0 = {} /\ {0} \ {0} = {}
    OBVIOUS
  <2>4. TakenOf(heap', T2) = (TakenOf(heap, T) \ {p}) \cup ({0} \ {0}) /\ Kept(heap, T, heap', T2, {p})
    BY <1>1, <1>3, <1>4, <2>3 DEF Moves
  <2> QED BY <1>2, <2>1, <2>2, <2>3, <2>4 DEF Rehold
<1>6. Held(T2)'
  BY <1>1, <1>5, HeldAfter
<1>7. Ordered(Memory, T2, {}, {})'
  BY <1>3, <1>4
<1>8. trapped' \in {"no", "0 % 0", "copy to NULL"}
  BY DEF MInvOn
<1> QED BY <1>6, <1>7, <1>8 DEF MInv, MInvOn

\* What a name holds is a taken block.
LEMMA HeldBlock ==
  ASSUME NEW T, Held(T), NEW i \in Ids, live[i] # Nothing
  PROVE  live[i].bp \in TakenOf(heap, T) /\ live[i].words \in Nat
<1>1. live[i] \in [bp : Nat, words : Nat] /\ (live[i].bp = 0 => live[i].words = 0)
  BY DEF Held
<1>2. live[i].bp # 0
  BY <1>1 DEF Nothing
<1> QED BY <1>1, <1>2 DEF Held

\* A block that realloc changed or moved, and what the client writes to it.
LEMMA ResizeKeeps ==
  ASSUME NEW T \in SUBSET Nat, MInvOn(T), NEW i \in Ids, live[i] # Nothing, NEW bytes \in Bytes,
         NEW r, NEW T2 \in SUBSET Nat, Resized(Memory, T, live[i].bp, r, Words(bytes), T2),
         SetMemory(Fill(r.mem, i, r.bp, live[i].words + 1, Asked(bytes))),
         live' = [live EXCEPT ![i] = [bp |-> r.bp, words |-> Asked(bytes)]],
         previous_size' \in Bytes \cup {0}, trapped' = trapped
  PROVE  MInv'
<1>1. Ordered(Memory, T, {}, {}) /\ Held(T) /\ Memory.heap = heap /\ Tiled(heap, T)
  BY DEF MInvOn, Memory, Ordered
<1>2. PICK p : p = live[i].bp
  OBVIOUS
<1>3. PICK q : q = r.bp
  OBVIOUS
<1>4. PICK g : g = r.mem
  OBVIOUS
<1>5. PICK b : b = Asked(bytes)
  OBVIOUS
<1>6. PICK w \in Nat : w = live[i].words /\ p \in TakenOf(heap, T)
  BY <1>1, <1>2, HeldBlock
<1>7. PICK m : m = Fill(g, i, q, w + 1, b)
  OBVIOUS
<1>8. SetMemory(m) /\ live' = [live EXCEPT ![i] = [bp |-> q, words |-> b]]
  BY <1>3, <1>4, <1>5, <1>6, <1>7
<1>9. /\ Ordered(g, T2, {}, {}) /\ Moves(Memory, T, g, T2, {p}, {q})
      /\ q \notin TakenOf(heap, T) \ {p} /\ q \in Nat /\ q # 0 /\ g.heap[q].n >= Words(bytes)
      /\ \A k \in 1 .. heap[p].n : g.heap[q + k] = heap[p + k]
  BY <1>1, <1>2, <1>3, <1>4 DEF Resized
<1>10. q \in TakenOf(g.heap, T2)
  BY <1>9 DEF Moves
<1>11. g.heap[q].n \in Nat
  <2>1. Tiled(g.heap, T2)
    BY <1>9 DEF Ordered
  <2> QED BY <1>10, <2>1, TakenFacts, TileFacts
<1>12. b \in Nat /\ b <= g.heap[q].n
  <2>1. bytes \in Nat
    BY Constants
  <2>2. Words(bytes) \in Nat /\ 4 * Words(bytes) >= bytes
    BY <2>1, WordsFacts
  <2>3. b \in Nat /\ b <= Words(bytes)
    BY <1>5, <2>1, <2>2, WordsFacts
  <2> QED BY <1>9, <1>11, <2>2, <2>3
<1>13. Writes(g, T2, q, {}, {}, m) /\ \A k \in 1 .. b : m.heap[q + k] = IF k >= w + 1 THEN Data(i) ELSE g.heap[q + k]
  <2>1. w + 1 \in Nat /\ w + 1 >= 1
    OBVIOUS
  <2>2. PICK a \in Nat : a = w + 1 /\ a >= 1
    BY <2>1
  <2>3. /\ Writes(g, T2, q, {}, {}, Fill(g, i, q, a, b))
        /\ \A k \in 1 .. b : Fill(g, i, q, a, b).heap[q + k] = IF k >= a THEN Data(i) ELSE g.heap[q + k]
    <3>1. Ordered(g, T2, {}, {}) /\ q \in TakenOf(g.heap, T2) /\ b \in Nat /\ b <= g.heap[q].n /\ a \in Nat /\ a >= 1
      BY <1>9, <1>10, <1>12, <2>2
    <3> QED BY <3>1, Filled
  <2> QED BY <1>7, <2>2, <2>3
<1>14. \A k \in 1 .. b : m.heap[q + k] = Data(i)
  <2>1. w <= heap[p].n /\ heap[p].n \in Nat /\ \A k \in 1 .. w : heap[p + k] = Data(i)
    <3>1. p # 0 /\ heap[p].n \in Nat
      BY <1>1, <1>6, TakenFacts, TileFacts
    <3> QED BY <1>1, <1>2, <1>6, <3>1 DEF Held
  <2>2. \A k \in 1 .. b : ~(k >= w + 1) => k \in 1 .. w /\ k \in 1 .. heap[p].n
    BY <2>1
  <2> QED BY <1>9, <1>13, <2>1, <2>2
<1>15. /\ Ordered(m, T2, {}, {}) /\ Moves(g, T2, m, T2, {q}, {q} \cap TakenOf(g.heap, T2))
       /\ m.heap[q] = g.heap[q]
  BY <1>10, <1>13 DEF Writes, TakenOf
<1>16. Moves(Memory, T, m, T2, {p}, {q})
  <2>1. Sums(TakenOf(Memory.heap, T), {p}, {q}, {q}, {q} \cap TakenOf(g.heap, T2), {p}, {q})
    BY <1>1, <1>9, <1>10 DEF Sums
  <2> QED BY <1>1, <1>9, <1>15, <2>1, MovesTwice
<1>17. Memory' = m /\ heap' = m.heap
  BY <1>8, <1>15, Taken DEF Ordered
<1>18. Rehold(T, T2, i, q, b)
  <2>1. {q} = {q} \ {0}
    BY <1>9
  <2>2. TakenOf(heap', T2) = (TakenOf(heap, T) \ {p}) \cup ({q} \ {0}) /\ Kept(heap, T, heap', T2, {p})
    BY <1>1, <1>16, <1>17, <2>1 DEF Moves
  <2> QED BY <1>2, <1>8, <1>9, <1>12, <1>14, <1>15, <1>17, <2>2 DEF Rehold
<1>19. Held(T2)'
  BY <1>1, <1>18, HeldAfter
<1>20. Ordered(Memory, T2, {}, {})'
  BY <1>15, <1>17
<1>21. trapped' \in {"no", "0 % 0", "copy to NULL"}
  BY DEF MInvOn
<1> QED BY <1>19, <1>20, <1>21 DEF MInv, MInvOn

\* mm_free.
LEMMA FreeKeeps ==
  ASSUME NEW T \in SUBSET Nat, MInvOn(T), NEW i \in Ids, Free(i)
  PROVE  MInv'
<1>1. Ordered(Memory, T, {}, {}) /\ Held(T) /\ Memory.heap = heap /\ previous_size \in Bytes \cup {0} /\ T \subseteq Nat
  BY DEF MInvOn, Memory
<1>2. PICK m : m = mm_free(Memory, live[i].bp)
  OBVIOUS
<1>3. /\ live[i] # Nothing /\ SetMemory(m) /\ live' = [live EXCEPT ![i] = Nothing]
      /\ previous_size' = previous_size /\ trapped' = trapped
  BY <1>2 DEF Free
<1>4. live[i].bp \in TakenOf(Memory.heap, T)
  BY <1>1, <1>3, HeldBlock
<1>5. PICK T2 \in SUBSET Nat : Releases(Memory, T, live[i].bp, m, T2)
  BY <1>1, <1>2, <1>4, Freed DEF Releases
<1>6. previous_size' \in Bytes \cup {0}
  BY <1>1, <1>3
<1> QED BY <1>3, <1>5, <1>6, ReleaseKeeps

\* mm_realloc.
LEMMA ReallocKeeps ==
  ASSUME NEW T \in SUBSET Nat, MInvOn(T), NEW i \in Ids, NEW bytes \in Bytes, Realloc(i, bytes)
  PROVE  MInv'
<1>1. Ordered(Memory, T, {}, {}) /\ Held(T) /\ Memory.heap = heap /\ previous_size \in Bytes \cup {0} /\ T \subseteq Nat
  BY DEF MInvOn, Memory
<1>2. PICK buffer : buffer = Buffer(bytes, previous_size)
  OBVIOUS
<1>3. PICK r : r = mm_realloc_wrapped(Memory, live[i].bp, bytes, buffer)
  OBVIOUS
<1>4. live[i] # Nothing /\ bytes # previous_size
  BY DEF Realloc
<1>5. live[i].bp \in TakenOf(Memory.heap, T)
  BY <1>1, <1>4, HeldBlock
<1>6. bytes \in Nat /\ previous_size \in Nat
  BY <1>1, Constants
<1>7. buffer \in Nat /\ buffer % 2 = 0
  BY <1>2, <1>4, <1>6, BufferFacts
<1>8. Classed(Moved(Words(bytes) + buffer))
  BY <1>1, <1>2, <1>4, ClassesAssumption DEF Classed
<1>9. Outcome(Memory, T, live[i].bp, Words(bytes), r)
  BY <1>1, <1>3, <1>5, <1>6, <1>7, <1>8, Reallocated
<1>10. \/ /\ r.bp > 0
          /\ SetMemory(Fill(r.mem, i, r.bp, live[i].words + 1, Asked(bytes)))
          /\ live' = [live EXCEPT ![i] = [bp |-> r.bp, words |-> Asked(bytes)]]
          /\ previous_size' = bytes /\ trapped' = trapped
       \/ /\ r.bp = 0
          /\ SetMemory(r.mem)
          /\ live' = [live EXCEPT ![i] = Nothing]
          /\ previous_size' = bytes /\ trapped' = trapped
       \/ /\ trapped' = "copy to NULL"
          /\ heap' = heap /\ lists' = lists /\ live' = live /\ previous_size' = previous_size
  BY <1>2, <1>3 DEF Realloc
<1>11. bytes \in Bytes \cup {0}
  OBVIOUS
<1>12. CASE /\ r.bp > 0
            /\ SetMemory(Fill(r.mem, i, r.bp, live[i].words + 1, Asked(bytes)))
            /\ live' = [live EXCEPT ![i] = [bp |-> r.bp, words |-> Asked(bytes)]]
            /\ previous_size' = bytes /\ trapped' = trapped
  <2>1. r.bp # -1 /\ r.bp # 0
    <3>1. ~(-1 > 0) /\ ~(0 > 0)
      OBVIOUS
    <3> QED BY <1>12, <3>1
  <2>2. PICK T2 \in SUBSET Nat : Resized(Memory, T, live[i].bp, r, Words(bytes), T2)
    BY <1>9, <2>1 DEF Outcome
  <2> QED BY <1>4, <1>11, <1>12, <2>2, ResizeKeeps
<1>13. CASE /\ r.bp = 0
            /\ SetMemory(r.mem)
            /\ live' = [live EXCEPT ![i] = Nothing]
            /\ previous_size' = bytes /\ trapped' = trapped
  <2>1. PICK T2 \in SUBSET Nat : Releases(Memory, T, live[i].bp, r.mem, T2)
    <3>1. r.bp # -1 /\ r.bp = 0
      BY <1>13
    <3> QED BY <1>9, <3>1 DEF Outcome, Resized
  <2> QED BY <1>4, <1>11, <1>13, <2>1, ReleaseKeeps
<1>14. CASE /\ trapped' = "copy to NULL"
            /\ heap' = heap /\ lists' = lists /\ live' = live /\ previous_size' = previous_size
  <2>1. Ordered(Memory, T, {}, {})'
    BY <1>1, <1>14, OrderedSame
  <2>2. Held(T)'
    <3>1. heap' = heap /\ live' = live
      BY <1>14
    <3>2. Held(T)
      BY <1>1
    <3> QED BY <3>1, <3>2 DEF Held
  <2>3. previous_size' \in Bytes \cup {0} /\ trapped' \in {"no", "0 % 0", "copy to NULL"}
    BY <1>1, <1>14
  <2>4. MInvOn(T)'
    BY <2>1, <2>2, <2>3 DEF MInvOn
  <2> QED BY <2>4 DEF MInv
<1> QED BY <1>10, <1>12, <1>13, <1>14

\* every call keeps it,
LEMMA NextMInv == MInv /\ [Next]_vars => MInv'
<1> SUFFICES ASSUME MInv, [Next]_vars PROVE MInv'
  OBVIOUS
<1>1. PICK T \in SUBSET Nat : MInvOn(T)
  BY DEF MInv
<1>2. ASSUME NEW i \in Ids, NEW bytes \in Bytes, Malloc(i, bytes) PROVE MInv'
  BY <1>1, <1>2, MallocKeeps
<1>3. ASSUME NEW i \in Ids, NEW bytes \in Bytes, Realloc(i, bytes) PROVE MInv'
  BY <1>1, <1>3, ReallocKeeps
<1>4. ASSUME NEW i \in Ids, Free(i) PROVE MInv'
  BY <1>1, <1>4, FreeKeeps
<1>5. ASSUME heap' = heap, lists' = lists, live' = live, previous_size' \in Bytes \cup {0},
             trapped' \in {"no", "0 % 0", "copy to NULL"}
      PROVE  MInv'
  <2>1. Ordered(Memory, T, {}, {})'
    BY <1>1, <1>5, OrderedSame DEF MInvOn
  <2>2. Held(T)'
    BY <1>1, <1>5 DEF Held, MInvOn
  <2> QED BY <1>5, <2>1, <2>2 DEF MInv, MInvOn
<1>6. ASSUME NEW bytes \in Bytes, ReallocNull(bytes) PROVE MInv'
  BY <1>1, <1>5, <1>6 DEF ReallocNull, MInvOn
<1>7. ASSUME NEW bytes \in Bytes, ReallocSameSize(bytes) PROVE MInv'
  BY <1>1, <1>5, <1>7 DEF ReallocSameSize, MInvOn
<1>8. CASE UNCHANGED vars
  BY <1>1, <1>5, <1>8 DEF vars, MInvOn
<1> QED BY <1>2, <1>3, <1>4, <1>6, <1>7, <1>8 DEF Next

\* and so it always holds.
LEMMA MInvariant == Spec => []MInv
BY InitMInv, NextMInv, PTL DEF Spec

-----------------------------------------------------------------------------
(* The walk from header to header.                                         *)

\* Where a walk may be: after the prolog.
Far == Nat \ (0 .. 2)

\* The functions that the walk could be.
Walks(f) == f = [p \in Far |-> IF p >= Epilog THEN {p} ELSE {p} \cup f[NextBlock(heap, p)]]

\* The next header is after the prolog.
LEMMA FarFacts ==
  ASSUME NEW T, Tiled(heap, T)
  PROVE  /\ Epilog \in T /\ Epilog = End(heap) /\ Epilog \in Nat
         /\ \A p \in Far : p < Epilog => NextBlock(heap, p) \in Far /\ NextBlock(heap, p) > p
         /\ \A t \in T : t \in Far /\ t \in Nat /\ t <= Epilog
<1>1. Epilog = End(heap) /\ Epilog \in T /\ Len(heap) \in Nat /\ Epilog = Len(heap) - 1 /\ Epilog \in Nat
  BY TileFacts DEF Epilog, End
<1>2. ASSUME NEW p \in Far, p < Epilog PROVE NextBlock(heap, p) \in Far /\ NextBlock(heap, p) > p
  <2>1. p \in Nat /\ p >= 3 /\ p \in 1 .. Len(heap)
    BY <1>1, <1>2 DEF Far
  <2>2. heap \in Seq(Word)
    BY DEF Tiled
  <2>3. heap[p].n \in Nat /\ NextBlock(heap, p) = p + heap[p].n + 2
    BY <2>1, <2>2, WordFacts
  <2> QED BY <2>1, <2>3 DEF Far
<1>3. \A t \in T : t \in Far /\ t \in Nat /\ t <= Epilog
  <2>1. \A t \in T : t \in Nat /\ t >= 3 /\ t <= End(heap)
    BY TileFacts
  <2> QED BY <1>1, <2>1 DEF Far
<1> QED BY <1>1, <1>2, <1>3

\* There is one: each place has what every closed set around it has.
Closed(S) == \A u \in S : u < Epilog => NextBlock(heap, u) \in S

\* The headers a walk meets from p: the least set with p and the next of each.
Met(p) == {u \in Far : \A S \in SUBSET Far : p \in S /\ Closed(S) => u \in S}

\* The recursive function is defined: it is Met.
LEMMA WalkExists ==
  ASSUME NEW T, Tiled(heap, T)
  PROVE  \E f : Walks(f)
<1>1. \A p \in Far : p < Epilog => NextBlock(heap, p) \in Far
  BY FarFacts
<1>2. \A p \in Far : p \in Met(p)
  BY DEF Met
<1>3. ASSUME NEW p \in Far, p >= Epilog PROVE Met(p) = {p}
  <2>1. ~(p < Epilog)
    <3>1. p \in Nat /\ Epilog \in Nat
      BY FarFacts DEF Far
    <3> QED BY <1>3, <3>1
  <2>2. {p} \in SUBSET Far /\ Closed({p})
    BY <2>1 DEF Closed
  <2> QED BY <1>2, <2>2 DEF Met
<1>4. ASSUME NEW p \in Far, ~(p >= Epilog) PROVE Met(p) = {p} \cup Met(NextBlock(heap, p))
  <2>1. p < Epilog
    <3>1. p \in Nat /\ Epilog \in Nat
      BY FarFacts DEF Far
    <3> QED BY <1>4, <3>1
  <2>2. PICK q \in Far : q = NextBlock(heap, p)
    BY <1>1, <2>1
  <2>3. PICK S : S = {p} \cup Met(q)
    OBVIOUS
  <2>4. ASSUME NEW u \in Met(q), u < Epilog PROVE NextBlock(heap, u) \in Met(q)
    <3>1. u \in Far /\ NextBlock(heap, u) \in Far
      BY <1>1, <2>4 DEF Met
    <3>2. ASSUME NEW R \in SUBSET Far, q \in R, Closed(R) PROVE NextBlock(heap, u) \in R
      <4>1. u \in R
        BY <3>2 DEF Met
      <4> QED BY <2>4, <3>2, <4>1 DEF Closed
    <3> QED BY <3>1, <3>2 DEF Met
  <2>5. Closed(S)
    <3>1. NextBlock(heap, p) \in S
      BY <1>2, <2>2, <2>3
    <3> QED BY <2>3, <2>4, <3>1 DEF Closed
  <2>6. S \in SUBSET Far /\ p \in S
    BY <2>3 DEF Met
  <2>7. Met(p) \subseteq S
    BY <2>5, <2>6 DEF Met
  <2>8. ASSUME NEW u \in Met(q) PROVE u \in Met(p)
    <3>1. ASSUME NEW R \in SUBSET Far, p \in R, Closed(R) PROVE u \in R
      <4>1. q \in R
        BY <2>1, <2>2, <3>1 DEF Closed
      <4> QED BY <3>1, <4>1 DEF Met
    <3>2. u \in Far
      BY DEF Met
    <3> QED BY <3>1, <3>2 DEF Met
  <2>9. S \subseteq Met(p)
    BY <1>2, <2>3, <2>8
  <2> QED BY <2>2, <2>3, <2>7, <2>9
<1>5. PICK f : f = [p \in Far |-> Met(p)]
  OBVIOUS
<1>6. \A p \in Far : f[p] = IF p >= Epilog THEN {p} ELSE {p} \cup f[NextBlock(heap, p)]
  <2> SUFFICES ASSUME NEW p \in Far PROVE f[p] = IF p >= Epilog THEN {p} ELSE {p} \cup f[NextBlock(heap, p)]
    OBVIOUS
  <2>1. f[p] = Met(p)
    BY <1>5
  <2>2. CASE p >= Epilog
    BY <1>3, <2>1, <2>2
  <2>3. CASE ~(p >= Epilog)
    <3>1. NextBlock(heap, p) \in Far
      <4>1. p \in Nat /\ Epilog \in Nat
        BY FarFacts DEF Far
      <4>2. p < Epilog
        BY <2>3, <4>1
      <4> QED BY <1>1, <4>2
    <3>2. f[NextBlock(heap, p)] = Met(NextBlock(heap, p))
      BY <1>5, <3>1
    <3> QED BY <1>4, <2>1, <2>3, <3>2
  <2> QED BY <2>2, <2>3
<1>7. f = [p \in Far |-> IF p >= Epilog THEN {p} ELSE {p} \cup f[NextBlock(heap, p)]]
  BY <1>5, <1>6
<1> QED BY <1>7 DEF Walks

\* And it meets the blocks.
LEMMA WalkMeets ==
  ASSUME NEW T, Tiled(heap, T), NEW f, Walks(f)
  PROVE  \A t \in T : f[t] = {u \in T : u >= t}
<1>1. \A p \in Far : f[p] = IF p >= Epilog THEN {p} ELSE {p} \cup f[NextBlock(heap, p)]
  BY DEF Walks
<1>2. /\ Epilog \in T /\ Epilog = End(heap) /\ Epilog \in Nat
      /\ \A t \in T : t \in Far /\ t \in Nat /\ t <= Epilog
  BY FarFacts
<1> DEFINE Bad == {t \in T : f[t] # {u \in T : u >= t}}
<1> SUFFICES ASSUME Bad # {} PROVE FALSE
  OBVIOUS
<1>3. PICK t \in Bad : \A u \in Bad : u <= t
  <2>1. \A u \in Bad : u \in 0 .. Epilog
    BY <1>2
  <2> HIDE DEF Bad
  <2>2. Bad \subseteq 0 .. Epilog
    BY <2>1
  <2> QED BY <1>2, <2>2, Greatest
<1>4. t \in T /\ f[t] # {u \in T : u >= t} /\ t \in Nat /\ t <= Epilog
  BY <1>2
<1>5. CASE t = Epilog
  <2>1. f[t] = {t}
    BY <1>1, <1>2, <1>4, <1>5
  <2>2. \A u \in T : u >= t <=> u = t
    BY <1>2, <1>5
  <2>3. {u \in T : u >= t} = {t}
    BY <1>4, <2>2
  <2> QED BY <1>4, <2>1, <2>3
<1>6. CASE t # Epilog
  <2>1. PICK q \in T : q = NextBlock(heap, t) /\ t < q
    <3>1. NextBlock(heap, t) \in T
      BY <1>2, <1>4, <1>6 DEF Tiled
    <3>2. t < Epilog
      BY <1>2, <1>4, <1>6
    <3>3. NextBlock(heap, t) > t
      BY <1>2, <1>4, <3>2, FarFacts
    <3>4. t < NextBlock(heap, t)
      BY <1>2, <1>4, <3>1, <3>3
    <3> QED BY <3>1, <3>4
  <2>2. q \notin Bad
    <3>1. q \in Nat /\ ~(q <= t)
      BY <1>2, <1>4, <2>1
    <3> QED BY <1>3, <3>1
  <2>3. f[q] = {u \in T : u >= q}
    BY <2>2
  <2>4. f[t] = {t} \cup f[q]
    <3>1. ~(t >= Epilog) /\ t \in Far
      BY <1>2, <1>4, <1>6
    <3> QED BY <1>1, <2>1, <3>1
  <2>5. \A u \in T : u >= t <=> u = t \/ u >= q
    <3> SUFFICES ASSUME NEW u \in T PROVE u >= t <=> u = t \/ u >= q
      OBVIOUS
    <3>1. u \in Nat /\ q \in Nat
      BY <1>2
    <3>2. t < u => q <= u
      BY <1>4, <2>1 DEF Tiled
    <3> QED BY <1>4, <2>1, <3>1, <3>2
  <2>6. {u \in T : u >= t} = {t} \cup {u \in T : u >= q}
    BY <1>4, <2>5
  <2> QED BY <1>4, <2>3, <2>4, <2>6
<1> QED BY <1>5, <1>6

\* The walk from the first header meets the blocks of T, and no other.
LEMMA BlocksAre ==
  ASSUME NEW T, Tiled(heap, T)
  PROVE  Blocks = T
<1> DEFINE walk == CHOOSE f : Walks(f)
<1>1. Walks(walk)
  BY WalkExists
<1>2. Blocks = walk[3]
  BY DEF Blocks, Walks, Far
<1> HIDE DEF walk
<1>3. 3 \in T /\ \A t \in T : t \in Int /\ t >= 3
  BY TileFacts
<1>4. walk[3] = {u \in T : u >= 3}
  BY <1>1, <1>3, WalkMeets
<1>5. {u \in T : u >= 3} = T
  BY <1>3
<1> QED BY <1>2, <1>4, <1>5

-----------------------------------------------------------------------------
(* The properties.                                                         *)

\* The invariant implies the types,
LEMMA TypesHold == MInv => TypeOK
<1> SUFFICES ASSUME MInv PROVE TypeOK
  OBVIOUS
<1>1. PICK T \in SUBSET Nat : MInvOn(T)
  BY DEF MInv
<1>2. /\ Tiled(heap, T) /\ Listed(heap, lists, FreeOf(heap, T)) /\ Held(T) /\ Len(heap) <= MaxHeap
      /\ previous_size \in Bytes \cup {0} /\ trapped \in {"no", "0 % 0", "copy to NULL"}
  <2>1. FreeOf(heap, T) \ {} = FreeOf(heap, T)
    OBVIOUS
  <2> QED BY <1>1, <2>1 DEF MInvOn, Ordered, Memory
<1>3. heap \in Seq([is : {"tag", "link", "junk"} \cup Ids, n : Nat, free : BOOLEAN])
  BY <1>2 DEF Tiled, Word
<1>4. \A t \in T : t \in Nat /\ t \in 1 .. MaxHeap /\ t \in 0 .. MaxHeap
  <2>1. \A t \in T : t \in Nat /\ t \in 1 .. Len(heap)
    BY <1>2, TileFacts
  <2>2. Len(heap) \in Nat /\ MaxHeap \in Nat
    BY <1>2, TileFacts, MaxHeapAssumption
  <2>3. PICK l \in Nat : l = Len(heap) /\ l <= MaxHeap
    BY <1>2, <2>2
  <2>4. \A t \in 1 .. l : t \in 1 .. MaxHeap /\ t \in 0 .. MaxHeap
    BY <2>2, <2>3
  <2> QED BY <2>1, <2>3, <2>4
<1>5. lists \in [Classes -> Seq(1 .. MaxHeap)]
  <2>1. lists \in [Classes -> Seq(Nat)]
    BY <1>2 DEF Listed
  <2>2. ASSUME NEW c \in Classes PROVE lists[c] \in Seq(1 .. MaxHeap)
    <3>1. \A i \in 1 .. Len(lists[c]) : lists[c][i] \in 1 .. MaxHeap
      BY <1>2, <1>4 DEF Listed, FreeOf
    <3>2. PICK s \in Seq(Nat) : s = lists[c]
      BY <2>1
    <3>3. PICK n \in Nat : n = Len(s)
      BY <3>2
    <3>S. PICK S : S = 1 .. MaxHeap
      OBVIOUS
    <3>4. s = [i \in 1 .. n |-> s[i]]
      BY <3>3
    <3>5. \A i \in 1 .. n : s[i] \in S
      BY <3>1, <3>2, <3>3, <3>S
    <3>6. s \in Seq(S)
      BY <3>4, <3>5
    <3> QED BY <3>2, <3>S, <3>6
  <2> QED BY <2>1, <2>2
<1>6. live \in [Ids -> [bp : 0 .. MaxHeap, words : Nat]]
  <2>1. live \in [Ids -> [bp : Nat, words : Nat]]
    BY <1>2 DEF Held
  <2>2. \A i \in Ids : live[i].bp \in 0 .. MaxHeap
    <3>1. \A i \in Ids : live[i].bp # 0 => live[i].bp \in T
      BY <1>2 DEF Held, TakenOf
    <3>2. 0 \in 0 .. MaxHeap
      BY MaxHeapAssumption
    <3> QED BY <1>4, <3>1, <3>2
  <2> QED BY <2>1, <2>2
<1> QED BY <1>2, <1>3, <1>5, <1>6 DEF TypeOK

\* The heap that the properties speak of.
LEMMA WalkFacts ==
  ASSUME NEW T \in SUBSET Nat, MInvOn(T)
  PROVE  /\ Tiled(heap, T) /\ Listed(heap, lists, FreeOf(heap, T)) /\ Apart(heap, T, {}) /\ Held(T)
         /\ Blocks = T /\ FreeBlocks = FreeOf(heap, T) /\ Epilog = End(heap)
         /\ Len(heap) <= MaxHeap /\ Len(heap) \in Nat /\ MaxHeap \in Nat
<1>1. FreeOf(heap, T) \ {} = FreeOf(heap, T)
  OBVIOUS
<1>2. Tiled(heap, T) /\ Listed(heap, lists, FreeOf(heap, T)) /\ Apart(heap, T, {}) /\ Held(T) /\ Len(heap) <= MaxHeap
  BY <1>1 DEF MInvOn, Ordered, Memory
<1>3. Blocks = T
  BY <1>2, BlocksAre
<1>4. FreeBlocks = FreeOf(heap, T)
  BY <1>3 DEF FreeBlocks, FreeOf
<1>5. Epilog = End(heap)
  BY DEF Epilog, End
<1> QED BY <1>2, <1>3, <1>4, <1>5, TileFacts, MaxHeapAssumption

\* that mm_check's conditions hold,
LEMMA IsConsistent == MInv => HeapIsConsistent
<1> SUFFICES ASSUME MInv PROVE HeapIsConsistent
  OBVIOUS
<1>1. PICK T \in SUBSET Nat : MInvOn(T)
  BY DEF MInv
<1>2. /\ Tiled(heap, T) /\ Listed(heap, lists, FreeOf(heap, T)) /\ Apart(heap, T, {})
      /\ Blocks = T /\ FreeBlocks = FreeOf(heap, T) /\ Epilog = End(heap)
  BY <1>1, WalkFacts
<1>3. HeapIsTiled
  <2>1. Epilog \in T
    BY <1>2, TileFacts
  <2>2. heap[1].is = "tag" /\ heap[FTRP(heap, 1)] = heap[1] /\ heap[1].n % 2 = 0
    <3>1. heap[1] = Tag(0, FALSE) /\ heap[2] = Tag(0, FALSE)
      BY <1>2 DEF Tiled
    <3>2. heap[1].is = "tag" /\ heap[1].n = 0
      BY <3>1, TagFacts
    <3>3. FTRP(heap, 1) = 2
      <4>1. PICK n : n = heap[1].n /\ n = 0
        BY <3>2
      <4>2. 1 + n + 1 = 2
        BY <4>1
      <4> QED BY <4>1, <4>2 DEF FTRP
    <3>4. heap[FTRP(heap, 1)] = heap[1]
      BY <3>1, <3>3
    <3>5. heap[1].n % 2 = 0
      BY <3>2
    <3> QED BY <3>2, <3>4, <3>5
  <2>3. heap[Epilog].is = "tag" /\ heap[FTRP(heap, Epilog)] = heap[Epilog] /\ heap[Epilog].n % 2 = 0
    <3>1. heap[Epilog] = Tag(0, FALSE) /\ heap[Epilog + 1] = Tag(0, FALSE)
      BY <1>2 DEF Tiled
    <3>2. heap[Epilog].is = "tag" /\ heap[Epilog].n = 0
      BY <3>1, TagFacts
    <3>3. FTRP(heap, Epilog) = Epilog + 1
      <4>1. PICK e \in Int, n \in Nat : e = Epilog /\ n = heap[Epilog].n /\ n = 0
        BY <1>2, <2>1, <3>2, TileFacts
      <4>2. e + n + 1 = e + 1
        BY <4>1
      <4> QED BY <4>1, <4>2 DEF FTRP
    <3>4. heap[FTRP(heap, Epilog)] = heap[Epilog]
      BY <3>1, <3>3
    <3>5. heap[Epilog].n % 2 = 0
      BY <3>2
    <3> QED BY <3>2, <3>4, <3>5
  <2>4. ASSUME NEW p \in T, p # Epilog
        PROVE  heap[p].is = "tag" /\ heap[FTRP(heap, p)] = heap[p] /\ heap[p].n % 2 = 0 /\ heap[p].n >= 2
    BY <1>2, <2>4 DEF Tiled, IsBlock
  <2> QED BY <1>2, <2>1, <2>2, <2>3, <2>4 DEF HeapIsTiled
<1>4. ListsHoldFreeBlocks
  <2>1. lists \in [Classes -> Seq(Nat)]
    BY <1>2 DEF Listed
  <2>2. \A c \in Classes : DOMAIN lists[c] = 1 .. Len(lists[c]) /\ Len(lists[c]) \in Nat
    BY <2>1
  <2>3. ASSUME NEW c \in Classes PROVE ToSet(lists[c]) = {lists[c][i] : i \in 1 .. Len(lists[c])}
    BY <2>2 DEF ToSet
  <2>4. ASSUME NEW c \in Classes, NEW p \in ToSet(lists[c])
        PROVE  p \in FreeOf(heap, T) /\ find_free_list_index[heap[p].n] = c
    <3>1. PICK i \in 1 .. Len(lists[c]) : p = lists[c][i]
      BY <2>3
    <3> QED BY <1>2, <3>1 DEF Listed
  <2>5. ASSUME NEW p \in FreeOf(heap, T) PROVE \E c \in Classes : p \in ToSet(lists[c])
    <3>1. PICK c \in Classes : \E i \in 1 .. Len(lists[c]) : lists[c][i] = p
      BY <1>2 DEF Listed
    <3> QED BY <2>3, <3>1
  <2>6. FreeBlocks = UNION {ToSet(lists[c]) : c \in Classes}
    BY <1>2, <2>4, <2>5
  <2>7. ASSUME NEW c \in Classes PROVE IsInjective(lists[c])
    <3> SUFFICES ASSUME NEW i \in 1 .. Len(lists[c]), NEW j \in 1 .. Len(lists[c]), lists[c][i] = lists[c][j]
                 PROVE  i = j
      BY <2>2 DEF IsInjective
    <3>1. ~(i < j) /\ ~(j < i)
      BY <1>2 DEF Listed
    <3> QED BY <3>1
  <2> QED BY <2>4, <2>6, <2>7 DEF ListsHoldFreeBlocks
<1>5. FreeBlocksCoalesced
  BY <1>2 DEF FreeBlocksCoalesced, Apart
<1> QED BY <1>3, <1>4, <1>5 DEF HeapIsConsistent

\* that the client has its blocks,
LEMMA KeepsBlocks == MInv => ClientKeepsBlocks
<1> SUFFICES ASSUME MInv PROVE ClientKeepsBlocks
  OBVIOUS
<1>1. PICK T \in SUBSET Nat : MInvOn(T)
  BY DEF MInv
<1>2. Held(T) /\ Blocks = T /\ FreeBlocks = FreeOf(heap, T) /\ Epilog = End(heap)
  BY <1>1, WalkFacts
<1>3. TakenBlocksAreLive
  <2>1. Blocks \ (FreeBlocks \cup {Epilog}) = TakenOf(heap, T)
    BY <1>2 DEF TakenOf, FreeOf
  <2> QED BY <1>2, <2>1 DEF TakenBlocksAreLive, Held
<1>4. ContentsKept
  <2> SUFFICES ASSUME NEW i \in Ids, NEW k \in 1 .. MaxHeap, k <= live[i].words
               PROVE  heap[live[i].bp + k] = Data(i)
    BY DEF ContentsKept
  <2>1. live[i].words \in Nat
    BY <1>2 DEF Held
  <2>2. k \in 1 .. live[i].words
    BY <2>1
  <2> QED BY <1>2, <2>2 DEF Held
<1> QED BY <1>3, <1>4 DEF ClientKeepsBlocks

\* A request is never granted fewer words than it needs, so it is searched for
\* in a list that there is.
LEMMA RequestClass ==
  \A bytes \in Bytes \ {0} : Words(bytes) \in Nat /\ find_free_list_index[Words(bytes)] \in Classes
<1> SUFFICES ASSUME NEW bytes \in Bytes \ {0}
             PROVE  Words(bytes) \in Nat /\ find_free_list_index[Words(bytes)] \in Classes
  OBVIOUS
<1>1. bytes \in Nat \ {0}
  BY Constants
<1>2. PICK x \in Nat : Granted(bytes) = Words(x) /\ x >= bytes
  <2>1. CASE bytes <= 4096
    <3>1. round_up_power_2(bytes) \in Nat /\ round_up_power_2(bytes) >= bytes
      BY <1>1, <2>1, RoundUp, PowersFacts
    <3> QED BY <2>1, <3>1 DEF Granted
  <2>2. CASE ~(bytes <= 4096)
    <3>1. bytes >= bytes
      BY <1>1
    <3> QED BY <1>1, <2>2, <3>1 DEF Granted
  <2> QED BY <2>1, <2>2
<1>3. PICK v \in Nat, w \in Nat : v = Words(bytes) /\ w = Granted(bytes) /\ v <= w
  <2>1. Words(bytes) \in Nat /\ Words(x) \in Nat
    BY <1>1, WordsFacts
  <2>2. Words(bytes) <= Words(x)
    BY <1>1, <1>2 DEF Words
  <2> QED BY <1>2, <2>1, <2>2
<1>4. find_free_list_index[v] <= find_free_list_index[w] /\ find_free_list_index[v] \in Nat /\ find_free_list_index[w] \in Nat
  BY <1>3, ClassGrows, FindClass
<1>5. find_free_list_index[w] \in Classes
  BY <1>3, ClassesAssumption
<1>6. find_free_list_index[v] \in Classes
  BY <1>4, <1>5, ClassesAssumption DEF Classes
<1> QED BY <1>3, <1>6

\* and that the search finds the smallest block.
LEMMA FitsBest == MInv => BestFit
<1> SUFFICES ASSUME MInv PROVE BestFit
  OBVIOUS
<1>1. PICK T \in SUBSET Nat : MInvOn(T)
  BY DEF MInv
<1>2. FreeBlocks = FreeOf(heap, T) /\ Tiled(heap, T)
  BY <1>1, WalkFacts
<1>3. PICK F : F = FreeOf(heap, T)
  OBVIOUS
<1>4. \A q \in F : heap[q].n \in Nat
  BY <1>2, <1>3, TileFacts DEF FreeOf
<1>5. ASSUME NEW words \in {Words(bytes) : bytes \in Bytes \ {0}}
      PROVE  IF {p \in F : heap[p].n >= words} = {} THEN find_free_block(Memory, words) = 0
             ELSE /\ find_free_block(Memory, words) \in {p \in F : heap[p].n >= words}
                  /\ \A p \in {q \in F : heap[q].n >= words} : heap[find_free_block(Memory, words)].n <= heap[p].n
  <2>1. words \in Nat /\ find_free_list_index[words] \in Classes
    BY RequestClass
  <2>2. PICK f : f = find_free_block(Memory, words)
    OBVIOUS
  <2>3. Ordered(Memory, T, {}, {}) /\ Memory.heap = heap
    BY <1>1 DEF MInvOn, Memory
  <2>4. Best(heap, F, words, f)
    BY <1>3, <2>1, <2>2, <2>3, Found
  <2>5. CASE f = 0
    <3>1. \A q \in F : ~(heap[q].n >= words)
      BY <1>4, <2>1, <2>4, <2>5 DEF Best
    <3> QED BY <2>2, <2>5, <3>1
  <2>6. CASE f # 0
    BY <2>2, <2>4, <2>6 DEF Best
  <2> QED BY <2>5, <2>6
<1> QED BY <1>2, <1>3, <1>5 DEF BestFit

\* What the client holds, as Allocator sees it.
Handed == [i \in Ids |-> [at    |-> IF live[i] = Nothing THEN 0 ELSE live[i].bp + 1,
                          words |-> live[i].words]]

\* What the abstract allocator hands out.
Areas == {a \in [at : 1 .. MaxHeap, words : 0 .. MaxHeap] : a.at % 2 = 0 /\ a.at + a.words - 1 <= MaxHeap}

\* The words of one.
WordsOf(a) == a.at .. a.at + a.words - 1

\* No word is handed out twice.
Disjoint ==
  /\ Handed \in [Ids -> [at : Nat, words : Nat]]
  /\ \A i \in Ids : live[i] # Nothing => Handed[i] \in Areas
  /\ \A i, j \in Ids : i # j => WordsOf(Handed[i]) \cap WordsOf(Handed[j]) = {}
  /\ \A i \in Ids : live[i] = Nothing => Handed[i] = [at |-> 0, words |-> 0]

\* The areas that are held are inside the heap, aligned, and apart.
LEMMA HeldApart == MInv => Disjoint
<1> SUFFICES ASSUME MInv PROVE Disjoint
  OBVIOUS
<1>1. PICK T \in SUBSET Nat : MInvOn(T)
  BY DEF MInv
<1>2. Tiled(heap, T) /\ Held(T) /\ Len(heap) <= MaxHeap /\ Len(heap) \in Nat /\ MaxHeap \in Nat
  BY <1>1, WalkFacts
<1>3. live \in [Ids -> [bp : Nat, words : Nat]]
  BY <1>2 DEF Held
<1>4. ASSUME NEW i \in Ids, live[i] = Nothing
      PROVE  Handed[i] = [at |-> 0, words |-> 0] /\ WordsOf(Handed[i]) = {}
  <2>1. Handed[i] = [at |-> 0, words |-> 0]
    BY <1>4 DEF Handed, Nothing
  <2>2. Handed[i].at = 0 /\ Handed[i].words = 0
    BY <2>1
  <2> QED BY <2>1, <2>2 DEF WordsOf
\* Where a block that is held is, and what of it.
<1>5. ASSUME NEW i \in Ids, live[i] # Nothing
      PROVE  \E t \in TakenOf(heap, T), w \in Nat :
               t \in T /\ t = live[i].bp /\ w <= heap[t].n /\ Handed[i] = [at |-> t + 1, words |-> w]
  <2>1. live[i].bp \in TakenOf(heap, T) /\ live[i].words \in Nat
    BY <1>2, <1>5, HeldBlock
  <2>2. live[i].bp \in T /\ live[i].bp # 0
    BY <1>2, <2>1, TileFacts DEF TakenOf
  <2>3. live[i].words <= heap[live[i].bp].n
    BY <1>2, <2>2 DEF Held
  <2>4. Handed[i] = [at |-> live[i].bp + 1, words |-> live[i].words]
    BY <1>5 DEF Handed
  <2> QED BY <2>1, <2>2, <2>3, <2>4
<1>6. ASSUME NEW t \in TakenOf(heap, T)
      PROVE  /\ t \in Nat /\ heap[t].n \in Nat /\ t >= 3 /\ t % 2 = 1 /\ NextBlock(heap, t) = t + heap[t].n + 2
             /\ t + heap[t].n + 1 <= Len(heap)
  <2>1. t \in T /\ t # End(heap)
    BY DEF TakenOf
  <2>2. t \in Nat /\ heap[t].n \in Nat /\ t >= 3 /\ NextBlock(heap, t) = t + heap[t].n + 2 /\ t + heap[t].n + 1 \in 1 .. Len(heap)
    BY <1>2, <2>1, TileFacts
  <2>3. t % 2 = 1
    BY <1>2, <2>1 DEF Tiled
  <2> QED BY <1>2, <2>2, <2>3
<1>7. ASSUME NEW i \in Ids, live[i] # Nothing PROVE Handed[i] \in Areas
  <2>1. PICK t \in TakenOf(heap, T), w \in Nat : w <= heap[t].n /\ Handed[i] = [at |-> t + 1, words |-> w]
    BY <1>5, <1>7
  <2>2. PICK n \in Nat, l \in Nat : n = heap[t].n /\ l = Len(heap) /\ w <= n /\ t + n + 1 <= l /\ l <= MaxHeap
    BY <1>2, <1>6, <2>1
  <2>3. t \in Nat /\ t >= 3 /\ t % 2 = 1
    BY <1>6
  <2>4. t + 1 \in 1 .. MaxHeap /\ w \in 0 .. MaxHeap /\ (t + 1) % 2 = 0 /\ (t + 1) + w - 1 <= MaxHeap
    BY <1>2, <2>2, <2>3
  <2>5. PICK a : a = t + 1
    OBVIOUS
  <2>6. a \in 1 .. MaxHeap /\ w \in 0 .. MaxHeap /\ a % 2 = 0 /\ a + w - 1 <= MaxHeap /\ Handed[i] = [at |-> a, words |-> w]
    BY <2>1, <2>4, <2>5
  <2> QED BY <2>6 DEF Areas
\* The words of a lower block end before a higher one.
<1>8. ASSUME NEW t \in TakenOf(heap, T), NEW u \in TakenOf(heap, T), NEW v \in Nat, NEW w \in Nat,
             v <= heap[t].n, w <= heap[u].n, t < u
      PROVE  WordsOf([at |-> t + 1, words |-> v]) \cap WordsOf([at |-> u + 1, words |-> w]) = {}
  <2>1. NextBlock(heap, t) <= u
    BY <1>2, <1>8 DEF Tiled, TakenOf
  <2>2. PICK n \in Nat : n = heap[t].n /\ t + n + 2 <= u /\ v <= n
    BY <1>6, <1>8, <2>1
  <2>3. t \in Nat /\ u \in Nat
    BY <1>6
  <2>4. (t + 1 .. t + 1 + v - 1) \cap (u + 1 .. u + 1 + w - 1) = {}
    BY <2>2, <2>3
  <2> QED BY <2>4 DEF WordsOf
<1>9. ASSUME NEW i \in Ids, NEW j \in Ids, i # j PROVE WordsOf(Handed[i]) \cap WordsOf(Handed[j]) = {}
  <2>1. CASE live[i] = Nothing \/ live[j] = Nothing
    BY <1>4, <2>1
  <2>2. CASE live[i] # Nothing /\ live[j] # Nothing
    <3>1. PICK t \in TakenOf(heap, T), v \in Nat :
             t \in T /\ t = live[i].bp /\ v <= heap[t].n /\ Handed[i] = [at |-> t + 1, words |-> v]
      BY <1>5, <2>2
    <3>2. PICK u \in TakenOf(heap, T), w \in Nat :
             u \in T /\ u = live[j].bp /\ w <= heap[u].n /\ Handed[j] = [at |-> u + 1, words |-> w]
      BY <1>5, <2>2
    <3>3. t # 0 /\ t \in Nat /\ u \in Nat
      BY <1>6
    <3>4. t # u
      BY <1>2, <1>9, <3>1, <3>2, <3>3 DEF Held
    <3>5. CASE t < u
      BY <1>8, <3>1, <3>2, <3>5
    <3>6. CASE u < t
      BY <1>8, <3>1, <3>2, <3>6
    <3> QED BY <3>3, <3>4, <3>5, <3>6
  <2> QED BY <2>1, <2>2
<1>10. Handed \in [Ids -> [at : Nat, words : Nat]]
  <2>1. ASSUME NEW i \in Ids PROVE Handed[i] \in [at : Nat, words : Nat]
    <3>1. CASE live[i] = Nothing
      BY <1>4, <3>1
    <3>2. CASE live[i] # Nothing
      <4>1. PICK t \in TakenOf(heap, T), w \in Nat : Handed[i] = [at |-> t + 1, words |-> w]
        BY <1>5, <3>2
      <4>2. t + 1 \in Nat
        BY <1>6
      <4> QED BY <4>1, <4>2
    <3> QED BY <3>1, <3>2
  <2>2. Handed = [i \in Ids |-> Handed[i]]
    BY DEF Handed
  <2> QED BY <2>1, <2>2
<1> QED BY <1>4, <1>7, <1>9, <1>10 DEF Disjoint

\* A step changes what one name holds, or nothing.
LEMMA OneName ==
  ASSUME [Next]_vars
  PROVE  live' = live \/ \E i \in Ids : \E v : live' = [live EXCEPT ![i] = v]
<1>1. ASSUME NEW i \in Ids, NEW bytes \in Bytes, Malloc(i, bytes) PROVE \E v : live' = [live EXCEPT ![i] = v]
  BY <1>1 DEF Malloc
<1>2. ASSUME NEW i \in Ids, Free(i) PROVE \E v : live' = [live EXCEPT ![i] = v]
  BY <1>2 DEF Free
<1>3. ASSUME NEW i \in Ids, NEW bytes \in Bytes, Realloc(i, bytes)
      PROVE  live' = live \/ \E v : live' = [live EXCEPT ![i] = v]
  BY <1>3 DEF Realloc
<1>4. ASSUME NEW bytes \in Bytes, ReallocNull(bytes) \/ ReallocSameSize(bytes) PROVE live' = live
  BY <1>4 DEF ReallocNull, ReallocSameSize
<1>5. CASE UNCHANGED vars
  BY <1>5 DEF vars
<1> QED BY <1>1, <1>2, <1>3, <1>4, <1>5 DEF Next

\* As Allocator has it.
Hands(i) ==
  /\ Handed'[i] \in Areas
  /\ \A j \in Ids \ {i} : WordsOf(Handed'[i]) \cap WordsOf(Handed[j]) = {}
  /\ Handed' = [Handed EXCEPT ![i] = Handed'[i]]

\* One name's area changes, as the abstract allocator may change it.
LEMMA HandedStep ==
  ASSUME MInv, MInv', [Next]_vars
  PROVE  \/ Handed' = Handed
         \/ \E i \in Ids : Hands(i) \/ Handed' = [Handed EXCEPT ![i] = [at |-> 0, words |-> 0]]
<1>1. Disjoint /\ Disjoint'
  BY HeldApart, PTL
<1>2. CASE live' = live
  BY <1>2 DEF Handed
<1>3. ASSUME NEW i \in Ids, NEW v, live' = [live EXCEPT ![i] = v]
      PROVE  Hands(i) \/ Handed' = [Handed EXCEPT ![i] = [at |-> 0, words |-> 0]]
  <2>1. live \in [Ids -> [bp : Nat, words : Nat]]
    BY DEF MInv, MInvOn, Held
  <2>2. \A j \in Ids : j # i => live'[j] = live[j]
    BY <1>3, <2>1
  <2>3. \A j \in Ids : j # i => Handed'[j] = Handed[j]
    BY <2>2 DEF Handed
  <2>4. PICK a : a = Handed
    OBVIOUS
  <2>5. PICK b : b = Handed'
    OBVIOUS
  <2>6. a \in [Ids -> [at : Nat, words : Nat]] /\ b \in [Ids -> [at : Nat, words : Nat]]
    BY <1>1, <2>4, <2>5 DEF Disjoint
  <2>7. b = [a EXCEPT ![i] = b[i]]
    BY <2>3, <2>4, <2>5, <2>6
  <2>8. CASE live'[i] = Nothing
    <3>1. b[i] = [at |-> 0, words |-> 0]
      BY <1>1, <2>5, <2>8 DEF Disjoint
    <3> QED BY <2>4, <2>5, <2>7, <3>1
  <2>9. CASE live'[i] # Nothing
    <3>1. b[i] \in Areas
      BY <1>1, <2>5, <2>9 DEF Disjoint
    <3>2. ASSUME NEW j \in Ids \ {i} PROVE WordsOf(b[i]) \cap WordsOf(a[j]) = {}
      <4>1. a[j] = b[j]
        BY <2>3, <2>4, <2>5
      <4> QED BY <1>1, <2>5, <4>1 DEF Disjoint
    <3> QED BY <2>4, <2>5, <2>7, <3>1, <3>2 DEF Hands
  <2> QED BY <2>8, <2>9
<1> QED BY <1>2, <1>3, OneName

\* Each call is a step of the abstract allocator,
LEMMA PromisedStep == MInv /\ MInv' /\ [Next]_vars => [Promise!Next]_Handed
<1> SUFFICES ASSUME MInv, MInv', [Next]_vars, Handed' # Handed PROVE Promise!Next
  OBVIOUS
<1>1. PICK i \in Ids : Hands(i) \/ Handed' = [Handed EXCEPT ![i] = [at |-> 0, words |-> 0]]
  BY HandedStep
<1>2. CASE Hands(i)
  <2>1. Promise!Grant(i)
    BY <1>2 DEF Hands, Promise!Grant, Promise!Separate, Promise!WordsOf, Promise!Areas, Areas, WordsOf, Handed
  <2> QED BY <2>1 DEF Promise!Next
<1>3. CASE Handed' = [Handed EXCEPT ![i] = [at |-> 0, words |-> 0]]
  <2>1. Promise!Release(i)
    BY <1>3 DEF Promise!Release, Promise!Nothing, Handed
  <2> QED BY <2>1 DEF Promise!Next
<1> QED BY <1>1, <1>2, <1>3

\* and mm_init is its initial state.
LEMMA PromisedInit == Init => Promise!Init
<1> SUFFICES ASSUME Init PROVE Promise!Init
  OBVIOUS
<1>1. Handed = [i \in Ids |-> [at |-> 0, words |-> 0]]
  BY DEF Init, Handed, Nothing
<1> QED BY <1>1 DEF Promise!Init, Promise!Nothing, Handed

-----------------------------------------------------------------------------

\* Words, lists and names of mm.c keep their types: sizes are numbers of words in
\* the heap, and a name has an address of the heap, or none.
THEOREM TypesOfTheHeap == Spec => []TypeOK
BY MInvariant, TypesHold, PTL

\* mm_check's conditions, after every call: the walk from header to header ends at
\* the epilog, footers equal headers, coalesce left no two free blocks side by side,
\* and the lists of place_block_into_free_list hold each free block once, in its
\* class and by size.
THEOREM HeapStaysConsistent == Spec => []HeapIsConsistent
BY MInvariant, IsConsistent, PTL

\* mm_malloc, mm_free and mm_realloc leave each block of the client where and as it
\* is: taken, large enough, and with what the client wrote in it.
THEOREM NothingIsLost == Spec => []ClientKeepsBlocks
BY MInvariant, KeepsBlocks, PTL

\* find_free_block looks in one place of the lists, sorted by size, and yet finds a
\* smallest block that fits, when one fits.
THEOREM SmallestFit == Spec => []BestFit
BY MInvariant, FitsBest, PTL

\* mm.c implements the abstract allocator: it hands out areas of the heap that are
\* aligned, large enough and apart from all that the client has.
THEOREM KeepsThePromise == Spec => ImplementsAllocator
<1>1. [Next]_vars /\ MInv /\ MInv' => [Promise!Next]_Handed
  BY PromisedStep
<1> QED BY <1>1, PromisedInit, MInvariant, PTL DEF Spec, ImplementsAllocator, Promise!Spec, Handed
===============================================================================
