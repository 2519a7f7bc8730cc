------------------------------ MODULE BookProofs ------------------------------
(***************************************************************************)
(* Proofs about the allocator of the book, for any size of the memory, any *)
(* chunk by which the heap grows, any names and any sizes the client asks  *)
(* for.  The invariant says that there is a set T of payloads, from the    *)
(* prologue to the epilogue, such that the blocks at T tile the heap; that *)
(* no two free blocks touch; that the rover is at one of the blocks; and   *)
(* that each name of the client has a block of its own.  Each function of  *)
(* mm.c is a lemma about T.  The walk is shown to be T first, since the    *)
(* search, and not only the properties, is written with it.                *)
(***************************************************************************)
EXTENDS BookAllocator, WellFoundedInduction, TLAPS

\* The addresses of the memory, its words, and a memory with brk and rover.
Addresses == 0 .. MAX_HEAP - 1
WordKinds  == [is : {"tag", "unused"} \cup BlockNames, size : Nat, alloc : BOOLEAN]
Memories  == [words : [Addresses -> WordKinds], brk : Nat, rover : Nat]

\* The size in the header of the block at t, and where the next one is.
Size(w, t)  == w[t - 1].size
After(w, t) == t + Size(w, t)

\* A block of mm.c: an even number of words between two equal tags, two in the
\* prologue and at least four in the others.
IsBlock(w, t) ==
  /\ w[t - 1].is = "tag" /\ Size(w, t) % 2 = 0 /\ w[t + Size(w, t) - 2] = w[t - 1]
  /\ Size(w, t) >= (IF t = 2 THEN 2 ELSE 4)

\* T are the payloads of the blocks of w, from the prologue to the epilogue at e.
Tiled(w, e, T) ==
  /\ w \in [Addresses -> WordKinds] /\ e \in Nat /\ e <= MAX_HEAP
  /\ 2 \in T /\ e \in T /\ e # 2 /\ T \subseteq 2 .. e
  /\ w[1] = PACK(2, TRUE) /\ w[e - 1] = PACK(0, TRUE)
  /\ \A t \in T : t % 2 = 0
  /\ \A t \in T : t # e => IsBlock(w, t) /\ After(w, t) \in T
  /\ \A t, u \in T : t < u => After(w, t) <= u

\* The free blocks, and those that are not, without prologue and epilogue.
FreeOf(w, T)     == {t \in T : ~w[t - 1].alloc}
TakenOf(w, e, T) == {t \in T : w[t - 1].alloc /\ t # 2 /\ t # e}

\* No free block follows a free block, but for the blocks of X.
Apart(w, T, X) == \A t, u \in FreeOf(w, T) \ X : After(w, t) # u

\* The rover is at a block, and first fit does not move it.
RoverAt(m, T) ==
  /\ m.rover \in T /\ m.rover # m.brk
  /\ fit \in {"first", "next"} /\ (fit = "first" => m.rover = heap_listp)

\* A memory whose blocks are T.
Ordered(m, T, X) ==
  m \in Memories /\ Tiled(m.words, m.brk, T) /\ Apart(m.words, T, X) /\ RoverAt(m, T)

\* What i writes to a block it holds, and that there is room for it.
Mine(w, b, i) ==
  /\ b.bp = 0 => b.words = 0
  /\ b.bp # 0 => b.words <= Size(w, b.bp) - 2
  /\ \A k \in b.bp .. b.bp + b.words - 1 : w[k] = Word(i)

\* Each name of h holds a block of its own, and all that are taken are held.
ClientHolds(m, T, h) ==
  /\ h \in [BlockNames -> [bp : Nat, words : Nat]]
  /\ TakenOf(m.words, m.brk, T) = {h[i].bp : i \in BlockNames} \ {0}
  /\ \A i, j \in BlockNames : i # j /\ h[i].bp = h[j].bp => h[i].bp = 0
  /\ \A i \in BlockNames : Mine(m.words, h[i], i)

\* T are the blocks, in order, and the client's are held.
BInvOn(T) == Ordered(Memory, T, {}) /\ ClientHolds(Memory, T, held)

\* The inductive invariant.
BInv == \E T \in SUBSET Nat : BInvOn(T)

-----------------------------------------------------------------------------
(* How the blocks change.                                                  *)

\* The words differ only in the blocks from a to z.
Same(w, w2, a, z) ==
  w2 \in [Addresses -> WordKinds] /\ \A k \in Addresses : k \notin a - 1 .. z - 2 => w2[k] = w[k]

\* N cuts the words from a to z into blocks.
Cut(w, N, a, z) ==
  /\ a \in N /\ N \subseteq a .. z - 1
  /\ \A t \in N : t % 2 = 0 /\ IsBlock(w, t) /\ (After(w, t) \in N \/ After(w, t) = z)
  /\ \A t, u \in N : t < u => After(w, t) <= u

\* The taken blocks outside P stay, with what they hold.
Kept(w, e, T, w2, e2, T2, P) ==
  \A t \in TakenOf(w, e, T) \ P :
    t \in TakenOf(w2, e2, T2) /\ \A k \in t - 1 .. t + Size(w, t) - 2 : w2[k] = w[k]

\* The taken blocks change by P and Q only; the others keep what they hold.
BlocksMove(m, T, m2, T2, P, Q) ==
  /\ TakenOf(m2.words, m2.brk, T2) = (TakenOf(m.words, m.brk, T) \ P) \cup Q
  /\ Kept(m.words, m.brk, T, m2.words, m2.brk, T2, P)

-----------------------------------------------------------------------------
(* Arithmetic.                                                             *)

\* A nonempty set of natural numbers has a least element.
LEMMA LeastAddress ==
  ASSUME NEW S, S \subseteq Nat, S # {}
  PROVE  \E n \in S : \A k \in S : n <= k
<1>1. IsWellFoundedOn(OpToRel(<, Nat), Nat)
  BY NatLessThanWellFounded
<1>2. PICK n \in S : \A k \in S : ~(<<k, n>> \in OpToRel(<, Nat))
  BY <1>1, WFMin
<1>3. ASSUME NEW k \in S
      PROVE  n <= k
  <2>1. k \in Nat /\ n \in Nat
    OBVIOUS
  <2>2. ~(k < n)
    BY <1>2, <2>1 DEF OpToRel
  <2> QED BY <2>1, <2>2
<1> QED BY <1>3

\* Min chooses it.
LEMMA MinFacts ==
  ASSUME NEW S, S \subseteq Nat, S # {}
  PROVE  Min(S) \in S /\ \A k \in S : Min(S) <= k
<1>1. \E n \in S : \A k \in S : n <= k
  BY LeastAddress
<1> QED BY Zenon, <1>1 DEF Min

\* A nonempty set of numbers up to e has a greatest element.
LEMMA Greatest ==
  ASSUME NEW e \in Nat, NEW S, S \subseteq 0 .. e, S # {}
  PROVE  \E n \in S : \A k \in S : k <= n
<1> DEFINE R == {k \in 0 .. e : e - k \in S}
<1>1. PICK s \in S : TRUE
  OBVIOUS
<1>2. s \in 0 .. e /\ e - s \in 0 .. e /\ e - (e - s) = s
  OBVIOUS
<1>3. R # {} /\ R \subseteq Nat
  <2>1. PICK r \in 0 .. e : e - r = s
    BY <1>2
  <2>2. e - r \in S
    BY <2>1
  <2>3. r \in R
    BY Zenon, <2>2
  <2>4. R \subseteq Nat
    OBVIOUS
  <2> QED BY Zenon, <2>3, <2>4
<1>4. PICK n \in R : \A k \in R : n <= k
  BY <1>3, LeastAddress
<1>5. e - n \in S /\ n \in 0 .. e
  OBVIOUS
<1>6. ASSUME NEW k \in S PROVE k <= e - n
  <2>1. k \in 0 .. e /\ e - k \in 0 .. e /\ e - (e - k) = k
    OBVIOUS
  <2>2. n <= e - k
    BY <1>4, <2>1
  <2> QED BY <1>5, <2>1, <2>2
<1> QED BY <1>5, <1>6

\* The sizes that mm_malloc asks for are even and hold what the client wants.
LEMMA AdjustedFacts ==
  \A b \in Nat : b > 0 => /\ Adjusted(b) \in Nat /\ Adjusted(b) % 2 = 0 /\ Adjusted(b) >= 4
                          /\ AskedWords(b) \in Nat /\ AskedWords(b) <= Adjusted(b) - 2
BY DEF Adjusted, AskedWords

-----------------------------------------------------------------------------
(* Blocks.                                                                 *)

\* The fields of a word.
LEMMA WordFacts ==
  \A w \in [Addresses -> WordKinds], k \in Addresses :
    w[k] \in WordKinds /\ w[k].size \in Nat /\ w[k].alloc \in BOOLEAN
BY DEF WordKinds

\* The fields of a tag.
LEMMA TagFacts ==
  \A n \in Nat, a \in BOOLEAN :
    PACK(n, a) \in WordKinds /\ PACK(n, a).size = n /\ PACK(n, a).alloc = a /\ PACK(n, a).is = "tag"
BY DEF PACK, WordKinds

\* Where a block is.
LEMMA TileFacts ==
  ASSUME NEW w, NEW e, NEW T, Tiled(w, e, T)
  PROVE  /\ e \in Nat /\ e >= 4 /\ e <= MAX_HEAP /\ e - 1 \in Addresses /\ 1 \in Addresses
         /\ Size(w, e) = 0 /\ w[e - 1].alloc /\ Size(w, 2) = 2 /\ w[1].alloc
         /\ \A t \in T : /\ t \in Nat /\ t >= 2 /\ t <= e /\ t - 1 \in Addresses
                         /\ w[t - 1] \in WordKinds /\ Size(w, t) \in Nat /\ Size(w, t) % 2 = 0
                         /\ w[t - 1].alloc \in BOOLEAN
         /\ \A t \in T : t # e => /\ Size(w, t) >= 2 /\ t + Size(w, t) \in T /\ t + Size(w, t) <= e
                                  /\ t + Size(w, t) - 2 \in Addresses
         /\ \A t \in T : t # e /\ t # 2 => Size(w, t) >= 4
<1>1. /\ w \in [Addresses -> WordKinds] /\ e \in Nat /\ e <= MAX_HEAP /\ MAX_HEAP \in Nat
      /\ 2 \in T /\ e \in T /\ e # 2 /\ T \subseteq 2 .. e /\ w[1] = PACK(2, TRUE) /\ w[e - 1] = PACK(0, TRUE)
  BY BookAssumption DEF Tiled
<1>2. \A t \in T : t \in Nat /\ t >= 2 /\ t <= e /\ t - 1 \in Addresses
  BY <1>1 DEF Addresses
<1>3. e >= 4 /\ 1 \in Addresses
  <2>1. e % 2 = 0
    BY <1>1 DEF Tiled
  <2>2. e >= 4
    BY <1>1, <1>2, <2>1
  <2> QED BY <1>1, <2>2 DEF Addresses
<1>4. /\ w[e - 1].size = 0 /\ w[e - 1].alloc = TRUE /\ w[1].size = 2 /\ w[1].alloc = TRUE
  BY <1>1 DEF PACK
<1>5. Size(w, e) = 0 /\ Size(w, 2) = 2
  <2>1. 2 - 1 = 1
    OBVIOUS
  <2> QED BY <1>4, <2>1 DEF Size
<1>6. \A t \in T : w[t - 1] \in WordKinds /\ Size(w, t) \in Nat /\ w[t - 1].alloc \in BOOLEAN
  BY <1>1, <1>2, WordFacts DEF Size
<1>7. \A t \in T : t # e => IsBlock(w, t) /\ After(w, t) \in T
  BY DEF Tiled
<1>8. \A t \in T : t # e => Size(w, t) % 2 = 0 /\ Size(w, t) >= (IF t = 2 THEN 2 ELSE 4) /\ t + Size(w, t) \in T
  BY <1>7 DEF IsBlock, After
<1>9. \A t \in T : Size(w, t) % 2 = 0
  BY <1>5, <1>8
<1>10. \A t \in T : t # e /\ t # 2 => Size(w, t) >= 4
  BY <1>8
<1>11. \A t \in T : t # e => Size(w, t) >= 2
  BY <1>6, <1>8
<1>12. \A t \in T : t # e => t + Size(w, t) <= e /\ t + Size(w, t) - 2 \in Addresses
  <2> SUFFICES ASSUME NEW t \in T, t # e PROVE t + Size(w, t) <= e /\ t + Size(w, t) - 2 \in Addresses
    OBVIOUS
  <2>1. PICK n \in Nat : n = Size(w, t) /\ n >= 2 /\ t + n \in T
    BY <1>6, <1>8, <1>11
  <2>2. t + n <= e /\ t \in Nat /\ t >= 2
    BY <1>2, <2>1
  <2> QED BY <1>1, <2>1, <2>2 DEF Addresses
<1> QED BY <1>1, <1>2, <1>3, <1>4, <1>5, <1>6, <1>8, <1>9, <1>10, <1>11, <1>12

\* The block before another, found by its footer.
LEMMA BlockBefore ==
  ASSUME NEW w, NEW e, NEW T, Tiled(w, e, T), NEW p \in T, p # 2
  PROVE  /\ p - w[p - 2].size \in T /\ p - w[p - 2].size < p /\ p - w[p - 2].size # e
         /\ After(w, p - w[p - 2].size) = p
         /\ w[p - 2] = w[p - w[p - 2].size - 1]
         /\ \A u \in T : After(w, u) = p /\ u # e => u = p - w[p - 2].size
<1>1. ASSUME NEW u \in T, After(w, u) = p, u # e
      PROVE  u = p - w[p - 2].size /\ u < p /\ w[p - 2] = w[u - 1]
  <2>1. PICK n \in Nat : n = Size(w, u) /\ n >= 2 /\ p = u + n
    BY <1>1, TileFacts DEF After
  <2>2. u \in Nat
    BY TileFacts
  <2>3. w[u + n - 2] = w[u - 1]
    BY <1>1, <2>1 DEF Tiled, IsBlock
  <2>4. w[p - 2] = w[u - 1]
    BY <2>1, <2>3
  <2>5. w[p - 2].size = n
    BY <2>1, <2>4 DEF Size
  <2>6. p - n = u /\ u < p
    BY <2>1, <2>2
  <2> QED BY <2>4, <2>5, <2>6
<1>2. \E u \in T : After(w, u) = p /\ u # e
  <2> DEFINE S == {t \in T : t < p}
  <2>1. p \in Nat /\ p >= 2 /\ p <= e /\ 2 \in T /\ e \in Nat
    BY TileFacts DEF Tiled
  <2>2. S \subseteq 0 .. p
    BY <2>1, TileFacts
  <2>3. 2 \in S
    BY <2>1
  <2>4. PICK u \in S : \A k \in S : k <= u
    BY <2>1, <2>2, <2>3, Greatest
  <2>5. u \in T /\ u < p /\ u # e
    BY <2>1, <2>4, TileFacts
  <2>6. After(w, u) \in T /\ After(w, u) <= p
    BY <2>5 DEF Tiled
  <2>7. After(w, u) \in Nat /\ u \in Nat /\ After(w, u) > u
    BY <2>5, <2>6, TileFacts DEF After
  <2>8. ~(After(w, u) < p)
    BY <2>4, <2>6, <2>7
  <2> QED BY <2>1, <2>5, <2>6, <2>7, <2>8
<1> QED BY <1>1, <1>2

\* A block is alone from its header to its footer.
LEMMA Alone ==
  ASSUME NEW w, NEW e, NEW T, Tiled(w, e, T), NEW p \in T, p # e
  PROVE  \A t \in T : t \in p .. After(w, p) - 1 <=> t = p
<1>1. p \in Nat /\ Size(w, p) \in Nat /\ Size(w, p) >= 2 /\ \A t \in T : t \in Nat
  BY TileFacts
<1>2. \A t \in T : p < t => After(w, p) <= t
  BY DEF Tiled
<1> QED BY <1>1, <1>2 DEF After

\* The neighbours of a block that are free.
FreeAround(w, p) == ~w[p - 2].alloc \/ ~w[After(w, p) - 1].alloc

\* Free blocks are apart when the one in doubt has no free neighbour.
LEMMA ApartDone ==
  ASSUME NEW w, NEW e, NEW T, Tiled(w, e, T), NEW p \in T, Apart(w, T, {p}),
         w[p - 1].alloc \/ ~FreeAround(w, p)
  PROVE  Apart(w, T, {})
<1> SUFFICES ASSUME NEW t \in FreeOf(w, T), NEW u \in FreeOf(w, T), After(w, t) = u
             PROVE  FALSE
  BY DEF Apart
<1>1. t \in T /\ u \in T /\ ~w[t - 1].alloc /\ ~w[u - 1].alloc
  BY DEF FreeOf
<1>2. CASE t = p
  BY <1>1, <1>2 DEF FreeAround
<1>3. CASE u = p
  <2>1. p # 2 /\ t # e
    <3>1. w[e - 1].alloc /\ w[2 - 1].alloc
      BY TileFacts
    <3> QED BY <1>1, <1>3, <3>1
  <2>2. t = p - w[p - 2].size
    BY <1>1, <1>3, <2>1, BlockBefore
  <2>3. w[p - 2] = w[p - w[p - 2].size - 1]
    BY <2>1, BlockBefore
  <2>4. w[p - 2] = w[t - 1]
    BY <2>2, <2>3
  <2> QED BY <1>1, <1>3, <2>4 DEF FreeAround
<1>4. CASE t # p /\ u # p
  BY <1>4 DEF Apart
<1> QED BY <1>2, <1>3, <1>4

\* The free and the taken blocks are blocks.
LEMMA BlockFacts ==
  ASSUME NEW w, NEW e, NEW T, Tiled(w, e, T)
  PROVE  /\ \A p \in FreeOf(w, T) : p \in T /\ p # e /\ p # 2 /\ ~w[p - 1].alloc
         /\ \A p \in TakenOf(w, e, T) : p \in T /\ p # e /\ p # 2 /\ w[p - 1].alloc
<1>1. w[e - 1].alloc /\ w[2 - 1].alloc
  BY TileFacts
<1> QED BY <1>1 DEF FreeOf, TakenOf

-----------------------------------------------------------------------------
(* Blocks that give way to others.                                         *)

\* A block that does not meet the words from a to z stays where it is.
LEMMA Outside ==
  ASSUME NEW w, NEW e, NEW T, Tiled(w, e, T), NEW w2, NEW a \in T, NEW z \in T, a # 2, a < z,
         Same(w, w2, a, z), NEW t \in T, t \notin a .. z - 1
  PROVE  /\ w2[t - 1] = w[t - 1] /\ Size(w2, t) = Size(w, t) /\ After(w2, t) = After(w, t)
         /\ t # e => w2[t + Size(w, t) - 2] = w[t + Size(w, t) - 2] /\ (After(w, t) = a \/ After(w, t) \notin a .. z - 1)
         /\ t # e => \A k \in t - 1 .. t + Size(w, t) - 2 : w2[k] = w[k]
<1>1. /\ a \in Nat /\ z \in Nat /\ t \in Nat /\ t - 1 \in Addresses /\ e \in Nat /\ Size(w, t) \in Nat /\ t >= 2
      /\ e <= MAX_HEAP /\ MAX_HEAP \in Nat
      /\ t # e => t + Size(w, t) <= e /\ Size(w, t) >= 2
  BY TileFacts, BookAssumption
<1>2. PICK n \in Nat : n = Size(w, t) /\ (t # e => t + n <= e /\ n >= 2)
  BY <1>1
<1>a. a \in Nat /\ z \in Nat /\ t \in Nat /\ e \in Nat /\ t >= 2 /\ e <= MAX_HEAP /\ MAX_HEAP \in Nat
  BY <1>1
<1>3. t < a \/ t >= z
  BY <1>1
<1>b. t < a => t + n <= a
  BY <1>2 DEF Tiled, After
<1>5. \A k \in Addresses : k \notin a - 1 .. z - 2 => w2[k] = w[k]
  BY DEF Same
<1>6. w2[t - 1] = w[t - 1]
  <2>1. t - 1 \notin a - 1 .. z - 2
    BY <1>1, <1>3
  <2> QED BY <1>1, <1>5, <2>1
<1>7. Size(w2, t) = Size(w, t) /\ After(w2, t) = After(w, t)
  BY <1>6 DEF Size, After
<1>8. ASSUME t # e, NEW k \in t - 1 .. t + n - 2 PROVE w2[k] = w[k]
  <2>1. k \in 0 .. MAX_HEAP - 1 /\ k \notin a - 1 .. z - 2
    <3>1. t + n <= e /\ k \in Int /\ t - 1 <= k /\ k <= t + n - 2
      BY <1>a, <1>2, <1>8
    <3> QED BY <1>a, <1>3, <1>b, <3>1
  <2> QED BY <1>5, <2>1 DEF Addresses
<1>9. ASSUME t # e PROVE t + n - 2 \in t - 1 .. t + n - 2 /\ (t + n = a \/ t + n \notin a .. z - 1)
  <2>1. n >= 2
    BY <1>2, <1>9
  <2>2. t + n - 2 \in t - 1 .. t + n - 2
    BY <1>a, <2>1
  <2>3. t < a => t + n = a \/ t + n \notin a .. z - 1
    BY <1>a, <1>b, <2>1
  <2>4. t >= z => t + n \notin a .. z - 1
    BY <1>a, <2>1
  <2> QED BY <1>3, <2>2, <2>3, <2>4
<1>10. After(w, t) = t + n
  BY <1>2 DEF After
<1> QED BY <1>2, <1>6, <1>7, <1>8, <1>9, <1>10

\* The blocks from a to z give way to those of N.
LEMMA Replace ==
  ASSUME NEW w, NEW e, NEW T, Tiled(w, e, T), NEW w2, NEW a \in T, NEW z \in T, a # 2, a < z,
         NEW N, Same(w, w2, a, z), Cut(w2, N, a, z)
  PROVE  Tiled(w2, e, (T \ (a .. z - 1)) \cup N)
<1> DEFINE T2 == (T \ (a .. z - 1)) \cup N
<1>1. /\ e \in Nat /\ e \in T /\ 2 \in T /\ e # 2 /\ e <= MAX_HEAP /\ MAX_HEAP \in Nat
      /\ \A t \in T : t \in Nat /\ t >= 2 /\ t <= e /\ t - 1 \in Addresses
  <2>1. e \in T /\ 2 \in T /\ e # 2
    BY DEF Tiled
  <2> QED BY <2>1, TileFacts, BookAssumption
<1>2. w2 \in [Addresses -> WordKinds]
  BY DEF Same
<1>3. a \in Nat /\ z \in Nat /\ a > 2 /\ z <= e
  BY <1>1
<1>4. \A t \in N : t \in Nat /\ a <= t /\ t < z
  BY <1>3 DEF Cut
<1>5. 2 \in T2 /\ e \in T2
  <2>1. 2 \notin a .. z - 1 /\ e \notin a .. z - 1
    BY <1>1, <1>3
  <2> QED BY <1>1, <2>1
<1>6. T2 \subseteq 2 .. e
  <2>1. \A t \in T : t \in 2 .. e
    BY <1>1
  <2>2. \A t \in N : t \in 2 .. e
    BY <1>1, <1>3, <1>4
  <2> QED BY <2>1, <2>2
<1>7. w2[1] = PACK(2, TRUE) /\ w2[e - 1] = PACK(0, TRUE)
  <2>1. 2 \notin a .. z - 1 /\ e \notin a .. z - 1 /\ 2 - 1 = 1
    BY <1>1, <1>3
  <2>2. w2[2 - 1] = w[2 - 1] /\ w2[e - 1] = w[e - 1]
    BY <1>1, <2>1, Outside
  <2>3. w2[1] = w[1]
    BY <2>1, <2>2
  <2> QED BY <2>2, <2>3 DEF Tiled
<1>8. \A t \in T2 : t % 2 = 0
  BY DEF Cut, Tiled
<1>9. ASSUME NEW t \in T2, t # e PROVE IsBlock(w2, t) /\ After(w2, t) \in T2
  <2>1. CASE t \in N
    <3>1. z \in T2
      BY <1>3
    <3> QED BY <2>1, <3>1 DEF Cut
  <2>2. CASE t \in T /\ t \notin a .. z - 1
    <3>1. IsBlock(w, t) /\ After(w, t) \in T
      BY <1>9, <2>2 DEF Tiled
    <3>2. /\ w2[t - 1] = w[t - 1] /\ Size(w2, t) = Size(w, t) /\ After(w2, t) = After(w, t)
          /\ w2[t + Size(w, t) - 2] = w[t + Size(w, t) - 2] /\ (After(w, t) = a \/ After(w, t) \notin a .. z - 1)
      BY <1>9, <2>2, Outside
    <3>3. a \in N
      BY DEF Cut
    <3> QED BY <3>1, <3>2, <3>3 DEF IsBlock
  <2> QED BY <2>1, <2>2
<1>10. ASSUME NEW t \in T2, NEW u \in T2, t < u PROVE After(w2, t) <= u
  <2>1. CASE t \in N /\ u \in N
    BY <1>10, <2>1 DEF Cut
  <2>2. CASE t \in N /\ u \in T /\ u \notin a .. z - 1
    <3>1. u \in Int /\ z <= u
      BY <1>1, <1>3, <1>4, <1>10, <2>2
    <3>2. After(w2, t) \in N \/ After(w2, t) = z
      BY <2>2 DEF Cut
    <3>3. After(w2, t) \in Int /\ After(w2, t) <= z
      BY <1>3, <1>4, <3>2
    <3> QED BY <1>3, <3>1, <3>3
  <2>3. CASE t \in T /\ t \notin a .. z - 1 /\ u \in N
    <3>1. t \in Int /\ u \in Int /\ a <= u /\ t < a
      BY <1>1, <1>3, <1>4, <1>10, <2>3
    <3>2. After(w, t) <= a
      BY <2>3, <3>1 DEF Tiled
    <3>3. After(w2, t) = After(w, t)
      BY <2>3, Outside
    <3>4. After(w, t) \in Int
      BY <2>3, <3>1, TileFacts DEF After
    <3> QED BY <1>3, <3>1, <3>2, <3>3, <3>4
  <2>4. CASE t \in T /\ t \notin a .. z - 1 /\ u \in T
    <3>1. After(w2, t) = After(w, t)
      BY <2>4, Outside
    <3> QED BY <1>10, <2>4, <3>1 DEF Tiled
  <2> QED BY <2>1, <2>2, <2>3, <2>4
<1> QED BY <1>1, <1>2, <1>5, <1>6, <1>7, <1>8, <1>9, <1>10 DEF Tiled

\* What a cut leaves as it was, and what it changes.
Changed(w, e, T, w2, T2, R, N) ==
  /\ FreeOf(w2, T2) = (FreeOf(w, T) \ R) \cup {t \in N : ~w2[t - 1].alloc}
  /\ TakenOf(w2, e, T2) = (TakenOf(w, e, T) \ R) \cup {t \in N : w2[t - 1].alloc}
  /\ Kept(w, e, T, w2, e, T2, R)
  /\ \A X : X \subseteq R /\ Apart(w, T, X) => Apart(w2, T2, N)
  /\ \A t \in T \ R : w2[t - 1] = w[t - 1]

\* What a cut does to the blocks around it.
LEMMA Around ==
  ASSUME NEW w, NEW e, NEW T, Tiled(w, e, T), NEW w2, NEW a \in T, NEW z \in T, a # 2, a < z,
         NEW N, Same(w, w2, a, z), Cut(w2, N, a, z),
         NEW T2, T2 = (T \ (a .. z - 1)) \cup N
  PROVE  Changed(w, e, T, w2, T2, a .. z - 1, N)
<1>1. /\ e \in Nat /\ e \in T /\ \A t \in T : t \in Nat /\ t >= 2 /\ t <= e
  BY TileFacts DEF Tiled
<1>2. a \in Nat /\ z \in Nat /\ a > 2 /\ z <= e
  BY <1>1
<1>3. \A t \in T \ (a .. z - 1) : w2[t - 1] = w[t - 1] /\ After(w2, t) = After(w, t)
  BY Outside
<1>4. \A t \in N : t # e /\ t # 2
  BY <1>1, <1>2 DEF Cut
<1>5. FreeOf(w2, T2) = (FreeOf(w, T) \ (a .. z - 1)) \cup {t \in N : ~w2[t - 1].alloc}
  BY <1>3 DEF FreeOf
<1>6. TakenOf(w2, e, T2) = (TakenOf(w, e, T) \ (a .. z - 1)) \cup {t \in N : w2[t - 1].alloc}
  BY <1>3, <1>4 DEF TakenOf
<1>7. ASSUME NEW t \in TakenOf(w, e, T) \ (a .. z - 1)
      PROVE  \A k \in t - 1 .. t + Size(w, t) - 2 : w2[k] = w[k]
  <2>1. t \in T /\ t # e /\ t \notin a .. z - 1
    BY DEF TakenOf
  <2> QED BY <2>1, Outside
<1>8. Kept(w, e, T, w2, e, T2, a .. z - 1)
  BY <1>6, <1>7 DEF Kept
<1>9. ASSUME NEW X, X \subseteq a .. z - 1, Apart(w, T, X) PROVE Apart(w2, T2, N)
  <2> SUFFICES ASSUME NEW t \in FreeOf(w2, T2) \ N, NEW u \in FreeOf(w2, T2) \ N
               PROVE  After(w2, t) # u
    BY DEF Apart
  <2>1. t \in FreeOf(w, T) \ X /\ u \in FreeOf(w, T) \ X /\ t \in T \ (a .. z - 1)
    BY <1>5, <1>9 DEF FreeOf
  <2>2. After(w2, t) = After(w, t)
    BY <1>3, <2>1
  <2> QED BY <1>9, <2>1, <2>2 DEF Apart
<1> QED BY <1>3, <1>5, <1>6, <1>8, <1>9 DEF Changed

-----------------------------------------------------------------------------
(* Tags that are written.                                                  *)

\* The memory has room for the tags of a block of n words at p.
HasRoom(m, p, n) == m \in Memories /\ p \in Nat /\ n \in Nat /\ p >= 1 /\ n >= 2 /\ p + n <= MAX_HEAP + 1

\* The memory m2 is m with the two tags.
Puts(m, p, n, f, m2) ==
  /\ m2 \in Memories /\ m2.brk = m.brk /\ m2.rover = m.rover
  /\ \A k \in Addresses : m2.words[k] = IF k = p - 1 \/ k = p + n - 2 THEN PACK(n, f) ELSE m.words[k]

\* What PutTags writes.
LEMMA PutFacts ==
  ASSUME NEW m, NEW p, NEW n, NEW f \in BOOLEAN, HasRoom(m, p, n)
  PROVE  Puts(m, p, n, f, PutTags(m, p, n, f))
<1>1. m \in Memories /\ p \in Nat /\ n \in Nat /\ p >= 1 /\ n >= 2 /\ p + n <= MAX_HEAP + 1 /\ MAX_HEAP \in Nat
  BY BookAssumption DEF HasRoom
<1>2. PICK tag \in WordKinds : tag = PACK(n, f)
  BY <1>1, TagFacts
<1>3. PICK i \in Addresses : i = p - 1
  BY <1>1 DEF Addresses
<1>4. PICK j \in Addresses : j = p + n - 2
  BY <1>1 DEF Addresses
<1>5. PICK w \in [Addresses -> WordKinds] : w = m.words
  BY <1>1 DEF Memories
<1>6. PICK m2 : m2 = [m EXCEPT !.words[i] = tag, !.words[j] = tag]
  OBVIOUS
<1>7. PICK w2 : w2 = [w EXCEPT ![i] = tag, ![j] = tag]
  OBVIOUS
<1>8. /\ w2 \in [Addresses -> WordKinds]
      /\ \A k \in Addresses : w2[k] = IF k = i \/ k = j THEN tag ELSE w[k]
  BY <1>7
<1>9. m2 = [m EXCEPT !.words = w2]
  <2>1. m \in [words : [Addresses -> WordKinds], brk : Nat, rover : Nat]
    BY <1>1 DEF Memories
  <2> QED BY <1>5, <1>6, <1>7, <2>1
<1>10. m2.words = w2 /\ m2.brk = m.brk /\ m2.rover = m.rover /\ m2 \in Memories
  BY <1>1, <1>8, <1>9 DEF Memories
<1>11. PutTags(m, p, n, f) = m2
  BY <1>2, <1>3, <1>4, <1>6 DEF PutTags, HDRP
<1>12. Puts(m, p, n, f, m2)
  <2>1. \A k \in Addresses : w2[k] = IF k = p - 1 \/ k = p + n - 2 THEN PACK(n, f) ELSE w[k]
    BY <1>2, <1>3, <1>4, <1>8
  <2> QED BY <1>5, <1>10, <2>1 DEF Puts
<1> QED BY <1>11, <1>12

\* The words from a to z are one block, free or not, and nothing else changed.
OneBlock(m, T, a, z, f, m2, T2) ==
  /\ m2 \in Memories /\ m2.brk = m.brk /\ m2.rover = m.rover /\ Tiled(m2.words, m.brk, T2)
  /\ Changed(m.words, m.brk, T, m2.words, T2, a .. z - 1, {a})
  /\ Size(m2.words, a) = z - a /\ m2.words[a - 1].alloc = f /\ After(m2.words, a) = z

\* Its tags make one block of the blocks from a to z.
LEMMA Joined ==
  ASSUME NEW m, NEW T, m \in Memories, Tiled(m.words, m.brk, T), NEW a \in T, a # 2, NEW z \in T, a < z,
         NEW f \in BOOLEAN, NEW T2, T2 = (T \ (a .. z - 1)) \cup {a}
  PROVE  OneBlock(m, T, a, z, f, PutTags(m, a, z - a, f), T2)
<1>a. PICK m2 : m2 = PutTags(m, a, z - a, f)
  OBVIOUS
<1>b. PICK w, e : w = m.words /\ e = m.brk
  OBVIOUS
<1>c. PICK w2 : w2 = m2.words
  OBVIOUS
<1>1. a \in Nat /\ z \in Nat /\ a >= 2 /\ z <= e /\ e \in Nat /\ e <= MAX_HEAP /\ MAX_HEAP \in Nat /\ a # e
  <2>1. a \in Nat /\ z \in Nat /\ a >= 2 /\ z <= e /\ e \in Nat /\ e <= MAX_HEAP
    BY <1>b, TileFacts
  <2> QED BY <2>1, BookAssumption
<1>2. a % 2 = 0 /\ z % 2 = 0
  BY DEF Tiled
<1>3. PICK n \in Nat : n = z - a /\ n % 2 = 0 /\ n >= 4
  <2>1. Size(w, a) >= 4 /\ Size(w, a) \in Nat
    BY <1>1, <1>b, TileFacts
  <2>2. After(w, a) <= z
    BY <1>b DEF Tiled
  <2>3. PICK k \in Nat : k = Size(w, a) /\ k >= 4 /\ a + k <= z
    BY <2>1, <2>2 DEF After
  <2>4. z - a \in Nat /\ z - a >= 4
    BY <1>1, <2>3
  <2>5. (z - a) % 2 = 0
    BY <1>1, <1>2
  <2> QED BY <2>4, <2>5
<1>4. Puts(m, a, n, f, m2)
  <2>1. HasRoom(m, a, n)
    BY <1>1, <1>3 DEF HasRoom
  <2> QED BY <1>a, <1>3, <2>1, PutFacts
<1>5. /\ m2 \in Memories /\ m2.brk = m.brk /\ m2.rover = m.rover /\ w2 \in [Addresses -> WordKinds]
      /\ \A k \in Addresses : w2[k] = IF k = a - 1 \/ k = z - 2 THEN PACK(n, f) ELSE w[k]
  <2>1. a + n - 2 = z - 2
    BY <1>1, <1>3
  <2> QED BY <1>b, <1>c, <1>4, <2>1 DEF Puts, Memories
<1>6. a - 1 \in Addresses /\ z - 2 \in Addresses /\ a - 1 \in a - 1 .. z - 2 /\ z - 2 \in a - 1 .. z - 2
  BY <1>1 DEF Addresses
<1>7. w2[a - 1] = PACK(n, f) /\ w2[z - 2] = PACK(n, f)
  BY <1>5, <1>6
<1>8. Size(w2, a) = n /\ w2[a - 1].alloc = f /\ w2[a - 1].is = "tag" /\ After(w2, a) = z
  <2>1. Size(w2, a) = n /\ w2[a - 1].alloc = f /\ w2[a - 1].is = "tag"
    BY <1>7, TagFacts DEF Size
  <2> QED BY <1>1, <1>3, <2>1 DEF After
<1>9. Same(w, w2, a, z)
  BY <1>5, <1>6 DEF Same
<1>10. Cut(w2, {a}, a, z)
  <2>1. a + n - 2 = z - 2
    BY <1>1, <1>3
  <2>2. IsBlock(w2, a)
    BY <1>3, <1>7, <1>8, <2>1 DEF IsBlock
  <2>3. a \in a .. z - 1 /\ ~(a < a)
    BY <1>1
  <2> QED BY <1>2, <1>8, <2>2, <2>3 DEF Cut
<1>11. Tiled(w, e, T)
  BY <1>b
<1>12. Tiled(w2, e, T2)
  BY <1>9, <1>10, <1>11, Replace
<1>13. Changed(w, e, T, w2, T2, a .. z - 1, {a})
  BY <1>9, <1>10, <1>11, Around
<1>14. OneBlock(m, T, a, z, f, m2, T2)
  BY <1>b, <1>c, <1>3, <1>5, <1>8, <1>12, <1>13 DEF OneBlock
<1> QED BY <1>a, <1>14

\* The block p written again, with another status.
Retagged(m, T, p, f, m2) ==
  /\ m2 \in Memories /\ m2.brk = m.brk /\ m2.rover = m.rover /\ Tiled(m2.words, m.brk, T)
  /\ Size(m2.words, p) = Size(m.words, p) /\ m2.words[p - 1].alloc = f
  /\ FreeOf(m2.words, T) \ {p} = FreeOf(m.words, T) \ {p}
  /\ TakenOf(m2.words, m.brk, T) \ {p} = TakenOf(m.words, m.brk, T) \ {p}
  /\ Kept(m.words, m.brk, T, m2.words, m.brk, T, {p})
  /\ \A t \in T : t # p => m2.words[t - 1] = m.words[t - 1]
  /\ \A X : X \subseteq {p} /\ Apart(m.words, T, X) => Apart(m2.words, T, {p})

\* A block that changes from free to taken or back.
LEMMA Retag ==
  ASSUME NEW m, NEW T, m \in Memories, Tiled(m.words, m.brk, T), NEW p \in T, p # 2, p # m.brk,
         NEW f \in BOOLEAN
  PROVE  Retagged(m, T, p, f, PutTags(m, p, Size(m.words, p), f))
<1>a. PICK w, e : w = m.words /\ e = m.brk
  OBVIOUS
<1>0. Tiled(w, e, T) /\ p # e
  BY <1>a
<1>1. PICK n \in Nat : n = Size(w, p) /\ n >= 2 /\ p + n \in T /\ p \in Nat
  BY <1>0, TileFacts
<1>2. PICK z \in T : z = p + n /\ z = After(w, p) /\ p < z /\ z - p = n
  BY <1>1 DEF After
<1>3. \A t \in T : t \in p .. z - 1 <=> t = p
  BY <1>0, <1>2, Alone
<1>4. T = (T \ (p .. z - 1)) \cup {p}
  BY <1>3
<1>5. PICK m2 : m2 = PutTags(m, p, z - p, f)
  OBVIOUS
<1>6. OneBlock(m, T, p, z, f, m2, T)
  BY <1>2, <1>4, <1>5, Joined
<1>7. PICK w2 : w2 = m2.words
  OBVIOUS
<1>8. Changed(w, e, T, w2, T, p .. z - 1, {p})
  BY <1>a, <1>6, <1>7 DEF OneBlock
<1>9. \A t \in T : t # p => w2[t - 1] = w[t - 1]
  BY <1>3, <1>8 DEF Changed
<1>10. FreeOf(w2, T) \ {p} = FreeOf(w, T) \ {p} /\ TakenOf(w2, e, T) \ {p} = TakenOf(w, e, T) \ {p}
  BY <1>9 DEF FreeOf, TakenOf
<1>11. Kept(w, e, T, w2, e, T, {p})
  <2>1. \A t \in TakenOf(w, e, T) \ {p} : t \in TakenOf(w, e, T) \ (p .. z - 1)
    BY <1>3 DEF TakenOf
  <2>2. Kept(w, e, T, w2, e, T, p .. z - 1)
    BY <1>8 DEF Changed
  <2> QED BY <2>1, <2>2 DEF Kept
<1>12. ASSUME NEW X, X \subseteq {p}, Apart(w, T, X) PROVE Apart(w2, T, {p})
  <2>1. X \subseteq p .. z - 1
    BY <1>3, <1>12
  <2> QED BY <1>8, <1>12, <2>1 DEF Changed
<1>13. Size(w2, p) = n /\ w2[p - 1].alloc = f
  BY <1>2, <1>6, <1>7 DEF OneBlock
<1>14. m2 \in Memories /\ m2.brk = m.brk /\ m2.rover = m.rover /\ Tiled(w2, e, T)
  BY <1>a, <1>6, <1>7 DEF OneBlock
<1>15. Retagged(m, T, p, f, m2)
  BY <1>a, <1>1, <1>7, <1>9, <1>10, <1>11, <1>12, <1>13, <1>14 DEF Retagged
<1> QED BY <1>a, <1>1, <1>2, <1>5, <1>15

-----------------------------------------------------------------------------
(* Blocks that are taken.                                                  *)

\* The blocks are T2 after asize words were taken at p.
Takes(m, T, p, asize, m2, T2) ==
  /\ Ordered(m2, T2, {}) /\ BlocksMove(m, T, m2, T2, {}, {p}) /\ m2.brk = m.brk
  /\ p \in TakenOf(m2.words, m2.brk, T2) /\ Size(m2.words, p) >= asize

\* A free block p with room for asize words.
Placeable(m, T, p, asize) ==
  /\ Ordered(m, T, {}) /\ p \in FreeOf(m.words, T)
  /\ asize \in Nat /\ asize % 2 = 0 /\ asize >= 4 /\ Size(m.words, p) >= asize

\* place of a block that is not cut.
LEMMA PlacedWhole ==
  ASSUME NEW m, NEW T, NEW p, NEW asize, Placeable(m, T, p, asize)
  PROVE  Takes(m, T, p, asize, PutTags(m, p, Size(m.words, p), TRUE), T)
<1>a. PICK w, e : w = m.words /\ e = m.brk
  OBVIOUS
<1>b. PICK m2 : m2 = PutTags(m, p, Size(m.words, p), TRUE)
  OBVIOUS
<1>c. PICK w2 : w2 = m2.words
  OBVIOUS
<1>1. m \in Memories /\ Tiled(w, e, T) /\ Apart(w, T, {}) /\ RoverAt(m, T) /\ p \in FreeOf(w, T) /\ Size(w, p) >= asize
  BY <1>a DEF Placeable, Ordered
<1>2. p \in T /\ p # e /\ p # 2 /\ ~w[p - 1].alloc
  BY <1>1, BlockFacts
<1>3. Retagged(m, T, p, TRUE, m2)
  <2>1. Tiled(m.words, m.brk, T) /\ p \in T /\ p # 2 /\ p # m.brk /\ m \in Memories
    BY <1>a, <1>1, <1>2
  <2> QED BY <1>b, <2>1, Retag
<1>4. /\ m2 \in Memories /\ m2.brk = e /\ m2.rover = m.rover /\ Tiled(w2, e, T)
      /\ Size(w2, p) = Size(w, p) /\ w2[p - 1].alloc
      /\ FreeOf(w2, T) \ {p} = FreeOf(w, T) \ {p} /\ TakenOf(w2, e, T) \ {p} = TakenOf(w, e, T) \ {p}
      /\ Kept(w, e, T, w2, e, T, {p}) /\ (Apart(w, T, {}) => Apart(w2, T, {p}))
  BY <1>a, <1>c, <1>3 DEF Retagged
<1>5. p \in TakenOf(w2, e, T) /\ p \notin TakenOf(w, e, T)
  BY <1>2, <1>4 DEF TakenOf
<1>6. TakenOf(w2, e, T) = (TakenOf(w, e, T) \ {}) \cup {p} /\ Kept(w, e, T, w2, e, T, {})
  <2>1. Kept(w, e, T, w2, e, T, {})
    BY <1>4, <1>5 DEF Kept
  <2> QED BY <1>4, <1>5, <2>1
<1>7. Apart(w2, T, {})
  <2>1. Apart(w2, T, {p})
    BY <1>1, <1>4
  <2> QED BY <1>2, <1>4, <2>1, ApartDone
<1>8. RoverAt(m2, T)
  BY <1>a, <1>1, <1>4 DEF RoverAt
<1>9. Ordered(m2, T, {})
  BY <1>c, <1>4, <1>7, <1>8 DEF Ordered
<1>10. BlocksMove(m, T, m2, T, {}, {p})
  BY <1>a, <1>c, <1>4, <1>6 DEF BlocksMove
<1>11. Takes(m, T, p, asize, m2, T)
  BY <1>a, <1>c, <1>1, <1>4, <1>5, <1>9, <1>10 DEF Takes
<1> QED BY <1>b, <1>11

\* place cuts p in two, asize words and a free block of rest words at new.
Splitting(m, p, asize, rest, new) ==
  rest \in Nat /\ rest >= 4 /\ Size(m.words, p) = asize + rest /\ new = p + asize

\* place of a block that is cut.
LEMMA PlacedCut ==
  ASSUME NEW m, NEW T, NEW p, NEW asize, Placeable(m, T, p, asize),
         NEW rest, NEW new, Splitting(m, p, asize, rest, new)
  PROVE  Takes(m, T, p, asize, PutTags(PutTags(m, p, asize, TRUE), new, rest, FALSE), T \cup {new})
<1>a. PICK w, e : w = m.words /\ e = m.brk
  OBVIOUS
<1>b. PICK m1 : m1 = PutTags(m, p, asize, TRUE)
  OBVIOUS
<1>c. PICK m2 : m2 = PutTags(m1, new, rest, FALSE)
  OBVIOUS
<1>d. PICK w1, w2 : w1 = m1.words /\ w2 = m2.words
  OBVIOUS
<1>1. /\ m \in Memories /\ Tiled(w, e, T) /\ Apart(w, T, {}) /\ RoverAt(m, T) /\ p \in FreeOf(w, T)
      /\ asize \in Nat /\ asize % 2 = 0 /\ asize >= 4
  BY <1>a DEF Placeable, Ordered
<1>2. p \in T /\ p # e /\ p # 2 /\ ~w[p - 1].alloc
  BY <1>1, BlockFacts
<1>3. PICK z \in T : z = After(w, p) /\ z \in Nat /\ z <= e
  <2>1. After(w, p) \in T
    BY <1>1, <1>2 DEF Tiled
  <2> QED BY <1>1, <2>1, TileFacts
<1>4. /\ p \in Nat /\ p >= 2 /\ e \in Nat /\ e <= MAX_HEAP /\ MAX_HEAP \in Nat
      /\ z = p + asize + rest /\ rest \in Nat /\ rest >= 4 /\ new = p + asize
      /\ p % 2 = 0 /\ z % 2 = 0
  <2>1. p \in Nat /\ p >= 2 /\ e \in Nat /\ e <= MAX_HEAP
    BY <1>1, <1>2, TileFacts
  <2>2. z = p + Size(w, p) /\ Size(w, p) = asize + rest /\ rest \in Nat /\ rest >= 4 /\ new = p + asize
    BY <1>a, <1>3 DEF Splitting, After
  <2>3. p % 2 = 0 /\ z % 2 = 0
    BY <1>1, <1>2, <1>3 DEF Tiled
  <2>4. z = p + asize + rest
    BY <1>1, <2>1, <2>2
  <2> QED BY <2>1, <2>2, <2>3, <2>4, BookAssumption
<1>5. /\ new \in Nat /\ p < new /\ new < z /\ new # e /\ new # 2
      /\ p + asize - 2 = new - 2 /\ new + rest - 2 = z - 2 /\ rest % 2 = 0 /\ new % 2 = 0
      /\ z - 2 # p - 1 /\ z - 2 # new - 2 /\ new - 1 # p - 1 /\ new - 1 # new - 2 /\ p + asize = new /\ new + rest = z
      /\ p < z
  BY <1>1, <1>3, <1>4
<1>6. /\ p - 1 \in Addresses /\ new - 2 \in Addresses /\ new - 1 \in Addresses /\ z - 2 \in Addresses
      /\ {p - 1, new - 2, new - 1, z - 2} \subseteq p - 1 .. z - 2
  BY <1>3, <1>4, <1>5 DEF Addresses
<1>7. Puts(m, p, asize, TRUE, m1)
  <2>1. HasRoom(m, p, asize)
    BY <1>1, <1>3, <1>4 DEF HasRoom
  <2> QED BY <1>b, <2>1, PutFacts
<1>8. Puts(m1, new, rest, FALSE, m2)
  <2>1. HasRoom(m1, new, rest)
    <3>1. m1 \in Memories
      BY <1>7 DEF Puts
    <3> QED BY <1>3, <1>4, <1>5, <3>1 DEF HasRoom
  <2> QED BY <1>c, <2>1, PutFacts
<1>9. /\ m2 \in Memories /\ m2.brk = e /\ m2.rover = m.rover /\ w2 \in [Addresses -> WordKinds]
      /\ \A k \in Addresses : w2[k] = IF k = new - 1 \/ k = z - 2 THEN PACK(rest, FALSE)
                                      ELSE IF k = p - 1 \/ k = new - 2 THEN PACK(asize, TRUE) ELSE w[k]
  <2>1. \A k \in Addresses : w1[k] = IF k = p - 1 \/ k = new - 2 THEN PACK(asize, TRUE) ELSE w[k]
    BY <1>a, <1>d, <1>5, <1>7 DEF Puts
  <2>2. \A k \in Addresses : w2[k] = IF k = new - 1 \/ k = z - 2 THEN PACK(rest, FALSE) ELSE w1[k]
    BY <1>d, <1>5, <1>8 DEF Puts
  <2>3. m2 \in Memories /\ m2.brk = e /\ m2.rover = m.rover
    BY <1>a, <1>7, <1>8 DEF Puts
  <2>4. w2 \in [Addresses -> WordKinds]
    BY <1>d, <2>3 DEF Memories
  <2> QED BY <2>1, <2>2, <2>3, <2>4
<1>10. /\ w2[p - 1] = PACK(asize, TRUE) /\ w2[new - 2] = PACK(asize, TRUE)
       /\ w2[new - 1] = PACK(rest, FALSE) /\ w2[z - 2] = PACK(rest, FALSE)
  <2>1. p - 1 # z - 2 /\ p - 1 # new - 1 /\ new - 2 # new - 1 /\ new - 2 # z - 2
    BY <1>5
  <2> QED BY <1>6, <1>9, <2>1
<1>11. /\ Size(w2, p) = asize /\ w2[p - 1].alloc = TRUE /\ w2[p - 1].is = "tag"
       /\ Size(w2, new) = rest /\ w2[new - 1].alloc = FALSE /\ w2[new - 1].is = "tag" /\ w2[new - 2].alloc = TRUE
  BY <1>1, <1>4, <1>10, TagFacts DEF Size
<1>12. After(w2, p) = new /\ After(w2, new) = z
  BY <1>5, <1>11 DEF After
<1>13. Same(w, w2, p, z)
  BY <1>6, <1>9 DEF Same
<1>14. Cut(w2, {p, new}, p, z)
  <2>1. IsBlock(w2, p)
    <3>1. p + asize - 2 = new - 2
      BY <1>5
    <3> QED BY <1>1, <1>2, <1>10, <1>11, <3>1 DEF IsBlock
  <2>2. IsBlock(w2, new)
    <3>1. new + rest - 2 = z - 2
      BY <1>5
    <3> QED BY <1>4, <1>5, <1>10, <1>11, <3>1 DEF IsBlock
  <2>3. {p, new} \subseteq p .. z - 1
    BY <1>3, <1>4, <1>5
  <2>4. \A t, u \in {p, new} : t < u => After(w2, t) <= u
    <3>1. ~(p < p) /\ ~(new < new) /\ ~(new < p) /\ new <= new
      BY <1>4, <1>5
    <3> QED BY <1>12, <3>1
  <2> QED BY <1>4, <1>5, <1>12, <2>1, <2>2, <2>3, <2>4 DEF Cut
<1>15. \A t \in T : t \in p .. z - 1 <=> t = p
  BY <1>1, <1>2, <1>3, Alone
<1>16. PICK T2 : T2 = (T \ (p .. z - 1)) \cup {p, new}
  OBVIOUS
<1>17. T2 = T \cup {new} /\ new \notin T
  <2>1. new \in p .. z - 1 /\ new # p
    BY <1>3, <1>4, <1>5
  <2> QED BY <1>2, <1>15, <1>16, <2>1
<1>18. Tiled(w2, e, T2)
  BY <1>1, <1>2, <1>5, <1>13, <1>14, <1>16, Replace
<1>19. Changed(w, e, T, w2, T2, p .. z - 1, {p, new})
  BY <1>1, <1>2, <1>5, <1>13, <1>14, <1>16, Around
<1>20. p \in TakenOf(w2, e, T2) /\ new \in T2 /\ p \in T2
  BY <1>2, <1>11, <1>16 DEF TakenOf
<1>21. TakenOf(w2, e, T2) = (TakenOf(w, e, T) \ {}) \cup {p} /\ Kept(w, e, T, w2, e, T2, {})
  <2>1. TakenOf(w2, e, T2) = (TakenOf(w, e, T) \ (p .. z - 1)) \cup {t \in {p, new} : w2[t - 1].alloc}
    BY <1>19 DEF Changed
  <2>2. {t \in {p, new} : w2[t - 1].alloc} = {p}
    BY <1>11
  <2>3. TakenOf(w, e, T) \ (p .. z - 1) = TakenOf(w, e, T)
    BY <1>2, <1>15 DEF TakenOf
  <2>4. Kept(w, e, T, w2, e, T2, p .. z - 1)
    BY <1>19 DEF Changed
  <2>5. Kept(w, e, T, w2, e, T2, {})
    BY <2>3, <2>4 DEF Kept
  <2> QED BY <2>1, <2>2, <2>3, <2>5
<1>22. Apart(w2, T2, {})
  <2>1. {} \subseteq p .. z - 1
    OBVIOUS
  <2>2. Apart(w2, T2, {p, new})
    BY <1>1, <1>19, <2>1 DEF Changed
  <2>3. p \notin FreeOf(w2, T2)
    BY <1>11 DEF FreeOf
  <2>4. Apart(w2, T2, {new})
    BY <2>2, <2>3 DEF Apart
  <2>5. ~FreeAround(w2, new)
    <3>1. z \notin FreeOf(w, T)
      BY <1>1, <1>3 DEF Apart
    <3>2. w2[z - 1] = w[z - 1]
      <4>1. z \notin p .. z - 1
        BY <1>3
      <4> QED BY <1>19, <4>1 DEF Changed
    <3>3. w2[z - 1].alloc
      BY <3>1, <3>2 DEF FreeOf
    <3> QED BY <1>11, <1>12, <3>3 DEF FreeAround
  <2> QED BY <1>18, <1>20, <2>4, <2>5, ApartDone
<1>23. RoverAt(m2, T2)
  BY <1>a, <1>1, <1>9, <1>17 DEF RoverAt
<1>24. Ordered(m2, T2, {})
  BY <1>d, <1>9, <1>18, <1>22, <1>23 DEF Ordered
<1>25. BlocksMove(m, T, m2, T2, {}, {p})
  BY <1>a, <1>d, <1>9, <1>21 DEF BlocksMove
<1>26. Takes(m, T, p, asize, m2, T2)
  <2>1. Size(w2, p) >= asize
    BY <1>1, <1>11
  <2> QED BY <1>a, <1>d, <1>9, <1>20, <1>24, <1>25, <2>1 DEF Takes
<1> QED BY <1>b, <1>c, <1>17, <1>26

\* place.
LEMMA Placed ==
  ASSUME NEW m, NEW T \in SUBSET Nat, NEW p, NEW asize, Placeable(m, T, p, asize)
  PROVE  \E T2 \in SUBSET Nat : Takes(m, T, p, asize, place(m, p, asize), T2)
<1>1. p \in T /\ asize \in Nat /\ p \in Nat /\ Size(m.words, p) \in Nat /\ Size(m.words, p) >= asize
  <2>1. Tiled(m.words, m.brk, T) /\ p \in T
    BY DEF Placeable, Ordered, FreeOf
  <2> QED BY <2>1, TileFacts DEF Placeable
<1>2. GET_SIZE(m, p) = Size(m.words, p)
  BY DEF GET_SIZE, HDRP, Size
<1>3. PICK rest \in Nat : rest = Size(m.words, p) - asize /\ Size(m.words, p) = asize + rest
  <2>1. PICK n \in Nat : n = Size(m.words, p) /\ n >= asize
    BY <1>1
  <2>2. n - asize \in Nat /\ n = asize + (n - asize)
    BY <1>1, <2>1
  <2> QED BY <2>1, <2>2
<1>4. CASE rest >= 4
  <2>1. PICK new \in Nat : new = p + asize
    BY <1>1
  <2>2. Splitting(m, p, asize, rest, new)
    BY <1>3, <1>4, <2>1 DEF Splitting
  <2>3. place(m, p, asize) = PutTags(PutTags(m, p, asize, TRUE), new, rest, FALSE)
    BY <1>2, <1>3, <1>4, <2>1 DEF place, Splits
  <2>4. Takes(m, T, p, asize, place(m, p, asize), T \cup {new})
    <3>1. Takes(m, T, p, asize, PutTags(PutTags(m, p, asize, TRUE), new, rest, FALSE), T \cup {new})
      BY <2>2, PlacedCut
    <3> QED BY <2>3, <3>1
  <2>5. T \cup {new} \in SUBSET Nat
    OBVIOUS
  <2> QED BY <2>4, <2>5
<1>5. CASE ~(rest >= 4)
  <2>1. place(m, p, asize) = PutTags(m, p, Size(m.words, p), TRUE)
    BY <1>2, <1>3, <1>5 DEF place, Splits
  <2>2. Takes(m, T, p, asize, place(m, p, asize), T)
    BY <2>1, PlacedWhole
  <2> QED BY <2>2
<1> QED BY <1>4, <1>5

-----------------------------------------------------------------------------
(* Blocks that join.                                                       *)

\* The blocks are T2 after c joined p with its neighbours to the block c.bp.
Joins(m, T, p, c, T2) ==
  /\ Ordered(c.mem, T2, {}) /\ c.bp \in FreeOf(c.mem.words, T2) /\ BlocksMove(m, T, c.mem, T2, {}, {})
  /\ c.mem.brk = m.brk /\ Size(c.mem.words, c.bp) >= Size(m.words, p)

\* Free blocks from a to z, p among them, and none before or after them.
Run(w, T, a, p, b, z) ==
  /\ T \subseteq Nat /\ a \in FreeOf(w, T) /\ p \in FreeOf(w, T) /\ b \in FreeOf(w, T)
  /\ a <= p /\ p <= b /\ z = After(w, b)
  /\ \A t \in T : t \in a .. z - 1 => t \in {a, p, b}
  /\ \A u \in FreeOf(w, T) : After(w, u) # a
  /\ z \notin FreeOf(w, T)

\* What coalesce makes of the words from a to z.
Merged(m, a, z) ==
  LET joined == PutTags(m, a, z - a, FALSE)
  IN  [mem |-> [joined EXCEPT !.rover = IF fit = "next" THEN RoverAfter(joined, a) ELSE @], bp |-> a]

\* The joined block is in m2; c has the rover in it, if it was inside.
RoverKept(m, a, z, m2, c) ==
  /\ c.mem \in Memories /\ c.mem.words = m2.words /\ c.mem.brk = m2.brk /\ c.bp = a
  /\ c.mem.rover = IF fit = "next" /\ m.rover > a /\ m.rover < z THEN a ELSE m.rover

\* The rover of the memory with the joined block.
LEMMA RoverMoved ==
  ASSUME NEW m, NEW a, NEW z, NEW m2, m2 = PutTags(m, a, z - a, FALSE), m2 \in Memories, m2.rover = m.rover,
         After(m2.words, a) = z, a \in Nat
  PROVE  RoverKept(m, a, z, m2, Merged(m, a, z))
<1>1. NEXT_BLKP(m2, a) = z
  BY DEF NEXT_BLKP, GET_SIZE, HDRP, After, Size
<1>2. PICK r : r = IF fit = "next" /\ m.rover > a /\ m.rover < z THEN a ELSE m.rover
  OBVIOUS
<1>3. (IF fit = "next" THEN RoverAfter(m2, a) ELSE m2.rover) = r
  BY <1>1, <1>2 DEF RoverAfter
<1>4. Merged(m, a, z) = [mem |-> [m2 EXCEPT !.rover = r], bp |-> a]
  BY <1>3 DEF Merged
<1>5. r \in Nat
  BY <1>2 DEF Memories
<1>6. m2 \in [words : [Addresses -> WordKinds], brk : Nat, rover : Nat]
  BY DEF Memories
<1>7. PICK m3 : m3 = [m2 EXCEPT !.rover = r]
  OBVIOUS
<1>8. m3.words = m2.words /\ m3.brk = m2.brk /\ m3.rover = r /\ m3 \in Memories
  BY <1>5, <1>6, <1>7 DEF Memories
<1>9. Merged(m, a, z).mem = m3 /\ Merged(m, a, z).bp = a
  BY <1>4, <1>7
<1> QED BY <1>2, <1>8, <1>9 DEF RoverKept

\* The blocks of a run become one.
LEMMA JoinedRun ==
  ASSUME NEW m, NEW T, NEW a, NEW p, NEW b, NEW z, Ordered(m, T, {p}), Run(m.words, T, a, p, b, z)
  PROVE  \E T2 \in SUBSET Nat : Joins(m, T, p, Merged(m, a, z), T2)
<1>a. PICK w, e : w = m.words /\ e = m.brk
  OBVIOUS
<1>1. m \in Memories /\ Tiled(w, e, T) /\ Apart(w, T, {p}) /\ RoverAt(m, T)
  BY <1>a DEF Ordered
<1>2. /\ T \subseteq Nat /\ a \in FreeOf(w, T) /\ p \in FreeOf(w, T) /\ b \in FreeOf(w, T)
      /\ a <= p /\ p <= b /\ z = After(w, b)
      /\ \A t \in T : t \in a .. z - 1 => t \in {a, p, b}
      /\ \A u \in FreeOf(w, T) : After(w, u) # a
      /\ z \notin FreeOf(w, T)
  BY <1>a DEF Run
<1>3. /\ a \in T /\ p \in T /\ b \in T /\ a # e /\ p # e /\ b # e /\ a # 2 /\ p # 2 /\ b # 2
      /\ ~w[a - 1].alloc /\ ~w[p - 1].alloc /\ ~w[b - 1].alloc
  BY <1>1, <1>2, BlockFacts
<1>4. z \in T
  BY <1>1, <1>2, <1>3 DEF Tiled
<1>5. /\ a \in Nat /\ p \in Nat /\ b \in Nat /\ z \in Nat /\ a > 2 /\ b < z /\ p < z /\ a < z
      /\ z <= e /\ e \in Nat /\ a # e
  <2>1. /\ a \in Nat /\ p \in Nat /\ b \in Nat /\ z \in Nat /\ a >= 2 /\ z <= e /\ e \in Nat
    BY <1>1, <1>3, <1>4, TileFacts
  <2>2. PICK n \in Nat : n = Size(w, b) /\ n >= 2 /\ z = b + n
    BY <1>1, <1>2, <1>3, TileFacts DEF After
  <2>3. b < z
    BY <2>1, <2>2
  <2> QED BY <1>2, <1>3, <2>1, <2>3
<1>6. After(w, p) <= z
  <2>1. CASE p < z /\ p # z
    BY <1>1, <1>3, <1>4, <2>1 DEF Tiled
  <2> QED BY <1>5, <2>1
<1>7. PICK n \in Nat : n = Size(w, p) /\ p + n <= z
  BY <1>1, <1>3, <1>6, TileFacts DEF After
<1>8. PICK m2 : m2 = PutTags(m, a, z - a, FALSE)
  OBVIOUS
<1>9. PICK T2 : T2 = (T \ (a .. z - 1)) \cup {a}
  OBVIOUS
<1>10. OneBlock(m, T, a, z, FALSE, m2, T2)
  <2>1. Tiled(m.words, m.brk, T) /\ a < z /\ a # 2 /\ a \in T /\ z \in T /\ m \in Memories
    BY <1>a, <1>1, <1>3, <1>4, <1>5
  <2> QED BY <1>8, <1>9, <2>1, Joined
<1>11. PICK w2 : w2 = m2.words
  OBVIOUS
<1>12. /\ m2 \in Memories /\ m2.brk = e /\ m2.rover = m.rover /\ Tiled(w2, e, T2)
       /\ Changed(w, e, T, w2, T2, a .. z - 1, {a})
       /\ Size(w2, a) = z - a /\ w2[a - 1].alloc = FALSE /\ After(w2, a) = z
  BY <1>a, <1>10, <1>11 DEF OneBlock
<1>13. PICK c : c = Merged(m, a, z)
  OBVIOUS
<1>14. /\ c.mem \in Memories /\ c.mem.words = w2 /\ c.mem.brk = e /\ c.bp = a
       /\ c.mem.rover = IF fit = "next" /\ m.rover > a /\ m.rover < z THEN a ELSE m.rover
  <2>1. After(m2.words, a) = z
    BY <1>11, <1>12
  <2>2. m2 \in Memories /\ m2.rover = m.rover /\ a \in Nat
    BY <1>5, <1>12
  <2>3. RoverKept(m, a, z, m2, c)
    BY <1>8, <1>13, <2>1, <2>2, RoverMoved
  <2> QED BY <1>11, <1>12, <2>3 DEF RoverKept
<1>15. \A t \in T : t \in a .. z - 1 <=> t \in {a, p, b}
  <2>1. a \in a .. z - 1 /\ p \in a .. z - 1 /\ b \in a .. z - 1
    BY <1>2, <1>5
  <2> QED BY <1>2, <2>1
<1>16. FreeOf(w2, T2) = (FreeOf(w, T) \ (a .. z - 1)) \cup {a}
  <2>1. FreeOf(w2, T2) = (FreeOf(w, T) \ (a .. z - 1)) \cup {t \in {a} : ~w2[t - 1].alloc}
    BY <1>12 DEF Changed
  <2>2. {t \in {a} : ~w2[t - 1].alloc} = {a}
    BY <1>12
  <2> QED BY <2>1, <2>2
<1>17. TakenOf(w2, e, T2) = TakenOf(w, e, T) /\ TakenOf(w, e, T) \ (a .. z - 1) = TakenOf(w, e, T)
  <2>1. TakenOf(w2, e, T2) = (TakenOf(w, e, T) \ (a .. z - 1)) \cup {t \in {a} : w2[t - 1].alloc}
    BY <1>12 DEF Changed
  <2>2. {t \in {a} : w2[t - 1].alloc} = {}
    BY <1>12
  <2>3. \A t \in TakenOf(w, e, T) : t \notin {a, p, b} /\ t \in T
    BY <1>3 DEF TakenOf
  <2>4. TakenOf(w, e, T) \ (a .. z - 1) = TakenOf(w, e, T)
    BY <1>15, <2>3
  <2> QED BY <2>1, <2>2, <2>4
<1>18. BlocksMove(m, T, c.mem, T2, {}, {})
  <2>1. Kept(w, e, T, w2, e, T2, a .. z - 1)
    BY <1>12 DEF Changed
  <2>2. Kept(w, e, T, w2, e, T2, {})
    BY <1>17, <2>1 DEF Kept
  <2> QED BY <1>a, <1>14, <1>17, <2>2 DEF BlocksMove
<1>19. Apart(w2, T2, {})
  <2>1. Apart(w2, T2, {a})
    <3>1. {p} \subseteq a .. z - 1
      BY <1>3, <1>15
    <3> QED BY <1>1, <1>12, <3>1 DEF Changed
  <2>2. a \in T2
    BY <1>9
  <2>3. w2[z - 1].alloc
    <3>1. z \in T \ (a .. z - 1)
      BY <1>4, <1>5
    <3>2. w2[z - 1] = w[z - 1]
      BY <1>12, <3>1 DEF Changed
    <3> QED BY <1>2, <1>4, <3>2 DEF FreeOf
  <2>4. w2[a - 2].alloc
    <3>1. PICK u : u = a - w2[a - 2].size
      OBVIOUS
    <3>2. u \in T2 /\ u < a /\ u # e /\ After(w2, u) = a /\ w2[a - 2] = w2[u - 1]
      BY <1>3, <1>12, <2>2, <3>1, BlockBefore
    <3>3. u \in T \ (a .. z - 1)
      BY <1>5, <1>9, <3>2
    <3>4. w2[u - 1] = w[u - 1]
      BY <1>12, <3>3 DEF Changed
    <3>5. After(w, u) = a
      BY <3>2, <3>4 DEF After, Size
    <3>6. w[u - 1].alloc
      BY <1>2, <3>3, <3>5 DEF FreeOf
    <3> QED BY <3>2, <3>4, <3>6
  <2> QED BY <1>12, <2>1, <2>2, <2>3, <2>4, ApartDone DEF FreeAround
<1>20. RoverAt(c.mem, T2)
  <2>1. m.rover \in T /\ m.rover # e /\ fit \in {"first", "next"} /\ (fit = "first" => m.rover = 2)
    BY <1>a, <1>1 DEF RoverAt, heap_listp
  <2>2. CASE m.rover \in a .. z - 1
    <3>1. m.rover \in Nat /\ a <= m.rover /\ m.rover < z
      BY <1>5, <2>2
    <3>2. fit # "first"
      BY <1>5, <2>1, <3>1
    <3>3. c.mem.rover = a
      BY <1>5, <1>14, <2>1, <3>1, <3>2
    <3> QED BY <1>5, <1>9, <1>14, <2>1, <3>2, <3>3 DEF RoverAt
  <2>3. CASE m.rover \notin a .. z - 1
    <3>1. m.rover \in Nat
      BY <1>2, <2>1
    <3>2. ~(m.rover > a /\ m.rover < z)
      BY <1>5, <2>3, <3>1
    <3>3. c.mem.rover = m.rover /\ m.rover \in T2
      BY <1>9, <1>14, <2>1, <2>3, <3>2
    <3> QED BY <1>14, <2>1, <3>3 DEF RoverAt, heap_listp
  <2> QED BY <2>2, <2>3
<1>21. Ordered(c.mem, T2, {})
  BY <1>12, <1>14, <1>19, <1>20 DEF Ordered
<1>22. Size(w2, a) >= Size(w, p)
  BY <1>2, <1>5, <1>7, <1>12
<1>23. Joins(m, T, p, c, T2)
  BY <1>a, <1>14, <1>16, <1>18, <1>21, <1>22 DEF Joins
<1>24. T2 \in SUBSET Nat
  BY <1>2, <1>5, <1>9
<1> QED BY <1>13, <1>23, <1>24

\* coalesce.
LEMMA Coalesced ==
  ASSUME NEW m, NEW T \in SUBSET Nat, NEW p, Ordered(m, T, {p}), p \in FreeOf(m.words, T)
  PROVE  \E T2 \in SUBSET Nat : Joins(m, T, p, coalesce(m, p), T2)
<1>a. PICK w, e : w = m.words /\ e = m.brk
  OBVIOUS
<1>1. m \in Memories /\ Tiled(w, e, T) /\ Apart(w, T, {p}) /\ p \in FreeOf(w, T)
  BY <1>a DEF Ordered
<1>2. p \in T /\ p # e /\ p # 2 /\ ~w[p - 1].alloc
  BY <1>1, BlockFacts
<1>3. PICK n \in T : n = After(w, p)
  BY <1>1, <1>2 DEF Tiled
<1>b. PICK q : q = p - w[p - 2].size
  OBVIOUS
<1>4. /\ q \in T /\ q < p /\ q # e /\ After(w, q) = p /\ w[p - 2] = w[q - 1]
      /\ \A u \in T : After(w, u) = p /\ u # e => u = q
  BY <1>1, <1>2, <1>b, BlockBefore
<1>5. PICK a : a = IF w[p - 2].alloc THEN p ELSE q
  OBVIOUS
<1>6. PICK b : b = IF w[n - 1].alloc THEN p ELSE n
  OBVIOUS
<1>7. a # p => a \in FreeOf(w, T) /\ After(w, a) = p /\ a < p
  BY <1>4, <1>5 DEF FreeOf
<1>8. b # p => b \in FreeOf(w, T) /\ b = After(w, p)
  BY <1>3, <1>6 DEF FreeOf
<1>9. a \in FreeOf(w, T) /\ b \in FreeOf(w, T) /\ a \in T /\ b \in T
  BY <1>1, <1>7, <1>8 DEF FreeOf
<1>10. a # e /\ b # e
  BY <1>1, <1>9, BlockFacts
<1>11. PICK z \in T : z = After(w, b)
  BY <1>1, <1>9, <1>10 DEF Tiled
<1>12. /\ a \in Nat /\ p \in Nat /\ b \in Nat /\ z \in Nat /\ n \in Nat /\ p < n /\ b < z
       /\ a <= p /\ p <= b
  <2>1. PICK k \in Nat : k = Size(w, p) /\ k >= 2 /\ n = p + k
    BY <1>1, <1>2, <1>3, TileFacts DEF After
  <2>2. PICK l \in Nat : l = Size(w, b) /\ l >= 2 /\ z = b + l
    BY <1>1, <1>9, <1>10, <1>11, TileFacts DEF After
  <2>3. a \in Nat /\ p \in Nat /\ b \in Nat /\ z \in Nat /\ n \in Nat
    BY <1>2, <1>9
  <2> QED BY <1>3, <1>7, <1>8, <2>1, <2>2, <2>3
<1>13. ASSUME NEW t \in T, t \in a .. z - 1 PROVE t \in {a, p, b}
  <2>1. t \in Nat /\ a <= t /\ t < z
    BY <1>12, <1>13
  <2>2. a < t => After(w, a) <= t
    BY <1>1, <1>9 DEF Tiled
  <2>3. p < t => n <= t
    BY <1>1, <1>2, <1>3 DEF Tiled
  <2>4. b < t => z <= t
    BY <1>1, <1>9, <1>11 DEF Tiled
  <2>5. a # p => After(w, a) = p
    BY <1>7
  <2>6. b # p => b = n
    BY <1>3, <1>8
  <2>7. t <= b
    BY <1>12, <2>1, <2>4
  <2>8. t = a \/ t >= p
    <3>1. a = p \/ (a < t => p <= t)
      BY <2>2, <2>5
    <3> QED BY <1>12, <2>1, <3>1
  <2>9. t = p \/ t >= b \/ t < p
    <3>1. b = p \/ (p < t => b <= t)
      BY <2>3, <2>6
    <3> QED BY <1>12, <2>1, <3>1
  <2>10. t = a \/ t = p \/ t = b
    BY <1>12, <2>1, <2>7, <2>8, <2>9
  <2> QED BY <2>10
<1>14. ASSUME NEW u \in FreeOf(w, T), After(w, u) = a PROVE FALSE
  <2>1. u \in T /\ ~w[u - 1].alloc /\ u # e
    BY <1>1, BlockFacts
  <2>2. PICK k \in Nat : k = Size(w, u) /\ k >= 2 /\ a = u + k /\ u \in Nat
    BY <1>1, <1>14, <2>1, TileFacts DEF After
  <2>3. u # p /\ u < a
    BY <1>12, <2>2
  <2>4. CASE a = p
    <3>1. u = q
      BY <1>4, <1>14, <2>1, <2>4
    <3> QED BY <1>4, <1>5, <2>1, <2>3, <2>4, <3>1
  <2>5. CASE a # p
    BY <1>1, <1>9, <1>14, <2>3, <2>5 DEF Apart
  <2> QED BY <2>4, <2>5
<1>15. z \notin FreeOf(w, T)
  <2> SUFFICES ASSUME z \in FreeOf(w, T) PROVE FALSE
    OBVIOUS
  <2>1. z # p
    BY <1>12
  <2>2. CASE b = p
    <3>1. z = n
      BY <1>3, <1>11, <2>2
    <3> QED BY <1>6, <2>1, <2>2, <3>1 DEF FreeOf
  <2>3. CASE b # p
    BY <1>1, <1>9, <1>11, <2>1, <2>3 DEF Apart
  <2> QED BY <2>2, <2>3
<1>16. Run(w, T, a, p, b, z)
  BY <1>1, <1>9, <1>11, <1>12, <1>13, <1>14, <1>15 DEF Run
<1>17. coalesce(m, p) = Merged(m, a, z)
  <2>1. PREV_BLKP(m, p) = q /\ NEXT_BLKP(m, p) = n
    BY <1>a, <1>b, <1>3 DEF PREV_BLKP, NEXT_BLKP, GET_SIZE, HDRP, After, Size
  <2>2. (IF m.words[p - 2].alloc THEN p ELSE PREV_BLKP(m, p)) = a
    BY <1>a, <1>5, <2>1
  <2>3. (IF GET_ALLOC(m, n) THEN n ELSE NEXT_BLKP(m, n)) = z
    <3>1. GET_ALLOC(m, n) = w[n - 1].alloc /\ NEXT_BLKP(m, n) = After(w, n)
      BY <1>a DEF GET_ALLOC, NEXT_BLKP, GET_SIZE, HDRP, After, Size
    <3>2. CASE w[n - 1].alloc
      BY <1>3, <1>6, <1>11, <3>1, <3>2
    <3>3. CASE ~w[n - 1].alloc
      BY <1>6, <1>11, <3>1, <3>3
    <3> QED BY <3>2, <3>3
  <2> QED BY <2>1, <2>2, <2>3 DEF coalesce, Merged
<1>18. \E T2 \in SUBSET Nat : Joins(m, T, p, Merged(m, a, z), T2)
  <2>1. Run(m.words, T, a, p, b, z)
    BY <1>a, <1>16
  <2> QED BY <2>1, JoinedRun
<1> QED BY <1>17, <1>18

-----------------------------------------------------------------------------
(* Steps that follow each other.                                           *)

\* Two steps that keep the taken blocks.
LEMMA KeptTrans ==
  ASSUME NEW w, NEW e, NEW T, NEW w2, NEW e2, NEW T2, NEW w3, NEW e3, NEW T3, NEW P, NEW P2,
         Tiled(w, e, T), Kept(w, e, T, w2, e2, T2, P), Kept(w2, e2, T2, w3, e3, T3, P2)
  PROVE  Kept(w, e, T, w3, e3, T3, P \cup P2)
<1> SUFFICES ASSUME NEW t \in TakenOf(w, e, T) \ (P \cup P2)
             PROVE  t \in TakenOf(w3, e3, T3) /\ \A k \in t - 1 .. t + Size(w, t) - 2 : w3[k] = w[k]
  BY DEF Kept
<1>1. t \in TakenOf(w2, e2, T2) /\ \A k \in t - 1 .. t + Size(w, t) - 2 : w2[k] = w[k]
  BY DEF Kept
<1>2. t \in TakenOf(w3, e3, T3) /\ \A k \in t - 1 .. t + Size(w2, t) - 2 : w3[k] = w2[k]
  BY <1>1 DEF Kept
<1>3. t \in Nat /\ Size(w, t) \in Nat /\ Size(w, t) >= 2
  BY BlockFacts, TileFacts
<1>4. t - 1 \in t - 1 .. t + Size(w, t) - 2
  <2>1. PICK n \in Nat : n = Size(w, t) /\ n >= 2
    BY <1>3
  <2>2. t - 1 \in t - 1 .. t + n - 2
    BY <1>3, <2>1
  <2> QED BY <2>1, <2>2
<1>5. Size(w2, t) = Size(w, t)
  BY <1>1, <1>4 DEF Size
<1> QED BY <1>1, <1>2, <1>5

\* The taken blocks after two steps.
LEMMA MovesTwice ==
  ASSUME NEW m, NEW T, NEW m2, NEW T2, NEW m3, NEW T3, NEW P, NEW Q, NEW P2, NEW Q2,
         Tiled(m.words, m.brk, T), BlocksMove(m, T, m2, T2, P, Q), BlocksMove(m2, T2, m3, T3, P2, Q2),
         P2 \cap Q = {}
  PROVE  BlocksMove(m, T, m3, T3, P \cup P2, Q \cup Q2)
<1>1. /\ TakenOf(m2.words, m2.brk, T2) = (TakenOf(m.words, m.brk, T) \ P) \cup Q
      /\ Kept(m.words, m.brk, T, m2.words, m2.brk, T2, P)
  BY DEF BlocksMove
<1>2. /\ TakenOf(m3.words, m3.brk, T3) = (TakenOf(m2.words, m2.brk, T2) \ P2) \cup Q2
      /\ Kept(m2.words, m2.brk, T2, m3.words, m3.brk, T3, P2)
  BY DEF BlocksMove
<1>3. TakenOf(m3.words, m3.brk, T3) = (TakenOf(m.words, m.brk, T) \ (P \cup P2)) \cup (Q \cup Q2)
  BY <1>1, <1>2
<1>4. Kept(m.words, m.brk, T, m3.words, m3.brk, T3, P \cup P2)
  BY <1>1, <1>2, KeptTrans
<1> QED BY <1>3, <1>4 DEF BlocksMove

-----------------------------------------------------------------------------
(* The walk from header to header.                                         *)

\* Where a walk may be, where it goes on, and the functions that it could be.
Far         == Nat \ {0}
On(m, p)    == p < m.brk /\ GET_SIZE(m, p) > 0
Walks(m, f) == f = [p \in Far |-> IF On(m, p) THEN {p} \cup f[NEXT_BLKP(m, p)] ELSE {}]

\* The next header is further, and a walk goes on from all blocks.
LEMMA FarFacts ==
  ASSUME NEW m, NEW T, m \in Memories, Tiled(m.words, m.brk, T)
  PROVE  /\ \A p \in Far : On(m, p) => NEXT_BLKP(m, p) \in Far
         /\ \A t \in T : t \in Far /\ t \in Nat /\ t <= m.brk /\ (On(m, t) <=> t # m.brk)
         /\ \A t \in T : t # m.brk => NEXT_BLKP(m, t) = After(m.words, t) /\ NEXT_BLKP(m, t) \in T /\ t < NEXT_BLKP(m, t)
<1>1. \A p : NEXT_BLKP(m, p) = After(m.words, p) /\ GET_SIZE(m, p) = Size(m.words, p)
  BY DEF NEXT_BLKP, GET_SIZE, HDRP, After, Size
<1>2. m.brk \in Nat /\ m.brk <= MAX_HEAP /\ MAX_HEAP \in Nat
  BY TileFacts, BookAssumption
<1>3. ASSUME NEW p \in Far, On(m, p) PROVE NEXT_BLKP(m, p) \in Far
  <2>1. p \in Nat /\ p # 0 /\ p < m.brk
    BY <1>3 DEF Far, On
  <2>2. p - 1 \in Addresses
    BY <1>2, <2>1 DEF Addresses
  <2>3. PICK n \in Nat : n = Size(m.words, p)
    BY <2>2, WordFacts DEF Size, Memories
  <2>4. p + n \in Far
    BY <2>1, <2>3 DEF Far
  <2> QED BY <1>1, <2>3, <2>4 DEF After
<1>4. ASSUME NEW t \in T
      PROVE  /\ t \in Far /\ t \in Nat /\ t <= m.brk /\ (On(m, t) <=> t # m.brk)
             /\ t # m.brk => After(m.words, t) \in T /\ t < After(m.words, t)
  <2>1. PICK n \in Nat : n = Size(m.words, t)
    BY TileFacts
  <2>2. t \in Nat /\ t >= 2 /\ t <= m.brk
    BY TileFacts
  <2>3. t # m.brk => n >= 2 /\ t + n \in T
    BY <2>1, TileFacts
  <2>4. GET_SIZE(m, t) = n /\ After(m.words, t) = t + n
    BY <1>1, <2>1 DEF After
  <2>5. On(m, t) <=> t # m.brk
    BY <1>2, <2>2, <2>3, <2>4 DEF On
  <2>6. t # m.brk => t < t + n
    BY <2>2, <2>3
  <2> QED BY <2>2, <2>3, <2>4, <2>5, <2>6 DEF Far
<1> QED BY <1>1, <1>3, <1>4

\* There is one: each place has what every closed set around it has.
Closed(m, S) == \A u \in S : On(m, u) => NEXT_BLKP(m, u) \in S

\* The headers a walk meets from p: the least set with p and the next of each.
Met(m, p) == {u \in Far : On(m, u) /\ \A S \in SUBSET Far : p \in S /\ Closed(m, S) => u \in S}

\* The recursive function is defined: it is Met.
LEMMA WalkExists ==
  ASSUME NEW m, NEW T, m \in Memories, Tiled(m.words, m.brk, T)
  PROVE  \E f : Walks(m, f)
<1>1. \A p \in Far : On(m, p) => NEXT_BLKP(m, p) \in Far
  BY FarFacts
<1>2. \A p \in Far : On(m, p) => p \in Met(m, p)
  BY DEF Met
<1>3. ASSUME NEW p \in Far, ~On(m, p) PROVE Met(m, p) = {}
  <2>1. {p} \in SUBSET Far /\ Closed(m, {p})
    BY <1>3 DEF Closed
  <2> QED BY <1>3, <2>1 DEF Met
<1>4. ASSUME NEW p \in Far, On(m, p) PROVE Met(m, p) = {p} \cup Met(m, NEXT_BLKP(m, p))
  <2>1. PICK q \in Far : q = NEXT_BLKP(m, p)
    BY <1>1, <1>4
  <2>2. PICK S : S = {p, q} \cup Met(m, q)
    OBVIOUS
  <2>3. ASSUME NEW u \in Met(m, q), On(m, NEXT_BLKP(m, u)) PROVE NEXT_BLKP(m, u) \in Met(m, q)
    <3>1. u \in Far /\ On(m, u) /\ NEXT_BLKP(m, u) \in Far
      BY <1>1 DEF Met
    <3>2. ASSUME NEW R \in SUBSET Far, q \in R, Closed(m, R) PROVE NEXT_BLKP(m, u) \in R
      <4>1. u \in R
        BY <3>2 DEF Met
      <4> QED BY <3>1, <3>2, <4>1 DEF Closed
    <3> QED BY <2>3, <3>1, <3>2 DEF Met
  <2>4. Met(m, p) \subseteq {p} \cup Met(m, q)
    <3> SUFFICES ASSUME NEW u \in Met(m, p), u # p PROVE u \in Met(m, q)
      OBVIOUS
    <3>1. u \in Far /\ On(m, u)
      BY DEF Met
    <3>2. ASSUME NEW R \in SUBSET Far, q \in R, Closed(m, R) PROVE u \in R
      <4>1. PICK R2 : R2 = {p} \cup R
        OBVIOUS
      <4>2. R2 \in SUBSET Far /\ p \in R2
        BY <4>1
      <4>3. Closed(m, R2)
        BY <2>1, <3>2, <4>1 DEF Closed
      <4>4. u \in R2
        BY <4>2, <4>3 DEF Met
      <4> QED BY <4>1, <4>4
    <3> QED BY <3>1, <3>2 DEF Met
  <2>5. ASSUME NEW u \in Met(m, q) PROVE u \in Met(m, p)
    <3>1. ASSUME NEW R \in SUBSET Far, p \in R, Closed(m, R) PROVE u \in R
      <4>1. q \in R
        BY <1>4, <2>1, <3>1 DEF Closed
      <4> QED BY <3>1, <4>1 DEF Met
    <3>2. u \in Far /\ On(m, u)
      BY DEF Met
    <3> QED BY <3>1, <3>2 DEF Met
  <2>6. {p} \cup Met(m, q) \subseteq Met(m, p)
    BY <1>2, <1>4, <2>5
  <2> QED BY <2>1, <2>4, <2>6
<1>5. PICK f : f = [p \in Far |-> Met(m, p)]
  OBVIOUS
<1>6. \A p \in Far : f[p] = IF On(m, p) THEN {p} \cup f[NEXT_BLKP(m, p)] ELSE {}
  <2> SUFFICES ASSUME NEW p \in Far PROVE f[p] = IF On(m, p) THEN {p} \cup f[NEXT_BLKP(m, p)] ELSE {}
    OBVIOUS
  <2>1. f[p] = Met(m, p)
    BY <1>5
  <2>2. CASE ~On(m, p)
    BY <1>3, <2>1, <2>2
  <2>3. CASE On(m, p)
    <3>1. f[NEXT_BLKP(m, p)] = Met(m, NEXT_BLKP(m, p))
      BY <1>1, <1>5, <2>3
    <3> QED BY <1>4, <2>1, <2>3, <3>1
  <2> QED BY <2>2, <2>3
<1>7. f = [p \in Far |-> IF On(m, p) THEN {p} \cup f[NEXT_BLKP(m, p)] ELSE {}]
  BY <1>5, <1>6
<1> QED BY <1>7 DEF Walks

\* And it meets the blocks from t to the epilogue, and no other.
LEMMA WalkMeets ==
  ASSUME NEW m, NEW T, m \in Memories, Tiled(m.words, m.brk, T), NEW f, Walks(m, f)
  PROVE  \A t \in T : f[t] = {u \in T : u >= t /\ u # m.brk}
<1>a. PICK e : e = m.brk
  OBVIOUS
<1>1. \A p \in Far : f[p] = IF On(m, p) THEN {p} \cup f[NEXT_BLKP(m, p)] ELSE {}
  BY DEF Walks
<1>2. \A t \in T : /\ t \in Far /\ t \in Nat /\ t <= e /\ (On(m, t) <=> t # e)
                   /\ t # e => NEXT_BLKP(m, t) = After(m.words, t) /\ NEXT_BLKP(m, t) \in T /\ t < NEXT_BLKP(m, t)
  BY <1>a, FarFacts
<1>3. e \in T /\ e \in Nat
  BY <1>a, TileFacts DEF Tiled
<1> DEFINE Bad == {t \in T : f[t] # {u \in T : u >= t /\ u # e}}
<1> SUFFICES ASSUME Bad # {} PROVE FALSE
  BY <1>a
<1>4. PICK t \in Bad : \A u \in Bad : u <= t
  <2>1. \A u \in Bad : u \in 0 .. e
    BY <1>2, <1>3
  <2> HIDE DEF Bad
  <2>2. Bad \subseteq 0 .. e
    BY <2>1
  <2> QED BY <1>3, <2>2, Greatest
<1>5. t \in T /\ f[t] # {u \in T : u >= t /\ u # e} /\ t \in Nat /\ t <= e
  BY <1>2
<1>6. CASE t = e
  <2>1. f[t] = {}
    BY <1>1, <1>2, <1>5, <1>6
  <2>2. \A u \in T : ~(u >= t /\ u # e)
    BY <1>2, <1>5, <1>6
  <2> QED BY <1>5, <2>1, <2>2
<1>7. CASE t # e
  <2>1. PICK q \in T : q = NEXT_BLKP(m, t) /\ t < q /\ q = After(m.words, t)
    BY <1>2, <1>5, <1>7
  <2>2. q \notin Bad
    <3>1. q \in Nat /\ ~(q <= t)
      BY <1>2, <1>5, <2>1
    <3> QED BY <1>4, <3>1
  <2>3. f[q] = {u \in T : u >= q /\ u # e}
    BY <2>2
  <2>4. f[t] = {t} \cup f[q]
    BY <1>1, <1>2, <1>5, <1>7, <2>1
  <2>5. \A u \in T : u >= t <=> u = t \/ u >= q
    <3> SUFFICES ASSUME NEW u \in T PROVE u >= t <=> u = t \/ u >= q
      OBVIOUS
    <3>1. u \in Nat /\ q \in Nat
      BY <1>2
    <3>2. t < u => q <= u
      BY <1>5, <2>1 DEF Tiled
    <3> QED BY <1>5, <2>1, <3>1, <3>2
  <2>6. {u \in T : u >= t /\ u # e} = {t} \cup {u \in T : u >= q /\ u # e}
    BY <1>5, <1>7, <2>5
  <2> QED BY <1>5, <2>3, <2>4, <2>6
<1> QED BY <1>6, <1>7

\* Walk.
LEMMA WalkIs ==
  ASSUME NEW m, NEW T, m \in Memories, Tiled(m.words, m.brk, T), NEW t \in T
  PROVE  Walk(m, t) = {u \in T : u >= t /\ u # m.brk}
<1> DEFINE walk == CHOOSE f : Walks(m, f)
<1>1. Walks(m, walk)
  BY WalkExists
<1>2. Walk(m, t) = walk[t]
  BY DEF Walk, Walks, Far, On
<1> HIDE DEF walk
<1> QED BY <1>1, <1>2, WalkMeets

\* From the prologue it meets all of them.
LEMMA WalkAll ==
  ASSUME NEW m, NEW T, m \in Memories, Tiled(m.words, m.brk, T)
  PROVE  Walk(m, heap_listp) = T \ {m.brk}
<1>1. 2 \in T /\ \A t \in T : t \in Nat /\ t >= 2
  BY TileFacts DEF Tiled
<1>2. Walk(m, 2) = {u \in T : u >= 2 /\ u # m.brk}
  BY <1>1, WalkIs
<1> QED BY <1>1, <1>2 DEF heap_listp

-----------------------------------------------------------------------------
(* The search.                                                             *)

\* What find_fit promises: a free block with room, or 0 when there is none.
Finds(m, T, asize, found) ==
  IF found = 0 THEN \A t \in FreeOf(m.words, T) : Size(m.words, t) < asize
  ELSE found \in FreeOf(m.words, T) /\ Size(m.words, found) >= asize

\* find_fit, from the first block or from the rover.
LEMMA FoundFit ==
  ASSUME NEW m, NEW T \in SUBSET Nat, Ordered(m, T, {}), NEW asize \in Nat
  PROVE  Finds(m, T, asize, find_fit(m, asize))
<1>a. PICK w, e : w = m.words /\ e = m.brk
  OBVIOUS
<1>1. m \in Memories /\ Tiled(w, e, T) /\ m.rover \in T /\ m.rover # e
  BY <1>a DEF Ordered, RoverAt
<1>2. PICK all : all = {t \in FreeOf(w, T) : asize <= Size(w, t)}
  OBVIOUS
<1>3. all \subseteq Nat /\ 0 \notin all /\ \A t \in all : t # e
  <2>1. \A t \in T : t \in Nat /\ t >= 2
    BY <1>1, TileFacts
  <2>2. \A t \in FreeOf(w, T) : t \in T /\ t # e
    BY <1>1, BlockFacts
  <2>3. \A t \in all : t \in T /\ t # e
    BY <1>2, <2>2
  <2>4. 0 \notin T
    BY <2>1
  <2> QED BY <2>1, <2>3, <2>4
<1>4. \A t : (~GET_ALLOC(m, t) <=> ~w[t - 1].alloc) /\ GET_SIZE(m, t) = Size(w, t)
  BY <1>a DEF GET_ALLOC, GET_SIZE, HDRP, Size
<1>5. Fits(m, Walk(m, heap_listp), asize) = all
  <2>1. Walk(m, heap_listp) = T \ {e}
    BY <1>a, <1>1, WalkAll
  <2>2. \A t : t \in Fits(m, T \ {e}, asize) <=> t \in all
    BY <1>2, <1>3, <1>4 DEF Fits, FreeOf
  <2> QED BY <2>1, <2>2
<1>6. Fits(m, Walk(m, m.rover), asize) = {t \in all : t >= m.rover}
  <2>1. Walk(m, m.rover) = {u \in T : u >= m.rover /\ u # e}
    BY <1>a, <1>1, WalkIs
  <2>2. \A t : t \in Fits(m, {u \in T : u >= m.rover /\ u # e}, asize) <=> t \in all /\ t >= m.rover
    BY <1>2, <1>3, <1>4 DEF Fits, FreeOf
  <2> QED BY <2>1, <2>2
<1>7. PICK ahead : ahead = {t \in all : t >= m.rover}
  OBVIOUS
<1>8. PICK behind : behind = {t \in all : t < m.rover}
  OBVIOUS
<1>9. all = ahead \cup behind
  <2>1. m.rover \in Nat /\ \A t \in all : t \in Nat
    BY <1>1, <1>3
  <2>2. \A t \in all : t >= m.rover \/ t < m.rover
    BY <2>1
  <2> QED BY <1>7, <1>8, <2>2
<1>10. PICK found : found = find_fit(m, asize)
  OBVIOUS
<1>11. found = IF fit = "next" /\ ahead # {} THEN Min(ahead)
               ELSE IF fit = "next" THEN Lowest(behind) ELSE Lowest(all)
  BY <1>5, <1>6, <1>7, <1>8, <1>10 DEF find_fit
<1>12. \A S \in SUBSET all : S # {} => Min(S) \in S /\ Lowest(S) \in S
  BY <1>3, MinFacts DEF Lowest
<1>13. Lowest({}) = 0
  BY DEF Lowest
<1>14. found \in all \/ (found = 0 /\ all = {})
  <2>1. ahead \in SUBSET all /\ behind \in SUBSET all
    BY <1>9
  <2>2. CASE fit = "next" /\ ahead # {}
    BY <1>11, <1>12, <2>1, <2>2
  <2>3. CASE fit = "next" /\ ahead = {}
    BY <1>9, <1>11, <1>12, <1>13, <2>1, <2>3
  <2>4. CASE fit # "next"
    BY <1>11, <1>12, <1>13, <2>4
  <2> QED BY <2>2, <2>3, <2>4
<1>15. Finds(m, T, asize, found)
  <2>1. CASE found \in all
    <3>1. found # 0
      BY <1>3, <2>1
    <3>2. found \in FreeOf(w, T) /\ asize <= Size(w, found) /\ Size(w, found) \in Nat
      BY <1>1, <1>2, <2>1, TileFacts DEF FreeOf
    <3> QED BY <1>a, <3>1, <3>2 DEF Finds
  <2>2. CASE found = 0 /\ all = {}
    <3>1. \A t \in FreeOf(w, T) : Size(w, t) \in Nat
      BY <1>1, TileFacts DEF FreeOf
    <3>2. \A t \in FreeOf(w, T) : ~(asize <= Size(w, t))
      BY <1>2, <2>2
    <3>3. \A t \in FreeOf(w, T) : Size(w, t) < asize
      BY <3>1, <3>2
    <3> QED BY <1>a, <2>2, <3>3 DEF Finds
  <2> QED BY <1>14, <2>1, <2>2
<1> QED BY <1>10, <1>15

-----------------------------------------------------------------------------
(* The heap grows.                                                         *)

\* What extend_heap makes of the epilogue, before it joins blocks.
Longer(m, size) ==
  [PutTags(m, m.brk, size, FALSE) EXCEPT !.brk = @ + size, !.words[HDRP(m.brk + size)] = PACK(0, TRUE)]

\* A size by which the heap can grow.
Grows(m, size) == size \in Nat /\ size % 2 = 0 /\ size >= 4 /\ m.brk + size <= MAX_HEAP

\* The heap grew by a free block where the epilogue was, up to z.
Grown(m, T, size, h, z) ==
  /\ Ordered(h, T \cup {z}, {m.brk}) /\ m.brk \in FreeOf(h.words, T \cup {z})
  /\ BlocksMove(m, T, h, T \cup {z}, {}, {}) /\ Size(h.words, m.brk) = size /\ h.brk = z

\* h is m with a free block of size words at p and a new epilogue.
Lengthens(m, p, size, h) ==
  /\ h \in Memories /\ h.brk = p + size /\ h.rover = m.rover
  /\ \A k \in Addresses : h.words[k] = IF k = p + size - 1 THEN PACK(0, TRUE)
                                        ELSE IF k = p - 1 \/ k = p + size - 2 THEN PACK(size, FALSE)
                                        ELSE m.words[k]

\* The words of the longer heap.
LEMMA LongerFacts ==
  ASSUME NEW m, m \in Memories, NEW p \in Nat, p = m.brk, p >= 2, NEW size, Grows(m, size)
  PROVE  Lengthens(m, p, size, Longer(m, size))
<1>1. size \in Nat /\ size >= 4 /\ p + size <= MAX_HEAP /\ MAX_HEAP \in Nat
  BY BookAssumption DEF Grows
<1>2. PICK m1 : m1 = PutTags(m, p, size, FALSE)
  OBVIOUS
<1>3. Puts(m, p, size, FALSE, m1)
  <2>1. HasRoom(m, p, size)
    BY <1>1 DEF HasRoom
  <2> QED BY <1>2, <2>1, PutFacts
<1>4. /\ m1 \in Memories /\ m1.brk = p /\ m1.rover = m.rover
      /\ \A k \in Addresses : m1.words[k] = IF k = p - 1 \/ k = p + size - 2 THEN PACK(size, FALSE) ELSE m.words[k]
  BY <1>3 DEF Puts
<1>5. PICK i \in Addresses : i = p + size - 1 /\ i = HDRP(p + size)
  BY <1>1 DEF Addresses, HDRP
<1>6. PICK tag \in WordKinds : tag = PACK(0, TRUE)
  BY TagFacts
<1>7. PICK w1 \in [Addresses -> WordKinds] : w1 = m1.words
  BY <1>4 DEF Memories
<1>8. PICK w2 : w2 = [w1 EXCEPT ![i] = tag]
  OBVIOUS
<1>9. w2 \in [Addresses -> WordKinds] /\ \A k \in Addresses : w2[k] = IF k = i THEN tag ELSE w1[k]
  BY <1>8
<1>10. PICK z \in Nat : z = p + size
  BY <1>1
<1>11. Longer(m, size) = [m1 EXCEPT !.brk = z, !.words = w2]
  <2>1. m1 \in [words : [Addresses -> WordKinds], brk : Nat, rover : Nat]
    BY <1>4 DEF Memories
  <2>2. Longer(m, size) = [m1 EXCEPT !.brk = @ + size, !.words[i] = tag]
    BY <1>2, <1>5, <1>6 DEF Longer
  <2>3. [m1 EXCEPT !.brk = @ + size, !.words[i] = tag] = [m1 EXCEPT !.brk = z, !.words = w2]
    BY <1>4, <1>7, <1>8, <1>10, <2>1
  <2> QED BY <2>2, <2>3
<1>12. PICK h : h = [m1 EXCEPT !.brk = z, !.words = w2]
  OBVIOUS
<1>13. h.words = w2 /\ h.brk = z /\ h.rover = m1.rover /\ h \in Memories
  BY <1>4, <1>9, <1>12 DEF Memories
<1>14. \A k \in Addresses : w2[k] = IF k = p + size - 1 THEN PACK(0, TRUE)
                                    ELSE IF k = p - 1 \/ k = p + size - 2 THEN PACK(size, FALSE) ELSE m.words[k]
  BY <1>4, <1>5, <1>6, <1>7, <1>9
<1>15. Longer(m, size) = h
  BY <1>11, <1>12
<1>16. Lengthens(m, p, size, h)
  BY <1>4, <1>10, <1>13, <1>14 DEF Lengthens
<1> QED BY <1>15, <1>16

\* The blocks of the longer heap.
LEMMA GrownFacts ==
  ASSUME NEW m, NEW T \in SUBSET Nat, Ordered(m, T, {}), NEW size, Grows(m, size), NEW z, z = m.brk + size
  PROVE  Grown(m, T, size, Longer(m, size), z)
<1>a. PICK w, p : w = m.words /\ p = m.brk
  OBVIOUS
<1>b. PICK h : h = Longer(m, size)
  OBVIOUS
<1>c. PICK w2 : w2 = h.words
  OBVIOUS
<1>1. m \in Memories /\ Tiled(w, p, T) /\ Apart(w, T, {}) /\ RoverAt(m, T)
  BY <1>a DEF Ordered
<1>2. /\ p \in Nat /\ p >= 4 /\ size \in Nat /\ size % 2 = 0 /\ size >= 4 /\ z = p + size /\ z <= MAX_HEAP /\ MAX_HEAP \in Nat
      /\ z \in Nat /\ p < z
  <2>1. p \in Nat /\ p >= 4
    BY <1>1, TileFacts
  <2>2. size \in Nat /\ size % 2 = 0 /\ size >= 4 /\ z = p + size /\ z <= MAX_HEAP
    BY <1>a DEF Grows
  <2> QED BY <2>1, <2>2, BookAssumption
<1>3. /\ h \in Memories /\ h.brk = z /\ h.rover = m.rover /\ w2 \in [Addresses -> WordKinds]
      /\ \A k \in Addresses : w2[k] = IF k = z - 1 THEN PACK(0, TRUE)
                                      ELSE IF k = p - 1 \/ k = z - 2 THEN PACK(size, FALSE) ELSE w[k]
  <2>1. p \in Nat /\ p = m.brk /\ p >= 2
    BY <1>a, <1>2
  <2>2. Lengthens(m, p, size, h)
    BY <1>1, <1>b, <2>1, LongerFacts
  <2>3. p + size - 1 = z - 1 /\ p + size - 2 = z - 2 /\ p + size = z
    BY <1>2
  <2>4. /\ h \in Memories /\ h.brk = z /\ h.rover = m.rover
        /\ \A k \in Addresses : w2[k] = IF k = z - 1 THEN PACK(0, TRUE)
                                        ELSE IF k = p - 1 \/ k = z - 2 THEN PACK(size, FALSE) ELSE w[k]
    BY <1>a, <1>c, <2>2, <2>3 DEF Lengthens
  <2>5. w2 \in [Addresses -> WordKinds]
    BY <1>c, <2>4 DEF Memories
  <2> QED BY <2>4, <2>5
<1>4. /\ z - 1 \in Addresses /\ z - 2 \in Addresses /\ p - 1 \in Addresses
      /\ z - 1 # p - 1 /\ z - 1 # z - 2 /\ z - 2 # p - 1
  BY <1>2 DEF Addresses
<1>5. w2[z - 1] = PACK(0, TRUE) /\ w2[p - 1] = PACK(size, FALSE) /\ w2[z - 2] = PACK(size, FALSE)
  BY <1>3, <1>4
<1>6. Size(w2, p) = size /\ w2[p - 1].alloc = FALSE /\ w2[p - 1].is = "tag" /\ w2[z - 1].alloc = TRUE
  <2>1. PACK(0, TRUE).alloc = TRUE
    BY DEF PACK
  <2>2. PACK(size, FALSE).size = size /\ PACK(size, FALSE).alloc = FALSE /\ PACK(size, FALSE).is = "tag"
    BY DEF PACK
  <2>3. w2[p - 1].size = size
    BY <1>5, <2>2
  <2> QED BY <1>5, <2>1, <2>2, <2>3 DEF Size
<1>7. After(w2, p) = z
  BY <1>2, <1>6 DEF After
<1>8. \A k \in 0 .. p - 2 : w2[k] = w[k]
  <2>1. \A k \in 0 .. p - 2 : k \in Addresses /\ k # z - 1 /\ k # p - 1 /\ k # z - 2
    BY <1>2 DEF Addresses
  <2> QED BY <1>3, <2>1
<1>9. /\ 2 \in T /\ p \in T /\ w[1] = PACK(2, TRUE) /\ w[p - 1].alloc
      /\ \A t \in T : t \in Nat /\ t >= 2 /\ t <= p /\ t % 2 = 0
  <2>1. \A t \in T : t \in Nat /\ t >= 2 /\ t <= p
    BY <1>1, TileFacts
  <2>2. w[p - 1].alloc
    BY <1>1, TileFacts
  <2> QED BY <1>1, <2>1, <2>2 DEF Tiled
<1>10. z \notin T /\ 2 # p
  BY <1>2, <1>9
\* A block that stays.
<1>11. ASSUME NEW t \in T, t # p
       PROVE  /\ \A k \in t - 1 .. t + Size(w, t) - 2 : w2[k] = w[k]
              /\ w2[t - 1] = w[t - 1] /\ IsBlock(w2, t) /\ After(w2, t) = After(w, t) /\ After(w, t) \in T
  <2>1. IsBlock(w, t) /\ After(w, t) \in T
    BY <1>1, <1>11 DEF Tiled
  <2>2. PICK n \in Nat : n = Size(w, t) /\ n >= 2 /\ t + n <= p /\ After(w, t) = t + n
    BY <1>1, <1>11, TileFacts DEF After
  <2>3. t \in Nat /\ t >= 2
    BY <1>9
  <2>4. \A k \in t - 1 .. t + n - 2 : k \in 0 .. p - 2
    BY <1>2, <2>2, <2>3
  <2>5. t - 1 \in t - 1 .. t + n - 2 /\ t + n - 2 \in t - 1 .. t + n - 2
    BY <2>2, <2>3
  <2>6. \A k \in t - 1 .. t + n - 2 : w2[k] = w[k]
    BY <1>8, <2>4
  <2>7. w2[t - 1] = w[t - 1] /\ w2[t + n - 2] = w[t + n - 2]
    BY <2>5, <2>6
  <2>8. Size(w2, t) = n /\ After(w2, t) = After(w, t)
    BY <2>2, <2>7 DEF Size, After
  <2>9. IsBlock(w2, t)
    BY <2>1, <2>2, <2>7, <2>8 DEF IsBlock
  <2> QED BY <2>1, <2>2, <2>6, <2>7, <2>8, <2>9
<1>12. IsBlock(w2, p)
  <2>1. p + size - 2 = z - 2
    BY <1>2
  <2> QED BY <1>2, <1>5, <1>6, <1>10, <2>1 DEF IsBlock
<1>13. PICK T2 : T2 = T \cup {z}
  OBVIOUS
<1>14. Tiled(w2, z, T2)
  <2>1. w2[1] = PACK(2, TRUE)
    <3>1. 1 \in 0 .. p - 2
      BY <1>2
    <3> QED BY <1>8, <1>9, <3>1
  <2>2. z % 2 = 0
    <3>1. p % 2 = 0
      BY <1>9
    <3> QED BY <1>2, <3>1
  <2>3. T2 \subseteq 2 .. z /\ z # 2
    BY <1>2, <1>9, <1>13
  <2>4. \A t \in T2 : t # z => IsBlock(w2, t) /\ After(w2, t) \in T2
    BY <1>7, <1>11, <1>12, <1>13
  <2>5. ASSUME NEW t \in T2, NEW u \in T2, t < u PROVE After(w2, t) <= u
    <3>1. CASE t = z
      BY <1>2, <1>9, <1>13, <2>5, <3>1
    <3>2. CASE t = p
      <4>1. u = z
        BY <1>2, <1>9, <1>13, <2>5, <3>2
      <4> QED BY <1>2, <1>7, <3>2, <4>1
    <3>3. CASE t \in T /\ t # p /\ u = z
      <4>1. After(w2, t) \in Nat /\ After(w2, t) <= p
        BY <1>9, <1>11, <3>3
      <4> QED BY <1>2, <3>3, <4>1
    <3>4. CASE t \in T /\ t # p /\ u \in T
      <4>1. After(w, t) <= u
        BY <1>1, <2>5, <3>4 DEF Tiled
      <4> QED BY <1>11, <3>4, <4>1
    <3> QED BY <1>13, <3>1, <3>2, <3>3, <3>4
  <2>6. 2 \in T2 /\ z \in T2 /\ \A t \in T2 : t % 2 = 0
    BY <1>9, <1>13, <2>2
  <2> QED BY <1>2, <1>3, <1>5, <2>1, <2>3, <2>4, <2>5, <2>6 DEF Tiled
<1>15. FreeOf(w2, T2) = FreeOf(w, T) \cup {p} /\ p \notin FreeOf(w, T)
  <2>1. p \notin FreeOf(w, T)
    BY <1>9 DEF FreeOf
  <2>2. \A t \in T2 : ~w2[t - 1].alloc <=> t \in FreeOf(w, T) \cup {p}
    BY <1>6, <1>10, <1>11, <1>13 DEF FreeOf
  <2>3. FreeOf(w, T) \cup {p} \subseteq T2
    BY <1>9, <1>13 DEF FreeOf
  <2> QED BY <2>1, <2>2, <2>3 DEF FreeOf
<1>16. TakenOf(w2, z, T2) = TakenOf(w, p, T)
  <2>1. \A t \in T2 : (w2[t - 1].alloc /\ t # 2 /\ t # z) <=> t \in TakenOf(w, p, T)
    BY <1>6, <1>10, <1>11, <1>13 DEF TakenOf
  <2>2. TakenOf(w, p, T) \subseteq T2
    BY <1>13 DEF TakenOf
  <2> QED BY <2>1, <2>2 DEF TakenOf
<1>17. BlocksMove(m, T, h, T2, {}, {})
  <2>1. \A t \in TakenOf(w, p, T) : t \in T /\ t # p
    BY DEF TakenOf
  <2>2. Kept(w, p, T, w2, z, T2, {})
    BY <1>11, <1>16, <2>1 DEF Kept
  <2> QED BY <1>a, <1>c, <1>3, <1>16, <2>2 DEF BlocksMove
<1>18. Apart(w2, T2, {p})
  <2>1. ASSUME NEW t \in FreeOf(w2, T2) \ {p}, NEW u \in FreeOf(w2, T2) \ {p} PROVE After(w2, t) # u
    <3>1. t \in FreeOf(w, T) /\ u \in FreeOf(w, T) /\ t \in T /\ t # p
      BY <1>15 DEF FreeOf
    <3>2. After(w2, t) = After(w, t)
      BY <1>11, <3>1
    <3> QED BY <1>1, <3>1, <3>2 DEF Apart
  <2> QED BY <2>1 DEF Apart
<1>19. RoverAt(h, T2)
  <2>1. m.rover # z
    BY <1>1, <1>10 DEF RoverAt
  <2> QED BY <1>1, <1>3, <1>13, <2>1 DEF RoverAt
<1>20. Ordered(h, T2, {p})
  BY <1>c, <1>3, <1>14, <1>18, <1>19 DEF Ordered
<1>21. Grown(m, T, size, h, z)
  BY <1>a, <1>c, <1>3, <1>6, <1>13, <1>15, <1>17, <1>20 DEF Grown
<1> QED BY <1>b, <1>21

\* The blocks are T2 after a free block r.bp of size words or more was got.
Gets(m, T, size, r, T2) ==
  /\ Ordered(r.mem, T2, {}) /\ r.bp \in FreeOf(r.mem.words, T2) /\ BlocksMove(m, T, r.mem, T2, {}, {})
  /\ Size(r.mem.words, r.bp) >= size

\* extend_heap.
LEMMA Extended ==
  ASSUME NEW m, NEW T \in SUBSET Nat, Ordered(m, T, {}), NEW size, Grows(m, size)
  PROVE  \E T2 \in SUBSET Nat : Gets(m, T, size, extend_heap(m, size), T2)
<1>1. m \in Memories /\ Tiled(m.words, m.brk, T) /\ m.brk \in Nat /\ size \in Nat
  BY DEF Ordered, Memories, Grows
<1>2. PICK z \in Nat : z = m.brk + size
  BY <1>1
<1>3. PICK h : h = Longer(m, size)
  OBVIOUS
<1>4. Grown(m, T, size, h, z)
  BY <1>2, <1>3, GrownFacts
<1>5. PICK T1 \in SUBSET Nat : T1 = T \cup {z}
  OBVIOUS
<1>6. PICK p : p = m.brk
  OBVIOUS
<1>7. Ordered(h, T1, {p}) /\ p \in FreeOf(h.words, T1) /\ BlocksMove(m, T, h, T1, {}, {}) /\ Size(h.words, p) = size
  BY <1>4, <1>5, <1>6 DEF Grown
<1>8. PICK c : c = coalesce(h, p)
  OBVIOUS
<1>9. PICK T2 \in SUBSET Nat : Joins(h, T1, p, c, T2)
  BY <1>7, <1>8, Coalesced
<1>10. BlocksMove(m, T, c.mem, T2, {} \cup {}, {} \cup {})
  <2>1. BlocksMove(h, T1, c.mem, T2, {}, {}) /\ {} \cap {} = {}
    BY <1>9 DEF Joins
  <2> QED BY <1>1, <1>7, <2>1, MovesTwice
<1>11. Gets(m, T, size, c, T2)
  <2>1. {} \cup {} = {}
    OBVIOUS
  <2>2. BlocksMove(m, T, c.mem, T2, {}, {})
    BY <1>10, <2>1
  <2> QED BY <1>7, <1>9, <2>2 DEF Gets, Joins
<1>12. extend_heap(m, size) = c
  <2>1. ~Exhausted(m, size)
    BY <1>1, BookAssumption DEF Exhausted, Grows
  <2> QED BY <1>3, <1>6, <1>8, <2>1 DEF extend_heap, Longer
<1> QED BY <1>11, <1>12

-----------------------------------------------------------------------------
(* malloc and free.                                                        *)

\* The blocks are T2 after the block r.bp was taken.
Grants(m, T, asize, r, T2) ==
  /\ Ordered(r.mem, T2, {}) /\ BlocksMove(m, T, r.mem, T2, {}, {r.bp}) /\ r.bp \notin TakenOf(m.words, m.brk, T)
  /\ r.bp \in TakenOf(r.mem.words, r.mem.brk, T2) /\ Size(r.mem.words, r.bp) >= asize

\* A size that mm_malloc asks for.
Even(asize) == asize \in Nat /\ asize % 2 = 0 /\ asize >= 4

\* A free block was got, and place takes it.
LEMMA GotAndPlaced ==
  ASSUME NEW m, NEW T, Ordered(m, T, {}), NEW asize, Even(asize), NEW r, NEW T1 \in SUBSET Nat, Gets(m, T, asize, r, T1)
  PROVE  \E T2 \in SUBSET Nat : Grants(m, T, asize, [mem |-> place(r.mem, r.bp, asize), bp |-> r.bp], T2)
<1>1. PICK m1, p : m1 = r.mem /\ p = r.bp
  OBVIOUS
<1>2. /\ Ordered(m1, T1, {}) /\ p \in FreeOf(m1.words, T1) /\ BlocksMove(m, T, m1, T1, {}, {})
      /\ Size(m1.words, p) >= asize
  BY <1>1 DEF Gets
<1>3. Placeable(m1, T1, p, asize)
  BY <1>2 DEF Placeable, Even
<1>4. PICK m2 : m2 = place(m1, p, asize)
  OBVIOUS
<1>5. PICK T2 \in SUBSET Nat : Takes(m1, T1, p, asize, m2, T2)
  BY <1>3, <1>4, Placed
<1>6. /\ Ordered(m2, T2, {}) /\ BlocksMove(m1, T1, m2, T2, {}, {p})
      /\ p \in TakenOf(m2.words, m2.brk, T2) /\ Size(m2.words, p) >= asize
  BY <1>5 DEF Takes
<1>7. BlocksMove(m, T, m2, T2, {} \cup {}, {} \cup {p})
  <2>1. Tiled(m.words, m.brk, T) /\ {} \cap {} = {}
    BY DEF Ordered
  <2> QED BY <1>2, <1>6, <2>1, MovesTwice
<1>8. BlocksMove(m, T, m2, T2, {}, {p})
  <2>1. {} \cup {} = {} /\ {} \cup {p} = {p}
    OBVIOUS
  <2> QED BY <1>7, <2>1
<1>9. p \notin TakenOf(m.words, m.brk, T)
  <2>1. TakenOf(m1.words, m1.brk, T1) = (TakenOf(m.words, m.brk, T) \ {}) \cup {}
    BY <1>2 DEF BlocksMove
  <2>2. p \notin TakenOf(m1.words, m1.brk, T1)
    BY <1>2 DEF FreeOf, TakenOf
  <2> QED BY <2>1, <2>2
<1>10. PICK c : c = [mem |-> m2, bp |-> p]
  OBVIOUS
<1>11. c.mem = m2 /\ c.bp = p
  BY <1>10
<1>12. Grants(m, T, asize, c, T2)
  BY <1>6, <1>8, <1>9, <1>11 DEF Grants
<1> QED BY <1>1, <1>4, <1>10, <1>12

\* The search, with the rover left at what was found.
Searched(m, found) == [mem |-> IF fit = "next" THEN [m EXCEPT !.rover = found] ELSE m, bp |-> found]

\* A free block that was found.
LEMMA SearchedFacts ==
  ASSUME NEW m, NEW T \in SUBSET Nat, Ordered(m, T, {}), NEW asize, NEW found, found # 0, Finds(m, T, asize, found)
  PROVE  Gets(m, T, asize, Searched(m, found), T)
<1>1. /\ m \in Memories /\ Tiled(m.words, m.brk, T) /\ Apart(m.words, T, {}) /\ RoverAt(m, T)
      /\ found \in FreeOf(m.words, T) /\ Size(m.words, found) >= asize
  BY DEF Ordered, Finds
<1>2. found \in T /\ found # m.brk /\ found \in Nat
  <2>1. found \in T /\ found # m.brk
    BY <1>1, BlockFacts
  <2> QED BY <2>1
<1>3. PICK m2 : m2 = IF fit = "next" THEN [m EXCEPT !.rover = found] ELSE m
  OBVIOUS
<1>4. m2 \in Memories /\ m2.words = m.words /\ m2.brk = m.brk /\ m2.rover = IF fit = "next" THEN found ELSE m.rover
  BY <1>1, <1>2, <1>3 DEF Memories
<1>5. RoverAt(m2, T)
  BY <1>1, <1>2, <1>4 DEF RoverAt
<1>6. Ordered(m2, T, {})
  BY <1>1, <1>4, <1>5 DEF Ordered
<1>7. BlocksMove(m, T, m2, T, {}, {})
  BY <1>4 DEF BlocksMove, Kept
<1>8. Searched(m, found).mem = m2 /\ Searched(m, found).bp = found
  BY <1>3 DEF Searched
<1> QED BY <1>1, <1>4, <1>6, <1>7, <1>8 DEF Gets

\* mm_malloc, of the size it adjusted.
LEMMA Malloced ==
  ASSUME NEW m, NEW T \in SUBSET Nat, Ordered(m, T, {}), NEW asize, Even(asize), mm_malloc_words(m, asize).bp # 0
  PROVE  \E T2 \in SUBSET Nat : Grants(m, T, asize, mm_malloc_words(m, asize), T2)
<1>1. PICK found : found = find_fit(m, asize)
  OBVIOUS
<1>2. PICK size : size = IF asize > CHUNKSIZE THEN asize ELSE CHUNKSIZE
  OBVIOUS
<1>3. PICK from : from = IF found # 0 THEN Searched(m, found) ELSE extend_heap(m, size)
  OBVIOUS
<1>4. PICK r : r = mm_malloc_words(m, asize)
  OBVIOUS
<1>5. r = [from EXCEPT !.mem = IF from.bp = 0 THEN m ELSE place(from.mem, from.bp, asize)]
  BY <1>1, <1>2, <1>3, <1>4 DEF mm_malloc_words, Searched
<1>6. asize \in Nat /\ asize % 2 = 0 /\ asize >= 4 /\ Ordered(m, T, {})
  BY DEF Even
<1>7. size \in Nat /\ size % 2 = 0 /\ size >= 4 /\ size >= asize
  BY <1>2, <1>6, BookAssumption
<1>8. from = [mem |-> from.mem, bp |-> from.bp]
  <2>1. Searched(m, found) = [mem |-> Searched(m, found).mem, bp |-> Searched(m, found).bp]
    BY DEF Searched
  <2>2. extend_heap(m, size) = [mem |-> extend_heap(m, size).mem, bp |-> extend_heap(m, size).bp]
    BY DEF extend_heap, coalesce
  <2> QED BY <1>3, <2>1, <2>2
<1>9. PICK p, m1 : p = from.bp /\ m1 = from.mem
  OBVIOUS
<1>10. r = [mem |-> IF p = 0 THEN m ELSE place(m1, p, asize), bp |-> p]
  BY <1>5, <1>8, <1>9
<1>11. p # 0
  BY <1>4, <1>10
<1>12. \E T1 \in SUBSET Nat : Gets(m, T, asize, from, T1)
  <2>1. CASE found # 0
    <3>1. Finds(m, T, asize, found)
      BY <1>1, <1>6, FoundFit
    <3>2. Gets(m, T, asize, Searched(m, found), T)
      BY <2>1, <3>1, SearchedFacts
    <3> QED BY <1>3, <2>1, <3>2
  <2>2. CASE found = 0
    <3>1. from = extend_heap(m, size)
      BY <1>3, <2>2
    <3>2. ~Exhausted(m, size)
      BY <1>9, <1>11, <3>1 DEF extend_heap
    <3>3. m.brk \in Nat
      BY DEF Ordered, Memories
    <3>4. Grows(m, size)
      BY <1>7, <3>2, <3>3, BookAssumption DEF Exhausted, Grows
    <3>5. PICK T1 \in SUBSET Nat : Gets(m, T, size, from, T1)
      BY <3>1, <3>4, Extended
    <3>6. Size(from.mem.words, from.bp) \in Nat
      <4>1. Tiled(from.mem.words, from.mem.brk, T1) /\ from.bp \in T1
        BY <3>5 DEF Gets, Ordered, FreeOf
      <4> QED BY <4>1, TileFacts
    <3>7. PICK n \in Nat : n = Size(from.mem.words, from.bp)
      BY <3>6
    <3>8. n >= size
      BY <3>5, <3>7 DEF Gets
    <3>9. n >= asize
      BY <1>6, <1>7, <3>8
    <3>10. Gets(m, T, asize, from, T1)
      BY <3>5, <3>7, <3>9 DEF Gets
    <3> QED BY <3>10
  <2> QED BY <2>1, <2>2
<1>13. \E T2 \in SUBSET Nat : Grants(m, T, asize, [mem |-> place(m1, p, asize), bp |-> p], T2)
  BY <1>9, <1>12, GotAndPlaced
<1>14. r = [mem |-> place(m1, p, asize), bp |-> p]
  BY <1>10, <1>11
<1> QED BY <1>4, <1>13, <1>14

\* The blocks are T2 after the block p was freed.
Frees(m, T, p, m2, T2) == Ordered(m2, T2, {}) /\ BlocksMove(m, T, m2, T2, {p}, {})

\* mm_free.
LEMMA Freed ==
  ASSUME NEW m, NEW T \in SUBSET Nat, Ordered(m, T, {}), NEW p \in TakenOf(m.words, m.brk, T)
  PROVE  \E T2 \in SUBSET Nat : Frees(m, T, p, mm_free_block(m, p), T2)
<1>1. /\ m \in Memories /\ Tiled(m.words, m.brk, T) /\ Apart(m.words, T, {}) /\ RoverAt(m, T)
  BY DEF Ordered
<1>2. p \in T /\ p # m.brk /\ p # 2 /\ m.words[p - 1].alloc
  BY <1>1, BlockFacts
<1>3. PICK m1 : m1 = PutTags(m, p, Size(m.words, p), FALSE)
  OBVIOUS
<1>4. Retagged(m, T, p, FALSE, m1)
  BY <1>1, <1>2, <1>3, Retag
<1>5. /\ m1 \in Memories /\ m1.brk = m.brk /\ m1.rover = m.rover /\ Tiled(m1.words, m.brk, T)
      /\ m1.words[p - 1].alloc = FALSE
      /\ TakenOf(m1.words, m.brk, T) \ {p} = TakenOf(m.words, m.brk, T) \ {p}
      /\ Kept(m.words, m.brk, T, m1.words, m.brk, T, {p})
      /\ (Apart(m.words, T, {}) => Apart(m1.words, T, {p}))
  BY <1>4 DEF Retagged
<1>6. p \in FreeOf(m1.words, T) /\ p \notin TakenOf(m1.words, m.brk, T)
  BY <1>2, <1>5 DEF FreeOf, TakenOf
<1>7. BlocksMove(m, T, m1, T, {p}, {})
  BY <1>5, <1>6 DEF BlocksMove
<1>8. Ordered(m1, T, {p})
  <2>1. RoverAt(m1, T)
    BY <1>1, <1>5 DEF RoverAt
  <2> QED BY <1>1, <1>5, <2>1 DEF Ordered
<1>9. PICK c : c = coalesce(m1, p)
  OBVIOUS
<1>10. PICK T2 \in SUBSET Nat : Joins(m1, T, p, c, T2)
  BY <1>6, <1>8, <1>9, Coalesced
<1>11. BlocksMove(m, T, c.mem, T2, {p} \cup {}, {} \cup {})
  <2>1. BlocksMove(m1, T, c.mem, T2, {}, {}) /\ {} \cap {} = {}
    BY <1>10 DEF Joins
  <2> QED BY <1>1, <1>7, <2>1, MovesTwice
<1>12. BlocksMove(m, T, c.mem, T2, {p}, {})
  <2>1. {p} \cup {} = {p} /\ {} \cup {} = {}
    OBVIOUS
  <2> QED BY <1>11, <2>1
<1>13. mm_free_block(m, p) = c.mem
  BY <1>3, <1>9 DEF mm_free_block, GET_SIZE, HDRP, Size
<1>14. Frees(m, T, p, c.mem, T2)
  BY <1>10, <1>12 DEF Joins, Frees
<1> QED BY <1>13, <1>14

-----------------------------------------------------------------------------
(* Words that are not tags.                                                *)

\* The blocks of m2 have the tags of m.
TagsKept(m, T, m2) ==
  /\ m2 \in Memories /\ m2.brk = m.brk /\ m2.rover = m.rover
  /\ \A t \in T : /\ m2.words[t - 1] = m.words[t - 1]
                  /\ t # m.brk => m2.words[t + Size(m.words, t) - 2] = m.words[t + Size(m.words, t) - 2]

\* The blocks are the same.
SameBlocks(m, T, m2) ==
  /\ Ordered(m2, T, {}) /\ FreeOf(m2.words, T) = FreeOf(m.words, T)
  /\ TakenOf(m2.words, m2.brk, T) = TakenOf(m.words, m.brk, T)
  /\ \A t \in T : Size(m2.words, t) = Size(m.words, t)

\* They are what the tags say.
LEMMA Retained ==
  ASSUME NEW m, NEW T, Ordered(m, T, {}), NEW m2, TagsKept(m, T, m2)
  PROVE  SameBlocks(m, T, m2)
<1>a. PICK w, e, w2 : w = m.words /\ e = m.brk /\ w2 = m2.words
  OBVIOUS
<1>1. Tiled(w, e, T) /\ Apart(w, T, {}) /\ RoverAt(m, T)
  BY <1>a DEF Ordered
<1>2. /\ m2 \in Memories /\ m2.brk = e /\ m2.rover = m.rover
      /\ \A t \in T : w2[t - 1] = w[t - 1] /\ (t # e => w2[t + Size(w, t) - 2] = w[t + Size(w, t) - 2])
  BY <1>a DEF TagsKept
<1>3. \A t \in T : Size(w2, t) = Size(w, t) /\ After(w2, t) = After(w, t)
  BY <1>2 DEF Size, After
<1>4. Tiled(w2, e, T)
  <2>1. w2 \in [Addresses -> WordKinds]
    BY <1>a, <1>2 DEF Memories
  <2>2. w2[1] = PACK(2, TRUE) /\ w2[e - 1] = PACK(0, TRUE)
    <3>1. 2 \in T /\ e \in T /\ w[1] = PACK(2, TRUE) /\ w[e - 1] = PACK(0, TRUE)
      BY <1>1 DEF Tiled
    <3>2. 2 - 1 = 1
      OBVIOUS
    <3>3. w2[2 - 1] = w[2 - 1] /\ w2[e - 1] = w[e - 1]
      BY <1>2, <3>1
    <3>4. w2[1] = w[1]
      BY Zenon, <3>2, <3>3
    <3> QED BY <3>1, <3>3, <3>4
  <2>3. \A t \in T : t # e => IsBlock(w2, t) /\ After(w2, t) \in T
    <3>1. \A t \in T : t # e => IsBlock(w, t) /\ After(w, t) \in T
      BY <1>1 DEF Tiled
    <3> QED BY <1>2, <1>3, <3>1 DEF IsBlock
  <2>4. \A t, u \in T : t < u => After(w2, t) <= u
    BY <1>1, <1>3 DEF Tiled
  <2> QED BY <1>1, <2>1, <2>2, <2>3, <2>4 DEF Tiled
<1>5. FreeOf(w2, T) = FreeOf(w, T) /\ TakenOf(w2, e, T) = TakenOf(w, e, T)
  BY <1>2 DEF FreeOf, TakenOf
<1>6. Apart(w2, T, {})
  <2>1. \A t \in FreeOf(w, T) : After(w2, t) = After(w, t)
    BY <1>3 DEF FreeOf
  <2> QED BY <1>1, <1>5, <2>1 DEF Apart
<1>7. RoverAt(m2, T)
  BY <1>a, <1>1, <1>2 DEF RoverAt
<1>8. Ordered(m2, T, {})
  BY <1>a, <1>2, <1>4, <1>6, <1>7 DEF Ordered
<1> QED BY <1>a, <1>2, <1>3, <1>5, <1>8 DEF SameBlocks

\* Only what is inside the block p may differ.
Payload(m, p, m2) ==
  /\ m2 \in Memories /\ m2.brk = m.brk /\ m2.rover = m.rover
  /\ \A k \in Addresses : k \notin p .. p + Size(m.words, p) - 3 => m2.words[k] = m.words[k]

\* The blocks are the same, and p is the only one that was written to.
ClientWritesWords(m, T, p, m2) == SameBlocks(m, T, m2) /\ BlocksMove(m, T, m2, T, {p}, {p})

\* Writing inside a taken block.
LEMMA Written ==
  ASSUME NEW m, NEW T, Ordered(m, T, {}), NEW p \in TakenOf(m.words, m.brk, T), NEW m2, Payload(m, p, m2)
  PROVE  ClientWritesWords(m, T, p, m2)
<1>a. PICK w, e, w2 : w = m.words /\ e = m.brk /\ w2 = m2.words
  OBVIOUS
<1>1. Tiled(w, e, T) /\ p \in TakenOf(w, e, T)
  BY <1>a DEF Ordered
<1>2. p \in T /\ p # e /\ p # 2
  BY <1>1, BlockFacts
<1>3. PICK n \in Nat : n = Size(w, p) /\ n >= 2 /\ p + n \in T /\ p \in Nat
  BY <1>1, <1>2, TileFacts
<1>4. PICK z \in T : z = p + n /\ z = After(w, p) /\ p < z
  BY <1>3 DEF After
<1>5. \A k \in Addresses : k \notin p .. p + n - 3 => w2[k] = w[k]
  BY <1>a, <1>3 DEF Payload
<1>6. m2 \in Memories /\ m2.brk = e /\ m2.rover = m.rover /\ w2 \in [Addresses -> WordKinds]
  BY <1>a DEF Payload, Memories
<1>7. Same(w, w2, p, z)
  <2>1. \A k \in Addresses : k \notin p - 1 .. z - 2 => k \notin p .. p + n - 3
    BY <1>3, <1>4 DEF Addresses
  <2> QED BY <1>5, <1>6, <2>1 DEF Same
<1>8. \A t \in T : t # p => t \notin p .. z - 1
  BY <1>1, <1>2, <1>4, Alone
<1>9. ASSUME NEW t \in T, t # p
      PROVE  /\ w2[t - 1] = w[t - 1] /\ (t # e => w2[t + Size(w, t) - 2] = w[t + Size(w, t) - 2])
             /\ t # e => \A k \in t - 1 .. t + Size(w, t) - 2 : w2[k] = w[k]
  BY <1>1, <1>2, <1>4, <1>7, <1>8, <1>9, Outside
<1>10. w2[p - 1] = w[p - 1] /\ w2[p + n - 2] = w[p + n - 2]
  <2>1. p - 1 \in Addresses /\ p + n - 2 \in Addresses
    BY <1>1, <1>2, <1>3, TileFacts
  <2>2. p - 1 \notin p .. p + n - 3 /\ p + n - 2 \notin p .. p + n - 3
    BY <1>3
  <2> QED BY <1>5, <2>1, <2>2
<1>11. TagsKept(m, T, m2)
  BY <1>a, <1>3, <1>6, <1>9, <1>10 DEF TagsKept
<1>12. SameBlocks(m, T, m2)
  BY <1>11, Retained
<1>13. BlocksMove(m, T, m2, T, {p}, {p})
  <2>1. TakenOf(w2, e, T) = TakenOf(w, e, T)
    BY <1>a, <1>6, <1>12 DEF SameBlocks
  <2>2. \A t \in TakenOf(w, e, T) : t \in T /\ t # e
    BY <1>1, BlockFacts
  <2>3. Kept(w, e, T, w2, e, T, {p})
    BY <1>9, <2>1, <2>2 DEF Kept
  <2> QED BY <1>a, <1>1, <1>6, <2>1, <2>3 DEF BlocksMove
<1> QED BY <1>12, <1>13 DEF ClientWritesWords

\* The memory with other words.
LEMMA SetWords ==
  ASSUME NEW m \in Memories, NEW w2 \in [Addresses -> WordKinds]
  PROVE  LET m2 == [m EXCEPT !.words = w2]
         IN  m2 \in Memories /\ m2.words = w2 /\ m2.brk = m.brk /\ m2.rover = m.rover
BY DEF Memories

\* The client's words.
LEMMA WordsFacts == Unused \in WordKinds /\ \A i \in BlockNames : Word(i) \in WordKinds
BY DEF Unused, Word, WordKinds

\* memcpy of n words into the block p.
CopyMoves(m, p, from, n) ==
  from \in Nat /\ n \in Nat /\ n <= Size(m.words, p) - 2 /\ from + n <= MAX_HEAP

\* The block holds what was copied.
Copied(m, T, p, from, n, m2) ==
  ClientWritesWords(m, T, p, m2) /\ \A k \in p .. p + n - 1 : m2.words[k] = m.words[k - p + from]

\* What memcpy writes.
LEMMA CopyFacts ==
  ASSUME NEW m, NEW T, Ordered(m, T, {}), NEW p \in TakenOf(m.words, m.brk, T), NEW from, NEW n, CopyMoves(m, p, from, n)
  PROVE  Copied(m, T, p, from, n, CopyWords(m, from, p, n))
<1>a. PICK w : w = m.words
  OBVIOUS
<1>1. m \in Memories /\ w \in [Addresses -> WordKinds] /\ Tiled(w, m.brk, T)
  BY <1>a DEF Ordered, Memories
<1>2. p \in T /\ p # m.brk
  BY <1>a, <1>1, BlockFacts
<1>3. PICK s \in Nat : s = Size(w, p) /\ p + s - 2 \in Addresses /\ p \in Nat
  BY <1>1, <1>2, TileFacts
<1>4. from \in Nat /\ n \in Nat /\ n <= s - 2 /\ from + n <= MAX_HEAP /\ MAX_HEAP \in Nat
  BY <1>a, <1>3, BookAssumption DEF CopyMoves
<1>5. PICK w2 : w2 = [k \in Addresses |-> IF k \in p .. p + n - 1 THEN w[k - p + from] ELSE w[k]]
  OBVIOUS
<1>6. \A k \in p .. p + n - 1 : k \in Addresses /\ k - p + from \in Addresses /\ k \in p .. p + s - 3
  <2>1. p + s - 2 <= MAX_HEAP - 1
    BY <1>3, <1>4 DEF Addresses
  <2> QED BY <1>3, <1>4, <2>1 DEF Addresses
<1>7. w2 \in [Addresses -> WordKinds]
  BY <1>1, <1>5, <1>6
<1>8. PICK m2 : m2 = [m EXCEPT !.words = w2]
  OBVIOUS
<1>9. m2 \in Memories /\ m2.words = w2 /\ m2.brk = m.brk /\ m2.rover = m.rover
  BY <1>1, <1>7, <1>8, SetWords
<1>10. CopyWords(m, from, p, n) = m2
  <2>1. DOMAIN w = Addresses
    BY <1>1
  <2> QED BY <1>a, <1>1, <1>5, <1>8, <2>1 DEF CopyWords, Memories
<1>11. Payload(m, p, m2)
  <2>1. \A k \in Addresses : k \notin p .. p + s - 3 => w2[k] = w[k]
    BY <1>5, <1>6
  <2> QED BY <1>a, <1>3, <1>9, <2>1 DEF Payload
<1>12. ClientWritesWords(m, T, p, m2)
  BY <1>11, Written
<1>13. \A k \in p .. p + n - 1 : w2[k] = w[k - p + from]
  BY <1>5, <1>6
<1> QED BY <1>a, <1>9, <1>10, <1>12, <1>13 DEF Copied

\* Words inside the block p.
Within(m, p, from, to) == from \in Nat /\ to \in Int /\ from >= p /\ to <= p + Size(m.words, p) - 3

\* The client wrote them.
FilledBlock(m, T, p, i, from, to, m2) ==
  /\ ClientWritesWords(m, T, p, m2)
  /\ \A k \in Addresses : m2.words[k] = IF k \in from .. to THEN Word(i) ELSE m.words[k]

\* What the client writes.
LEMMA FillFacts ==
  ASSUME NEW m, NEW T, Ordered(m, T, {}), NEW p \in TakenOf(m.words, m.brk, T), NEW i \in BlockNames,
         NEW from, NEW to, Within(m, p, from, to)
  PROVE  FilledBlock(m, T, p, i, from, to, ClientWrites(m, i, from, to))
<1>a. PICK w : w = m.words
  OBVIOUS
<1>1. m \in Memories /\ w \in [Addresses -> WordKinds] /\ Tiled(w, m.brk, T)
  BY <1>a DEF Ordered, Memories
<1>2. p \in T /\ p # m.brk
  BY <1>a, <1>1, BlockFacts
<1>3. PICK s \in Nat : s = Size(w, p) /\ p \in Nat
  BY <1>1, <1>2, TileFacts
<1>4. from \in Nat /\ to \in Int /\ from >= p /\ to <= p + s - 3
  BY <1>a, <1>3 DEF Within
<1>5. PICK d \in WordKinds : d = Word(i)
  BY WordsFacts
<1>6. PICK w2 : w2 = [k \in Addresses |-> IF k \in from .. to THEN d ELSE w[k]]
  OBVIOUS
<1>7. w2 \in [Addresses -> WordKinds]
  BY <1>1, <1>6
<1>8. PICK m2 : m2 = [m EXCEPT !.words = w2]
  OBVIOUS
<1>9. m2 \in Memories /\ m2.words = w2 /\ m2.brk = m.brk /\ m2.rover = m.rover
  BY <1>1, <1>7, <1>8, SetWords
<1>10. ClientWrites(m, i, from, to) = m2
  <2>1. DOMAIN w = Addresses
    BY <1>1
  <2> QED BY <1>a, <1>1, <1>5, <1>6, <1>8, <2>1 DEF ClientWrites, Memories
<1>11. Payload(m, p, m2)
  <2>1. \A k \in Int : k \in from .. to => k \in p .. p + s - 3
    BY <1>3, <1>4
  <2>2. \A k \in Addresses : k \in Int
    BY DEF Addresses
  <2>3. \A k \in Addresses : k \notin p .. p + s - 3 => w2[k] = w[k]
    BY <1>6, <2>1, <2>2
  <2> QED BY <1>a, <1>3, <1>9, <2>3 DEF Payload
<1>12. ClientWritesWords(m, T, p, m2)
  BY <1>11, Written
<1>13. \A k \in Addresses : w2[k] = IF k \in from .. to THEN Word(i) ELSE w[k]
  BY <1>5, <1>6
<1> QED BY <1>a, <1>9, <1>10, <1>12, <1>13 DEF FilledBlock

-----------------------------------------------------------------------------
(* What the client holds.                                                  *)

\* In m2 the name i holds b instead of what it holds in m.
Rehold(m, T, m2, T2, h, i, b) ==
  /\ b \in [bp : Nat, words : Nat] /\ Mine(m2.words, b, i)
  /\ BlocksMove(m, T, m2, T2, {h[i].bp} \ {0}, {b.bp} \ {0})
  /\ b.bp \notin TakenOf(m.words, m.brk, T)

\* Each name still has its block when one name changes.
LEMMA HeldAfter ==
  ASSUME NEW m, NEW T, Tiled(m.words, m.brk, T), NEW h, ClientHolds(m, T, h), NEW i \in BlockNames,
         NEW m2, NEW T2, NEW b, Rehold(m, T, m2, T2, h, i, b)
  PROVE  ClientHolds(m2, T2, [h EXCEPT ![i] = b])
<1>a. PICK w, w2, p, q : w = m.words /\ w2 = m2.words /\ p = h[i].bp /\ q = b.bp
  OBVIOUS
<1>b. PICK U, U2 : U = TakenOf(m.words, m.brk, T) /\ U2 = TakenOf(m2.words, m2.brk, T2)
  OBVIOUS
<1>1. PICK g : g = [h EXCEPT ![i] = b]
  OBVIOUS
<1>2. h \in [BlockNames -> [bp : Nat, words : Nat]] /\ b \in [bp : Nat, words : Nat]
  BY DEF ClientHolds, Rehold
<1>3. g \in [BlockNames -> [bp : Nat, words : Nat]] /\ g[i] = b /\ \A j \in BlockNames : j # i => g[j] = h[j]
  BY <1>1, <1>2
<1>4. /\ U = {h[j].bp : j \in BlockNames} \ {0}
      /\ \A j, k \in BlockNames : j # k /\ h[j].bp = h[k].bp => h[j].bp = 0
  BY <1>b DEF ClientHolds
<1>5. U2 = (U \ ({p} \ {0})) \cup ({q} \ {0}) /\ q \notin U
  BY <1>a, <1>b DEF Rehold, BlocksMove
<1>6. \A j \in BlockNames : j # i /\ h[j].bp # 0 => h[j].bp \in U /\ h[j].bp # p /\ h[j].bp # q
  BY <1>a, <1>4, <1>5
<1>7. U2 = {g[j].bp : j \in BlockNames} \ {0}
  <2>1. ASSUME NEW t \in U2 PROVE t \in {g[j].bp : j \in BlockNames} \ {0}
    <3>1. CASE t \in U /\ t # p
      <4>1. PICK j \in BlockNames : t = h[j].bp /\ t # 0
        BY <1>4, <3>1
      <4>2. j # i
        BY <1>a, <3>1, <4>1
      <4> QED BY <1>3, <4>1, <4>2
    <3>2. CASE t = q /\ t # 0
      BY <1>a, <1>3, <3>2
    <3>3. 0 \notin U
      BY <1>4
    <3> QED BY <1>5, <2>1, <3>1, <3>2, <3>3
  <2>2. ASSUME NEW j \in BlockNames, g[j].bp # 0 PROVE g[j].bp \in U2
    <3>1. CASE j = i
      BY <1>a, <1>3, <1>5, <2>2, <3>1
    <3>2. CASE j # i
      BY <1>3, <1>5, <1>6, <2>2, <3>2
    <3> QED BY <3>1, <3>2
  <2> QED BY <2>1, <2>2
<1>8. ASSUME NEW j \in BlockNames, NEW k \in BlockNames, j # k, g[j].bp = g[k].bp PROVE g[j].bp = 0
  <2>1. CASE j = i
    BY <1>a, <1>3, <1>6, <1>8, <2>1
  <2>2. CASE k = i
    BY <1>a, <1>3, <1>6, <1>8, <2>2
  <2>3. CASE j # i /\ k # i
    BY <1>3, <1>4, <1>8, <2>3
  <2> QED BY <2>1, <2>2, <2>3
<1>9. ASSUME NEW j \in BlockNames PROVE Mine(w2, g[j], j)
  <2>1. CASE j = i
    BY <1>a, <1>3, <2>1 DEF Rehold
  <2>2. CASE j # i
    <3>1. PICK t \in Nat, n \in Nat : t = h[j].bp /\ n = h[j].words
      BY <1>2
    <3>2. (t = 0 => n = 0) /\ (t # 0 => n <= Size(w, t) - 2) /\ \A k \in t .. t + n - 1 : w[k] = Word(j)
      BY <1>a, <3>1 DEF ClientHolds, Mine
    <3>3. g[j].bp = t /\ g[j].words = n
      BY <1>3, <2>2, <3>1
    <3>4. CASE t = 0
      <4>1. t .. t + n - 1 = {}
        BY <3>2, <3>4
      <4> QED BY <3>2, <3>3, <3>4, <4>1 DEF Mine
    <3>5. CASE t # 0
      <4>1. t \in U /\ t \notin {p} \ {0}
        BY <1>6, <2>2, <3>1, <3>5
      <4>2. \A k \in t - 1 .. t + Size(w, t) - 2 : w2[k] = w[k]
        BY <1>a, <1>b, <4>1 DEF Rehold, BlocksMove, Kept
      <4>3. PICK s \in Nat : s = Size(w, t)
        <5>1. t \in T
          BY <1>b, <4>1 DEF TakenOf
        <5> QED BY <1>a, <5>1, TileFacts
      <4>4. n <= s - 2 /\ t - 1 \in t - 1 .. t + s - 2 /\ \A k \in t .. t + n - 1 : k \in t - 1 .. t + s - 2
        BY <3>2, <3>5, <4>3
      <4>5. Size(w2, t) = s
        BY <4>2, <4>3, <4>4 DEF Size
      <4>6. \A k \in t .. t + n - 1 : w2[k] = Word(j)
        BY <3>2, <4>2, <4>3, <4>4
      <4> QED BY <3>3, <3>5, <4>4, <4>5, <4>6 DEF Mine
    <3> QED BY <3>4, <3>5
  <2> QED BY <2>1, <2>2
<1>10. ClientHolds(m2, T2, g)
  BY <1>a, <1>b, <1>3, <1>7, <1>8, <1>9 DEF ClientHolds
<1> QED BY <1>1, <1>10

\* The block b that i holds is taken, with room for its words.
Owns(m, T, i, b) ==
  \E p \in TakenOf(m.words, m.brk, T), n \in Nat, s \in Nat :
    /\ b = [bp |-> p, words |-> n] /\ p \in Nat /\ p >= 4 /\ p % 2 = 0 /\ p # 0 /\ p \in T
    /\ s = Size(m.words, p) /\ n <= s - 2 /\ p + s <= MAX_HEAP
    /\ \A k \in p .. p + n - 1 : m.words[k] = Word(i)

\* It is so for each block that is held.
LEMMA HeldBlock ==
  ASSUME NEW m, NEW T, Tiled(m.words, m.brk, T), NEW h, ClientHolds(m, T, h), NEW i \in BlockNames, h[i] # NoBlock
  PROVE  Owns(m, T, i, h[i])
<1>1. h[i] \in [bp : Nat, words : Nat] /\ Mine(m.words, h[i], i)
  BY DEF ClientHolds
<1>2. PICK p \in Nat, n \in Nat : p = h[i].bp /\ n = h[i].words /\ h[i] = [bp |-> p, words |-> n]
  BY <1>1
<1>3. p # 0
  BY <1>1, <1>2 DEF Mine, NoBlock
<1>4. p \in TakenOf(m.words, m.brk, T)
  BY <1>2, <1>3 DEF ClientHolds
<1>5. p \in T /\ p # m.brk /\ p # 2
  BY <1>4, BlockFacts
<1>6. p >= 2 /\ p % 2 = 0
  <2>1. p >= 2
    BY <1>5, TileFacts
  <2> QED BY <1>5, <2>1 DEF Tiled
<1>7. p >= 4
  BY <1>5, <1>6
<1>8. PICK s \in Nat, e \in Nat : s = Size(m.words, p) /\ e = m.brk /\ p + s <= e /\ e <= MAX_HEAP
  BY <1>5, TileFacts
<1>9. n <= s - 2 /\ \A k \in p .. p + n - 1 : m.words[k] = Word(i)
  BY <1>1, <1>2, <1>3, <1>8 DEF Mine
<1>10. p + s <= MAX_HEAP
  BY <1>8, BookAssumption
<1> QED BY <1>2, <1>3, <1>4, <1>5, <1>6, <1>7, <1>8, <1>9, <1>10 DEF Owns

\* A call leaves the tags and what was asked for.
LEMMA LeftBlocks ==
  ASSUME NEW m, NEW T \in SUBSET Nat, Ordered(m, T, {}), NEW h, ClientHolds(m, T, h), Leaves(m, h)
  PROVE  BInvOn(T)'
<1>a. PICK w, e, w2 : w = m.words /\ e = m.brk /\ w2 = words'
  OBVIOUS
<1>1. m \in Memories /\ Tiled(w, e, T) /\ w \in [Addresses -> WordKinds] /\ e \in Nat /\ m.rover \in Nat
  BY <1>a DEF Ordered, Memories
<1>2. PICK asked : asked = UNION {h[i].bp .. h[i].bp + h[i].words - 1 : i \in BlockNames}
  OBVIOUS
<1>3. PICK tags : tags = (UNION {{HDRP(b), FOOT(m, b)} : b \in Walk(m, heap_listp)}) \cup {HDRP(m.brk)}
  OBVIOUS
<1>4. w2 = [k \in Addresses |-> IF k \in asked \cup tags THEN w[k] ELSE Unused]
  <2>1. DOMAIN w = Addresses
    BY <1>1
  <2> QED BY <1>a, <1>2, <1>3, <2>1 DEF Leaves
<1>5. brk' = e /\ rover' = m.rover /\ held' = h /\ fit' = fit
  BY <1>a DEF Leaves
<1>6. \A t \in T : t - 1 \in tags /\ (t # e => t + Size(w, t) - 2 \in tags)
  <2>1. Walk(m, heap_listp) = T \ {e}
    BY <1>a, <1>1, WalkAll
  <2>2. \A t : HDRP(t) = t - 1 /\ FOOT(m, t) = t + Size(w, t) - 2
    BY <1>a DEF HDRP, FOOT, GET_SIZE, Size
  <2>3. tags = (UNION {{HDRP(b), FOOT(m, b)} : b \in T \ {e}}) \cup {e - 1}
    BY <1>a, <1>3, <2>1, <2>2
  <2>4. ASSUME NEW t \in T, t # e PROVE t - 1 \in tags /\ t + Size(w, t) - 2 \in tags
    <3>1. t \in T \ {e}
      BY <2>4
    <3>2. {HDRP(t), FOOT(m, t)} \in {{HDRP(b), FOOT(m, b)} : b \in T \ {e}}
      BY <3>1
    <3>3. HDRP(t) \in tags /\ FOOT(m, t) \in tags
      BY <2>3, <3>2
    <3> QED BY <2>2, <3>3
  <2>5. e - 1 \in tags
    <3>1. HDRP(m.brk) \in tags
      BY Zenon, <1>3
    <3>2. HDRP(m.brk) = e - 1
      BY <1>a DEF HDRP
    <3> QED BY <3>1, <3>2
  <2> QED BY <2>4, <2>5
<1>7. w2 \in [Addresses -> WordKinds]
  BY <1>1, <1>4, WordsFacts
<1>8. PICK m2 : m2 = [words |-> w2, brk |-> e, rover |-> m.rover]
  OBVIOUS
<1>9. m2 \in Memories /\ m2.words = w2 /\ m2.brk = m.brk /\ m2.rover = m.rover
  BY <1>a, <1>1, <1>7, <1>8 DEF Memories
<1>10. TagsKept(m, T, m2)
  <2>1. \A t \in T : t - 1 \in Addresses /\ (t # e => t + Size(w, t) - 2 \in Addresses)
    BY <1>1, TileFacts
  <2>2. \A t \in T : w2[t - 1] = w[t - 1] /\ (t # e => w2[t + Size(w, t) - 2] = w[t + Size(w, t) - 2])
    BY <1>4, <1>6, <2>1
  <2> QED BY <1>a, <1>9, <2>2 DEF TagsKept
<1>11. SameBlocks(m, T, m2)
  BY <1>10, Retained
<1>12. ASSUME NEW i \in BlockNames PROVE Mine(w2, h[i], i)
  <2>1. CASE h[i] = NoBlock
    <3>1. h[i].bp = 0 /\ h[i].words = 0
      BY <2>1 DEF NoBlock
    <3>2. 0 .. 0 + 0 - 1 = {}
      OBVIOUS
    <3> QED BY <3>1, <3>2 DEF Mine
  <2>2. CASE h[i] # NoBlock
    <3>1. PICK p \in TakenOf(m.words, m.brk, T), n \in Nat, s \in Nat :
            /\ h[i] = [bp |-> p, words |-> n] /\ p \in Nat /\ p >= 4 /\ p % 2 = 0 /\ p # 0 /\ p \in T
            /\ s = Size(m.words, p) /\ n <= s - 2 /\ p + s <= MAX_HEAP
            /\ \A k \in p .. p + n - 1 : m.words[k] = Word(i)
      <4>1. Owns(m, T, i, h[i])
        BY <1>a, <1>1, <2>2, HeldBlock
      <4> QED BY <4>1 DEF Owns
    <3>2. h[i].bp = p /\ h[i].words = n
      BY <3>1
    <3>3. \A k \in p .. p + n - 1 : k \in Addresses
      BY <3>1, BookAssumption DEF Addresses
    <3>4. \A k \in p .. p + n - 1 : k \in asked
      BY <1>2, <3>2
    <3>5. \A k \in p .. p + n - 1 : w2[k] = Word(i)
      BY <1>a, <1>4, <3>1, <3>3, <3>4
    <3>6. Size(w2, p) = s
      BY <1>a, <1>9, <1>11, <3>1 DEF SameBlocks
    <3> QED BY <3>1, <3>2, <3>5, <3>6 DEF Mine
  <2> QED BY <2>1, <2>2
<1>13. ClientHolds(m2, T, h)
  <2>1. TakenOf(w2, m2.brk, T) = TakenOf(w, e, T)
    BY <1>a, <1>9, <1>11 DEF SameBlocks
  <2> QED BY <1>a, <1>9, <1>12, <2>1 DEF ClientHolds
<1>14. Memory' = m2
  BY <1>a, <1>5, <1>8 DEF Memory
<1>15. Ordered(Memory, T, {})'
  <2>1. Ordered(m2, T, {})
    BY <1>11 DEF SameBlocks
  <2>2. m2 \in Memories /\ Tiled(m2.words, m2.brk, T) /\ Apart(m2.words, T, {}) /\ RoverAt(m2, T)
    BY <2>1 DEF Ordered
  <2>3. RoverAt(m2, T)'
    BY <1>5, <2>2 DEF RoverAt
  <2> QED BY <1>14, <2>2, <2>3 DEF Ordered, RoverAt
<1>16. ClientHolds(Memory, T, held)'
  BY <1>5, <1>13, <1>14
<1> QED BY <1>15, <1>16 DEF BInvOn

-----------------------------------------------------------------------------
(* The calls.                                                              *)

\* The taken blocks when a block was got, and then written to.
LEMMA MovesInto ==
  ASSUME NEW m, NEW T, NEW m2, NEW T2, NEW m3, NEW T3, NEW P, NEW q,
         Tiled(m.words, m.brk, T), BlocksMove(m, T, m2, T2, P, {q}), BlocksMove(m2, T2, m3, T3, {q}, {q}),
         q \notin TakenOf(m.words, m.brk, T) \ P
  PROVE  BlocksMove(m, T, m3, T3, P, {q})
<1>1. /\ TakenOf(m2.words, m2.brk, T2) = (TakenOf(m.words, m.brk, T) \ P) \cup {q}
      /\ Kept(m.words, m.brk, T, m2.words, m2.brk, T2, P)
  BY DEF BlocksMove
<1>2. /\ TakenOf(m3.words, m3.brk, T3) = (TakenOf(m2.words, m2.brk, T2) \ {q}) \cup {q}
      /\ Kept(m2.words, m2.brk, T2, m3.words, m3.brk, T3, {q})
  BY DEF BlocksMove
<1>3. TakenOf(m3.words, m3.brk, T3) = (TakenOf(m.words, m.brk, T) \ P) \cup {q}
  BY <1>1, <1>2
<1>4. Kept(m.words, m.brk, T, m3.words, m3.brk, T3, P \cup {q})
  BY <1>1, <1>2, KeptTrans
<1>5. TakenOf(m.words, m.brk, T) \ (P \cup {q}) = TakenOf(m.words, m.brk, T) \ P
  OBVIOUS
<1>6. Kept(m.words, m.brk, T, m3.words, m3.brk, T3, P)
  BY <1>4, <1>5 DEF Kept
<1> QED BY <1>3, <1>6 DEF BlocksMove

\* The block t of m is in m2 what it was.
StaysTaken(m, t, m2, T2) ==
  /\ t \in TakenOf(m2.words, m2.brk, T2) /\ Size(m2.words, t) = Size(m.words, t)
  /\ \A k \in t .. t + Size(m.words, t) - 3 : m2.words[k] = m.words[k]

\* A block that is kept.
LEMMA KeptFacts ==
  ASSUME NEW m, NEW T, NEW m2, NEW T2, NEW P, NEW Q, Tiled(m.words, m.brk, T), BlocksMove(m, T, m2, T2, P, Q),
         NEW t \in TakenOf(m.words, m.brk, T), t \notin P
  PROVE  StaysTaken(m, t, m2, T2)
<1>1. PICK w, w2 : w = m.words /\ w2 = m2.words
  OBVIOUS
<1>2. t \in TakenOf(m2.words, m2.brk, T2) /\ \A k \in t - 1 .. t + Size(w, t) - 2 : w2[k] = w[k]
  BY <1>1 DEF BlocksMove, Kept
<1>3. PICK n \in Nat : n = Size(w, t) /\ n >= 2 /\ t \in Nat
  <2>1. t \in T /\ t # m.brk
    BY BlockFacts
  <2> QED BY <1>1, <2>1, TileFacts
<1>4. t - 1 \in t - 1 .. t + n - 2 /\ \A k \in t .. t + n - 3 : k \in t - 1 .. t + n - 2
  BY <1>3
<1>5. w2[t - 1] = w[t - 1] /\ \A k \in t .. t + n - 3 : w2[k] = w[k]
  BY <1>2, <1>3, <1>4
<1> QED BY <1>1, <1>2, <1>3, <1>5 DEF StaysTaken, Size

\* The client has filled the block q.
OwnedBlocks(m, T, q, i, n, m2) ==
  Ordered(m2, T, {}) /\ BlocksMove(m, T, m2, T, {q}, {q}) /\ Mine(m2.words, [bp |-> q, words |-> n], i)

\* The words of i in a block of n words: w there, the others to be written.
Begun(m, q, i, w, n) ==
  /\ w \in Nat /\ n \in Nat /\ n <= Size(m.words, q) - 2
  /\ \A k \in q .. q + n - 1 : k < q + w => m.words[k] = Word(i)

\* What it writes completes them.
LEMMA Completed ==
  ASSUME NEW m, NEW T, Ordered(m, T, {}), NEW q \in TakenOf(m.words, m.brk, T), NEW i \in BlockNames,
         NEW w, NEW n, Begun(m, q, i, w, n)
  PROVE  OwnedBlocks(m, T, q, i, n, ClientWrites(m, i, q + w, q + n - 1))
<1>1. Tiled(m.words, m.brk, T)
  BY DEF Ordered
<1>2. q \in T /\ q # m.brk
  BY <1>1, BlockFacts
<1>3. PICK s \in Nat : s = Size(m.words, q) /\ q \in Nat /\ q >= 2 /\ q + s - 2 \in Addresses
  BY <1>1, <1>2, TileFacts
<1>4. w \in Nat /\ n \in Nat /\ n <= s - 2 /\ \A k \in q .. q + n - 1 : k < q + w => m.words[k] = Word(i)
  BY <1>3 DEF Begun
<1>5. PICK a, z : a = q + w /\ z = q + n - 1
  OBVIOUS
<1>6. a \in Nat /\ z \in Int /\ a >= q /\ z <= q + s - 3
  BY <1>3, <1>4, <1>5
<1>7. Within(m, q, a, z)
  BY <1>3, <1>6 DEF Within
<1>8. PICK m2 : m2 = ClientWrites(m, i, a, z)
  OBVIOUS
<1>9. FilledBlock(m, T, q, i, a, z, m2)
  BY <1>7, <1>8, FillFacts
<1>10. Ordered(m2, T, {}) /\ BlocksMove(m, T, m2, T, {q}, {q}) /\ Size(m2.words, q) = s
  BY <1>2, <1>3, <1>9 DEF FilledBlock, ClientWritesWords, SameBlocks
<1>11. \A k \in Addresses : m2.words[k] = IF k \in a .. z THEN Word(i) ELSE m.words[k]
  BY <1>9 DEF FilledBlock
<1>12. ASSUME NEW k \in q .. q + n - 1 PROVE m2.words[k] = Word(i)
  <2>1. k \in Addresses
    <3>1. q + s - 2 <= MAX_HEAP - 1 /\ MAX_HEAP \in Nat
      BY <1>3, BookAssumption DEF Addresses
    <3> QED BY <1>3, <1>4, <3>1 DEF Addresses
  <2>2. k \in a .. z \/ k < q + w
    BY <1>3, <1>4, <1>5
  <2>3. k < q + w => m.words[k] = Word(i)
    BY <1>4
  <2> QED BY <1>11, <2>1, <2>2, <2>3
<1>13. PICK b : b = [bp |-> q, words |-> n]
  OBVIOUS
<1>14. b.bp = q /\ b.words = n
  BY <1>13
<1>15. Mine(m2.words, b, i)
  BY <1>3, <1>4, <1>10, <1>12, <1>14 DEF Mine
<1> QED BY <1>5, <1>8, <1>10, <1>13, <1>15 DEF OwnedBlocks

\* The blocks are T2 after what was in p moved to q, or n words of it.
Moved(m, T, p, q, n, m2, T2) ==
  /\ Ordered(m2, T2, {}) /\ BlocksMove(m, T, m2, T2, {p}, {q}) /\ n <= Size(m2.words, q) - 2
  /\ \A k \in Nat : k < n /\ k < Size(m.words, p) - 2 => m2.words[q + k] = m.words[p + k]

\* The copy that mm_realloc makes of the old block.
CopyOf(r, p, n) == CopyWords(r.mem, p, r.bp, Min({n, GET_SIZE(r.mem, p)}))

\* mm_realloc copies the old block and frees it.
LEMMA Reallocated ==
  ASSUME NEW m, NEW T \in SUBSET Nat, Ordered(m, T, {}), NEW p \in TakenOf(m.words, m.brk, T),
         NEW asize, Even(asize), NEW n \in Nat, n <= asize - 2,
         NEW r, NEW T2 \in SUBSET Nat, Grants(m, T, asize, r, T2)
  PROVE  \E T3 \in SUBSET Nat : Moved(m, T, p, r.bp, n, mm_free_block(CopyOf(r, p, n), p), T3)
<1>a. PICK g, q, w : g = r.mem /\ q = r.bp /\ w = m.words
  OBVIOUS
<1>1. /\ Ordered(g, T2, {}) /\ BlocksMove(m, T, g, T2, {}, {q}) /\ q \notin TakenOf(w, m.brk, T)
      /\ q \in TakenOf(g.words, g.brk, T2) /\ Size(g.words, q) >= asize
  BY <1>a DEF Grants
<1>2. Tiled(w, m.brk, T) /\ Tiled(g.words, g.brk, T2)
  BY <1>a, <1>1 DEF Ordered
<1>3. p \in T /\ p # m.brk /\ q \in T2 /\ q # g.brk /\ p # q
  BY <1>a, <1>1, <1>2, BlockFacts
<1>4. PICK s \in Nat : s = Size(w, p) /\ p \in Nat /\ p + s <= MAX_HEAP
  <2>1. PICK s \in Nat, e \in Nat : s = Size(w, p) /\ p \in Nat /\ e = m.brk /\ p + s <= e /\ e <= MAX_HEAP
    BY <1>2, <1>3, TileFacts
  <2> QED BY <2>1, BookAssumption
<1>5. PICK l \in Nat : l = Size(g.words, q) /\ q \in Nat
  BY <1>2, <1>3, TileFacts
<1>6. n <= l - 2
  BY <1>1, <1>5 DEF Even
<1>7. StaysTaken(m, p, g, T2)
  BY <1>a, <1>1, <1>2, KeptFacts
<1>8. p \in TakenOf(g.words, g.brk, T2) /\ Size(g.words, p) = s /\ \A k \in p .. p + s - 3 : g.words[k] = w[k]
  BY <1>a, <1>4, <1>7 DEF StaysTaken
<1>9. PICK c : c = CopyOf(r, p, n)
  OBVIOUS
<1>10. PICK cnt \in Nat : cnt <= n /\ cnt <= s /\ (cnt = n \/ cnt = s) /\ c = CopyWords(g, p, q, cnt)
  <2>1. GET_SIZE(g, p) = s
    BY <1>8 DEF GET_SIZE, HDRP, Size
  <2>2. {n, s} \subseteq Nat /\ {n, s} # {}
    OBVIOUS
  <2>3. Min({n, s}) \in {n, s} /\ \A k \in {n, s} : Min({n, s}) <= k
    BY <2>2, MinFacts
  <2> QED BY <1>a, <1>9, <2>1, <2>3 DEF CopyOf
<1>11. CopyMoves(g, q, p, cnt)
  BY <1>4, <1>5, <1>6, <1>10, BookAssumption DEF CopyMoves
<1>12. Copied(g, T2, q, p, cnt, c)
  BY <1>1, <1>10, <1>11, CopyFacts
<1>13. /\ Ordered(c, T2, {}) /\ BlocksMove(g, T2, c, T2, {q}, {q}) /\ Size(c.words, q) = l
       /\ \A k \in q .. q + cnt - 1 : c.words[k] = g.words[k - q + p]
  BY <1>3, <1>5, <1>12 DEF Copied, ClientWritesWords, SameBlocks
<1>14. p \in TakenOf(c.words, c.brk, T2) /\ q \in TakenOf(c.words, c.brk, T2) /\ Tiled(c.words, c.brk, T2)
  BY <1>3, <1>8, <1>13 DEF BlocksMove, Ordered
<1>15. PICK f : f = mm_free_block(c, p)
  OBVIOUS
<1>16. PICK T3 \in SUBSET Nat : Frees(c, T2, p, f, T3)
  BY <1>13, <1>14, <1>15, Freed
<1>17. Ordered(f, T3, {}) /\ BlocksMove(c, T2, f, T3, {p}, {})
  BY <1>16 DEF Frees
<1>18. StaysTaken(c, q, f, T3)
  BY <1>3, <1>14, <1>17, KeptFacts
<1>19. Size(f.words, q) = l /\ \A k \in q .. q + l - 3 : f.words[k] = c.words[k]
  BY <1>13, <1>18 DEF StaysTaken
<1>20. BlocksMove(m, T, f, T3, {p}, {q})
  <2>1. BlocksMove(m, T, c, T2, {}, {q})
    <3>1. q \notin TakenOf(m.words, m.brk, T) \ {} /\ Tiled(m.words, m.brk, T)
      BY <1>a, <1>1, <1>2
    <3> QED BY <1>1, <1>13, <3>1, MovesInto
  <2>2. {p} \cap {q} = {} /\ Tiled(m.words, m.brk, T)
    BY <1>a, <1>2, <1>3
  <2>3. BlocksMove(m, T, f, T3, {} \cup {p}, {q} \cup {})
    BY <1>17, <2>1, <2>2, MovesTwice
  <2>4. {} \cup {p} = {p} /\ {q} \cup {} = {q}
    OBVIOUS
  <2> QED BY <2>3, <2>4
<1>21. ASSUME NEW k \in Nat, k < n, k < s - 2
       PROVE  q + k \in q .. q + l - 3 /\ q + k \in q .. q + cnt - 1 /\ p + k \in p .. p + s - 3
  BY <1>4, <1>5, <1>6, <1>10, <1>21
<1>22. ASSUME NEW k \in Nat, k < n, k < s - 2 PROVE f.words[q + k] = w[p + k]
  <2>1. f.words[q + k] = c.words[q + k]
    BY <1>19, <1>21, <1>22
  <2>2. c.words[q + k] = g.words[(q + k) - q + p]
    BY <1>13, <1>21, <1>22
  <2>3. (q + k) - q + p = p + k
    BY <1>4, <1>5
  <2>4. g.words[p + k] = w[p + k]
    BY <1>8, <1>21, <1>22
  <2> QED BY <2>1, <2>2, <2>3, <2>4
<1>23. Moved(m, T, p, q, n, f, T3)
  BY <1>a, <1>4, <1>6, <1>17, <1>19, <1>20, <1>22 DEF Moved
<1> QED BY <1>a, <1>9, <1>15, <1>23

-----------------------------------------------------------------------------
(* The invariant.                                                          *)

\* What the invariant says of the memory.
LEMMA MemoryFacts ==
  ASSUME NEW T, BInvOn(T)
  PROVE  Ordered(Memory, T, {}) /\ ClientHolds(Memory, T, held) /\ Tiled(Memory.words, Memory.brk, T)
BY DEF BInvOn, Ordered

\* mm_free.
LEMMA FreeKeeps ==
  ASSUME NEW T \in SUBSET Nat, BInvOn(T), NEW i \in BlockNames, mm_free(i)
  PROVE  BInv'
<1>a. PICK m, h : m = Memory /\ h = held
  OBVIOUS
<1>1. Ordered(m, T, {}) /\ ClientHolds(m, T, h) /\ Tiled(m.words, m.brk, T)
  BY <1>a, MemoryFacts
<1>2. h[i] # NoBlock /\ Leaves(mm_free_block(m, h[i].bp), [h EXCEPT ![i] = NoBlock])
  BY <1>a DEF mm_free
<1>3. Owns(m, T, i, h[i])
  BY <1>1, <1>2, HeldBlock
<1>4. PICK p \in TakenOf(m.words, m.brk, T) : p = h[i].bp /\ p # 0
  BY <1>3 DEF Owns
<1>5. PICK m2 : m2 = mm_free_block(m, p)
  OBVIOUS
<1>6. PICK T2 \in SUBSET Nat : Frees(m, T, p, m2, T2)
  BY <1>1, <1>5, Freed
<1>7. Ordered(m2, T2, {}) /\ BlocksMove(m, T, m2, T2, {p}, {})
  BY <1>6 DEF Frees
<1>8. PICK b : b = NoBlock
  OBVIOUS
<1>9. b \in [bp : Nat, words : Nat] /\ b.bp = 0 /\ b.words = 0
  BY <1>8 DEF NoBlock
<1>10. Mine(m2.words, b, i)
  <2>1. 0 .. 0 + 0 - 1 = {}
    OBVIOUS
  <2> QED BY <1>9, <2>1 DEF Mine
<1>11. b.bp \notin TakenOf(m.words, m.brk, T)
  <2>1. \A t \in T : t # 0
    BY <1>1, TileFacts
  <2> QED BY <1>9, <2>1 DEF TakenOf
<1>12. {h[i].bp} \ {0} = {p} /\ {b.bp} \ {0} = {}
  BY <1>4, <1>9
<1>13. Rehold(m, T, m2, T2, h, i, b)
  BY <1>7, <1>9, <1>10, <1>11, <1>12 DEF Rehold
<1>14. PICK g : g = [h EXCEPT ![i] = b]
  OBVIOUS
<1>15. ClientHolds(m2, T2, g)
  BY <1>1, <1>13, <1>14, HeldAfter
<1>16. Leaves(m2, g)
  BY <1>2, <1>4, <1>5, <1>8, <1>14
<1>17. BInvOn(T2)'
  BY <1>7, <1>15, <1>16, LeftBlocks
<1> QED BY <1>17 DEF BInv

\* A block that was got, moved or not, and filled.
LEMMA GotKeeps ==
  ASSUME NEW m, NEW T, Tiled(m.words, m.brk, T), NEW h, ClientHolds(m, T, h), NEW i \in BlockNames,
         NEW g, NEW T2 \in SUBSET Nat, NEW q \in Nat, q # 0, q \notin TakenOf(m.words, m.brk, T),
         BlocksMove(m, T, g, T2, {h[i].bp} \ {0}, {q}),
         NEW n \in Nat, NEW m2, OwnedBlocks(g, T2, q, i, n, m2),
         Leaves(m2, [h EXCEPT ![i] = [bp |-> q, words |-> n]])
  PROVE  BInv'
<1>1. Ordered(m2, T2, {}) /\ BlocksMove(g, T2, m2, T2, {q}, {q}) /\ Mine(m2.words, [bp |-> q, words |-> n], i)
  BY DEF OwnedBlocks
<1>2. PICK P : P = {h[i].bp} \ {0}
  OBVIOUS
<1>3. BlocksMove(m, T, m2, T2, P, {q})
  <2>1. BlocksMove(m, T, g, T2, P, {q}) /\ q \notin TakenOf(m.words, m.brk, T) \ P
    BY <1>2
  <2> QED BY <1>1, <2>1, MovesInto
<1>4. PICK b : b = [bp |-> q, words |-> n]
  OBVIOUS
<1>5. b \in [bp : Nat, words : Nat] /\ b.bp = q /\ {b.bp} \ {0} = {q}
  BY <1>4
<1>6. Rehold(m, T, m2, T2, h, i, b)
  BY <1>1, <1>2, <1>3, <1>4, <1>5 DEF Rehold
<1>7. PICK h2 : h2 = [h EXCEPT ![i] = b]
  OBVIOUS
<1>8. ClientHolds(m2, T2, h2)
  BY <1>6, <1>7, HeldAfter
<1>9. Leaves(m2, h2)
  BY <1>4, <1>7
<1>10. BInvOn(T2)'
  BY <1>1, <1>8, <1>9, LeftBlocks
<1> QED BY <1>10 DEF BInv

\* What a call asks for.
LEMMA AskedFacts ==
  ASSUME NEW bytes \in Requests, bytes > 0
  PROVE  /\ Even(Adjusted(bytes)) /\ AskedWords(bytes) \in Nat /\ AskedWords(bytes) <= Adjusted(bytes) - 2
BY BookAssumption, AdjustedFacts DEF Even

\* mm_malloc, and what the client writes.
LEMMA MallocKeeps ==
  ASSUME NEW T \in SUBSET Nat, BInvOn(T), NEW i \in BlockNames, NEW bytes \in Requests, mm_malloc(i, bytes)
  PROVE  BInv'
<1>a. PICK m, h : m = Memory /\ h = held
  OBVIOUS
<1>b. PICK asize, n : asize = Adjusted(bytes) /\ n = AskedWords(bytes)
  OBVIOUS
<1>c. PICK r : r = mm_malloc_words(m, asize)
  OBVIOUS
<1>d. PICK g, q : g = r.mem /\ q = r.bp
  OBVIOUS
<1>e. PICK m2 : m2 = ClientWrites(g, i, q, q + n - 1)
  OBVIOUS
<1>1. Ordered(m, T, {}) /\ ClientHolds(m, T, h) /\ Tiled(m.words, m.brk, T)
  BY <1>a, MemoryFacts
<1>2. h[i] = NoBlock /\ bytes > 0 /\ q # 0 /\ Leaves(m2, [h EXCEPT ![i] = [bp |-> q, words |-> n]])
  BY <1>a, <1>b, <1>c, <1>d, <1>e DEF mm_malloc
<1>3. Even(asize) /\ n \in Nat /\ n <= asize - 2
  BY <1>b, <1>2, AskedFacts
<1>4. PICK T2 \in SUBSET Nat : Grants(m, T, asize, r, T2)
  BY <1>1, <1>2, <1>3, <1>c, <1>d, Malloced
<1>5. /\ Ordered(g, T2, {}) /\ BlocksMove(m, T, g, T2, {}, {q}) /\ q \notin TakenOf(m.words, m.brk, T)
      /\ q \in TakenOf(g.words, g.brk, T2) /\ Size(g.words, q) >= asize
  BY <1>4, <1>d DEF Grants
<1>6. PICK s \in Nat : s = Size(g.words, q) /\ q \in Nat
  <2>1. Tiled(g.words, g.brk, T2)
    BY <1>5 DEF Ordered
  <2>2. q \in T2
    BY <1>5, <2>1, BlockFacts
  <2> QED BY <2>1, <2>2, TileFacts
<1>7. n <= s - 2
  BY <1>3, <1>5, <1>6 DEF Even
<1>8. Begun(g, q, i, 0, n)
  <2>1. \A k \in q .. q + n - 1 : ~(k < q + 0)
    BY <1>3, <1>6
  <2> QED BY <1>3, <1>6, <1>7, <2>1 DEF Begun
<1>9. OwnedBlocks(g, T2, q, i, n, m2)
  <2>1. 0 \in Nat
    OBVIOUS
  <2>2. OwnedBlocks(g, T2, q, i, n, ClientWrites(g, i, q + 0, q + n - 1))
    BY <1>5, <1>8, <2>1, Completed
  <2>3. q + 0 = q
    BY <1>6
  <2> QED BY <1>e, <2>2, <2>3
<1>10. BlocksMove(m, T, g, T2, {h[i].bp} \ {0}, {q})
  <2>1. {h[i].bp} \ {0} = {}
    BY <1>2 DEF NoBlock
  <2> QED BY <1>5, <2>1
<1>11. q \in Nat /\ q # 0
  BY <1>2, <1>6
<1> QED BY <1>1, <1>2, <1>3, <1>5, <1>9, <1>10, <1>11, GotKeeps

\* mm_realloc, and what the client writes.
LEMMA ReallocKeeps ==
  ASSUME NEW T \in SUBSET Nat, BInvOn(T), NEW i \in BlockNames, NEW bytes \in Requests, mm_realloc(i, bytes)
  PROVE  BInv'
<1>a. PICK m, h : m = Memory /\ h = held
  OBVIOUS
<1>b. PICK asize, n : asize = Adjusted(bytes) /\ n = AskedWords(bytes)
  OBVIOUS
<1>c. PICK r : r = mm_malloc_words(m, asize)
  OBVIOUS
<1>d. PICK q : q = r.bp
  OBVIOUS
<1>1. Ordered(m, T, {}) /\ ClientHolds(m, T, h) /\ Tiled(m.words, m.brk, T)
  BY <1>a, MemoryFacts
<1>2. h[i] # NoBlock /\ bytes > 0 /\ q # 0
  BY <1>a, <1>b, <1>c, <1>d DEF mm_realloc
<1>3. Owns(m, T, i, h[i])
  BY <1>1, <1>2, HeldBlock
<1>4. PICK p \in TakenOf(m.words, m.brk, T), w \in Nat, s \in Nat :
        /\ h[i] = [bp |-> p, words |-> w] /\ p \in Nat /\ p # 0 /\ p \in T
        /\ s = Size(m.words, p) /\ w <= s - 2
        /\ \A k \in p .. p + w - 1 : m.words[k] = Word(i)
  BY <1>3 DEF Owns
<1>5. h[i].bp = p /\ h[i].words = w
  BY <1>4
<1>6. PICK f : f = mm_free_block(CopyOf(r, p, n), p)
  OBVIOUS
<1>7. PICK m2 : m2 = ClientWrites(f, i, q + w, q + n - 1)
  OBVIOUS
<1>8. Leaves(m2, [h EXCEPT ![i] = [bp |-> q, words |-> n]])
  BY <1>a, <1>b, <1>c, <1>d, <1>5, <1>6, <1>7 DEF mm_realloc, CopyOf
<1>9. Even(asize) /\ n \in Nat /\ n <= asize - 2
  BY <1>b, <1>2, AskedFacts
<1>10. PICK T2 \in SUBSET Nat : Grants(m, T, asize, r, T2)
  BY <1>1, <1>2, <1>9, <1>c, <1>d, Malloced
<1>11. PICK T3 \in SUBSET Nat : Moved(m, T, p, q, n, f, T3)
  BY <1>1, <1>6, <1>9, <1>10, <1>d, Reallocated
<1>12. /\ Ordered(f, T3, {}) /\ BlocksMove(m, T, f, T3, {p}, {q}) /\ n <= Size(f.words, q) - 2
       /\ \A k \in Nat : k < n /\ k < s - 2 => f.words[q + k] = m.words[p + k]
  BY <1>4, <1>11 DEF Moved
<1>13. q \notin TakenOf(m.words, m.brk, T)
  BY <1>10, <1>d DEF Grants
<1>14. q \in TakenOf(f.words, f.brk, T3)
  BY <1>12 DEF BlocksMove
<1>15. q \in Nat /\ Tiled(f.words, f.brk, T3)
  <2>1. Tiled(f.words, f.brk, T3)
    BY <1>12 DEF Ordered
  <2>2. q \in T3
    BY <1>14, <2>1, BlockFacts
  <2> QED BY <2>1, <2>2, TileFacts
<1>16. Begun(f, q, i, w, n)
  <2>1. ASSUME NEW k \in q .. q + n - 1, k < q + w PROVE f.words[k] = Word(i)
    <3>1. PICK j \in Nat : j = k - q /\ k = q + j /\ j < n /\ j < w
      BY <1>9, <1>15, <2>1
    <3>2. j < s - 2 /\ p + j \in p .. p + w - 1
      BY <1>4, <3>1
    <3>3. f.words[q + j] = m.words[p + j]
      BY <1>12, <3>1, <3>2
    <3>4. m.words[p + j] = Word(i)
      BY <1>4, <3>2
    <3> QED BY <3>1, <3>3, <3>4
  <2> QED BY <1>9, <1>12, <2>1 DEF Begun
<1>17. OwnedBlocks(f, T3, q, i, n, m2)
  BY <1>7, <1>12, <1>14, <1>16, Completed
<1>18. BlocksMove(m, T, f, T3, {h[i].bp} \ {0}, {q})
  <2>1. {h[i].bp} \ {0} = {p}
    BY <1>4, <1>5
  <2> QED BY <1>12, <2>1
<1> QED BY <1>1, <1>2, <1>8, <1>9, <1>13, <1>15, <1>17, <1>18, GotKeeps

\* The memory of mm_init before it is extended.
EmptyNames ==
  [words |-> [k \in Addresses |-> IF k \in {1, 2} THEN PACK(2, TRUE) ELSE IF k = 3 THEN PACK(0, TRUE) ELSE Unused],
   brk |-> 4, rover |-> 2]

\* As BookInit writes it.
LEMMA EmptyIs ==
  [[words |-> [k \in 0 .. MAX_HEAP - 1 |-> Unused], brk |-> 4, rover |-> heap_listp]
     EXCEPT !.words[1] = PACK(2, TRUE), !.words[2] = PACK(2, TRUE), !.words[3] = PACK(0, TRUE)] = EmptyNames
<1>1. PICK blank \in [Addresses -> WordKinds] : blank = [k \in Addresses |-> Unused]
  BY WordsFacts
<1>2. PICK a \in WordKinds, b \in WordKinds : a = PACK(2, TRUE) /\ b = PACK(0, TRUE)
  BY TagFacts
<1>3. PICK w : w = [k \in Addresses |-> IF k \in {1, 2} THEN a ELSE IF k = 3 THEN b ELSE Unused]
  OBVIOUS
<1>4. [blank EXCEPT ![1] = a, ![2] = a, ![3] = b] = w
  BY <1>1, <1>3
<1>5. PICK m \in [words : [Addresses -> WordKinds], brk : Nat, rover : Nat] : m = [words |-> blank, brk |-> 4, rover |-> 2]
  BY <1>1
<1>6. [m EXCEPT !.words[1] = a, !.words[2] = a, !.words[3] = b] = [m EXCEPT !.words = w]
  <2>1. [m EXCEPT !.words[1] = a, !.words[2] = a, !.words[3] = b] =
        [m EXCEPT !.words = [m.words EXCEPT ![1] = a, ![2] = a, ![3] = b]]
    OBVIOUS
  <2>2. m.words = blank
    BY <1>5
  <2> QED BY <1>4, <2>1, <2>2
<1>7. [m EXCEPT !.words = w] = [words |-> w, brk |-> 4, rover |-> 2]
  BY <1>5
<1> QED BY <1>1, <1>2, <1>3, <1>5, <1>6, <1>7 DEF EmptyNames, Addresses, heap_listp

\* There is no block in it.
LEMMA EmptyFacts ==
  ASSUME fit \in {"first", "next"}
  PROVE  Ordered(EmptyNames, {2, 4}, {}) /\ TakenOf(EmptyNames.words, EmptyNames.brk, {2, 4}) = {} /\ EmptyNames.brk = 4
<1>1. PICK w : w = EmptyNames.words
  OBVIOUS
<1>2. PICK a \in WordKinds, b \in WordKinds : a = PACK(2, TRUE) /\ b = PACK(0, TRUE)
  BY TagFacts
<1>3. a.size = 2 /\ a.alloc = TRUE /\ a.is = "tag" /\ b.size = 0 /\ b.alloc = TRUE /\ b.is = "tag"
  BY <1>2, TagFacts
<1>4. 1 \in Addresses /\ 2 \in Addresses /\ 3 \in Addresses /\ MAX_HEAP \in Nat /\ 4 <= MAX_HEAP
  BY BookAssumption DEF Addresses
<1>5. EmptyNames = [words |-> w, brk |-> 4, rover |-> 2] /\ EmptyNames.brk = 4 /\ EmptyNames.rover = 2
  BY <1>1 DEF EmptyNames
<1>6. w = [k \in Addresses |-> IF k \in {1, 2} THEN a ELSE IF k = 3 THEN b ELSE Unused]
  BY <1>1, <1>2 DEF EmptyNames
<1>7. w \in [Addresses -> WordKinds] /\ w[1] = a /\ w[2] = a /\ w[3] = b
  <2>1. PICK d \in WordKinds : d = Unused
    BY WordsFacts
  <2>2. \A k \in Addresses : (IF k \in {1, 2} THEN a ELSE IF k = 3 THEN b ELSE d) \in WordKinds
    OBVIOUS
  <2> QED BY <1>4, <1>6, <2>1, <2>2
<1>8. EmptyNames \in Memories
  BY <1>5, <1>7 DEF Memories
<1>9. 2 - 1 = 1 /\ 4 - 1 = 3 /\ 2 + 2 - 2 = 2 /\ 2 + 2 = 4
  OBVIOUS
<1>10. IsBlock(w, 2) /\ After(w, 2) = 4 /\ After(w, 4) = 4
  BY <1>3, <1>7, <1>9 DEF IsBlock, After, Size
<1>11. Tiled(w, 4, {2, 4})
  <2>1. \A t \in {2, 4} : t % 2 = 0
    OBVIOUS
  <2>2. {2, 4} \subseteq 2 .. 4
    OBVIOUS
  <2>3. \A t \in {2, 4} : t # 4 => IsBlock(w, t) /\ After(w, t) \in {2, 4}
    BY <1>10
  <2>4. \A t, u \in {2, 4} : t < u => After(w, t) <= u
    BY <1>10
  <2>5. w[1] = PACK(2, TRUE) /\ w[4 - 1] = PACK(0, TRUE)
    BY <1>2, <1>7, <1>9
  <2>6. 2 \in {2, 4} /\ 4 \in {2, 4} /\ 4 # 2 /\ 4 \in Nat
    OBVIOUS
  <2> QED BY <1>4, <1>7, <2>1, <2>2, <2>3, <2>4, <2>5, <2>6 DEF Tiled
<1>12. FreeOf(w, {2, 4}) = {} /\ TakenOf(w, 4, {2, 4}) = {}
  BY <1>3, <1>7, <1>9 DEF FreeOf, TakenOf
<1>13. Apart(w, {2, 4}, {})
  BY <1>12 DEF Apart
<1>14. RoverAt(EmptyNames, {2, 4})
  BY <1>5 DEF RoverAt, heap_listp
<1> QED BY <1>1, <1>5, <1>8, <1>11, <1>12, <1>13, <1>14 DEF Ordered

\* mm_init establishes the invariant,
LEMMA InitBInv == BookInit => BInv
<1> SUFFICES ASSUME BookInit PROVE BInv
  OBVIOUS
<1>1. PICK r : r = extend_heap(EmptyNames, CHUNKSIZE)
  OBVIOUS
<1>2. PICK m : m = r.mem
  OBVIOUS
<1>3. /\ fit \in {"first", "next"} /\ words = m.words /\ brk = m.brk /\ rover = m.rover
      /\ held = [i \in BlockNames |-> NoBlock]
  BY <1>1, <1>2, EmptyIs DEF BookInit
<1>4. Ordered(EmptyNames, {2, 4}, {}) /\ TakenOf(EmptyNames.words, EmptyNames.brk, {2, 4}) = {} /\ EmptyNames.brk = 4
  BY <1>3, EmptyFacts
<1>5. Grows(EmptyNames, CHUNKSIZE)
  BY <1>4, BookAssumption DEF Grows
<1>6. PICK T \in SUBSET Nat : Gets(EmptyNames, {2, 4}, CHUNKSIZE, r, T)
  <2>1. {2, 4} \in SUBSET Nat
    OBVIOUS
  <2> QED BY <1>1, <1>4, <1>5, <2>1, Extended
<1>7. Ordered(m, T, {}) /\ TakenOf(m.words, m.brk, T) = {}
  BY <1>2, <1>4, <1>6 DEF Gets, BlocksMove
<1>8. Memory = m
  BY <1>3, <1>7 DEF Memory, Ordered, Memories
<1>9. ClientHolds(m, T, held)
  <2>1. \A i \in BlockNames : held[i].bp = 0 /\ held[i].words = 0
    BY <1>3 DEF NoBlock
  <2>2. held \in [BlockNames -> [bp : Nat, words : Nat]]
    BY <1>3 DEF NoBlock
  <2>3. {held[i].bp : i \in BlockNames} \ {0} = {}
    BY <2>1
  <2>4. 0 .. 0 + 0 - 1 = {}
    OBVIOUS
  <2>5. \A i \in BlockNames : Mine(m.words, held[i], i)
    BY <2>1, <2>4 DEF Mine
  <2> QED BY <1>7, <2>1, <2>2, <2>3, <2>5 DEF ClientHolds
<1> QED BY <1>7, <1>8, <1>9 DEF BInv, BInvOn

\* every call keeps it,
LEMMA NextBInv == BInv /\ [BookNext]_bookVars => BInv'
<1> SUFFICES ASSUME BInv, [BookNext]_bookVars PROVE BInv'
  OBVIOUS
<1>1. PICK T \in SUBSET Nat : BInvOn(T)
  BY DEF BInv
<1>2. ASSUME NEW i \in BlockNames, mm_free(i) PROVE BInv'
  BY <1>1, <1>2, FreeKeeps
<1>3. ASSUME NEW i \in BlockNames, NEW bytes \in Requests, mm_malloc(i, bytes) PROVE BInv'
  BY <1>1, <1>3, MallocKeeps
<1>4. ASSUME NEW i \in BlockNames, NEW bytes \in Requests, mm_realloc(i, bytes) PROVE BInv'
  BY <1>1, <1>4, ReallocKeeps
<1>5. CASE UNCHANGED bookVars
  <2>1. fit' = fit /\ words' = words /\ brk' = brk /\ rover' = rover /\ held' = held
    BY <1>5 DEF bookVars
  <2>2. Memory' = Memory
    BY <2>1 DEF Memory
  <2>3. BInvOn(T)'
    BY <1>1, <2>1, <2>2 DEF BInvOn, Ordered, RoverAt
  <2> QED BY <2>3 DEF BInv
<1> QED BY <1>2, <1>3, <1>4, <1>5 DEF BookNext

\* and so it always holds.
LEMMA BInvariant == BookSpec => []BInv
BY InitBInv, NextBInv, PTL DEF BookSpec

-----------------------------------------------------------------------------
(* The properties.                                                         *)

\* The invariant implies the types,
LEMMA TypesHold == BInv => BookTypeOK
<1> SUFFICES ASSUME BInv PROVE BookTypeOK
  OBVIOUS
<1>1. PICK T \in SUBSET Nat : BInvOn(T)
  BY DEF BInv
<1>2. Memory.words = words /\ Memory.brk = brk /\ Memory.rover = rover
  BY DEF Memory
<1>3. Tiled(words, brk, T) /\ RoverAt(Memory, T) /\ ClientHolds(Memory, T, held)
  BY <1>1, <1>2, MemoryFacts DEF Ordered
<1>4. words \in [Addresses -> WordKinds] /\ brk \in Nat /\ brk <= MAX_HEAP /\ MAX_HEAP \in Nat
  BY <1>3, BookAssumption DEF Tiled
<1>5. \A t \in T : t \in 0 .. MAX_HEAP
  <2>1. \A t \in T : t \in Nat /\ t <= brk
    BY <1>3, TileFacts
  <2> QED BY <1>4, <2>1
<1>6. rover \in T /\ fit \in {"first", "next"}
  BY <1>2, <1>3 DEF RoverAt
<1>7. held \in [BlockNames -> [bp : 0 .. MAX_HEAP, words : Nat]]
  <2>1. held \in [BlockNames -> [bp : Nat, words : Nat]]
    BY <1>3 DEF ClientHolds
  <2>2. \A i \in BlockNames : held[i].bp # 0 => held[i].bp \in T
    BY <1>3 DEF ClientHolds, TakenOf
  <2>3. 0 \in 0 .. MAX_HEAP
    BY <1>4
  <2>4. \A i \in BlockNames : held[i].bp \in 0 .. MAX_HEAP
    BY <1>5, <2>2, <2>3
  <2> QED BY <2>1, <2>4
<1>8. brk \in 0 .. MAX_HEAP
  BY <1>4
<1> QED BY <1>4, <1>5, <1>6, <1>7, <1>8 DEF BookTypeOK, Addresses, WordKinds

\* that checkheap's conditions hold,
LEMMA IsSound == BInv => BookHeapIsSound
<1> SUFFICES ASSUME BInv PROVE BookHeapIsSound
  OBVIOUS
<1>1. PICK T \in SUBSET Nat : BInvOn(T)
  BY DEF BInv
<1>2. PICK m, w, e : m = Memory /\ w = words /\ e = brk
  OBVIOUS
<1>3. m.words = w /\ m.brk = e /\ m.rover = rover
  BY <1>2 DEF Memory
<1>4. m \in Memories /\ Tiled(w, e, T) /\ Apart(w, T, {}) /\ RoverAt(m, T) /\ ClientHolds(m, T, held)
  BY <1>1, <1>2, <1>3, MemoryFacts DEF Ordered
<1>5. PICK blocks : blocks = Walk(m, heap_listp) /\ blocks = T \ {e}
  BY <1>3, <1>4, WalkAll
<1>6. \A b : /\ HDRP(b) = b - 1 /\ GET_SIZE(m, b) = Size(w, b) /\ GET_ALLOC(m, b) = w[b - 1].alloc
             /\ NEXT_BLKP(m, b) = After(w, b) /\ FOOT(m, b) = b + Size(w, b) - 2
  BY <1>3 DEF HDRP, GET_SIZE, GET_ALLOC, NEXT_BLKP, FOOT, After, Size
<1>7. PICK free : free = {b \in blocks : ~GET_ALLOC(m, b)}
  OBVIOUS
<1>8. w[e - 1] = PACK(0, TRUE) /\ w[e - 1].alloc /\ w[1].alloc /\ 2 \in T /\ 2 # e /\ e \in T
  BY <1>4, TileFacts DEF Tiled
<1>9. free = FreeOf(w, T)
  BY <1>5, <1>6, <1>7, <1>8 DEF FreeOf
<1>10. e \in {NEXT_BLKP(m, b) : b \in blocks}
  <2>1. Tiled(w, e, T) /\ e \in T /\ e # 2
    BY <1>4, <1>8
  <2>2. PICK u : u = e - w[e - 2].size
    OBVIOUS
  <2>3. u \in T /\ u # e /\ After(w, u) = e
    BY <2>1, <2>2, BlockBefore
  <2> QED BY <1>5, <1>6, <2>3
<1>11. w[HDRP(e)] = PACK(0, TRUE)
  BY <1>6, <1>8
<1>12. \A b \in blocks : w[HDRP(b)].is = "tag" /\ w[FOOT(m, b)] = w[HDRP(b)]
  BY <1>4, <1>5, <1>6 DEF Tiled, IsBlock
<1>13. \A b \in blocks \ {heap_listp} : GET_SIZE(m, b) >= 4
  BY <1>4, <1>5, <1>6, TileFacts DEF heap_listp
<1>14. \A b \in free : NEXT_BLKP(m, b) \notin free
  BY <1>4, <1>6, <1>9 DEF Apart
<1>15. rover \in blocks
  BY <1>3, <1>4, <1>5 DEF RoverAt
<1>16. blocks \ free = {heap_listp} \cup ({held[i].bp : i \in BlockNames} \ {0})
  <2>1. {held[i].bp : i \in BlockNames} \ {0} = TakenOf(w, e, T)
    BY <1>3, <1>4 DEF ClientHolds
  <2>2. w[2 - 1].alloc
    <3>1. 2 - 1 = 1
      OBVIOUS
    <3> QED BY <1>8, <3>1
  <2>3. blocks \ free = {2} \cup TakenOf(w, e, T)
    BY <1>5, <1>8, <1>9, <2>2 DEF FreeOf, TakenOf
  <2> QED BY <2>1, <2>3 DEF heap_listp
<1> QED BY <1>2, <1>5, <1>7, <1>10, <1>11, <1>12, <1>13, <1>14, <1>15, <1>16 DEF BookHeapIsSound

\* and that what the client wrote is there.
LEMMA IsKept == BInv => HeldIsKept
BY MemoryFacts DEF BInv, HeldIsKept, ClientHolds, Mine, Memory

\* What the client holds, as Allocator sees it.
Handed == [i \in BlockNames |-> [at |-> held[i].bp, words |-> held[i].words]]

\* What the abstract allocator hands out.
Areas == {a \in [at : 1 .. MAX_HEAP, words : 0 .. MAX_HEAP] : a.at % 2 = 0 /\ a.at + a.words - 1 <= MAX_HEAP}

\* The words of one.
WordsOf(a) == a.at .. a.at + a.words - 1

\* No word is handed out twice.
Disjoint ==
  /\ Handed \in [BlockNames -> [at : Nat, words : Nat]]
  /\ \A i \in BlockNames : held[i] # NoBlock => Handed[i] \in Areas
  /\ \A i, j \in BlockNames : i # j => WordsOf(Handed[i]) \cap WordsOf(Handed[j]) = {}
  /\ \A i \in BlockNames : held[i] = NoBlock => Handed[i] = [at |-> 0, words |-> 0]

\* The areas that are held are inside the heap, aligned, and apart.
LEMMA HeldApart == BInv => Disjoint
<1> SUFFICES ASSUME BInv PROVE Disjoint
  OBVIOUS
<1>1. PICK T \in SUBSET Nat : BInvOn(T)
  BY DEF BInv
<1>2. PICK m, w, h : m = Memory /\ w = m.words /\ h = held
  OBVIOUS
<1>3. Tiled(w, m.brk, T) /\ ClientHolds(m, T, h)
  BY <1>1, <1>2, MemoryFacts
<1>4. ASSUME NEW i \in BlockNames, h[i] = NoBlock
      PROVE  Handed[i] = [at |-> 0, words |-> 0] /\ WordsOf(Handed[i]) = {}
  <2>1. Handed[i] = [at |-> 0, words |-> 0]
    BY <1>2, <1>4 DEF Handed, NoBlock
  <2>2. Handed[i].at = 0 /\ Handed[i].words = 0
    BY <2>1
  <2>3. 0 .. 0 + 0 - 1 = {}
    OBVIOUS
  <2> QED BY <2>1, <2>2, <2>3 DEF WordsOf
\* Where a block that is held is, and what of it.
<1>5. ASSUME NEW i \in BlockNames, h[i] # NoBlock
      PROVE  \E p \in T, n \in Nat, s \in Nat :
               /\ h[i].bp = p /\ h[i].words = n /\ Handed[i] = [at |-> p, words |-> n] /\ p \in Nat /\ p >= 4 /\ p % 2 = 0
               /\ s = Size(w, p) /\ n <= s - 2 /\ p + s <= MAX_HEAP
  <2>1. Owns(m, T, i, h[i])
    BY <1>2, <1>3, <1>5, HeldBlock
  <2>2. PICK p \in TakenOf(w, m.brk, T), n \in Nat, s \in Nat :
          /\ h[i] = [bp |-> p, words |-> n] /\ p \in Nat /\ p >= 4 /\ p % 2 = 0 /\ p # 0 /\ p \in T
          /\ s = Size(w, p) /\ n <= s - 2 /\ p + s <= MAX_HEAP
    BY <1>2, <2>1 DEF Owns
  <2>3. h[i].bp = p /\ h[i].words = n
    BY <2>2
  <2>4. Handed[i] = [at |-> p, words |-> n]
    BY <1>2, <2>3 DEF Handed
  <2> QED BY <2>2, <2>3, <2>4
<1>6. MAX_HEAP \in Nat
  BY BookAssumption
<1>7. ASSUME NEW i \in BlockNames, h[i] # NoBlock PROVE Handed[i] \in Areas
  <2>1. PICK p \in T, n \in Nat, s \in Nat :
          /\ Handed[i] = [at |-> p, words |-> n] /\ p \in Nat /\ p >= 4 /\ p % 2 = 0
          /\ n <= s - 2 /\ p + s <= MAX_HEAP
    BY <1>5, <1>7
  <2>2. p \in 1 .. MAX_HEAP /\ n \in 0 .. MAX_HEAP /\ p % 2 = 0 /\ p + n - 1 <= MAX_HEAP
    BY <1>6, <2>1
  <2> QED BY <2>1, <2>2 DEF Areas
\* The words of a lower block end before a higher one.
<1>8. ASSUME NEW t \in T, NEW u \in T, NEW v \in Nat, NEW n \in Nat, t \in Nat, u \in Nat, v <= Size(w, t) - 2, t < u
      PROVE  WordsOf([at |-> t, words |-> v]) \cap WordsOf([at |-> u, words |-> n]) = {}
  <2>1. PICK s \in Nat : s = Size(w, t) /\ t + s <= u /\ v <= s - 2
    <3>1. After(w, t) <= u
      BY <1>3, <1>8 DEF Tiled
    <3>2. Size(w, t) \in Nat
      BY <1>3, TileFacts
    <3> QED BY <1>8, <3>1, <3>2 DEF After
  <2>2. (t .. t + v - 1) \cap (u .. u + n - 1) = {}
    BY <1>8, <2>1
  <2> QED BY <2>2 DEF WordsOf
<1>9. ASSUME NEW i \in BlockNames, NEW j \in BlockNames, i # j PROVE WordsOf(Handed[i]) \cap WordsOf(Handed[j]) = {}
  <2>1. CASE h[i] = NoBlock \/ h[j] = NoBlock
    BY <1>4, <2>1
  <2>2. CASE h[i] # NoBlock /\ h[j] # NoBlock
    <3>1. PICK t \in T, v \in Nat : h[i].bp = t /\ Handed[i] = [at |-> t, words |-> v] /\ t \in Nat /\ t >= 4 /\ v <= Size(w, t) - 2
      BY <1>5, <2>2
    <3>2. PICK u \in T, n \in Nat : h[j].bp = u /\ Handed[j] = [at |-> u, words |-> n] /\ u \in Nat /\ u >= 4 /\ n <= Size(w, u) - 2
      BY <1>5, <2>2
    <3>3. t # u
      BY <1>3, <1>9, <3>1, <3>2 DEF ClientHolds
    <3>4. CASE t < u
      BY <1>8, <3>1, <3>2, <3>4
    <3>5. CASE u < t
      BY <1>8, <3>1, <3>2, <3>5
    <3> QED BY <3>1, <3>2, <3>3, <3>4, <3>5
  <2> QED BY <2>1, <2>2
<1>10. Handed \in [BlockNames -> [at : Nat, words : Nat]]
  <2>1. h \in [BlockNames -> [bp : Nat, words : Nat]]
    BY <1>3 DEF ClientHolds
  <2> QED BY <1>2, <2>1 DEF Handed
<1> QED BY <1>2, <1>4, <1>7, <1>9, <1>10 DEF Disjoint

\* A step changes what one name holds, or nothing.
LEMMA OneName ==
  ASSUME [BookNext]_bookVars
  PROVE  held' = held \/ \E i \in BlockNames : \E v : held' = [held EXCEPT ![i] = v]
<1>1. ASSUME NEW i \in BlockNames, NEW bytes \in Requests, mm_malloc(i, bytes) PROVE \E v : held' = [held EXCEPT ![i] = v]
  BY <1>1 DEF mm_malloc, Leaves
<1>2. ASSUME NEW i \in BlockNames, mm_free(i) PROVE \E v : held' = [held EXCEPT ![i] = v]
  BY <1>2 DEF mm_free, Leaves
<1>3. ASSUME NEW i \in BlockNames, NEW bytes \in Requests, mm_realloc(i, bytes) PROVE \E v : held' = [held EXCEPT ![i] = v]
  BY <1>3 DEF mm_realloc, Leaves
<1>4. CASE UNCHANGED bookVars
  BY <1>4 DEF bookVars
<1> QED BY <1>1, <1>2, <1>3, <1>4 DEF BookNext

\* As Allocator has it.
HandsOver(i) ==
  /\ Handed'[i] \in Areas
  /\ \A j \in BlockNames \ {i} : WordsOf(Handed'[i]) \cap WordsOf(Handed[j]) = {}
  /\ Handed' = [Handed EXCEPT ![i] = Handed'[i]]

\* One name's area changes, as the abstract allocator may change it.
LEMMA HandedStep ==
  ASSUME BInv, BInv', [BookNext]_bookVars
  PROVE  \/ Handed' = Handed
         \/ \E i \in BlockNames : HandsOver(i) \/ Handed' = [Handed EXCEPT ![i] = [at |-> 0, words |-> 0]]
<1>1. Disjoint /\ Disjoint'
  BY HeldApart, PTL
<1>2. CASE held' = held
  BY <1>2 DEF Handed
<1>3. ASSUME NEW i \in BlockNames, NEW v, held' = [held EXCEPT ![i] = v]
      PROVE  HandsOver(i) \/ Handed' = [Handed EXCEPT ![i] = [at |-> 0, words |-> 0]]
  <2>1. held \in [BlockNames -> [bp : Nat, words : Nat]]
    BY DEF BInv, BInvOn, ClientHolds
  <2>2. \A j \in BlockNames : j # i => held'[j] = held[j]
    BY <1>3, <2>1
  <2>3. \A j \in BlockNames : j # i => Handed'[j] = Handed[j]
    BY <2>2 DEF Handed
  <2>4. PICK a : a = Handed
    OBVIOUS
  <2>5. PICK b : b = Handed'
    OBVIOUS
  <2>6. a \in [BlockNames -> [at : Nat, words : Nat]] /\ b \in [BlockNames -> [at : Nat, words : Nat]]
    BY <1>1, <2>4, <2>5 DEF Disjoint
  <2>7. b = [a EXCEPT ![i] = b[i]]
    BY <2>3, <2>4, <2>5, <2>6
  <2>8. CASE held'[i] = NoBlock
    <3>1. b[i] = [at |-> 0, words |-> 0]
      BY <1>1, <2>5, <2>8 DEF Disjoint
    <3> QED BY <2>4, <2>5, <2>7, <3>1
  <2>9. CASE held'[i] # NoBlock
    <3>1. b[i] \in Areas
      BY <1>1, <2>5, <2>9 DEF Disjoint
    <3>2. ASSUME NEW j \in BlockNames \ {i} PROVE WordsOf(b[i]) \cap WordsOf(a[j]) = {}
      <4>1. a[j] = b[j]
        BY <2>3, <2>4, <2>5
      <4> QED BY <1>1, <2>5, <4>1 DEF Disjoint
    <3> QED BY <2>4, <2>5, <2>7, <3>1, <3>2 DEF HandsOver
  <2> QED BY <2>8, <2>9
<1> QED BY <1>2, <1>3, OneName

\* Each call is a step of the abstract allocator,
LEMMA PromisedStep == BInv /\ BInv' /\ [BookNext]_bookVars => [Promise!Next]_Handed
<1> SUFFICES ASSUME BInv, BInv', [BookNext]_bookVars, Handed' # Handed PROVE Promise!Next
  OBVIOUS
<1>1. PICK i \in BlockNames : HandsOver(i) \/ Handed' = [Handed EXCEPT ![i] = [at |-> 0, words |-> 0]]
  BY HandedStep
<1>2. CASE HandsOver(i)
  <2>1. Promise!Grant(i)
    BY <1>2 DEF HandsOver, Promise!Grant, Promise!Separate, Promise!WordsOf, Promise!Areas, Areas, WordsOf, Handed
  <2> QED BY <2>1 DEF Promise!Next
<1>3. CASE Handed' = [Handed EXCEPT ![i] = [at |-> 0, words |-> 0]]
  <2>1. Promise!Release(i)
    BY <1>3 DEF Promise!Release, Promise!Nothing, Handed
  <2> QED BY <2>1 DEF Promise!Next
<1> QED BY <1>1, <1>2, <1>3

\* and mm_init is its initial state.
LEMMA PromisedInit == BookInit => Promise!Init
<1> SUFFICES ASSUME BookInit PROVE Promise!Init
  OBVIOUS
<1>1. Handed = [i \in BlockNames |-> [at |-> 0, words |-> 0]]
  BY DEF BookInit, Handed, NoBlock
<1> QED BY <1>1 DEF Promise!Init, Promise!Nothing, Handed

-----------------------------------------------------------------------------
(* What is refused, and when the heap grows.                               *)

\* No free block of m has room for asize words.
NothingFits(m, asize) == \A b \in Walk(m, heap_listp) : ~GET_ALLOC(m, b) => GET_SIZE(m, b) < asize

\* By what the heap would have to grow.
Growth(asize) == IF asize > CHUNKSIZE THEN asize ELSE CHUNKSIZE

\* A search that found nothing.
LEMMA NothingFound ==
  ASSUME NEW m, NEW T \in SUBSET Nat, Ordered(m, T, {}), NEW asize, Even(asize), find_fit(m, asize) = 0
  PROVE  NothingFits(m, asize)
<1>1. Finds(m, T, asize, find_fit(m, asize))
  BY FoundFit DEF Even
<1>2. \A t \in FreeOf(m.words, T) : Size(m.words, t) < asize
  BY <1>1 DEF Finds
<1>3. Walk(m, heap_listp) = T \ {m.brk}
  BY WalkAll DEF Ordered
<1>4. ASSUME NEW b \in T, ~GET_ALLOC(m, b) PROVE GET_SIZE(m, b) < asize
  <2>1. b \in FreeOf(m.words, T)
    BY <1>4 DEF FreeOf, GET_ALLOC, HDRP
  <2>2. Size(m.words, b) < asize
    BY <1>2, <2>1
  <2> QED BY <2>2 DEF GET_SIZE, HDRP, Size
<1> QED BY <1>3, <1>4 DEF NothingFits

\* When a request of asize words is refused.
Refuses(m, asize) == mm_malloc_words(m, asize).bp = 0 => NothingFits(m, asize) /\ Exhausted(m, Growth(asize))

\* mm_malloc refuses only what cannot be had.
LEMMA Refused ==
  ASSUME NEW m, NEW T \in SUBSET Nat, Ordered(m, T, {}), NEW asize, Even(asize)
  PROVE  Refuses(m, asize)
<1> SUFFICES ASSUME mm_malloc_words(m, asize).bp = 0
             PROVE  NothingFits(m, asize) /\ Exhausted(m, Growth(asize))
  BY DEF Refuses
<1>1. PICK found, size : found = find_fit(m, asize) /\ size = Growth(asize)
  OBVIOUS
<1>2. PICK from : from = IF found # 0 THEN Searched(m, found) ELSE extend_heap(m, size)
  OBVIOUS
<1>3. mm_malloc_words(m, asize) = [from EXCEPT !.mem = IF from.bp = 0 THEN m ELSE place(from.mem, from.bp, asize)]
  BY <1>1, <1>2 DEF mm_malloc_words, Searched, Growth
<1>4. from = [mem |-> from.mem, bp |-> from.bp]
  <2>1. Searched(m, found) = [mem |-> Searched(m, found).mem, bp |-> Searched(m, found).bp]
    BY DEF Searched
  <2>2. extend_heap(m, size) = [mem |-> extend_heap(m, size).mem, bp |-> extend_heap(m, size).bp]
    BY DEF extend_heap, coalesce
  <2> QED BY <1>2, <2>1, <2>2
<1>5. from.bp = 0
  BY <1>3, <1>4
<1>6. found = 0
  BY <1>2, <1>5 DEF Searched
<1>7. NothingFits(m, asize)
  BY <1>1, <1>6, NothingFound
<1>8. ASSUME ~Exhausted(m, size) PROVE FALSE
  <2>1. size \in Nat /\ size % 2 = 0 /\ size >= 4
    BY <1>1, BookAssumption DEF Growth, Even
  <2>2. m.brk \in Nat
    BY DEF Ordered, Memories
  <2>3. Grows(m, size)
    BY <1>8, <2>1, <2>2, BookAssumption DEF Exhausted, Grows
  <2>4. PICK T2 \in SUBSET Nat : Gets(m, T, size, from, T2)
    <3>1. from = extend_heap(m, size)
      BY <1>2, <1>6
    <3> QED BY <2>3, <3>1, Extended
  <2>5. Tiled(from.mem.words, from.mem.brk, T2) /\ from.bp \in T2
    BY <2>4 DEF Gets, Ordered, FreeOf
  <2>6. from.bp >= 2 /\ from.bp \in Nat
    BY <2>5, TileFacts
  <2> QED BY <1>5, <2>6
<1> QED BY <1>1, <1>7, <1>8

\* A memory with its break at e.
Broken(m, e) == "brk" \in DOMAIN m /\ "words" \in DOMAIN m /\ "rover" \in DOMAIN m /\ m.brk = e

\* What does not move the break.
LEMMA BreakKept ==
  ASSUME NEW m, NEW e, Broken(m, e)
  PROVE  /\ \A p, n, f : Broken(PutTags(m, p, n, f), e)
         /\ \A p, asize : Broken(place(m, p, asize), e)
         /\ \A p : Broken(coalesce(m, p).mem, e) /\ Broken(mm_free_block(m, p), e)
         /\ \A i, a, z : Broken(ClientWrites(m, i, a, z), e)
         /\ \A a, b, n : Broken(CopyWords(m, a, b, n), e)
         /\ \A r : Broken([m EXCEPT !.rover = r], e)
<1>1. \A x, p, n, f : Broken(x, e) => Broken(PutTags(x, p, n, f), e)
  BY DEF PutTags, Broken
<1>2. \A x, r : Broken(x, e) => Broken([x EXCEPT !.rover = r], e)
  BY DEF Broken
<1>3. ASSUME NEW p, NEW asize PROVE Broken(place(m, p, asize), e)
  BY <1>1 DEF place
<1>4. ASSUME NEW x, NEW p, Broken(x, e) PROVE Broken(coalesce(x, p).mem, e)
  <2>1. PICK first, end : first = (IF x.words[p - 2].alloc THEN p ELSE PREV_BLKP(x, p)) /\
                          end = (IF GET_ALLOC(x, NEXT_BLKP(x, p)) THEN NEXT_BLKP(x, p) ELSE NEXT_BLKP(x, NEXT_BLKP(x, p)))
    OBVIOUS
  <2>2. PICK joined : joined = PutTags(x, first, end - first, FALSE)
    OBVIOUS
  <2>3. Broken(joined, e)
    BY <1>1, <1>4, <2>2
  <2>4. coalesce(x, p).mem = [joined EXCEPT !.rover = IF fit = "next" THEN RoverAfter(joined, first) ELSE @]
    BY <2>1, <2>2 DEF coalesce
  <2>5. PICK r : coalesce(x, p).mem = [joined EXCEPT !.rover = r]
    BY <2>3, <2>4 DEF Broken
  <2> QED BY <1>2, <2>3, <2>5
<1>5. ASSUME NEW p PROVE Broken(mm_free_block(m, p), e)
  BY <1>1, <1>4 DEF mm_free_block
<1>6. ASSUME NEW i, NEW a, NEW z PROVE Broken(ClientWrites(m, i, a, z), e)
  BY DEF ClientWrites, Broken
<1>7. ASSUME NEW a, NEW b, NEW n PROVE Broken(CopyWords(m, a, b, n), e)
  BY DEF CopyWords, Broken
<1> QED BY <1>1, <1>2, <1>3, <1>4, <1>5, <1>6, <1>7

\* The heap grows only for a request that no free block has room for.
GrowsWhenNeeded(m, asize) ==
  Broken(mm_malloc_words(m, asize).mem, m.brk) \/ NothingFits(m, asize)

\* It is so for each request.
LEMMA Needed ==
  ASSUME NEW m, NEW T \in SUBSET Nat, Ordered(m, T, {}), NEW asize, Even(asize)
  PROVE  GrowsWhenNeeded(m, asize)
<1>1. PICK found : found = find_fit(m, asize)
  OBVIOUS
<1>2. CASE found = 0
  BY <1>1, <1>2, NothingFound DEF GrowsWhenNeeded
<1>3. CASE found # 0
  <2>1. PICK s : s = Searched(m, found)
    OBVIOUS
  <2>2. s = [mem |-> s.mem, bp |-> found] /\ s.bp = found
    BY <2>1 DEF Searched
  <2>3. mm_malloc_words(m, asize) = [s EXCEPT !.mem = IF s.bp = 0 THEN m ELSE place(s.mem, s.bp, asize)]
    BY <1>1, <1>3, <2>1 DEF mm_malloc_words, Searched
  <2>4. mm_malloc_words(m, asize).mem = place(s.mem, found, asize)
    BY <1>3, <2>2, <2>3
  <2>5. Broken(m, m.brk)
    BY DEF Ordered, Memories, Broken
  <2>6. s.mem = m \/ s.mem = [m EXCEPT !.rover = found]
    BY <2>1 DEF Searched
  <2>7. Broken(s.mem, m.brk)
    BY <2>5, <2>6, BreakKept
  <2> QED BY <2>4, <2>7, BreakKept DEF GrowsWhenNeeded
<1> QED BY <1>2, <1>3

\* What a call with a size asks of the heap.
Asks(bytes) == \E i \in BlockNames : mm_malloc(i, bytes) \/ mm_realloc(i, bytes)

\* A step that moves the break is a call that found nothing.
LEMMA GrowthStep ==
  ASSUME BInv, [BookNext]_bookVars, brk' # brk
  PROVE  \E bytes \in Requests : Asks(bytes) /\ NothingFits(Memory, Adjusted(bytes))
<1>1. PICK T \in SUBSET Nat : BInvOn(T)
  BY DEF BInv
<1>a. PICK m : m = Memory
  OBVIOUS
<1>2. m = Memory /\ m.brk = brk
  BY <1>a DEF Memory
<1>3. Ordered(m, T, {}) /\ Broken(m, brk)
  BY <1>1, <1>2, MemoryFacts DEF Memory, Broken
<1>4. ASSUME NEW i \in BlockNames, mm_free(i) PROVE FALSE
  <2>1. brk' = mm_free_block(m, held[i].bp).brk
    BY <1>2, <1>4 DEF mm_free, Leaves
  <2>2. Broken(mm_free_block(m, held[i].bp), brk)
    BY <1>3, BreakKept
  <2> QED BY <2>1, <2>2 DEF Broken
<1>5. ASSUME NEW i \in BlockNames, NEW bytes \in Requests, mm_malloc(i, bytes) \/ mm_realloc(i, bytes)
      PROVE  NothingFits(m, Adjusted(bytes))
  <2>1. PICK asize, n : asize = Adjusted(bytes) /\ n = AskedWords(bytes)
    OBVIOUS
  <2>2. PICK r : r = mm_malloc_words(m, asize)
    OBVIOUS
  <2>3. Even(asize)
    <3>1. bytes > 0
      BY <1>5 DEF mm_malloc, mm_realloc
    <3> QED BY <2>1, <3>1, AskedFacts
  <2>4. CASE NothingFits(m, asize)
    BY <2>1, <2>4
  <2>5. CASE Broken(r.mem, brk)
    <3>1. CASE mm_malloc(i, bytes)
      <4>1. brk' = ClientWrites(r.mem, i, r.bp, r.bp + n - 1).brk
        BY <1>2, <2>1, <2>2, <3>1 DEF mm_malloc, Leaves
      <4>2. Broken(ClientWrites(r.mem, i, r.bp, r.bp + n - 1), brk)
        BY <2>5, BreakKept
      <4> QED BY <4>1, <4>2 DEF Broken
    <3>2. CASE mm_realloc(i, bytes)
      <4>1. PICK p, w : p = held[i].bp /\ w = held[i].words
        OBVIOUS
      <4>2. PICK c : c = CopyOf(r, p, n)
        OBVIOUS
      <4>3. brk' = ClientWrites(mm_free_block(c, p), i, r.bp + w, r.bp + n - 1).brk
        BY <1>2, <2>1, <2>2, <3>2, <4>1, <4>2 DEF mm_realloc, Leaves, CopyOf
      <4>4. Broken(c, brk)
        BY <2>5, <4>2, BreakKept DEF CopyOf
      <4>5. Broken(mm_free_block(c, p), brk)
        BY <4>4, BreakKept
      <4>6. Broken(ClientWrites(mm_free_block(c, p), i, r.bp + w, r.bp + n - 1), brk)
        BY <4>5, BreakKept
      <4> QED BY <4>3, <4>6 DEF Broken
    <3> QED BY <1>5, <3>1, <3>2
  <2> QED BY <1>2, <1>3, <2>2, <2>3, <2>4, <2>5, Needed DEF GrowsWhenNeeded
<1>6. CASE UNCHANGED bookVars
  BY <1>6 DEF bookVars
<1> QED BY <1>2, <1>4, <1>5, <1>6 DEF BookNext, Asks

-----------------------------------------------------------------------------

\* Words, break, rover and names of mm.c keep their types: the rover and what a
\* name holds are addresses of the heap.
THEOREM TypesOfTheBook == BookSpec => []BookTypeOK
BY BInvariant, TypesHold, PTL

\* coalesce, place and extend_heap leave one sequence of blocks from the prologue
\* to the epilogue (checkheap), with no free blocks side by side, and next fit's
\* rover at one of them; mm_malloc hands out areas that are aligned, large enough
\* and apart, mm_free and mm_realloc leave the others alone, and memcpy carries
\* over what the client wrote.
THEOREM BookKeepsThePromise == BookSpec => BookImplementsAllocator
<1>1. [BookNext]_bookVars /\ BInv /\ BInv' => [Promise!Next]_Handed
  BY PromisedStep
<1> QED BY <1>1, PromisedInit, BInvariant, IsSound, IsKept, PTL
        DEF BookSpec, BookImplementsAllocator, Promise!Spec, Handed

\* find_fit misses no block: mm_malloc_words gives up only when no free block has
\* room and mem_sbrk has no memory for another one.
THEOREM RefusesOnlyWhenFull ==
  BookSpec => [](\A bytes \in Requests : bytes > 0 => Refuses(Memory, Adjusted(bytes)))
<1>1. ASSUME BInv PROVE \A bytes \in Requests : bytes > 0 => Refuses(Memory, Adjusted(bytes))
  <2>1. PICK T \in SUBSET Nat : BInvOn(T)
    BY <1>1 DEF BInv
  <2> QED BY <2>1, MemoryFacts, AskedFacts, Refused
<1> QED BY <1>1, BInvariant, PTL

\* The heap grows only in a call of mm_malloc or mm_realloc for which no free block
\* has room, wherever next fit starts.
THEOREM GrowsOnlyWhenFull ==
  BookSpec => [][brk' # brk => \E bytes \in Requests : Asks(bytes) /\ NothingFits(Memory, Adjusted(bytes))]_bookVars
<1>1. ASSUME BInv, [BookNext]_bookVars, brk' # brk
      PROVE  \E bytes \in Requests : Asks(bytes) /\ NothingFits(Memory, Adjusted(bytes))
  BY <1>1, GrowthStep
<1> QED BY <1>1, BInvariant, PTL DEF BookSpec
===============================================================================
