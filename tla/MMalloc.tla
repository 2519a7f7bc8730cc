------------------------------- MODULE MMalloc -------------------------------
(***************************************************************************)
(* The allocator of the malloc lab, labs/malloclab-handout/mm.c on         *)
(* memlib.c: blocks with a header and a footer word that hold the size in  *)
(* words and the status, free blocks in lists by the power of two below    *)
(* their size, each list sorted from the largest block to the smallest.    *)
(*                                                                         *)
(* The heap is a sequence of words; word 1 is the prolog's header, and a   *)
(* block is named by the index of its header (the code's bp).  A list is   *)
(* the sequence its pred and succ words link; the words themselves are     *)
(* only marked Link, to see what they overwrite.  What an earlier use left *)
(* in a free block, or beyond the words asked for in a taken one, becomes  *)
(* Junk: nobody relies on it.  Sizes are in words, the client's requests   *)
(* in bytes, as in the code.  Every call is one step: the program is       *)
(* sequential.                                                             *)
(*                                                                         *)
(* The client (mdriver) is external.  It fills what it is granted with its *)
(* own name and touches nothing else.                                      *)
(***************************************************************************)
EXTENDS Integers, SequencesExt

CONSTANTS
  Ids,        (* The names of the client's blocks.                         *)
  MaxHeap,    (* MAX_HEAP, in words.                                       *)
  MAX_POWER,  (* The last class of sizes.                                  *)
  CHUNK,      (* Words the heap grows by at least.                         *)
  Bytes       (* The sizes the client asks for, in bytes.                  *)

ASSUME IdsAssumption == Ids \cap {"tag", "link", "junk"} = {}
ASSUME ChunkAssumption == CHUNK \in Nat \ {0}
ASSUME MaxHeapAssumption == MaxHeap \in Nat /\ MaxHeap >= CHUNK + 7
ASSUME BytesAssumption == Bytes \subseteq Nat

VARIABLES
  heap, lists,
  previous_size,  (* mm_realloc's static variable.                         *)
  trapped,        (* What stopped the program, or "no".                    *)
  live            (* The client's blocks: header and words asked for.      *)

vars == <<heap, lists, previous_size, trapped, live>>

Tag(n, free) == [is |-> "tag", n |-> n, free |-> free]
Other(what)  == [is |-> what, n |-> 0, free |-> FALSE]
Link         == Other("link")
Junk         == Other("junk")
Data(i)      == Other(i)
Nothing      == [bp |-> 0, words |-> 0]

-----------------------------------------------------------------------------
(* Arithmetic.                                                             *)

\* round_up_power_2 of a size in bytes; 0 for 0.
round_up_power_2(x) ==
  IF x = 0 THEN 0 ELSE CHOOSE p \in {2 ^ k : k \in 0 .. 12} : p >= x /\ p < 2 * x

Even(x) == 2 * ((x + 1) \div 2)

\* ALIGN(size) / WORD_SIZE.
Words(bytes) == 2 * ((bytes + 7) \div 8)

\* mm_malloc's size: a power of two up to a page.
Granted(bytes) == Words(IF bytes <= 4096 THEN round_up_power_2(bytes) ELSE bytes)

find_free_list_index[words \in Nat] ==
  IF words > 1 THEN find_free_list_index[words \div 2] + 1 ELSE 0

Classes == 0 .. MAX_POWER

\* round_to_thousand.
Thousand(x) == IF x % 1000 >= 500 THEN x + 1000 - (x % 1000) ELSE x - (x % 1000)

-----------------------------------------------------------------------------
(* Blocks of a heap h.                                                     *)

FTRP(h, p) == p + h[p].n + 1
NextBlock(h, p) == FTRP(h, p) + 1
PrevBlock(h, p) == p - (h[p - 1].n + 2)

\* Header at p, and the footer where that header puts it.
PutBlock(h, p, n, free) == [h EXCEPT ![p] = Tag(n, free), ![p + n + 1] = Tag(n, free)]

-----------------------------------------------------------------------------
(* The lists.  m is a heap together with its lists.                        *)

\* A fault: the block stays in its list.
StaysListed(m, p) == m

remove_block_from_free_list(m, p) ==
  IF m.heap[p].n = 0 THEN m
  ELSE [m EXCEPT !.lists = [c \in Classes |-> RemoveFirst(m.lists[c], p)]]

\* A fault: every block goes to the end of its list.
AtTheEnd(h, list, n) == 0

\* The first block of the list that is not larger, or 0.
FirstNotLarger(h, list, n) == SelectInSeq(list, LAMBDA q : h[q].n <= n)

\* Before that block; the two links go into the block.
place_block_into_free_list(m, p) ==
  LET n    == m.heap[p].n
      c    == find_free_list_index[n]
      list == m.lists[c]
      here == FirstNotLarger(m.heap, list, n)
  IN IF n = 0 THEN m
     ELSE [heap  |-> [k \in DOMAIN m.heap |-> IF k \in p + 1 .. p + 2 THEN Link
                                            ELSE IF k \in p + 3 .. p + n THEN Junk
                                            ELSE m.heap[k]],
           lists |-> [m.lists EXCEPT ![c] =
                        IF here = 0 THEN Append(list, p) ELSE InsertAt(list, here, p)]]

\* In the list of the size: a block of just that size, or the last one before
\* the blocks get too small.  Then the smallest block of the next list that
\* is not empty.
find_free_block(m, words) ==
  LET c        == find_free_list_index[words]
      list     == m.lists[c]
      Size(i)  == m.heap[list[i]].n
      Stops(i) == Size(i) = words \/ i = Len(list) \/ Size(i + 1) < words
      larger   == {k \in Classes : k > c /\ m.lists[k] # <<>>}
  IN IF list # <<>> /\ Size(1) >= words
     THEN list[Min({i \in 1 .. Len(list) : Stops(i)})]
     ELSE IF larger # {} THEN Last(m.lists[Min(larger)]) ELSE 0

-----------------------------------------------------------------------------
NextIsFree(h, p) == h[NextBlock(h, p)].free

PrevIsFree(h, p) == h[PrevBlock(h, p)].free

\* A free block not yet listed joins the free blocks before and after it.
coalesce(m, p) ==
  LET first  == IF PrevIsFree(m.heap, p) THEN PrevBlock(m.heap, p) ELSE p
      last   == IF NextIsFree(m.heap, p) THEN NextBlock(m.heap, p) ELSE p
      n      == m.heap[p].n + (IF first # p THEN m.heap[first].n + 2 ELSE 0)
                            + (IF last # p THEN m.heap[last].n + 2 ELSE 0)
      m1     == IF first # p THEN remove_block_from_free_list(m, first) ELSE m
      m2     == IF last # p THEN remove_block_from_free_list(m1, last) ELSE m1
      tag    == Tag(n, TRUE)
  IN IF first = last THEN [mem |-> m, bp |-> p]
     ELSE [mem |-> [m2 EXCEPT !.heap[first] = tag, !.heap[FTRP(m.heap, last)] = tag],
           bp  |-> first]

\* A fault: a rest without room for links is cut off as well.
RestTooSmall(rest) == rest >= 0

Cuts(rest) == rest > 0

\* Taken; what is left over becomes a free block, or stays in this one when it
\* is just a header and a footer.
alloc_free_block(m, p, words) ==
  LET rest == m.heap[p].n - words - 2
      new  == p + words + 2
      cut  == coalesce([m EXCEPT !.heap =
                PutBlock(PutBlock(@, new, rest, TRUE), p, words, FALSE)], new)
  IN IF Cuts(rest) THEN place_block_into_free_list(cut.mem, cut.bp)
     ELSE [m EXCEPT !.heap = PutBlock(@, p, IF rest = 0 THEN words + 2 ELSE words, FALSE)]

\* A fault: memory never ends.
NeverFull(h) == FALSE

Full(h) == Len(h) > MaxHeap

\* mem_sbrk, a free block where the epilog was, and a new epilog.  bp is 0
\* when there is no memory.
extend_heap(m, words) ==
  LET n == Even(words)
      p == Len(m.heap) - 1
      h == m.heap \o [k \in 1 .. n + 2 |-> Junk]
  IN IF Full(h) THEN [mem |-> m, bp |-> 0]
     ELSE [mem |-> [m EXCEPT !.heap =
             PutBlock(PutBlock(h, p, n, TRUE), p + n + 2, 0, FALSE)], bp |-> p]

mm_malloc(m, bytes) ==
  LET words == Granted(bytes)
      found == find_free_block(m, words)
      grown == extend_heap(m, IF words > CHUNK THEN words ELSE CHUNK)
      from  == IF found # 0 THEN [mem |-> remove_block_from_free_list(m, found), bp |-> found]
               ELSE grown
  IN IF bytes = 0 \/ from.bp = 0 THEN [mem |-> m, bp |-> 0]
     ELSE [mem |-> alloc_free_block(from.mem, from.bp, words), bp |-> from.bp]

\* The block p marked free and joined with its neighbours, not listed.
Joined(m, p) == coalesce([m EXCEPT !.heap = PutBlock(@, p, @[p].n, TRUE)], p)

mm_free(m, p) == LET j == Joined(m, p) IN place_block_into_free_list(j.mem, j.bp)

\* A fault: the payload is not moved.
CopyNothing(m, from, to, n) == m

\* memmove or memcpy of n payload words.
Copy(m, from, to, n) ==
  [m EXCEPT !.heap = [k \in DOMAIN @ |-> IF k \in to + 1 .. to + n THEN @[k - to + from] ELSE @[k]]]

\* The buffer, in words, that mm_realloc adds: computed in bytes.  0 % 0 traps.
Buffer(bytes, before) ==
  LET d == IF bytes >= before THEN bytes - before ELSE before - bytes
  IN IF d < 4096 /\ d % round_up_power_2(d) # 0 THEN round_up_power_2(d) ELSE Thousand(bytes)

\* mm_realloc's size in words for mm_malloc, in bytes.
Moved(size) == size * 4 + 4

\* No size has more bits than there are lists: MAX_POWER is 50 in the code.
ASSUME ClassesAssumption ==
  /\ MAX_POWER \in Nat
  /\ \A words \in 0 .. MaxHeap : find_free_list_index[words] \in Classes
  /\ \A b \in Bytes : find_free_list_index[Granted(b)] \in Classes
  /\ \A b \in Bytes, a \in Bytes \cup {0} :
       a # b => find_free_list_index[Granted(Moved(Words(b) + Buffer(b, a)))] \in Classes

\* bp is 0 for NULL, and -1 when memcpy is given the NULL of mm_malloc: the
\* test that should see it compares NULL - 1.
mm_realloc_wrapped(m, p, bytes, buffer) ==
  LET new    == Words(bytes)
      size   == new + buffer
      old    == m.heap[p].n
      joins  == PrevIsFree(m.heap, p) \/ NextIsFree(m.heap, p)
      joined == Joined(m, p)
      copied == IF joined.bp = p THEN joined.mem ELSE Copy(joined.mem, p, joined.bp, old)
      other  == mm_malloc(m, Moved(size))
  IN IF size = old THEN [mem |-> m, bp |-> p]
     ELSE IF new = 0 THEN [mem |-> mm_free(m, p), bp |-> 0]
     ELSE IF new <= old THEN [mem |-> m, bp |-> p]
     ELSE IF joins /\ joined.mem.heap[joined.bp].n >= size
       THEN [mem |-> alloc_free_block(copied, joined.bp, size), bp |-> joined.bp]
     ELSE IF other.bp = 0 THEN [mem |-> m, bp |-> -1]
     ELSE [mem |-> mm_free(Copy(other.mem, p, other.bp, old), p), bp |-> other.bp]

-----------------------------------------------------------------------------
Memory == [heap |-> heap, lists |-> lists]

SetMemory(m) == heap' = m.heap /\ lists' = m.lists

\* mm_init: prolog, epilog and a first chunk, listed.
Init ==
  LET m == extend_heap([heap  |-> [k \in 1 .. 4 |-> Tag(0, FALSE)],
                        lists |-> [c \in Classes |-> <<>>]], CHUNK)
      first == place_block_into_free_list(m.mem, m.bp)
  IN /\ heap = first.heap /\ lists = first.lists
     /\ previous_size = 0 /\ trapped = "no"
     /\ live = [i \in Ids |-> Nothing]

\* The client writes the words from .. to of the payload of p.
Fill(m, i, p, from, to) ==
  [m EXCEPT !.heap = [k \in DOMAIN @ |->
     IF k \in p + from .. p + to THEN Data(i)
     ELSE IF k \in p + to + 1 .. p + @[p].n THEN Junk ELSE @[k]]]

Asked(bytes) == (bytes + 3) \div 4

Malloc(i, bytes) ==
  /\ trapped = "no" /\ live[i] = Nothing
  /\ LET r == mm_malloc(Memory, bytes) IN
     /\ r.bp # 0
     /\ SetMemory(Fill(r.mem, i, r.bp, 1, Asked(bytes)))
     /\ live' = [live EXCEPT ![i] = [bp |-> r.bp, words |-> Asked(bytes)]]
  /\ UNCHANGED <<previous_size, trapped>>

Free(i) ==
  /\ trapped = "no" /\ live[i] # Nothing
  /\ SetMemory(mm_free(Memory, live[i].bp))
  /\ live' = [live EXCEPT ![i] = Nothing]
  /\ UNCHANGED <<previous_size, trapped>>

Realloc(i, bytes) ==
  /\ trapped = "no" /\ live[i] # Nothing /\ bytes # previous_size
  /\ LET r == mm_realloc_wrapped(Memory, live[i].bp, bytes, Buffer(bytes, previous_size)) IN
     \/ /\ r.bp > 0
        /\ SetMemory(Fill(r.mem, i, r.bp, live[i].words + 1, Asked(bytes)))
        /\ live' = [live EXCEPT ![i] = [bp |-> r.bp, words |-> Asked(bytes)]]
        /\ previous_size' = bytes /\ UNCHANGED trapped
     \/ /\ r.bp = 0
        /\ SetMemory(r.mem)
        /\ live' = [live EXCEPT ![i] = Nothing]
        /\ previous_size' = bytes /\ UNCHANGED trapped
     \/ /\ r.bp = -1
        /\ trapped' = "copy to NULL"
        /\ UNCHANGED <<heap, lists, live, previous_size>>

\* A NULL pointer: mm_malloc(NULL) is mm_malloc(0), so nothing is granted.
ReallocNull(bytes) ==
  /\ trapped = "no" /\ bytes # previous_size
  /\ previous_size' = bytes
  /\ UNCHANGED <<heap, lists, trapped, live>>

\* The size of the call before: diff % round_up_power_2(diff) is 0 % 0.
ReallocSameSize(bytes) ==
  /\ trapped = "no" /\ bytes = previous_size
  /\ trapped' = "0 % 0"
  /\ UNCHANGED <<heap, lists, previous_size, live>>

Next ==
  \/ \E i \in Ids, bytes \in Bytes : Malloc(i, bytes) \/ Realloc(i, bytes)
  \/ \E i \in Ids : Free(i)
  \/ \E bytes \in Bytes : ReallocNull(bytes) \/ ReallocSameSize(bytes)

Spec == Init /\ [][Next]_vars

-----------------------------------------------------------------------------
(* Properties.                                                             *)

TypeOK ==
  /\ heap \in Seq([is : {"tag", "link", "junk"} \cup Ids, n : Nat, free : BOOLEAN]) /\ Len(heap) <= MaxHeap
  /\ lists \in [Classes -> Seq(1 .. MaxHeap)]
  /\ previous_size \in Bytes \cup {0}
  /\ trapped \in {"no", "0 % 0", "copy to NULL"}
  /\ live \in [Ids -> [bp : 0 .. MaxHeap, words : Nat]]

Epilog == Len(heap) - 1

\* What the walk from header to header meets before the epilog's place.
Blocks ==
  LET walk[p \in Nat \ (0 .. 2)] == IF p >= Epilog THEN {p} ELSE {p} \cup walk[NextBlock(heap, p)]
  IN walk[3]

FreeBlocks == {p \in Blocks : heap[p].free}

\* The walk ends in the epilog, and every block has room for two links and the
\* same header and footer ("hdr == ftr", is_valid_free_block).
HeapIsTiled ==
  /\ Epilog \in Blocks
  /\ \A p \in {1} \cup Blocks :
       heap[p].is = "tag" /\ heap[FTRP(heap, p)] = heap[p] /\ heap[p].n % 2 = 0
  /\ \A p \in Blocks \ {Epilog} : heap[p].n >= 2

\* The lists hold every free block and no other, once, each in the list of its
\* size (check_all_free_blocks_in_free_list, check_free_blocks_marked_free).
ListsHoldFreeBlocks ==
  /\ FreeBlocks = UNION {ToSet(lists[c]) : c \in Classes}
  /\ \A c \in Classes :
       /\ IsInjective(lists[c])
       /\ \A p \in ToSet(lists[c]) : find_free_list_index[heap[p].n] = c

\* "should coalesce": no free block follows a free block.
FreeBlocksCoalesced ==
  LET free == FreeBlocks IN \A p \in free : NextBlock(heap, p) \notin free

\* The three: what mm_check asserts, after any sequence of calls.
HeapIsConsistent == HeapIsTiled /\ ListsHoldFreeBlocks /\ FreeBlocksCoalesced

\* The blocks that are taken are those the client holds: no block is lost by
\* realloc, split or extension.
TakenBlocksAreLive ==
  Blocks \ (FreeBlocks \cup {Epilog}) = {live[i].bp : i \in Ids} \ {0}

\* What the client wrote is still there, after its block was moved by realloc
\* and after every call for another block.
ContentsKept ==
  \A i \in Ids, k \in 1 .. MaxHeap :
    k <= live[i].words => heap[live[i].bp + k] = Data(i)

\* Both: nothing a client holds, and nothing it wrote, is lost.
ClientKeepsBlocks == TakenBlocksAreLive /\ ContentsKept

\* The search takes a smallest free block that is large enough, and the heap
\* grows only when there is none.
BestFit ==
  LET free == FreeBlocks IN
  \A words \in {Words(bytes) : bytes \in Bytes \ {0}} :
    LET fits  == {p \in free : heap[p].n >= words}
        found == find_free_block(Memory, words)
    IN IF fits = {} THEN found = 0
       ELSE found \in fits /\ \A p \in fits : heap[found].n <= heap[p].n

\* mm.c keeps what Allocator promises.
Promise == INSTANCE Allocator WITH
  live <- [i \in Ids |-> [at    |-> IF live[i] = Nothing THEN 0 ELSE live[i].bp + 1,
                          words |-> live[i].words]]

ImplementsAllocator == Promise!Spec

-----------------------------------------------------------------------------
(* What the comments of mm.c say and the code does not do.                 *)

\* "if the size given is zero, behaves as free would" (mm_realloc): nothing
\* traps.
ReallocReturns == trapped # "0 % 0"
=============================================================================
