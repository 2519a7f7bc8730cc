----------------------------- MODULE BookAllocator -----------------------------
(***************************************************************************)
(* The allocator of the book, csapp-master/vm/malloc/mm.c on memlib.c: no  *)
(* list of free blocks, the heap itself is walked from header to header;   *)
(* first fit, or next fit when NEXT_FIT is defined, from where the rover   *)
(* was left.                                                               *)
(*                                                                         *)
(* Sizes and addresses are in words; word 0 is the padding, and a block is *)
(* named by its payload (the code's bp), one word after its header.  What  *)
(* nobody relies on, inside a free block or beyond the words asked for in  *)
(* a taken one, is Unused.  The program is sequential, a call is one step. *)
(* The client (mdriver) is external: it fills what it is granted.  Sizes   *)
(* that overflow an int are left out.                                      *)
(***************************************************************************)
EXTENDS Integers, FiniteSetsExt

CONSTANTS
  BlockNames,  (* The client's names for what it holds.                    *)
  MAX_HEAP,    (* In words.                                                *)
  CHUNKSIZE,   (* In words.                                                *)
  Requests     (* The sizes the client asks for, in bytes.                 *)

ASSUME BookAssumption ==
  /\ BlockNames \cap {"tag", "unused"} = {}
  /\ CHUNKSIZE \in Nat /\ CHUNKSIZE >= 4 /\ CHUNKSIZE % 2 = 0
  /\ MAX_HEAP \in Nat /\ MAX_HEAP >= CHUNKSIZE + 5
  /\ Requests \subseteq Nat

VARIABLES
  fit,    (* "first" or "next": how mm.c was compiled.                     *)
  words,  (* The memory.                                                   *)
  brk,    (* mem_brk.                                                      *)
  rover,  (* NEXT_FIT's static variable.                                   *)
  held    (* The client's blocks: payload and words asked for.             *)

bookVars == <<fit, words, brk, rover, held>>

PACK(size, alloc) == [is |-> "tag", size |-> size, alloc |-> alloc]
Word(what)        == [is |-> what, size |-> 0, alloc |-> FALSE]
Unused            == Word("unused")
NoBlock           == [bp |-> 0, words |-> 0]

heap_listp == 2

-----------------------------------------------------------------------------
(* Blocks.  m is the memory with brk and rover.                            *)

HDRP(bp)         == bp - 1
GET_SIZE(m, bp)  == m.words[HDRP(bp)].size
GET_ALLOC(m, bp) == m.words[HDRP(bp)].alloc
FOOT(m, bp)      == bp + GET_SIZE(m, bp) - 2
NEXT_BLKP(m, bp) == bp + GET_SIZE(m, bp)
PREV_BLKP(m, bp) == bp - m.words[bp - 2].size

\* A header at bp, and the footer where it puts it.
PutTags(m, bp, size, alloc) ==
  [m EXCEPT !.words[HDRP(bp)] = PACK(size, alloc), !.words[bp + size - 2] = PACK(size, alloc)]

\* The walk from bp to the epilogue, without it; there are no headers from brk on.
Walk(m, bp) ==
  LET from[b \in Nat \ {0}] ==
        IF b < m.brk /\ GET_SIZE(m, b) > 0 THEN {b} \cup from[NEXT_BLKP(m, b)] ELSE {}
  IN  from[bp]

Fits(m, bps, asize) == {b \in bps : ~GET_ALLOC(m, b) /\ asize <= GET_SIZE(m, b)}

\* 0 for NULL.
Lowest(bps) == IF bps = {} THEN 0 ELSE Min(bps)

find_fit(m, asize) ==
  LET ahead  == Fits(m, Walk(m, m.rover), asize)
      behind == {b \in Fits(m, Walk(m, heap_listp), asize) : b < m.rover}
  IN  IF fit = "next" /\ ahead # {} THEN Min(ahead)
      ELSE IF fit = "next" THEN Lowest(behind)
      ELSE Lowest(Fits(m, Walk(m, heap_listp), asize))

\* A fault: the rover stays where there is no block any more.
RoverStays(m, bp) == m.rover

\* "Make sure the rover isn't pointing into the free block that we just
\* coalesced."
RoverAfter(m, bp) == IF m.rover > bp /\ m.rover < NEXT_BLKP(m, bp) THEN bp ELSE m.rover

\* A free block at bp joins the free blocks before and after it.
coalesce(m, bp) ==
  LET first  == IF m.words[bp - 2].alloc THEN bp ELSE PREV_BLKP(m, bp)
      next   == NEXT_BLKP(m, bp)
      end    == IF GET_ALLOC(m, next) THEN next ELSE NEXT_BLKP(m, next)
      joined == PutTags(m, first, end - first, FALSE)
  IN  [mem |-> [joined EXCEPT !.rover = IF fit = "next" THEN RoverAfter(joined, first) ELSE @],
       bp  |-> first]

\* mem_sbrk refuses.
Exhausted(m, size) == m.brk + size > MAX_HEAP

\* mem_sbrk of an even number of words, a free block where the epilogue was,
\* and a new epilogue.  bp is 0 when there is no memory.
extend_heap(m, size) ==
  LET bp == m.brk
      h  == [PutTags(m, bp, size, FALSE) EXCEPT
               !.brk = @ + size, !.words[HDRP(bp + size)] = PACK(0, TRUE)]
  IN  IF Exhausted(m, size) THEN [mem |-> m, bp |-> 0] ELSE coalesce(h, bp)

\* 2*DSIZE: the least block.
Splits(rest) == rest >= 4

place(m, bp, asize) ==
  LET rest == GET_SIZE(m, bp) - asize
  IN  IF Splits(rest) THEN PutTags(PutTags(m, bp, asize, TRUE), bp + asize, rest, FALSE)
                      ELSE PutTags(m, bp, GET_SIZE(m, bp), TRUE)

\* The size with header and footer, even.
Adjusted(bytes) == IF bytes <= 8 THEN 4 ELSE 2 * ((bytes + 15) \div 8)

mm_malloc_words(m, asize) ==
  LET found == find_fit(m, asize)
      from  == IF found # 0
                 THEN [mem |-> IF fit = "next" THEN [m EXCEPT !.rover = found] ELSE m, bp |-> found]
                 ELSE extend_heap(m, IF asize > CHUNKSIZE THEN asize ELSE CHUNKSIZE)
  IN  [from EXCEPT !.mem = IF from.bp = 0 THEN m ELSE place(from.mem, from.bp, asize)]

mm_free_block(m, bp) == coalesce(PutTags(m, bp, GET_SIZE(m, bp), FALSE), bp).mem

\* memcpy(newptr, ptr, oldsize) of n words.
CopyWords(m, from, to, n) ==
  [m EXCEPT !.words = [k \in DOMAIN @ |-> IF k \in to .. to + n - 1 THEN @[k - to + from] ELSE @[k]]]

-----------------------------------------------------------------------------
Memory == [words |-> words, brk |-> brk, rover |-> rover]

\* What a call leaves behind in m, where h is what the client then holds.
Leaves(m, h) ==
  LET asked == UNION {h[i].bp .. h[i].bp + h[i].words - 1 : i \in BlockNames}
      tags  == (UNION {{HDRP(b), FOOT(m, b)} : b \in Walk(m, heap_listp)}) \cup {HDRP(m.brk)}
  IN  /\ words' = [k \in DOMAIN m.words |-> IF k \in asked \cup tags THEN m.words[k] ELSE Unused]
      /\ brk' = m.brk /\ rover' = m.rover /\ held' = h
      /\ UNCHANGED fit

\* mm_init: padding, prologue, epilogue and a first free block.
BookInit ==
  LET memory == [words |-> [k \in 0 .. MAX_HEAP - 1 |-> Unused], brk |-> 4, rover |-> heap_listp]
      first  == extend_heap([memory EXCEPT !.words[1] = PACK(2, TRUE), !.words[2] = PACK(2, TRUE),
                                           !.words[3] = PACK(0, TRUE)], CHUNKSIZE).mem
  IN  /\ fit \in {"first", "next"}
      /\ words = first.words /\ brk = first.brk /\ rover = first.rover
      /\ held = [i \in BlockNames |-> NoBlock]

\* The client writes its words from .. to.
ClientWrites(m, i, from, to) ==
  [m EXCEPT !.words = [k \in DOMAIN @ |-> IF k \in from .. to THEN Word(i) ELSE @[k]]]

AskedWords(bytes) == (bytes + 3) \div 4

\* A size of 0 is ignored, and when there is no memory nothing changes.  Also
\* mm_realloc of NULL.
mm_malloc(i, bytes) ==
  LET r == mm_malloc_words(Memory, Adjusted(bytes))
      n == AskedWords(bytes)
  IN  /\ held[i] = NoBlock /\ bytes > 0 /\ r.bp # 0
      /\ Leaves(ClientWrites(r.mem, i, r.bp, r.bp + n - 1),
                [held EXCEPT ![i] = [bp |-> r.bp, words |-> n]])

\* Also mm_realloc to size 0; free(NULL) does nothing.
mm_free(i) ==
  /\ held[i] # NoBlock
  /\ Leaves(mm_free_block(Memory, held[i].bp), [held EXCEPT ![i] = NoBlock])

\* Always to another block; the old one is left untouched when there is none.
mm_realloc(i, bytes) ==
  LET old    == held[i].bp
      r      == mm_malloc_words(Memory, Adjusted(bytes))
      n      == AskedWords(bytes)
      copied == CopyWords(r.mem, old, r.bp, Min({n, GET_SIZE(r.mem, old)}))
  IN  /\ held[i] # NoBlock /\ bytes > 0 /\ r.bp # 0
      /\ Leaves(ClientWrites(mm_free_block(copied, old), i, r.bp + held[i].words, r.bp + n - 1),
                [held EXCEPT ![i] = [bp |-> r.bp, words |-> n]])

BookNext ==
  \E i \in BlockNames :
    \/ mm_free(i)
    \/ \E bytes \in Requests : mm_malloc(i, bytes) \/ mm_realloc(i, bytes)

BookSpec == BookInit /\ [][BookNext]_bookVars

-----------------------------------------------------------------------------
(* Properties.                                                             *)

BookTypeOK ==
  /\ fit \in {"first", "next"}
  /\ words \in [0 .. MAX_HEAP - 1 -> [is : {"tag", "unused"} \cup BlockNames, size : Nat, alloc : BOOLEAN]]
  /\ brk \in 0 .. MAX_HEAP /\ rover \in 0 .. MAX_HEAP
  /\ held \in [BlockNames -> [bp : 0 .. MAX_HEAP, words : Nat]]

\* The walk meets every block, with equal tags and room for a payload, and
\* ends at the epilogue (checkheap, checkblock); no two free blocks meet; the
\* rover is at a block.
BookHeapIsSound ==
  LET blocks == Walk(Memory, heap_listp)
      free   == {b \in blocks : ~GET_ALLOC(Memory, b)}
  IN  /\ brk \in {NEXT_BLKP(Memory, b) : b \in blocks} /\ words[HDRP(brk)] = PACK(0, TRUE)
      /\ \A b \in blocks : words[HDRP(b)].is = "tag" /\ words[FOOT(Memory, b)] = words[HDRP(b)]
      /\ \A b \in blocks \ {heap_listp} : GET_SIZE(Memory, b) >= 4
      /\ \A b \in free : NEXT_BLKP(Memory, b) \notin free
      /\ rover \in blocks
      /\ blocks \ free = {heap_listp} \cup ({held[i].bp : i \in BlockNames} \ {0})

\* What the client wrote is still there, also where realloc moved it.
HeldIsKept ==
  \A i \in BlockNames : \A k \in held[i].bp .. held[i].bp + held[i].words - 1 : words[k] = Word(i)

Promise == INSTANCE Allocator WITH
  Ids <- BlockNames, MaxHeap <- MAX_HEAP,
  live <- [i \in BlockNames |-> [at |-> held[i].bp, words |-> held[i].words]]

\* First fit and next fit keep what Allocator promises, on a heap that stays
\* in one piece: every word is in one block, merging and splitting lose none,
\* and next fit starts from a block, although the one it was left at may have
\* become the inside of a free block since.
BookImplementsAllocator == Promise!Spec /\ [](BookHeapIsSound /\ HeldIsKept)
=============================================================================
