-------------------------------- MODULE Strided --------------------------------
(***************************************************************************)
(* The kernels of csapp-master/mem/memperf that move an array of mx        *)
(* doubles with stride l, unrolled: cpy.c, and cpyr.c for an array in a    *)
(* mapped segment of MAXREMOTE bytes that is gone through again and again. *)
(* A kernel walks l interleaved columns of nn = mx/l elements.  In each a  *)
(* loop of rounds of 8 (4, 2) pointers hands over to a loop of half as     *)
(* many, down to one; every pointer moves on its own, in all loops it is   *)
(* in.  Of the iterations over the whole, which all start the same, one    *)
(* is modelled.                                                            *)
(***************************************************************************)
EXTENDS Integers, FiniteSets, Sequences

CONSTANTS
  Copies,    (* The calls: kernel, stride l and size mx.                   *)
  MAXREMOTE  (* In doubles.                                                *)

\* What a kernel does with a strided element ("load", "store", "load copy" or
\* "copy store"); where it looks for the end of the segment ("all": after each
\* round of each loop, "widest": of the loop of 8).
Mover(does, lanes)        == [does |-> does, lanes |-> lanes, stops |-> "never"]
RemoteMover(does, stops)  == [does |-> does, lanes |-> 8, stops |-> stops]

cpy_ls1 == Mover("load", 1)
cpy_ls2 == Mover("load", 2)
cpy_ls4 == Mover("load", 4)
cpy_ls8 == Mover("load", 8)
cpy_vs1 == Mover("store", 1)
cpy_vs2 == Mover("store", 2)
cpy_vs4 == Mover("store", 4)
cpy_vs8 == Mover("store", 8)
cpy_lc1 == Mover("load copy", 1)
cpy_lc2 == Mover("load copy", 2)
cpy_lc4 == Mover("load copy", 4)
cpy_lc8 == Mover("load copy", 8)
cpy_cs1 == Mover("copy store", 1)
cpy_cs2 == Mover("copy store", 2)
cpy_cs4 == Mover("copy store", 4)
cpy_cs8 == Mover("copy store", 8)

cpy_ls_r == RemoteMover("load", "all")
cpy_vs_r == RemoteMover("store", "all")
cpy_lc_r == RemoteMover("load copy", "widest")
cpy_cs_r == RemoteMover("copy store", "widest")

Locals  == {cpy_ls1, cpy_ls2, cpy_ls4, cpy_ls8, cpy_vs1, cpy_vs2, cpy_vs4, cpy_vs8,
            cpy_lc1, cpy_lc2, cpy_lc4, cpy_lc8, cpy_cs1, cpy_cs2, cpy_cs4, cpy_cs8}
Remotes == {cpy_ls_r, cpy_vs_r, cpy_lc_r, cpy_cs_r}

\* lcpy.c calls with strides up to 64, and the segment has 16 times as many.
ASSUME CopiesAssumption ==
  /\ Copies \subseteq [kernel : Locals \cup Remotes, l : Nat \ {0}, mx : Nat]
  /\ MAXREMOTE \in Nat
  /\ \A c \in Copies : 16 * c.l <= MAXREMOTE

-----------------------------------------------------------------------------
VARIABLES
  call,     (* Never changes.                                              *)
  ay,       (* The column, `j'; l after the last.                          *)
  i, loop,  (* Elements done in the column, and the loop it is in.         *)
  lane,     (* The statement of the round.                                 *)
  ptr,      (* ax, bx, ..., hx, as indexes of a.                           *)
  cy,       (* As an index of c.                                           *)
  touched, count, copied  (* History: indexes of a, how many times, pairs. *)

stridedVars == <<call, ay, i, loop, lane, ptr, cy, touched, count, copied>>

l  == call.l
nn == call.mx \div l

does    == call.kernel.does
copying == does \in {"load copy", "copy store"}

\* The widths of the loops; the kernels of 8 begin with 4 for a short column.
Widths ==
  CASE call.kernel.lanes = 8 /\ nn > 16 -> <<8, 4, 2, 1>>
    [] call.kernel.lanes = 8 /\ nn <= 16 -> <<4, 2, 1>>
    [] call.kernel.lanes = 4 -> <<4, 2, 1>>
    [] call.kernel.lanes = 2 -> <<2, 1>>
    [] call.kernel.lanes = 1 -> <<1>>

Lanes == 0 .. Widths[1] - 1
width == Widths[loop]

StridedTypeOK ==
  /\ call \in Copies
  /\ ay \in 0 .. l /\ i \in 0 .. nn /\ loop \in 1 .. Len(Widths) /\ lane \in 0 .. width - 1
  /\ ptr \in [Lanes -> Nat]
  /\ cy \in 0 .. l * nn
  /\ touched \subseteq Nat /\ count \in 0 .. l * nn /\ copied \subseteq Nat \X Nat

\* ax = ay, bx = ay + l, ...
Column(j) == [t \in Lanes |-> j + t * l]

StridedInit ==
  /\ call \in Copies
  /\ ay = 0 /\ i = 0 /\ loop = 1 /\ lane = 0
  /\ ptr = Column(0)
  /\ cy = 0
  /\ touched = {} /\ count = 0 /\ copied = {}

\* A fault: the last full round is left to the next loop, or to nobody.
LoopsShort == i < nn - width

\* while (i<=nn-8), (i<=nn-4), ...
Goes == i <= nn - width

\* ax = ax + m, where m is m4, m2 or l in the narrower loops.
Advance == [ptr EXCEPT ![lane] = @ + width * l]

\* A fault: the first pointer is compared with the end of the segment.
PastFirst(moved) ==
  does # "load copy" /\ moved[0] >= MAXREMOTE

\* The last pointer of the round against stop = a + MAXREMOTE.
Past(moved) ==
  does # "load copy" /\ moved[width - 1] >= MAXREMOTE

\* After which rounds the end of the segment is looked for.
Looks ==
  \/ call.kernel.stops = "all"
  \/ call.kernel.stops = "widest" /\ width = 8

\* At the end of the segment the pointers of the loop go back.
Wrapped(moved) ==
  IF Looks /\ Past(moved) THEN [t \in Lanes |-> IF t < width THEN ay + t * l ELSE moved[t]]
                          ELSE moved

\* cpy_lc_r: cy against cystop.
CyWrapped(c) == IF Looks /\ does = "load copy" /\ c >= MAXREMOTE THEN 0 ELSE c

\* One statement of a round: an element, and its pointer moves.
Move ==
  /\ ay < l /\ (lane > 0 \/ Goes)
  /\ touched' = touched \cup {ptr[lane]}
  /\ count' = count + 1
  /\ copied' = IF copying THEN copied \cup {<<cy + lane, ptr[lane]>>} ELSE copied
  /\ IF lane + 1 < width
       THEN lane' = lane + 1 /\ ptr' = Advance /\ UNCHANGED <<i, cy>>
       ELSE /\ lane' = 0 /\ i' = i + width
            /\ ptr' = Wrapped(Advance)
            /\ cy' = IF copying THEN CyWrapped(cy + width) ELSE cy
  /\ UNCHANGED <<call, ay, loop>>

NextLoop ==
  /\ ay < l /\ lane = 0 /\ ~Goes /\ loop < Len(Widths)
  /\ loop' = loop + 1
  /\ UNCHANGED <<call, ay, i, lane, ptr, cy, touched, count, copied>>

\* ay++, and the pointers start again; cy does not.
NextColumn ==
  /\ ay < l /\ lane = 0 /\ ~Goes /\ loop = Len(Widths)
  /\ ay' = ay + 1
  /\ i' = 0 /\ loop' = 1 /\ ptr' = Column(ay + 1)
  /\ UNCHANGED <<call, lane, cy, touched, count, copied>>

StridedNext == Move \/ NextLoop \/ NextColumn

StridedSpec == StridedInit /\ [][StridedNext]_stridedVars

-----------------------------------------------------------------------------
(* Properties.                                                             *)

local == call.kernel.stops = "never"

\* A kernel touches every element of its l columns once, and a copy is the
\* transpose: c holds the columns of a one after another.  Each loop takes over
\* where the wider one stopped, with pointers that moved at different times.
EveryElementMoved ==
  ay = l /\ local =>
    /\ touched = {ii * l + jj : ii \in 0 .. nn - 1, jj \in 0 .. l - 1}
    /\ count = l * nn
    /\ copying => copied = {<<jj * nn + ii, ii * l + jj>> : ii \in 0 .. nn - 1, jj \in 0 .. l - 1}

\* The kernels of cpyr.c stay inside the segment they wrap around in, although
\* only the last pointer of a round is compared with its end, and in cpy_cs_r
\* only in the widest loop.  cpy_lc_r compares after rounds of 8 what the other
\* loops move too, and writes up to 14 elements past the end.
RemoteStaysMapped ==
  ~local =>
    IF does = "load copy" THEN \A pr \in copied : pr[1] < MAXREMOTE + 14
                          ELSE \A x \in touched : x < MAXREMOTE
=============================================================================
