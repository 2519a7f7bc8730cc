---------------------------------- MODULE Rio ----------------------------------
(***************************************************************************)
(* The Rio package of csapp.c: rio_readn and rio_writen, which repeat a    *)
(* read or write until all n bytes are through, and rio_readnb and         *)
(* rio_readlineb on the buffer that rio_read keeps of a descriptor.  A     *)
(* read or write may move fewer bytes than asked for, be interrupted by a  *)
(* signal (EINTR), or fail.                                                *)
(*                                                                         *)
(* The bytes of the descriptor are named by their place, 1 .. Length; some *)
(* of them are newlines.  A process calls any of the functions again and   *)
(* again, but, as csapp.c demands, never both the buffered and the         *)
(* unbuffered ones on one descriptor.  The wrappers (Rio_readn, ...) exit  *)
(* when a call fails.                                                      *)
(***************************************************************************)
EXTENDS Integers, Sequences, FiniteSetsExt

CONSTANTS
  Length,    (* Bytes until the end of the file.                           *)
  RioBuf,    (* RIO_BUFSIZE.                                               *)
  Wants      (* Values of n and maxlen.                                    *)

ASSUME RioAssumption == Length \in Nat /\ RioBuf \in Nat \ {0} /\ Wants \subseteq Nat

VARIABLES
  newlines, buffered,          (* The file, and how it is read.            *)
  at_byte,                     (* The next byte of the descriptor.         *)
  rio_buf, rio_cnt, rio_bufptr,
  op, want,                    (* The function, and its n or maxlen.       *)
  bufp,                        (* Bytes of usrbuf that are through.        *)
  usrbuf,                      (* What they are.                           *)
  state,                       (* "calls", "returned" or "failed".         *)
  before                       (* History: the bytes of earlier reads.     *)

rioBufVars == <<rio_buf, rio_cnt, rio_bufptr>>
rioVars == <<newlines, buffered, at_byte, rioBufVars, op, want, bufp, usrbuf, state, before>>

Ops == {"rio_readn", "rio_writen", "rio_readnb", "rio_readlineb"}

RioTypeOK ==
  /\ newlines \subseteq 1 .. Length /\ buffered \in BOOLEAN
  /\ at_byte \in 1 .. Length + 1
  /\ rio_buf \in Seq(1 .. Length) /\ Len(rio_buf) <= RioBuf
  /\ rio_cnt \in -1 .. RioBuf /\ rio_bufptr \in 1 .. RioBuf + 1
  /\ op \in Ops /\ want \in Wants \cup {0} /\ bufp \in Nat
  /\ usrbuf \in Seq(Nat) /\ state \in {"calls", "returned", "failed"} /\ before \in Seq(1 .. Length)

\* rio_readinitb.
RioInit ==
  /\ newlines \in SUBSET (1 .. Length) /\ buffered \in BOOLEAN
  /\ at_byte = 1
  /\ rio_buf = <<>> /\ rio_cnt = 0 /\ rio_bufptr = 1
  /\ op = "rio_writen" /\ want = 0 /\ bufp = 0 /\ usrbuf = <<>>
  /\ state = "returned" /\ before = <<>>

Reads   == op # "rio_writen"
Current == IF Reads THEN usrbuf ELSE <<>>

Call(o, w) ==
  /\ state = "returned"
  /\ o = "rio_readn" => ~buffered
  /\ o \in {"rio_readnb", "rio_readlineb"} => buffered
  /\ op' = o /\ want' = w /\ bufp' = 0 /\ usrbuf' = <<>>
  /\ state' = "calls" /\ before' = before \o Current
  /\ UNCHANGED <<newlines, buffered, at_byte, rioBufVars>>

Returns ==
  /\ state' = "returned"
  /\ UNCHANGED <<newlines, buffered, at_byte, rioBufVars, op, want, bufp, usrbuf, before>>

\* n < maxlen, where n is one more than the bytes stored.
LineIsFull == bufp + 1 >= want

\* The head of the loop of each function, or a newline.
Complete ==
  /\ state = "calls"
  /\ IF op = "rio_readlineb"
       THEN LineIsFull \/ (bufp > 0 /\ usrbuf[bufp] \in newlines)
       ELSE bufp >= want
  /\ Returns

Busy ==
  /\ state = "calls"
  /\ IF op = "rio_readlineb"
       THEN ~LineIsFull /\ ~(bufp > 0 /\ usrbuf[bufp] \in newlines)
       ELSE bufp < want

NextBytes(m) == [k \in 1 .. m |-> at_byte + k - 1]

\* What read gives of at most m bytes.
Given(m) == 1 .. Min({m, Length + 1 - at_byte})

Stored(bytes) ==
  /\ usrbuf' = SubSeq(usrbuf, 1, bufp) \o bytes
  /\ bufp' = bufp + Len(bytes)
  /\ UNCHANGED <<newlines, buffered, op, want, state, before>>

\* rio_readn: read into the rest of usrbuf.
ReadSome ==
  /\ Busy /\ op = "rio_readn"
  /\ \E m \in Given(want - bufp) : at_byte' = at_byte + m /\ Stored(NextBytes(m))
  /\ UNCHANGED rioBufVars

\* rio_writen: write from the rest of usrbuf.
WriteSome ==
  /\ Busy /\ op = "rio_writen"
  /\ \E m \in 1 .. want - bufp :
       /\ usrbuf' = usrbuf \o [k \in 1 .. m |-> bufp + k]
       /\ bufp' = bufp + m
  /\ UNCHANGED <<newlines, buffered, at_byte, rioBufVars, op, want, state, before>>

Refilling == Busy /\ op \in {"rio_readnb", "rio_readlineb"} /\ rio_cnt <= 0

\* rio_read refills the buffer ...
Refill ==
  /\ Refilling
  /\ \E m \in Given(RioBuf) :
       rio_buf' = NextBytes(m) /\ rio_cnt' = m /\ at_byte' = at_byte + m
  /\ rio_bufptr' = 1
  /\ UNCHANGED <<newlines, buffered, op, want, bufp, usrbuf, state, before>>

\* A fault: what the caller does not take is dropped.
TakeAll ==
  LET m == Min({rio_cnt, IF op = "rio_readlineb" THEN 1 ELSE want - bufp}) IN
  /\ Busy /\ op \in {"rio_readnb", "rio_readlineb"} /\ rio_cnt > 0
  /\ Stored(SubSeq(rio_buf, rio_bufptr, rio_bufptr + m - 1))
  /\ rio_bufptr' = rio_bufptr + m /\ rio_cnt' = 0
  /\ UNCHANGED <<at_byte, rio_buf>>

\* ... and gives as many of its bytes as the caller wants, or as it has.
Take ==
  LET m == Min({rio_cnt, IF op = "rio_readlineb" THEN 1 ELSE want - bufp}) IN
  /\ Busy /\ op \in {"rio_readnb", "rio_readlineb"} /\ rio_cnt > 0
  /\ Stored(SubSeq(rio_buf, rio_bufptr, rio_bufptr + m - 1))
  /\ rio_bufptr' = rio_bufptr + m /\ rio_cnt' = rio_cnt - m
  /\ UNCHANGED <<at_byte, rio_buf>>

\* A fault: a read that a signal interrupts ends the call.
InterruptEnds ==
  \/ Refilling /\ Returns
  \/ Busy /\ op \in {"rio_readn", "rio_writen"} /\ Returns

\* EINTR: rio_read keeps the -1 in rio_cnt and goes on, the others count 0.
Interrupt ==
  \/ /\ Refilling /\ rio_cnt' = -1
     /\ UNCHANGED <<newlines, buffered, at_byte, rio_buf, rio_bufptr, op, want, bufp, usrbuf, state, before>>
  \/ Busy /\ op \in {"rio_readn", "rio_writen"} /\ UNCHANGED rioVars

\* The end of the file: what there is of the line, or of the n bytes.
EndOfFile ==
  /\ Busy /\ at_byte > Length
  /\ \/ op = "rio_readn" /\ UNCHANGED rio_cnt
     \/ Refilling /\ rio_cnt' = 0
  /\ state' = "returned"
  /\ UNCHANGED <<newlines, buffered, at_byte, rio_buf, rio_bufptr, op, want, bufp, usrbuf, before>>

\* Any other error, -1; the wrapper exits.
Fail ==
  /\ Refilling \/ (Busy /\ op \in {"rio_readn", "rio_writen"})
  /\ state' = "failed"
  /\ rio_cnt' = IF Refilling THEN -1 ELSE rio_cnt
  /\ UNCHANGED <<newlines, buffered, at_byte, rio_buf, rio_bufptr, op, want, bufp, usrbuf, before>>

RioNext ==
  \/ \E o \in Ops, w \in Wants : Call(o, w)
  \/ Complete \/ ReadSome \/ WriteSome \/ Refill \/ Take \/ Interrupt \/ EndOfFile \/ Fail

RioSpec == RioInit /\ [][RioNext]_rioVars

-----------------------------------------------------------------------------
(* Properties.                                                             *)

Buffered == IF rio_cnt > 0 THEN SubSeq(rio_buf, rio_bufptr, rio_bufptr + rio_cnt - 1) ELSE <<>>

\* Whatever the caller asks for, line by line or in blocks, and however read
\* cuts the file up: the bytes it has got and those in the buffer are the bytes
\* read so far, each once and in order.
BytesKept == before \o Current \o Buffered = [k \in 1 .. at_byte - 1 |-> k]

\* A line is up to its newline, and cut only where the caller's buffer, with
\* the zero at its end, or the file ends.
LinesAreLines ==
  state = "returned" /\ op = "rio_readlineb" =>
    /\ \A k \in 1 .. Len(usrbuf) - 1 : usrbuf[k] \notin newlines
    /\ want > 0 => Len(usrbuf) < want
    /\ \/ Len(usrbuf) + 1 >= want
       \/ usrbuf # <<>> /\ usrbuf[Len(usrbuf)] \in newlines
       \/ at_byte > Length /\ Buffered = <<>>

\* Short counts and signals are not seen by the caller: n bytes are n bytes
\* unless the file ends first.
CountsAreFull ==
  state = "returned" /\ op \in {"rio_readn", "rio_readnb"} /\ Len(usrbuf) # want =>
    Len(usrbuf) < want /\ at_byte > Length /\ Buffered = <<>>

\* rio_writen writes the buffer, each byte once and in order.
WrittenOnce ==
  op = "rio_writen" =>
    /\ usrbuf = [k \in 1 .. bufp |-> k]
    /\ state = "returned" => bufp = want

\* The three: what each function gives the caller when it returns does not show
\* how many system calls it took, nor which of them were short or interrupted.
CallsAreWhole == LinesAreLines /\ CountsAreFull /\ WrittenOnce
=============================================================================
