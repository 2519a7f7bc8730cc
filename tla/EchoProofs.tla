------------------------------ MODULE EchoProofs ------------------------------
(***************************************************************************)
(* Proofs about the prethreaded echo server, for any size of its buffer,   *)
(* any number of worker threads and any descriptors: the types, that the   *)
(* buffer is a bounded queue, that a connection has one owner, and that no *)
(* byte of the count is lost.  Before them the Rio functions its threads   *)
(* read lines with, for any file, any n and any size of the buffer.        *)
(***************************************************************************)
EXTENDS EchoServer, Rio, Integers, FiniteSetTheorems, SequenceTheorems, TLAPS

-----------------------------------------------------------------------------
(* Rio.                                                                    *)

\* The bytes of the buffer that the caller has not had.
Left == IF rio_cnt > 0 THEN rio_cnt ELSE 0

\* usrbuf holds the bytes that are through; a descriptor is read in one way.
CallShape ==
  /\ Len(usrbuf) = bufp
  /\ op = "rio_readn" => ~buffered
  /\ op \in {"rio_readnb", "rio_readlineb"} => buffered
  /\ ~buffered => rio_cnt = 0

\* What is left of the buffer are the bytes just before at_byte.
BufferShape ==
  rio_cnt > 0 =>
    /\ rio_bufptr + rio_cnt = Len(rio_buf) + 1
    /\ \A k \in 1 .. rio_cnt : rio_buf[rio_bufptr + k - 1] = at_byte - 1 - rio_cnt + k

\* Every byte is where the ones before it put it.
BytesInPlace ==
  /\ Len(before) + (IF Reads THEN bufp ELSE 0) + Left = at_byte - 1
  /\ \A k \in 1 .. Len(before) : before[k] = k
  /\ \A k \in 1 .. bufp : usrbuf[k] = IF Reads THEN Len(before) + k ELSE k

\* How far a call is, and why it has returned.
CallProgress ==
  /\ op = "rio_readlineb" =>
       /\ \A k \in 1 .. bufp - 1 : usrbuf[k] \notin newlines
       /\ want > 0 => bufp < want
       /\ state = "returned" => \/ LineIsFull \/ (bufp > 0 /\ usrbuf[bufp] \in newlines)
                                \/ at_byte > Length /\ rio_cnt <= 0
  /\ op # "rio_readlineb" =>
       /\ bufp <= want
       /\ state = "returned" => bufp = want \/ (Reads /\ at_byte > Length /\ rio_cnt <= 0)

RioInv == RioTypeOK /\ CallShape /\ BufferShape /\ BytesInPlace /\ CallProgress

LEMMA Smaller ==
  ASSUME NEW a \in Int, NEW b \in Int
  PROVE  Min({a, b}) \in {a, b} /\ Min({a, b}) <= a /\ Min({a, b}) <= b
<1>1. Min({a, b}) = CHOOSE x \in {a, b} : \A y \in {a, b} : x <= y
  BY Zenon DEF Min
<1>2. \E x \in {a, b} : \A y \in {a, b} : x <= y
  <2>1. CASE a <= b
    BY <2>1
  <2>2. CASE b <= a
    BY <2>2
  <2> QED BY <2>1, <2>2
<1> QED BY <1>1, <1>2

\* What a read can give.
LEMMA GivenBytes ==
  ASSUME at_byte \in 1 .. Length + 1, NEW most \in Nat, NEW m \in Given(most)
  PROVE  /\ m \in 1 .. most /\ m <= Length + 1 - at_byte
         /\ NextBytes(m) \in Seq(1 .. Length) /\ Len(NextBytes(m)) = m
         /\ \A k \in 1 .. m : NextBytes(m)[k] = at_byte + k - 1
<1>1. Length \in Nat
  BY RioAssumption
<1>2. Length + 1 - at_byte \in Int
  BY <1>1
<1>3. m \in 1 .. most /\ m <= Length + 1 - at_byte
  <2>1. PICK c : c = Min({most, Length + 1 - at_byte})
    OBVIOUS
  <2>2. c \in {most, Length + 1 - at_byte} /\ c <= most /\ c <= Length + 1 - at_byte
    <3>1. most \in Int
      OBVIOUS
    <3> QED BY <1>2, <2>1, <3>1, Smaller
  <2>3. m \in 1 .. c
    BY <2>1 DEF Given
  <2> QED BY <1>2, <2>2, <2>3
<1>4. \A k \in 1 .. m : at_byte + k - 1 \in 1 .. Length
  BY <1>1, <1>3
<1>6. m \in Nat
  BY <1>3
<1>7. NextBytes(m) \in Seq(1 .. Length) /\ Len(NextBytes(m)) = m
  BY <1>4, <1>6 DEF NextBytes
<1> QED BY <1>3, <1>7 DEF NextBytes

LEMMA StoredEffect ==
  ASSUME RioTypeOK, CallShape, NEW bytes \in Seq(1 .. Length), Stored(bytes)
  PROVE  /\ usrbuf' \in Seq(Nat) /\ bufp' \in Nat /\ bufp' = bufp + Len(bytes) /\ Len(usrbuf') = bufp'
         /\ \A k \in 1 .. bufp : usrbuf'[k] = usrbuf[k]
         /\ \A k \in 1 .. Len(bytes) : usrbuf'[bufp + k] = bytes[k]
         /\ newlines' = newlines /\ buffered' = buffered /\ op' = op /\ want' = want
         /\ state' = state /\ before' = before
<1>1. usrbuf \in Seq(Nat) /\ Len(usrbuf) = bufp /\ bufp \in Nat
  BY DEF RioTypeOK, CallShape
<1>2. bytes \in Seq(Nat) /\ Len(bytes) \in Nat
  <2>1. bytes \in [1 .. Len(bytes) -> 1 .. Length] /\ Len(bytes) \in Nat
    BY LenProperties
  <2>2. 1 .. Length \subseteq Nat
    BY RioAssumption
  <2>3. bytes \in [1 .. Len(bytes) -> Nat]
    BY <2>1, <2>2
  <2> QED BY <2>1, <2>3
<1>3. SubSeq(usrbuf, 1, bufp) = usrbuf
  BY <1>1, SubSeqFull
<1>4. usrbuf' = usrbuf \o bytes
  BY <1>3 DEF Stored
<1>5. /\ usrbuf' \in Seq(Nat) /\ Len(usrbuf') = bufp + Len(bytes)
      /\ \A k \in 1 .. bufp + Len(bytes) : usrbuf'[k] = IF k <= bufp THEN usrbuf[k] ELSE bytes[k - bufp]
  BY <1>1, <1>2, <1>4, ConcatProperties
<1>6. \A k \in 1 .. bufp : usrbuf'[k] = usrbuf[k]
  BY <1>1, <1>2, <1>5
<1>7. \A k \in 1 .. Len(bytes) : usrbuf'[bufp + k] = bytes[k]
  BY <1>1, <1>2, <1>5
<1> QED BY <1>1, <1>2, <1>5, <1>6, <1>7 DEF Stored

\* What every step that stores the next bytes keeps.
LEMMA NextBytesStored ==
  ASSUME RioInv, Busy, Reads, NEW bytes \in Seq(1 .. Length), Stored(bytes),
         \A k \in 1 .. Len(bytes) : bytes[k] = Len(before) + bufp + k,
         op # "rio_readlineb" => bufp + Len(bytes) <= want,
         op = "rio_readlineb" => Len(bytes) = 1,
         Len(before) + bufp + Len(bytes) + Left' = at_byte' - 1
  PROVE  /\ BytesInPlace' /\ CallProgress' /\ Len(usrbuf)' = bufp'
         /\ usrbuf' \in Seq(Nat) /\ bufp' \in Nat /\ state' = state
         /\ newlines' = newlines /\ buffered' = buffered /\ op' = op /\ want' = want /\ before' = before
<1>1. /\ usrbuf' \in Seq(Nat) /\ bufp' \in Nat /\ bufp' = bufp + Len(bytes) /\ Len(usrbuf') = bufp'
      /\ \A k \in 1 .. bufp : usrbuf'[k] = usrbuf[k]
      /\ \A k \in 1 .. Len(bytes) : usrbuf'[bufp + k] = bytes[k]
      /\ newlines' = newlines /\ buffered' = buffered /\ op' = op /\ want' = want
      /\ state' = state /\ before' = before
  BY StoredEffect DEF RioInv
<1>2. bufp \in Nat /\ Len(before) \in Nat /\ Len(bytes) \in Nat /\ want \in Nat
  BY RioAssumption, LenProperties DEF RioInv, RioTypeOK
<1>3. state = "calls"
  BY DEF Busy
<1>4. \A k \in 1 .. bufp' : usrbuf'[k] = Len(before) + k
  <2> SUFFICES ASSUME NEW k \in 1 .. bufp' PROVE usrbuf'[k] = Len(before) + k
    OBVIOUS
  <2>1. CASE k <= bufp
    <3>1. k \in 1 .. bufp
      BY <1>1, <1>2, <2>1
    <3>2. usrbuf[k] = Len(before) + k
      BY <3>1 DEF RioInv, BytesInPlace
    <3> QED BY <1>1, <3>1, <3>2
  <2>2. CASE k > bufp
    <3>1. PICK j \in 1 .. Len(bytes) : k = bufp + j
      <4>1. k - bufp \in 1 .. Len(bytes) /\ k = bufp + (k - bufp)
        BY <1>1, <1>2, <2>2
      <4> QED BY <4>1
    <3>2. usrbuf'[bufp + j] = bytes[j] /\ bytes[j] = Len(before) + bufp + j
      BY <1>1
    <3>3. Len(before) + bufp + j = Len(before) + (bufp + j)
      BY <1>2
    <3> QED BY <3>1, <3>2, <3>3
  <2> QED BY <1>1, <1>2, <2>1, <2>2
<1>5. BytesInPlace'
  <2>1. Reads'
    BY <1>1 DEF Reads
  <2>2. \A k \in 1 .. Len(before)' : before'[k] = k
    BY <1>1 DEF RioInv, BytesInPlace
  <2>3. Len(before)' + bufp' + Left' = at_byte' - 1
    BY <1>1, <1>2
  <2> QED BY <1>1, <1>4, <2>1, <2>2, <2>3 DEF BytesInPlace
<1>6. CallProgress'
  <2>1. CASE op = "rio_readlineb"
    <3>1. bufp' = bufp + 1 /\ ~LineIsFull /\ ~(bufp > 0 /\ usrbuf[bufp] \in newlines)
      BY <1>1, <2>1 DEF Busy
    <3>2. \A k \in 1 .. bufp - 1 : usrbuf[k] \notin newlines
      BY <2>1 DEF RioInv, CallProgress
    <3>3. \A k \in 1 .. bufp : usrbuf[k] \notin newlines
      BY <1>2, <3>1, <3>2
    <3>4. \A k \in 1 .. bufp' - 1 : usrbuf'[k] \notin newlines'
      <4>1. bufp' - 1 = bufp
        BY <1>2, <3>1
      <4> QED BY <1>1, <3>3, <4>1
    <3>5. bufp' < want'
      BY <1>1, <1>2, <3>1 DEF LineIsFull
    <3> QED BY <1>1, <1>3, <2>1, <3>4, <3>5 DEF CallProgress
  <2>2. CASE op # "rio_readlineb"
    <3>1. bufp' <= want'
      BY <1>1, <2>2
    <3> QED BY <1>1, <1>3, <2>2, <3>1 DEF CallProgress
  <2> QED BY <2>1, <2>2
<1> QED BY <1>1, <1>5, <1>6

LEMMA ReadSomeStep ==
  ASSUME RioInv, ReadSome
  PROVE  RioInv'
<1>1. /\ Busy /\ op = "rio_readn" /\ rio_buf' = rio_buf /\ rio_cnt' = rio_cnt /\ rio_bufptr' = rio_bufptr
      /\ bufp < want /\ Reads
  BY DEF ReadSome, rioBufVars, Busy, Reads
<1>2. PICK m \in Given(want - bufp) : at_byte' = at_byte + m /\ Stored(NextBytes(m))
  BY DEF ReadSome
<1>3. bufp \in Nat /\ want \in Nat /\ at_byte \in 1 .. Length + 1 /\ Len(before) \in Nat /\ Length \in Nat
  BY RioAssumption, LenProperties DEF RioInv, RioTypeOK
<1>4. want - bufp \in Nat
  BY <1>1, <1>3
<1>5. /\ m \in 1 .. want - bufp /\ m <= Length + 1 - at_byte
      /\ NextBytes(m) \in Seq(1 .. Length) /\ Len(NextBytes(m)) = m
      /\ \A k \in 1 .. m : NextBytes(m)[k] = at_byte + k - 1
  BY <1>3, <1>4, GivenBytes
<1>6. rio_cnt = 0 /\ Left = 0 /\ Left' = 0 /\ Len(before) + bufp = at_byte - 1
  BY <1>1, <1>3 DEF RioInv, CallShape, BytesInPlace, Left
<1>7. /\ BytesInPlace' /\ CallProgress' /\ Len(usrbuf)' = bufp'
      /\ usrbuf' \in Seq(Nat) /\ bufp' \in Nat /\ state' = state
      /\ newlines' = newlines /\ buffered' = buffered /\ op' = op /\ want' = want /\ before' = before
  <2>1. \A k \in 1 .. m : NextBytes(m)[k] = Len(before) + bufp + k
    <3>1. \A k \in 1 .. m : at_byte + k - 1 = Len(before) + bufp + k
      BY <1>3, <1>6
    <3> QED BY <1>5, <3>1
  <2>2. bufp + m <= want
    BY <1>3, <1>5
  <2>3. Len(before) + bufp + m + Left' = at_byte' - 1
    BY <1>2, <1>3, <1>5, <1>6
  <2>4. op # "rio_readlineb"
    BY <1>1
  <2> QED BY <1>1, <1>2, <1>5, <2>1, <2>2, <2>3, <2>4, NextBytesStored
<1>8. at_byte' \in 1 .. Length + 1
  BY <1>2, <1>3, <1>5
<1>9. RioTypeOK'
  BY <1>1, <1>7, <1>8 DEF RioInv, RioTypeOK
<1>10. CallShape' /\ BufferShape'
  BY <1>1, <1>6, <1>7 DEF RioInv, CallShape, BufferShape
<1> QED BY <1>7, <1>9, <1>10 DEF RioInv

LEMMA RioInitially == RioInit => RioInv
<1> SUFFICES ASSUME RioInit PROVE RioInv
  OBVIOUS
<1>1. /\ buffered \in BOOLEAN /\ at_byte = 1 /\ rio_buf = <<>> /\ rio_cnt = 0 /\ rio_bufptr = 1
      /\ op = "rio_writen" /\ want = 0 /\ bufp = 0 /\ usrbuf = <<>> /\ state = "returned" /\ before = <<>>
      /\ newlines \subseteq 1 .. Length
  BY DEF RioInit
<1>2. <<>> \in Seq(Nat) /\ <<>> \in Seq(1 .. Length) /\ Len(<<>>) = 0
  BY EmptySeq
<1>3. Length \in Nat /\ RioBuf \in Nat /\ RioBuf >= 1
  BY RioAssumption
<1>4. RioTypeOK
  BY <1>1, <1>2, <1>3 DEF RioTypeOK, Ops
<1>5. CallShape /\ BufferShape
  BY <1>1, <1>2 DEF CallShape, BufferShape
<1>6. BytesInPlace /\ CallProgress
  BY <1>1, <1>2 DEF BytesInPlace, CallProgress, Left, Reads
<1> QED BY <1>4, <1>5, <1>6 DEF RioInv

\* The caller keeps what it got and calls again.
LEMMA CallStep ==
  ASSUME RioInv, NEW o \in Ops, NEW w \in Wants, Call(o, w)
  PROVE  RioInv'
<1>1. /\ o = "rio_readn" => ~buffered
      /\ o \in {"rio_readnb", "rio_readlineb"} => buffered
      /\ op' = o /\ want' = w /\ bufp' = 0 /\ usrbuf' = <<>> /\ state' = "calls" /\ before' = before \o Current
      /\ newlines' = newlines /\ buffered' = buffered /\ at_byte' = at_byte
      /\ rio_buf' = rio_buf /\ rio_cnt' = rio_cnt /\ rio_bufptr' = rio_bufptr
  BY DEF Call, rioBufVars
<1>2. w \in Nat /\ Length \in Nat /\ at_byte \in 1 .. Length + 1 /\ Left \in Nat /\ bufp \in Nat
  BY RioAssumption DEF RioInv, RioTypeOK, Left
<1>3. <<>> \in Seq(Nat) /\ <<>> \in Seq(1 .. Length) /\ Len(<<>>) = 0
  BY EmptySeq
<1>4. before \in Seq(1 .. Length) /\ Len(before) \in Nat
  BY LenProperties DEF RioInv, RioTypeOK
<1>5. /\ Current \in Seq(1 .. Length) /\ Len(Current) = IF Reads THEN bufp ELSE 0
      /\ \A k \in 1 .. Len(Current) : Current[k] = Len(before) + k
  <2>1. CASE Reads
    <3>1. usrbuf \in Seq(Nat) /\ Len(usrbuf) = bufp /\ Current = usrbuf
      BY <2>1 DEF RioInv, RioTypeOK, CallShape, Current
    <3>2. Len(before) + bufp + Left = at_byte - 1
      BY <2>1 DEF RioInv, BytesInPlace
    <3>3. \A k \in 1 .. bufp : usrbuf[k] = Len(before) + k
      BY <2>1 DEF RioInv, BytesInPlace
    <3>4. \A k \in 1 .. bufp : Len(before) + k \in 1 .. Length
      BY <1>2, <1>4, <3>2
    <3>5. \A k \in 1 .. bufp : usrbuf[k] \in 1 .. Length
      BY <3>3, <3>4
    <3>6. DOMAIN usrbuf = 1 .. bufp /\ usrbuf \in [1 .. bufp -> Nat]
      BY <3>1, LenProperties
    <3>7. usrbuf \in [1 .. bufp -> 1 .. Length]
      BY <3>5, <3>6
    <3>8. usrbuf \in Seq(1 .. Length)
      BY <1>2, <3>1, <3>7
    <3> QED BY <2>1, <3>1, <3>3, <3>8
  <2>2. CASE ~Reads
    BY <1>3, <2>2 DEF Current
  <2> QED BY <2>1, <2>2
<1>6. /\ before' \in Seq(1 .. Length) /\ Len(before') = Len(before) + Len(Current)
      /\ \A k \in 1 .. Len(before) + Len(Current) :
           before'[k] = IF k <= Len(before) THEN before[k] ELSE Current[k - Len(before)]
  BY <1>1, <1>4, <1>5, ConcatProperties
<1>7. RioTypeOK'
  BY <1>1, <1>3, <1>6 DEF RioInv, RioTypeOK
<1>8. CallShape' /\ BufferShape'
  BY <1>1, <1>3 DEF RioInv, CallShape, BufferShape
<1>9. BytesInPlace'
  <2>1. Len(before') + Left = at_byte - 1 /\ Left' = Left
    BY <1>1, <1>2, <1>4, <1>5, <1>6 DEF RioInv, BytesInPlace, Left
  <2>2. ASSUME NEW k \in 1 .. Len(before')
        PROVE  before'[k] = k
    <3>1. CASE k <= Len(before)
      <4>1. k \in 1 .. Len(before) /\ k \in 1 .. Len(before) + Len(Current)
        BY <1>2, <1>4, <1>5, <1>6, <3>1
      <4>2. before[k] = k
        BY <4>1 DEF RioInv, BytesInPlace
      <4> QED BY <1>6, <3>1, <4>1, <4>2
    <3>2. CASE k > Len(before)
      <4>1. /\ k \in 1 .. Len(before) + Len(Current) /\ ~(k <= Len(before))
            /\ k - Len(before) \in 1 .. Len(Current) /\ Len(before) + (k - Len(before)) = k
        BY <1>2, <1>4, <1>5, <1>6, <3>2
      <4> QED BY <1>5, <1>6, <4>1
    <3> QED BY <1>4, <3>1, <3>2
  <2>3. bufp' = 0 /\ at_byte' = at_byte
    BY <1>1
  <2>4. Len(before)' + (IF Reads' THEN bufp' ELSE 0) + Left' = at_byte' - 1
    BY <1>2, <1>4, <1>5, <1>6, <2>1, <2>3
  <2>5. \A k \in 1 .. bufp' : usrbuf'[k] = IF Reads' THEN Len(before)' + k ELSE k
    BY <2>3
  <2> QED BY <2>2, <2>4, <2>5 DEF BytesInPlace
<1>10. CallProgress'
  BY <1>1, <1>2 DEF CallProgress
<1> QED BY <1>7, <1>8, <1>9, <1>10 DEF RioInv

\* Everything but the state of the call, and rio_cnt where it holds no byte.
LEMMA StandsStill ==
  ASSUME RioInv, state' \in {"calls", "returned", "failed"},
         rio_cnt' = rio_cnt \/ (rio_cnt <= 0 /\ rio_cnt' \in {0, -1} /\ (~buffered => rio_cnt' = 0)),
         newlines' = newlines /\ buffered' = buffered /\ at_byte' = at_byte /\ rio_buf' = rio_buf,
         rio_bufptr' = rio_bufptr /\ op' = op /\ want' = want /\ bufp' = bufp,
         usrbuf' = usrbuf /\ before' = before
  PROVE  RioTypeOK' /\ CallShape' /\ BufferShape' /\ BytesInPlace'
<1>1. rio_cnt \in -1 .. RioBuf /\ RioBuf \in Nat
  BY RioAssumption DEF RioInv, RioTypeOK
<1>2. rio_cnt' \in -1 .. RioBuf /\ (rio_cnt' > 0 => rio_cnt' = rio_cnt) /\ Left' = Left
  BY <1>1 DEF Left
<1>3. RioTypeOK' /\ CallShape'
  BY <1>2 DEF RioInv, RioTypeOK, CallShape
<1>4. BufferShape'
  BY <1>2 DEF RioInv, BufferShape
<1>5. BytesInPlace'
  <2>1. Reads' = Reads
    BY DEF Reads
  <2> QED BY <1>2, <2>1 DEF RioInv, BytesInPlace
<1> QED BY <1>3, <1>4, <1>5

LEMMA CompleteStep ==
  ASSUME RioInv, Complete
  PROVE  RioInv'
<1>1. /\ state' = "returned" /\ newlines' = newlines /\ buffered' = buffered /\ at_byte' = at_byte
      /\ rio_buf' = rio_buf /\ rio_cnt' = rio_cnt /\ rio_bufptr' = rio_bufptr /\ op' = op /\ want' = want
      /\ bufp' = bufp /\ usrbuf' = usrbuf /\ before' = before
  BY DEF Complete, Returns, rioBufVars
<1>2. RioTypeOK' /\ CallShape' /\ BufferShape' /\ BytesInPlace'
  BY <1>1, StandsStill
<1>3. CallProgress'
  <2>1. CASE op = "rio_readlineb"
    BY <1>1, <2>1 DEF RioInv, CallProgress, Complete, LineIsFull
  <2>2. CASE op # "rio_readlineb"
    <3>1. bufp <= want /\ bufp >= want /\ bufp \in Nat /\ want \in Nat
      BY <2>2, RioAssumption DEF RioInv, RioTypeOK, CallProgress, Complete
    <3>2. bufp = want
      BY <3>1
    <3> QED BY <1>1, <2>2, <3>1, <3>2 DEF CallProgress
  <2> QED BY <2>1, <2>2
<1> QED BY <1>2, <1>3 DEF RioInv

LEMMA InterruptStep ==
  ASSUME RioInv, Interrupt
  PROVE  RioInv'
<1>1. CASE Busy /\ UNCHANGED rioVars
  BY <1>1 DEF rioVars, rioBufVars, RioInv, RioTypeOK, CallShape, BufferShape, BytesInPlace, CallProgress, Left,
              Reads, LineIsFull
<1>2. CASE /\ Refilling /\ rio_cnt' = -1
           /\ UNCHANGED <<newlines, buffered, at_byte, rio_buf, rio_bufptr, op, want, bufp, usrbuf, state, before>>
  <2>1. /\ state = "calls" /\ buffered /\ rio_cnt <= 0 /\ state \in {"calls", "returned", "failed"}
    BY <1>2 DEF Refilling, Busy, RioInv, CallShape
  <2>2. RioTypeOK' /\ CallShape' /\ BufferShape' /\ BytesInPlace'
    BY <1>2, <2>1, StandsStill
  <2>3. CallProgress'
    BY <1>2, <2>1 DEF RioInv, CallProgress
  <2> QED BY <2>2, <2>3 DEF RioInv
<1> QED BY <1>1, <1>2 DEF Interrupt

LEMMA EndOfFileStep ==
  ASSUME RioInv, EndOfFile
  PROVE  RioInv'
<1>1. /\ state' = "returned" /\ newlines' = newlines /\ buffered' = buffered /\ at_byte' = at_byte
      /\ rio_buf' = rio_buf /\ rio_bufptr' = rio_bufptr /\ op' = op /\ want' = want
      /\ bufp' = bufp /\ usrbuf' = usrbuf /\ before' = before /\ at_byte > Length /\ Reads
  BY DEF EndOfFile, Reads, Refilling
<1>2. rio_cnt' = 0 /\ (rio_cnt' = rio_cnt \/ rio_cnt <= 0)
  BY DEF EndOfFile, Refilling, RioInv, CallShape
<1>3. RioTypeOK' /\ CallShape' /\ BufferShape' /\ BytesInPlace'
  BY <1>1, <1>2, StandsStill
<1>4. CallProgress'
  BY <1>1, <1>2 DEF RioInv, CallProgress, Reads
<1> QED BY <1>3, <1>4 DEF RioInv

LEMMA FailStep ==
  ASSUME RioInv, Fail
  PROVE  RioInv'
<1>1. /\ state' = "failed" /\ newlines' = newlines /\ buffered' = buffered /\ at_byte' = at_byte
      /\ rio_buf' = rio_buf /\ rio_bufptr' = rio_bufptr /\ op' = op /\ want' = want
      /\ bufp' = bufp /\ usrbuf' = usrbuf /\ before' = before
  BY DEF Fail
<1>2. rio_cnt' = rio_cnt \/ (rio_cnt' = -1 /\ rio_cnt <= 0 /\ buffered)
  BY DEF Fail, Refilling, RioInv, CallShape
<1>3. RioTypeOK' /\ CallShape' /\ BufferShape' /\ BytesInPlace'
  BY <1>1, <1>2, StandsStill
<1>4. CallProgress'
  BY <1>1 DEF RioInv, CallProgress
<1> QED BY <1>3, <1>4 DEF RioInv

LEMMA WriteSomeStep ==
  ASSUME RioInv, WriteSome
  PROVE  RioInv'
<1>1. PICK m \in 1 .. want - bufp : usrbuf' = usrbuf \o [k \in 1 .. m |-> bufp + k] /\ bufp' = bufp + m
  BY DEF WriteSome
<1>2. /\ newlines' = newlines /\ buffered' = buffered /\ at_byte' = at_byte
      /\ rio_buf' = rio_buf /\ rio_cnt' = rio_cnt /\ rio_bufptr' = rio_bufptr /\ op' = op /\ want' = want
      /\ state' = state /\ before' = before /\ state = "calls" /\ op = "rio_writen" /\ ~Reads
  BY DEF WriteSome, Busy, rioBufVars, Reads
<1>3. bufp \in Nat /\ want \in Nat /\ m \in Nat /\ bufp + m <= want
  BY RioAssumption DEF RioInv, RioTypeOK
<1>4. PICK more : more = [k \in 1 .. m |-> bufp + k]
  OBVIOUS
<1>5. more \in Seq(Nat) /\ Len(more) = m /\ \A k \in 1 .. m : more[k] = bufp + k
  <2>1. \A k \in 1 .. m : bufp + k \in Nat
    BY <1>3
  <2> QED BY <1>3, <1>4, <2>1
<1>6. usrbuf \in Seq(Nat) /\ Len(usrbuf) = bufp
  BY DEF RioInv, RioTypeOK, CallShape
<1>7. /\ usrbuf' \in Seq(Nat) /\ Len(usrbuf') = bufp + m
      /\ \A k \in 1 .. bufp + m : usrbuf'[k] = IF k <= bufp THEN usrbuf[k] ELSE more[k - bufp]
  <2>1. usrbuf' = usrbuf \o more
    BY <1>1, <1>4
  <2>2. /\ usrbuf \o more \in Seq(Nat) /\ Len(usrbuf \o more) = Len(usrbuf) + Len(more)
        /\ \A k \in 1 .. Len(usrbuf) + Len(more) :
             (usrbuf \o more)[k] = IF k <= Len(usrbuf) THEN usrbuf[k] ELSE more[k - Len(usrbuf)]
    BY <1>5, <1>6, ConcatProperties
  <2>3. Len(usrbuf) = bufp /\ Len(more) = m
    BY <1>5, <1>6
  <2> QED BY <2>1, <2>2, <2>3
<1>8. \A k \in 1 .. bufp' : usrbuf'[k] = k
  <2> SUFFICES ASSUME NEW k \in 1 .. bufp' PROVE usrbuf'[k] = k
    OBVIOUS
  <2>1. CASE k <= bufp
    <3>1. k \in 1 .. bufp /\ k \in 1 .. bufp + m
      BY <1>1, <1>3, <2>1
    <3>2. usrbuf[k] = k
      BY <1>2, <3>1 DEF RioInv, BytesInPlace
    <3> QED BY <1>7, <2>1, <3>1, <3>2
  <2>2. CASE k > bufp
    <3>1. k \in 1 .. bufp + m /\ ~(k <= bufp) /\ k - bufp \in 1 .. m /\ bufp + (k - bufp) = k
      BY <1>1, <1>3, <2>2
    <3> QED BY <1>5, <1>7, <3>1
  <2>3. k \in Int /\ bufp \in Int
    BY <1>3
  <2> QED BY <2>1, <2>2, <2>3
<1>9. bufp' \in Nat
  BY <1>1, <1>3
<1>10. RioTypeOK'
  BY <1>2, <1>7, <1>9 DEF RioInv, RioTypeOK
<1>11. CallShape' /\ BufferShape'
  BY <1>1, <1>2, <1>7 DEF RioInv, CallShape, BufferShape
<1>12. BytesInPlace'
  <2>1. ~Reads' /\ Left' = Left
    BY <1>2 DEF Reads, Left
  <2> QED BY <1>2, <1>8, <2>1 DEF RioInv, BytesInPlace
<1>13. CallProgress'
  BY <1>1, <1>2, <1>3 DEF CallProgress
<1> QED BY <1>10, <1>11, <1>12, <1>13 DEF RioInv

\* The buffer is empty and then holds the bytes that read gives.
LEMMA RefillStep ==
  ASSUME RioInv, Refill
  PROVE  RioInv'
<1>1. PICK m \in Given(RioBuf) : rio_buf' = NextBytes(m) /\ rio_cnt' = m /\ at_byte' = at_byte + m
  BY DEF Refill
<1>2. /\ newlines' = newlines /\ buffered' = buffered /\ rio_bufptr' = 1 /\ op' = op /\ want' = want
      /\ bufp' = bufp /\ usrbuf' = usrbuf /\ state' = state /\ before' = before
      /\ rio_cnt <= 0 /\ buffered /\ Reads /\ state = "calls"
  BY DEF Refill, Refilling, Busy, Reads, RioInv, CallShape
<1>3. at_byte \in 1 .. Length + 1 /\ Length \in Nat /\ RioBuf \in Nat /\ RioBuf >= 1 /\ Len(before) \in Nat
      /\ bufp \in Nat
  BY RioAssumption, LenProperties DEF RioInv, RioTypeOK
<1>4. /\ m \in 1 .. RioBuf /\ m <= Length + 1 - at_byte
      /\ NextBytes(m) \in Seq(1 .. Length) /\ Len(NextBytes(m)) = m
      /\ \A k \in 1 .. m : NextBytes(m)[k] = at_byte + k - 1
  BY <1>3, GivenBytes
<1>5. at_byte' \in 1 .. Length + 1 /\ rio_cnt' \in -1 .. RioBuf /\ 1 \in 1 .. RioBuf + 1 /\ m <= RioBuf
  BY <1>1, <1>3, <1>4
<1>6. RioTypeOK'
  BY <1>1, <1>2, <1>4, <1>5 DEF RioInv, RioTypeOK
<1>7. CallShape'
  BY <1>2 DEF RioInv, CallShape
<1>8. BufferShape'
  <2>1. \A k \in 1 .. m : 1 + k - 1 = k /\ at_byte + k - 1 = (at_byte + m) - 1 - m + k
    BY <1>3, <1>4
  <2>2. 1 + m = m + 1
    BY <1>4
  <2> QED BY <1>1, <1>2, <1>4, <2>1, <2>2 DEF BufferShape
<1>9. BytesInPlace'
  <2>1. Left = 0 /\ Left' = m /\ Reads'
    <3>1. rio_cnt \in Int /\ m > 0
      BY <1>4 DEF RioInv, RioTypeOK
    <3>2. Reads'
      BY <1>2 DEF Reads
    <3> QED BY <1>1, <1>2, <3>1, <3>2 DEF Left
  <2>2. Len(before) + bufp + Left' = at_byte' - 1
    <3>1. Len(before) + bufp + 0 = at_byte - 1
      <4>1. Len(before) + bufp + Left = at_byte - 1
        BY <1>2 DEF RioInv, BytesInPlace
      <4> QED BY <2>1, <4>1
    <3>2. m \in Int /\ at_byte \in Int /\ Len(before) \in Int /\ bufp \in Int
      BY <1>3, <1>4
    <3>3. Len(before) + bufp + m = at_byte + m - 1
      BY <3>1, <3>2
    <3>4. at_byte' = at_byte + m /\ Left' = m
      BY <1>1, <2>1
    <3> QED BY <3>2, <3>3, <3>4
  <2>3. \A k \in 1 .. bufp' : usrbuf'[k] = IF Reads' THEN Len(before)' + k ELSE k
    BY <1>2, <2>1 DEF RioInv, BytesInPlace
  <2>4. \A k \in 1 .. Len(before)' : before'[k] = k
    BY <1>2 DEF RioInv, BytesInPlace
  <2>5. Len(before)' + (IF Reads' THEN bufp' ELSE 0) + Left' = at_byte' - 1
    BY <1>2, <2>1, <2>2
  <2> QED BY <2>3, <2>4, <2>5 DEF BytesInPlace
<1>10. CallProgress'
  BY <1>2 DEF RioInv, CallProgress
<1> QED BY <1>6, <1>7, <1>8, <1>9, <1>10 DEF RioInv

LEMMA TakeStep ==
  ASSUME RioInv, Take
  PROVE  RioInv'
<1> DEFINE cap   == IF op = "rio_readlineb" THEN 1 ELSE want - bufp
           m     == Min({rio_cnt, cap})
           bytes == SubSeq(rio_buf, rio_bufptr, rio_bufptr + m - 1)
<1>1. /\ Busy /\ op \in {"rio_readnb", "rio_readlineb"} /\ rio_cnt > 0 /\ Reads
      /\ Stored(bytes) /\ rio_bufptr' = rio_bufptr + m /\ rio_cnt' = rio_cnt - m
      /\ at_byte' = at_byte /\ rio_buf' = rio_buf
  BY DEF Take, Reads
<1>2. /\ bufp \in Nat /\ want \in Nat /\ rio_cnt \in -1 .. RioBuf /\ RioBuf \in Nat /\ at_byte \in 1 .. Length + 1
      /\ rio_bufptr \in 1 .. RioBuf + 1 /\ Len(before) \in Nat /\ Length \in Nat /\ rio_buf \in Seq(1 .. Length)
      /\ Len(rio_buf) \in Nat /\ Len(rio_buf) <= RioBuf
  BY RioAssumption, LenProperties DEF RioInv, RioTypeOK
<1>3. rio_cnt \in Int /\ cap \in Int /\ cap >= 1 /\ rio_cnt >= 1
  BY <1>1, <1>2 DEF Busy
<1>4. m \in 1 .. rio_cnt /\ m <= cap
  <2> HIDE DEF cap
  <2>1. m \in {rio_cnt, cap} /\ m <= rio_cnt /\ m <= cap
    BY <1>3, Smaller
  <2> HIDE DEF m
  <2> QED BY <1>3, <2>1
<1>5. /\ rio_bufptr + rio_cnt = Len(rio_buf) + 1
      /\ \A k \in 1 .. rio_cnt : rio_buf[rio_bufptr + k - 1] = at_byte - 1 - rio_cnt + k
  BY <1>1 DEF RioInv, BufferShape
<1>6. Len(before) + bufp + rio_cnt = at_byte - 1
  BY <1>1 DEF RioInv, BytesInPlace, Left
<1> HIDE DEF m
<1>7. bytes \in Seq(1 .. Length) /\ Len(bytes) = m /\ \A k \in 1 .. m : bytes[k] = rio_buf[rio_bufptr + k - 1]
  <2>1. \A j \in rio_bufptr .. rio_bufptr + m - 1 : j \in 1 .. Len(rio_buf)
    BY <1>2, <1>4, <1>5
  <2>2. \A j \in rio_bufptr .. rio_bufptr + m - 1 : rio_buf[j] \in 1 .. Length
    BY <1>2, <2>1, ElementOfSeq
  <2>3. PICK last : last = rio_bufptr + m - 1
    OBVIOUS
  <2>4. rio_bufptr \in Int /\ last \in Int
    BY <1>2, <1>4, <2>3
  <2>5. /\ SubSeq(rio_buf, rio_bufptr, last) \in Seq(1 .. Length)
        /\ Len(SubSeq(rio_buf, rio_bufptr, last)) = IF rio_bufptr <= last THEN last - rio_bufptr + 1 ELSE 0
        /\ \A i \in 1 .. last - rio_bufptr + 1 : SubSeq(rio_buf, rio_bufptr, last)[i] = rio_buf[rio_bufptr + i - 1]
    BY <2>2, <2>3, <2>4, SubSeqProperties
  <2>6. last - rio_bufptr + 1 = m /\ rio_bufptr <= last
    BY <1>2, <1>4, <2>3
  <2> QED BY <2>3, <2>5, <2>6
<1> HIDE DEF bytes
<1>8. \A k \in 1 .. m : bytes[k] = Len(before) + bufp + k
  <2>1. PICK h : h = Len(before) + bufp
    OBVIOUS
  <2>2. h \in Int /\ h + rio_cnt = at_byte - 1 /\ rio_cnt \in Int /\ at_byte \in Int
    BY <1>2, <1>6, <2>1
  <2> SUFFICES ASSUME NEW k \in 1 .. m PROVE bytes[k] = h + k
    BY <2>1
  <2>3. k \in 1 .. rio_cnt /\ k \in Int
    BY <1>2, <1>4
  <2>4. at_byte - 1 - rio_cnt + k = h + k
    BY <2>2, <2>3
  <2>5. rio_buf[rio_bufptr + k - 1] = at_byte - 1 - rio_cnt + k
    BY <1>5, <2>3
  <2> QED BY <1>7, <2>4, <2>5
<1>9. Left' = rio_cnt - m
  BY <1>1, <1>3, <1>4 DEF Left
<1>10. Len(before) + bufp + m + Left' = at_byte' - 1
  BY <1>1, <1>2, <1>4, <1>6, <1>9
<1>11. (op # "rio_readlineb" => bufp + m <= want) /\ (op = "rio_readlineb" => m = 1)
  BY <1>2, <1>4
<1>12. /\ BytesInPlace' /\ CallProgress' /\ Len(usrbuf)' = bufp'
       /\ usrbuf' \in Seq(Nat) /\ bufp' \in Nat /\ state' = state
       /\ newlines' = newlines /\ buffered' = buffered /\ op' = op /\ want' = want /\ before' = before
  BY <1>1, <1>7, <1>8, <1>10, <1>11, NextBytesStored
<1>13. rio_bufptr' \in 1 .. RioBuf + 1 /\ rio_cnt' \in -1 .. RioBuf
  BY <1>1, <1>2, <1>4, <1>5
<1>14. RioTypeOK'
  BY <1>1, <1>12, <1>13 DEF RioInv, RioTypeOK
<1>15. CallShape'
  BY <1>1, <1>12 DEF RioInv, CallShape
<1>16. BufferShape'
  <2>1. rio_bufptr' + rio_cnt' = Len(rio_buf') + 1
    BY <1>1, <1>2, <1>4, <1>5
  <2>2. ASSUME NEW k \in 1 .. rio_cnt'
        PROVE  rio_buf'[rio_bufptr' + k - 1] = at_byte' - 1 - rio_cnt' + k
    <3>1. PICK j : j = m + k
      OBVIOUS
    <3>2. j \in 1 .. rio_cnt /\ rio_bufptr' + k - 1 = rio_bufptr + j - 1
      BY <1>1, <1>2, <1>4, <3>1
    <3>3. rio_buf[rio_bufptr + j - 1] = at_byte - 1 - rio_cnt + j
      BY <1>5, <3>2
    <3>4. at_byte - 1 - rio_cnt + j = at_byte' - 1 - rio_cnt' + k
      BY <1>1, <1>2, <1>4, <3>1
    <3> QED BY <1>1, <3>2, <3>3, <3>4
  <2> QED BY <2>1, <2>2 DEF BufferShape
<1> QED BY <1>12, <1>14, <1>15, <1>16 DEF RioInv

LEMMA RioInvariance == RioSpec => []RioInv
<1>1. RioInv /\ [RioNext]_rioVars => RioInv'
  <2>1. ASSUME RioInv, UNCHANGED rioVars
        PROVE  RioInv'
    BY <2>1 DEF rioVars, rioBufVars, RioInv, RioTypeOK, CallShape, BufferShape, BytesInPlace, CallProgress, Left,
                Reads, LineIsFull
  <2>2. ASSUME RioInv, RioNext
        PROVE  RioInv'
    BY <2>2, CallStep, CompleteStep, ReadSomeStep, WriteSomeStep, RefillStep, TakeStep, InterruptStep,
       EndOfFileStep, FailStep DEF RioNext
  <2> QED BY <2>1, <2>2
<1> QED BY <1>1, RioInitially, PTL DEF RioSpec

\* Whatever the calls and whatever the system calls give: the types.
THEOREM RioTypes == RioSpec => []RioTypeOK
<1>1. RioInv => RioTypeOK
  BY DEF RioInv
<1> QED BY <1>1, RioInvariance, PTL

LEMMA KeptBytes ==
  ASSUME RioInv
  PROVE  BytesKept
<1> DEFINE all == [k \in 1 .. at_byte - 1 |-> k]
<1>1. /\ before \in Seq(Nat) /\ Len(before) \in Nat
      /\ usrbuf \in Seq(Nat) /\ Len(usrbuf) = bufp /\ bufp \in Nat
      /\ rio_buf \in Seq(Nat) /\ rio_cnt \in Int /\ rio_bufptr \in Nat /\ at_byte \in Nat /\ at_byte >= 1
  <2>1. 1 .. Length \subseteq Nat
    BY RioAssumption
  <2>2. \A x \in Seq(1 .. Length) : x \in Seq(Nat) /\ Len(x) \in Nat
    <3> SUFFICES ASSUME NEW x \in Seq(1 .. Length) PROVE x \in Seq(Nat) /\ Len(x) \in Nat
      OBVIOUS
    <3>1. x \in [1 .. Len(x) -> 1 .. Length] /\ Len(x) \in Nat
      BY LenProperties
    <3>2. x \in [1 .. Len(x) -> Nat]
      BY <2>1, <3>1
    <3> QED BY <3>1, <3>2
  <2>3. rio_bufptr \in Nat /\ rio_cnt \in Int
    BY RioAssumption DEF RioInv, RioTypeOK
  <2> QED BY <2>2, <2>3 DEF RioInv, RioTypeOK, CallShape
<1>2. /\ Current \in Seq(Nat) /\ Len(Current) = IF Reads THEN bufp ELSE 0
      /\ \A k \in 1 .. Len(Current) : Current[k] = Len(before) + k
  <2>1. CASE Reads
    <3>1. \A k \in 1 .. bufp : usrbuf[k] = Len(before) + k
      BY <2>1 DEF RioInv, BytesInPlace
    <3> QED BY <1>1, <2>1, <3>1 DEF Current
  <2>2. CASE ~Reads
    BY <2>2, EmptySeq DEF Current
  <2> QED BY <2>1, <2>2
<1>3. PICK c : c = Len(Current)
  OBVIOUS
<1>4. PICK b : b = Len(before)
  OBVIOUS
<1>5. c \in Nat /\ b \in Nat /\ Left \in Nat /\ b + c + Left = at_byte - 1
  <2>1. b \in Nat /\ c \in Nat
    BY <1>1, <1>2, <1>3, <1>4
  <2>2. Left \in Nat
    BY <1>1 DEF Left
  <2>3. b + c + Left = at_byte - 1
    BY <1>2, <1>3, <1>4 DEF RioInv, BytesInPlace
  <2> QED BY <2>1, <2>2, <2>3
<1>6. /\ Buffered \in Seq(Nat) /\ Len(Buffered) = Left
      /\ \A k \in 1 .. Left : Buffered[k] = b + c + k
  <2>1. CASE rio_cnt > 0
    <3>1. PICK last : last = rio_bufptr + rio_cnt - 1
      OBVIOUS
    <3>2. /\ rio_bufptr \in Int /\ last \in Int /\ last - rio_bufptr + 1 = rio_cnt /\ rio_bufptr <= last
          /\ Left = rio_cnt
      BY <1>1, <2>1, <3>1 DEF Left
    <3>3. /\ last = Len(rio_buf) /\ rio_bufptr >= 1
          /\ \A k \in 1 .. rio_cnt : rio_buf[rio_bufptr + k - 1] = at_byte - 1 - rio_cnt + k
      <4>1. /\ rio_bufptr + rio_cnt = Len(rio_buf) + 1
            /\ \A k \in 1 .. rio_cnt : rio_buf[rio_bufptr + k - 1] = at_byte - 1 - rio_cnt + k
        BY <2>1 DEF RioInv, BufferShape
      <4>2. rio_bufptr >= 1 /\ Len(rio_buf) \in Nat
        BY <1>1, LenProperties DEF RioInv, RioTypeOK
      <4> QED BY <1>1, <3>1, <4>1, <4>2
    <3>4. \A i \in rio_bufptr .. last : rio_buf[i] \in Nat
      <4>1. \A i \in rio_bufptr .. last : i \in 1 .. Len(rio_buf)
        BY <3>2, <3>3
      <4> QED BY <1>1, <4>1, ElementOfSeq
    <3>5. /\ SubSeq(rio_buf, rio_bufptr, last) \in Seq(Nat)
          /\ Len(SubSeq(rio_buf, rio_bufptr, last)) = IF rio_bufptr <= last THEN last - rio_bufptr + 1 ELSE 0
          /\ \A i \in 1 .. last - rio_bufptr + 1 : SubSeq(rio_buf, rio_bufptr, last)[i] = rio_buf[rio_bufptr + i - 1]
      BY <3>2, <3>4, SubSeqProperties
    <3>6. Buffered = SubSeq(rio_buf, rio_bufptr, last)
      BY <2>1, <3>1 DEF Buffered
    <3>7. Buffered \in Seq(Nat) /\ Len(Buffered) = Left
      BY <3>2, <3>5, <3>6
    <3>8. \A k \in 1 .. Left : Buffered[k] = rio_buf[rio_bufptr + k - 1]
      BY <3>2, <3>5, <3>6
    <3>9. \A k \in 1 .. Left : rio_buf[rio_bufptr + k - 1] = b + c + k
      <4>1. at_byte - 1 - rio_cnt = b + c /\ b + c \in Int
        BY <1>1, <1>5, <3>2
      <4>2. \A k \in 1 .. Left : rio_buf[rio_bufptr + k - 1] = at_byte - 1 - rio_cnt + k
        BY <3>2, <3>3
      <4> QED BY <4>1, <4>2
    <3> QED BY <3>7, <3>8, <3>9
  <2>2. CASE ~(rio_cnt > 0)
    BY <2>2, EmptySeq DEF Left, Buffered
  <2> QED BY <2>1, <2>2
<1>7. PICK got : got = before \o Current
  OBVIOUS
<1>8. got \in Seq(Nat) /\ Len(got) = b + c /\ \A k \in 1 .. b + c : got[k] = k
  <2>1. /\ got \in Seq(Nat) /\ Len(got) = b + c
        /\ \A k \in 1 .. b + c : got[k] = IF k <= b THEN before[k] ELSE Current[k - b]
    BY <1>1, <1>2, <1>3, <1>4, <1>7, ConcatProperties
  <2>2. \A k \in 1 .. b : before[k] = k
    BY <1>4 DEF RioInv, BytesInPlace
  <2>3. ASSUME NEW k \in 1 .. b + c, ~(k <= b)
        PROVE  Current[k - b] = k
    <3>1. k - b \in 1 .. c /\ b + (k - b) = k
      BY <1>5, <2>3
    <3> QED BY <1>2, <1>3, <1>4, <3>1
  <2>4. \A k \in 1 .. b + c : k <= b => k \in 1 .. b
    BY <1>5
  <2> QED BY <2>1, <2>2, <2>3, <2>4
<1>9. PICK seen : seen = got \o Buffered
  OBVIOUS
<1>10. PICK h : h = b + c
  OBVIOUS
<1>11. h \in Nat /\ h + Left = at_byte - 1
  BY <1>5, <1>10
<1>12. seen \in Seq(Nat) /\ Len(seen) = at_byte - 1 /\ \A k \in 1 .. at_byte - 1 : seen[k] = k
  <2>1. /\ seen \in Seq(Nat) /\ Len(seen) = h + Left
        /\ \A k \in 1 .. h + Left : seen[k] = IF k <= h THEN got[k] ELSE Buffered[k - h]
    <3>1. got \in Seq(Nat) /\ Len(got) = h /\ Buffered \in Seq(Nat) /\ Len(Buffered) = Left
      BY <1>6, <1>8, <1>10
    <3> QED BY <1>9, <3>1, ConcatProperties
  <2>2. ASSUME NEW k \in 1 .. h + Left, ~(k <= h)
        PROVE  Buffered[k - h] = k
    <3>1. k - h \in 1 .. Left /\ h + (k - h) = k
      BY <1>5, <1>11, <2>2
    <3> QED BY <1>6, <1>10, <3>1
  <2>3. \A k \in 1 .. h + Left : k <= h => k \in 1 .. h
    BY <1>5, <1>11
  <2> QED BY <1>8, <1>10, <1>11, <2>1, <2>2, <2>3
<1>13. seen = all
  <2>1. DOMAIN seen = 1 .. at_byte - 1 /\ seen \in [1 .. at_byte - 1 -> Nat]
    BY <1>12, LenProperties
  <2> QED BY <1>12, <2>1
<1>14. before \o Current \o Buffered = got \o Buffered
  BY <1>7
<1> QED BY <1>9, <1>13, <1>14 DEF BytesKept

LEMMA WholeCalls ==
  ASSUME RioInv
  PROVE  CallsAreWhole
<1>1. /\ usrbuf \in Seq(Nat) /\ Len(usrbuf) = bufp /\ bufp \in Nat /\ want \in Nat
      /\ rio_cnt \in Int
  BY RioAssumption DEF RioInv, RioTypeOK, CallShape
<1>2. rio_cnt <= 0 => Buffered = <<>>
  BY <1>1 DEF Buffered
<1>3. LinesAreLines
  <2> SUFFICES ASSUME state = "returned", op = "rio_readlineb" PROVE LinesAreLines
    BY DEF LinesAreLines
  <2>1. /\ \A k \in 1 .. bufp - 1 : usrbuf[k] \notin newlines
        /\ want > 0 => bufp < want
        /\ \/ LineIsFull \/ (bufp > 0 /\ usrbuf[bufp] \in newlines)
           \/ at_byte > Length /\ rio_cnt <= 0
    BY DEF RioInv, CallProgress
  <2>2. bufp > 0 => usrbuf # <<>>
    BY <1>1, EmptySeq
  <2> QED BY <1>1, <1>2, <2>1, <2>2 DEF LinesAreLines, LineIsFull
<1>4. CountsAreFull
  <2> SUFFICES ASSUME state = "returned", op \in {"rio_readn", "rio_readnb"}, bufp # want
               PROVE  bufp < want /\ at_byte > Length /\ Buffered = <<>>
    BY <1>1 DEF CountsAreFull
  <2>1. bufp <= want /\ at_byte > Length /\ rio_cnt <= 0
    BY DEF RioInv, CallProgress
  <2> QED BY <1>1, <1>2, <2>1
<1>5. WrittenOnce
  <2> SUFFICES ASSUME op = "rio_writen" PROVE WrittenOnce
    BY DEF WrittenOnce
  <2>1. \A k \in 1 .. bufp : usrbuf[k] = k
    BY DEF RioInv, BytesInPlace, Reads
  <2>2. DOMAIN usrbuf = 1 .. bufp /\ usrbuf \in [1 .. bufp -> Nat]
    BY <1>1, LenProperties
  <2>3. usrbuf = [k \in 1 .. bufp |-> k]
    BY <2>1, <2>2
  <2>4. state = "returned" => bufp = want
    BY DEF RioInv, CallProgress, Reads
  <2> QED BY <2>3, <2>4 DEF WrittenOnce
<1> QED BY <1>3, <1>4, <1>5 DEF CallsAreWhole

\* Whatever the caller asks for, however short the reads are and whenever they
\* are interrupted: what the caller got and what the buffer holds are the bytes
\* of the descriptor up to the next one, each once and in order.
THEOREM EveryByteOnce == RioSpec => []BytesKept
<1>1. RioInv => BytesKept
  BY KeptBytes
<1> QED BY <1>1, RioInvariance, PTL

\* Each function gives what it promises when it returns: a line up to its
\* newline, n bytes unless the file ends, or all n bytes written.
THEOREM NoShortCalls == RioSpec => []CallsAreWhole
<1>1. RioInv => CallsAreWhole
  BY WholeCalls
<1> QED BY <1>1, RioInvariance, PTL

-----------------------------------------------------------------------------
(* The server.                                                             *)

Points == {"out"} \cup Inserting \cup Removing

\* The points between P(&sp->mutex) and V(&sp->mutex).
LockedBuffer == {"++rear", "store", "V(mutex) insert", "++front", "load", "V(mutex) remove"}

\* An item in the buffer is announced in items, or the thread that stored it
\* has still to post it, or one that waited for it has still to load it; and
\* so with the slots.
Itemed  == {"V(mutex) insert", "V(items)", "P(mutex) remove", "++front", "load"}
Slotted == {"P(mutex) insert", "++rear", "store", "V(mutex) remove", "V(slots)"}

Bringing == {"P(slots)", "P(mutex) insert", "++rear", "store"}
EmptyBuffer    == {"V(mutex) insert", "V(items)", "P(items)", "P(mutex) remove", "++front", "load"}

\* The threads that f, a value of at, has in S.
Who(f, S) == {t \in Threads : f[t] \in S}

EchoVariables ==
  /\ n \in Sizes
  /\ buf \in [0 .. n - 1 -> Items \cup {None}]
  /\ front \in 0 .. 2 * n - 1 /\ rear \in 0 .. 2 * n - 1
  /\ slots \in Nat /\ items \in Nat
  /\ at \in [Threads -> Points]
  /\ item \in [Threads -> Items \cup {None}]
  /\ idx \in [Threads -> 0 .. 2 * n - 1]

OneLocked(f) == \A t, u \in Threads : f[t] \in LockedBuffer /\ f[u] \in LockedBuffer => t = u

Locking ==
  /\ mutex \in {0, 1}
  /\ mutex = 1 => \A t \in Threads : at[t] \notin LockedBuffer
  /\ OneLocked(at)

Indexes ==
  \A t \in Threads :
    /\ at[t] = "store" => idx[t] = rear
    /\ at[t] = "load" => idx[t] = front

Holds ==
  \A t \in Threads :
    /\ at[t] \in Bringing => item[t] \in Items
    /\ at[t] \in EmptyBuffer => item[t] = None

Tokens ==
  /\ Count = items + Cardinality(Who(at, Itemed))
  /\ n = Count + slots + Cardinality(Who(at, Slotted))

SbufInv == EchoVariables /\ Locking /\ Indexes /\ Holds /\ Tokens

-----------------------------------------------------------------------------
(* Counting threads.                                                       *)

LEMMA WhoFinite ==
  ASSUME NEW f, NEW S
  PROVE  IsFiniteSet(Who(f, S)) /\ Cardinality(Who(f, S)) \in Nat
  <1>1. Who(f, S) \in SUBSET Threads
    BY DEF Who
  <1>. QED  BY <1>1, SbufAssumption, FS_Subset, FS_CardinalityType

LEMMA WhoSome ==
  ASSUME NEW f, NEW S, NEW t \in Threads, f[t] \in S
  PROVE  Cardinality(Who(f, S)) > 0
  <1>1. Who(f, S) # {}
    BY DEF Who
  <1>. QED  BY <1>1, WhoFinite, FS_EmptySet

\* A step of one thread, from outside S into it, out of it, or neither.
LEMMA WhoEnters ==
  ASSUME NEW f \in [Threads -> Points], NEW g, NEW S, NEW t \in Threads, NEW p,
         g = [f EXCEPT ![t] = p], f[t] \notin S, p \in S
  PROVE  Cardinality(Who(g, S)) = Cardinality(Who(f, S)) + 1
  <1>1. Who(g, S) = Who(f, S) \cup {t} /\ t \notin Who(f, S)
    BY DEF Who
  <1>. QED  BY <1>1, WhoFinite, FS_AddElement

LEMMA WhoLeaves ==
  ASSUME NEW f \in [Threads -> Points], NEW g, NEW S, NEW t \in Threads, NEW p,
         g = [f EXCEPT ![t] = p], f[t] \in S, p \notin S
  PROVE  Cardinality(Who(g, S)) = Cardinality(Who(f, S)) - 1
  <1>1. Who(g, S) = Who(f, S) \ {t} /\ t \in Who(f, S)
    BY DEF Who
  <1>. QED  BY <1>1, WhoFinite, FS_RemoveElement

LEMMA WhoStays ==
  ASSUME NEW f \in [Threads -> Points], NEW g, NEW S, NEW t \in Threads, NEW p,
         g = [f EXCEPT ![t] = p], f[t] \in S <=> p \in S
  PROVE  Cardinality(Who(g, S)) = Cardinality(Who(f, S))
  <1>1. Who(g, S) = Who(f, S)
    BY DEF Who
  <1>. QED  BY <1>1

\* At most one thread is at a point of the critical section.
LEMMA PendingIs ==
  ASSUME NEW f, OneLocked(f), NEW p \in LockedBuffer
  PROVE  Cardinality({t \in Threads : f[t] = p}) = IF \E t \in Threads : f[t] = p THEN 1 ELSE 0
  <1>. DEFINE S == {t \in Threads : f[t] = p}
  <1>1. CASE \E t \in Threads : f[t] = p
    <2>1. PICK t \in Threads : f[t] = p
      BY <1>1
    <2>2. S = {t}
      BY <2>1 DEF OneLocked
    <2>. QED  BY <1>1, <2>2, FS_Singleton
  <1>2. CASE ~\E t \in Threads : f[t] = p
    <2>1. S = {}
      BY <1>2
    <2>. QED  BY <1>2, <2>1, FS_EmptySet
  <1>. QED  BY <1>1, <1>2

-----------------------------------------------------------------------------
(* Indexes modulo n and 2 * n.                                             *)

LEMMA Mods ==
  ASSUME NEW m \in Nat \ {0}, NEW x \in 0 .. 3 * m - 1
  PROVE  x % m = IF x < m THEN x ELSE IF x < 2 * m THEN x - m ELSE x - 2 * m
  <1>1. CASE x < m
    BY <1>1
  <1>2. CASE m <= x /\ x < 2 * m
    BY <1>2
  <1>3. CASE 2 * m <= x
    BY <1>3
  <1>. QED  BY <1>1, <1>2, <1>3

\* The indexes of the queue, p of them pending.
LEMMA Before ==
  ASSUME NEW m \in Nat \ {0}, NEW r \in 0 .. 2 * m - 1, NEW p \in {0, 1}
  PROVE  (r + 2 * m - p) % (2 * m) = IF p = 0 THEN r ELSE IF r = 0 THEN 2 * m - 1 ELSE r - 1
  <1>1. PICK k \in Nat \ {0} : k = 2 * m
    OBVIOUS
  <1>2. PICK x \in 0 .. 3 * k - 1 : x = r + k - p
    BY <1>1
  <1>3. x % k = IF x < k THEN x ELSE IF x < 2 * k THEN x - k ELSE x - 2 * k
    BY Mods
  <1>. QED  BY <1>1, <1>2, <1>3

LEMMA Distance ==
  ASSUME NEW m \in Nat \ {0}, NEW a \in 0 .. 2 * m - 1, NEW b \in 0 .. 2 * m - 1
  PROVE  (a + 2 * m - b) % (2 * m) = IF b <= a THEN a - b ELSE a + 2 * m - b
  <1>1. PICK k \in Nat \ {0} : k = 2 * m
    OBVIOUS
  <1>2. PICK x \in 0 .. 3 * k - 1 : x = a + k - b
    BY <1>1
  <1>3. x % k = IF x < k THEN x ELSE IF x < 2 * k THEN x - k ELSE x - 2 * k
    BY Mods
  <1>. QED  BY <1>1, <1>2, <1>3

LEMMA Advanced ==
  ASSUME NEW m \in Nat \ {0}, NEW r \in 0 .. 2 * m - 1
  PROVE  (r + 1) % (2 * m) = IF r = 2 * m - 1 THEN 0 ELSE r + 1
  <1>1. PICK k \in Nat \ {0} : k = 2 * m
    OBVIOUS
  <1>2. r + 1 \in 0 .. 3 * k - 1
    BY <1>1
  <1>3. (r + 1) % k = IF r + 1 < k THEN r + 1 ELSE r + 1 - k
    BY <1>1, <1>2, Mods
  <1>. QED  BY <1>1, <1>2, <1>3

\* Indexes 2 * m apart have one place, and those less than m apart do not.
LEMMA SamePlace ==
  ASSUME NEW m \in Nat \ {0}, NEW a \in 0 .. 3 * m - 1, NEW b \in 0 .. 3 * m - 1, a = b \/ a = b + 2 * m
  PROVE  a % m = b % m
  <1>1. a % m = IF a < m THEN a ELSE IF a < 2 * m THEN a - m ELSE a - 2 * m
    BY Mods
  <1>2. b % m = IF b < m THEN b ELSE IF b < 2 * m THEN b - m ELSE b - 2 * m
    BY Mods
  <1>. QED  BY <1>1, <1>2

LEMMA OtherPlace ==
  ASSUME NEW m \in Nat \ {0}, NEW a \in 0 .. 3 * m - 1, NEW b \in 0 .. 3 * m - 1, a < b, b < a + m
  PROVE  a % m # b % m
  <1>1. a % m = IF a < m THEN a ELSE IF a < 2 * m THEN a - m ELSE a - 2 * m
    BY Mods
  <1>2. b % m = IF b < m THEN b ELSE IF b < 2 * m THEN b - m ELSE b - 2 * m
    BY Mods
  <1>. QED  BY <1>1, <1>2

-----------------------------------------------------------------------------
(* What a step of a thread in the buffer does to the lock and the queue.   *)

BufferStep(t) == Waits(t) \/ Runs(t)

LEMMA LockStep ==
  ASSUME NEW t \in Threads, EchoVariables, Locking, BufferStep(t)
  PROVE  Locking'
  <1>1. at \in [Threads -> Points]
    BY DEF EchoVariables
  <1>2. CASE LockInsert(t) \/ LockRemove(t)
    <2>0. mutex \in {0, 1} /\ mutex > 0 /\ mutex' = mutex - 1
      BY <1>2 DEF Locking, LockInsert, LockRemove
    <2>1. mutex = 1 /\ mutex' = 0
      BY <2>0
    <2>2. \A u \in Threads \ {t} : at'[u] = at[u]
      BY <1>1, <1>2 DEF LockInsert, LockRemove, Go
    <2>3. \A u \in Threads : at'[u] \in LockedBuffer => u = t
      BY <2>1, <2>2 DEF Locking
    <2>. QED  BY <2>1, <2>3 DEF Locking, OneLocked
  <1>3. CASE UnlockInsert(t) \/ UnlockRemove(t)
    <2>1. at[t] \in LockedBuffer /\ mutex' = mutex + 1
      BY <1>3 DEF UnlockInsert, UnlockRemove, Go, LockedBuffer
    <2>2. mutex = 0
      BY <2>1 DEF Locking
    <2>3. at'[t] \notin LockedBuffer /\ \A u \in Threads \ {t} : at'[u] = at[u]
      BY <1>1, <1>3 DEF UnlockInsert, UnlockRemove, Go, LockedBuffer
    <2>. QED  BY <2>1, <2>2, <2>3 DEF Locking, OneLocked
  <1>4. CASE \/ WaitSlot(t) \/ WaitItem(t) \/ PostItem(t) \/ PostSlot(t)
             \/ AdvanceRear(t) \/ AdvanceFront(t) \/ Store(t) \/ Load(t)
    <2>1. mutex' = mutex /\ \A u \in Threads \ {t} : at'[u] = at[u]
      BY <1>1, <1>4 DEF WaitSlot, WaitItem, PostItem, PostSlot, AdvanceRear, AdvanceFront, Store, Load, Go
    <2>2. at'[t] \in LockedBuffer <=> at[t] \in LockedBuffer
      BY <1>1, <1>4
      DEF WaitSlot, WaitItem, PostItem, PostSlot, AdvanceRear, AdvanceFront, Store, Load, Go, LockedBuffer
    <2>. QED  BY <2>1, <2>2 DEF Locking, OneLocked
  <1>. QED  BY <1>2, <1>3, <1>4 DEF BufferStep, Waits, Runs

\* The steps at neither store nor load: nothing that the queue is made of.
LEMMA QuietQueue ==
  ASSUME NEW t \in Threads, NEW p, at \in [Threads -> Points], at' = [at EXCEPT ![t] = p],
         {at[t], p} \cap {"store", "load"} = {}, UNCHANGED <<n, buf, front, rear>>
  PROVE  Count' = Count /\ Contents' = Contents
  <1>1. \A q \in {"store", "load"} : {u \in Threads : at'[u] = q} = {u \in Threads : at[u] = q}
    OBVIOUS
  <1>2. Pending("store")' = Pending("store") /\ Pending("load")' = Pending("load")
    BY <1>1 DEF Pending
  <1>3. Inserted' = Inserted /\ Removed' = Removed
    BY <1>2 DEF Inserted, Removed
  <1>4. Count' = Count
    BY <1>3 DEF Count
  <1>. QED  BY <1>3, <1>4 DEF Contents

LEMMA SameQueue ==
  ASSUME UNCHANGED <<n, buf, front, rear, at>>
  PROVE  Count' = Count /\ Contents' = Contents
  BY DEF Count, Contents, Inserted, Removed, Pending

\* The index r with one pending taken away when a thread is at p.
IndexAt(m, r, f, p) == (r + 2 * m - Cardinality({t \in Threads : f[t] = p})) % (2 * m)

LEMMA IndexIs ==
  ASSUME NEW m \in Nat \ {0}, NEW r \in 0 .. 2 * m - 1, NEW f, OneLocked(f), NEW p \in LockedBuffer
  PROVE  IndexAt(m, r, f, p) =
           IF \E t \in Threads : f[t] = p THEN IF r = 0 THEN 2 * m - 1 ELSE r - 1 ELSE r
  <1>1. PICK c \in {0, 1} :
          c = Cardinality({t \in Threads : f[t] = p}) /\ (c = 1 <=> \E t \in Threads : f[t] = p)
    BY PendingIs
  <1>2. IndexAt(m, r, f, p) = (r + 2 * m - c) % (2 * m)
    BY <1>1 DEF IndexAt
  <1>3. (r + 2 * m - c) % (2 * m) = IF c = 0 THEN r ELSE IF r = 0 THEN 2 * m - 1 ELSE r - 1
    BY Before
  <1>. QED  BY <1>1, <1>2, <1>3

IndexFacts ==
  /\ n \in Nat \ {0}
  /\ Inserted \in 0 .. 2 * n - 1 /\ Removed \in 0 .. 2 * n - 1
  /\ Count \in 0 .. 2 * n - 1
  /\ Count = IF Removed <= Inserted THEN Inserted - Removed ELSE Inserted + 2 * n - Removed
  /\ Inserted = IF \E t \in Threads : at[t] = "store" THEN IF rear = 0 THEN 2 * n - 1 ELSE rear - 1 ELSE rear
  /\ Removed = IF \E t \in Threads : at[t] = "load" THEN IF front = 0 THEN 2 * n - 1 ELSE front - 1 ELSE front

LEMMA Indices == EchoVariables /\ Locking => IndexFacts
  <1>. SUFFICES ASSUME EchoVariables, Locking PROVE IndexFacts
    OBVIOUS
  <1>1. n \in Nat \ {0} /\ rear \in 0 .. 2 * n - 1 /\ front \in 0 .. 2 * n - 1
    BY SbufAssumption DEF EchoVariables
  <1>2. OneLocked(at) /\ "store" \in LockedBuffer /\ "load" \in LockedBuffer
    BY DEF Locking, LockedBuffer
  <1>3. Inserted = IndexAt(n, rear, at, "store") /\ Removed = IndexAt(n, front, at, "load")
    BY DEF Inserted, Removed, Pending, IndexAt
  <1>4. IndexAt(n, rear, at, "store") = IF \E t \in Threads : at[t] = "store"
                       THEN IF rear = 0 THEN 2 * n - 1 ELSE rear - 1 ELSE rear
    BY <1>1, <1>2, IndexIs
  <1>5. IndexAt(n, front, at, "load") = IF \E t \in Threads : at[t] = "load"
                       THEN IF front = 0 THEN 2 * n - 1 ELSE front - 1 ELSE front
    BY <1>1, <1>2, IndexIs
  <1>6. Inserted \in 0 .. 2 * n - 1 /\ Removed \in 0 .. 2 * n - 1
    BY <1>1, <1>3, <1>4, <1>5
  <1>7. Count = IF Removed <= Inserted THEN Inserted - Removed ELSE Inserted + 2 * n - Removed
    BY <1>1, <1>6, Distance DEF Count
  <1>8. Count \in 0 .. 2 * n - 1
    BY <1>1, <1>6, <1>7
  <1>. QED  BY <1>1, <1>3, <1>4, <1>5, <1>6, <1>7, <1>8 DEF IndexFacts

LEMMA IndicesNext == EchoVariables' /\ Locking' => IndexFacts'
  BY Indices, PTL

-----------------------------------------------------------------------------
(* The two steps that change the queue, and those that move an index.      *)

\* All that the queue is made of, apart from buf.
SameIndexes == n' = n /\ Inserted' = Inserted /\ Removed' = Removed /\ Count' = Count

LEMMA SameContents ==
  ASSUME SameIndexes, buf' = buf
  PROVE  Contents' = Contents
  BY DEF SameIndexes, Contents

LEMMA AdvanceRearStep ==
  ASSUME NEW t \in Threads, EchoVariables, Locking, EchoVariables', Locking', AdvanceRear(t)
  PROVE  Count' = Count /\ Contents' = Contents
  <1>1. at[t] = "++rear" /\ at' = [at EXCEPT ![t] = "store"] /\ at \in [Threads -> Points]
    BY DEF AdvanceRear, Go, EchoVariables
  <1>2. UNCHANGED <<n, buf, front>> /\ rear' = (rear + 1) % (2 * n)
    BY DEF AdvanceRear
  <1>3. IndexFacts /\ IndexFacts'
    BY Indices, IndicesNext
  <1>4. (\A u \in Threads : at[u] \notin {"store", "load"}) /\ at'[t] = "store"
    BY <1>1 DEF Locking, OneLocked, LockedBuffer
  <1>5. \A u \in Threads : at'[u] # "load"
    BY <1>1, <1>4
  <1>6. n \in Nat \ {0} /\ rear \in 0 .. 2 * n - 1
    BY <1>3 DEF IndexFacts, EchoVariables
  <1>7. rear' = IF rear = 2 * n - 1 THEN 0 ELSE rear + 1
    BY <1>2, <1>6, Advanced
  <1>8. Inserted' = Inserted /\ Removed' = Removed
    <2>1. Inserted = rear /\ Inserted' = IF rear' = 0 THEN 2 * n - 1 ELSE rear' - 1
      BY <1>2, <1>3, <1>4 DEF IndexFacts
    <2>2. Removed = front /\ Removed' = front
      BY <1>2, <1>3, <1>4, <1>5 DEF IndexFacts
    <2>. QED  BY <1>6, <1>7, <2>1, <2>2
  <1>9. SameIndexes
    BY <1>2, <1>8 DEF SameIndexes, Count
  <1>. QED  BY <1>2, <1>9, SameContents DEF SameIndexes

LEMMA AdvanceFrontStep ==
  ASSUME NEW t \in Threads, EchoVariables, Locking, EchoVariables', Locking', AdvanceFront(t)
  PROVE  Count' = Count /\ Contents' = Contents
  <1>1. at[t] = "++front" /\ at' = [at EXCEPT ![t] = "load"] /\ at \in [Threads -> Points]
    BY DEF AdvanceFront, Go, EchoVariables
  <1>2. UNCHANGED <<n, buf, rear>> /\ front' = (front + 1) % (2 * n)
    BY DEF AdvanceFront
  <1>3. IndexFacts /\ IndexFacts'
    BY Indices, IndicesNext
  <1>4. (\A u \in Threads : at[u] \notin {"store", "load"}) /\ at'[t] = "load"
    BY <1>1 DEF Locking, OneLocked, LockedBuffer
  <1>5. \A u \in Threads : at'[u] # "store"
    BY <1>1, <1>4
  <1>6. n \in Nat \ {0} /\ front \in 0 .. 2 * n - 1
    BY <1>3 DEF IndexFacts, EchoVariables
  <1>7. front' = IF front = 2 * n - 1 THEN 0 ELSE front + 1
    BY <1>2, <1>6, Advanced
  <1>8. Inserted' = Inserted /\ Removed' = Removed
    <2>1. Removed = front /\ Removed' = IF front' = 0 THEN 2 * n - 1 ELSE front' - 1
      BY <1>2, <1>3, <1>4 DEF IndexFacts
    <2>2. Inserted = rear /\ Inserted' = rear
      BY <1>2, <1>3, <1>4, <1>5 DEF IndexFacts
    <2>. QED  BY <1>6, <1>7, <2>1, <2>2
  <1>9. SameIndexes
    BY <1>2, <1>8 DEF SameIndexes, Count
  <1>. QED  BY <1>2, <1>9, SameContents DEF SameIndexes

\* Contents is a sequence.
ContentsFacts ==
  /\ Contents \in Seq(Items \cup {None}) /\ Len(Contents) = Count
  /\ \A i \in 1 .. Count : Contents[i] = buf[(Removed + i) % n]

LEMMA ContentsSeq == EchoVariables /\ Locking => ContentsFacts
  <1>. SUFFICES ASSUME EchoVariables, Locking PROVE ContentsFacts
    OBVIOUS
  <1>1. IndexFacts
    BY Indices
  <1>2. n \in Nat \ {0} /\ Count \in Nat /\ Removed \in Nat /\ buf \in [0 .. n - 1 -> Items \cup {None}]
    BY <1>1 DEF IndexFacts, EchoVariables
  <1>3. \A i \in 1 .. Count : (Removed + i) % n \in 0 .. n - 1
    BY <1>2
  <1>4. \A i \in 1 .. Count : Contents[i] = buf[(Removed + i) % n] /\ Contents[i] \in Items \cup {None}
    BY <1>2, <1>3 DEF Contents
  <1>5. DOMAIN Contents = 1 .. Count /\ Contents = [i \in 1 .. Count |-> Contents[i]]
    BY DEF Contents
  <1>6. Contents \in [1 .. Count -> Items \cup {None}]
    BY <1>4, <1>5
  <1>7. Contents \in Seq(Items \cup {None})
    BY <1>2, <1>6
  <1>. QED  BY <1>2, <1>4, <1>5, <1>7, LenProperties DEF ContentsFacts

LEMMA ContentsSeqNext == EchoVariables' /\ Locking' => ContentsFacts'
  BY ContentsSeq, PTL

LEMMA StoreStep ==
  ASSUME NEW t \in Threads, EchoVariables, Locking, EchoVariables', Locking', Indexes, Count < n, Store(t)
  PROVE  Count' = Count + 1 /\ Contents' = Append(Contents, item[t])
  <1>1. at[t] = "store" /\ at' = [at EXCEPT ![t] = "V(mutex) insert"] /\ at \in [Threads -> Points]
    BY DEF Store, Go, EchoVariables
  <1>2. UNCHANGED <<n, front, rear>> /\ buf' = [buf EXCEPT ![rear % n] = item[t]]
    BY <1>1 DEF Store, Indexes
  <1>3. IndexFacts /\ IndexFacts'
    BY Indices, IndicesNext
  <1>4. \A u \in Threads : at[u] # "load" /\ at'[u] # "store" /\ at'[u] # "load"
    BY <1>1 DEF Locking, OneLocked, LockedBuffer
  <1>5. /\ n \in Nat \ {0} /\ rear \in 0 .. 2 * n - 1 /\ item[t] \in Items \cup {None}
        /\ buf \in [0 .. n - 1 -> Items \cup {None}]
    BY <1>3 DEF IndexFacts, EchoVariables
  <1>6. Inserted = (IF rear = 0 THEN 2 * n - 1 ELSE rear - 1) /\ Inserted' = rear /\ Removed' = Removed
    BY <1>1, <1>2, <1>3, <1>4 DEF IndexFacts
  <1>7. Count' = Count + 1
    <2>1. Count = IF Removed <= Inserted THEN Inserted - Removed ELSE Inserted + 2 * n - Removed
      BY <1>3 DEF IndexFacts
    <2>2. Count' = IF Removed <= rear THEN rear - Removed ELSE rear + 2 * n - Removed
      BY <1>2, <1>3, <1>6 DEF IndexFacts
    <2>3. Removed \in 0 .. 2 * n - 1
      BY <1>3 DEF IndexFacts
    <2>. QED  BY <1>5, <1>6, <2>1, <2>2, <2>3
  <1>8. PICK r \in 0 .. 2 * n - 1 : r = Removed
    BY <1>3 DEF IndexFacts
  <1>9. PICK c \in 0 .. n - 1 : c = Count
    BY <1>3, <1>5 DEF IndexFacts
  <1>10. r + c + 1 = rear \/ r + c + 1 = rear + 2 * n
    <2>1. c = IF r <= Inserted THEN Inserted - r ELSE Inserted + 2 * n - r
      BY <1>3, <1>8, <1>9 DEF IndexFacts
    <2>. QED  BY <1>5, <1>6, <2>1
  <1>11. (r + c + 1) % n = rear % n
    <2>1. r + c + 1 \in 0 .. 3 * n - 1 /\ rear \in 0 .. 3 * n - 1
      BY <1>5
    <2>. QED  BY <1>5, <1>10, <2>1, SamePlace
  <1>12. \A i \in 1 .. c : (r + i) % n # rear % n
    <2>1. \A i \in 1 .. c : r + i \in 0 .. 3 * n - 1 /\ r + c + 1 \in 0 .. 3 * n - 1
                             /\ r + i < r + c + 1 /\ r + c + 1 < r + i + n
      BY <1>5
    <2>2. \A i \in 1 .. c : (r + i) % n # (r + c + 1) % n
      BY <1>5, <2>1, OtherPlace
    <2>. QED  BY <1>11, <2>2
  <1>13. /\ Contents \in Seq(Items \cup {None}) /\ Len(Contents) = c
         /\ \A i \in 1 .. c : Contents[i] = buf[(r + i) % n]
    BY <1>8, <1>9, ContentsSeq DEF ContentsFacts
  <1>14. /\ Contents' \in Seq(Items \cup {None}) /\ Len(Contents') = c + 1
         /\ \A i \in 1 .. c + 1 : Contents'[i] = buf'[(r + i) % n]
    BY <1>2, <1>6, <1>7, <1>8, <1>9, ContentsSeqNext DEF ContentsFacts
  <1>15. \A i \in 1 .. c + 1 : Contents'[i] = IF i = c + 1 THEN item[t] ELSE Contents[i]
    <2>. SUFFICES ASSUME NEW i \in 1 .. c + 1 PROVE Contents'[i] = IF i = c + 1 THEN item[t] ELSE Contents[i]
      OBVIOUS
    <2>1. rear % n \in 0 .. n - 1
      BY <1>5
    <2>2. CASE i = c + 1
      <3>1. r + i = r + c + 1
        BY <2>2
      <3>. QED  BY <1>2, <1>5, <1>11, <1>14, <2>1, <2>2, <3>1
    <2>3. CASE i # c + 1
      <3>1. i \in 1 .. c
        BY <2>3
      <3>2. (r + i) % n \in 0 .. n - 1 /\ (r + i) % n # rear % n
        BY <1>5, <1>12, <3>1
      <3>. QED  BY <1>2, <1>5, <1>13, <1>14, <2>3, <3>1, <3>2
    <2>. QED  BY <2>2, <2>3
  <1>16. /\ Append(Contents, item[t]) \in Seq(Items \cup {None})
         /\ Len(Append(Contents, item[t])) = c + 1
         /\ \A i \in 1 .. c : Append(Contents, item[t])[i] = Contents[i]
         /\ Append(Contents, item[t])[c + 1] = item[t]
    BY <1>5, <1>13, AppendProperties
  <1>17. \A i \in 1 .. c + 1 : Contents'[i] = Append(Contents, item[t])[i]
    BY <1>15, <1>16
  <1>18. Contents' = Append(Contents, item[t])
    BY <1>14, <1>16, <1>17, SeqEqual
  <1>. QED  BY <1>7, <1>18

LEMMA LoadStep ==
  ASSUME NEW t \in Threads, EchoVariables, Locking, EchoVariables', Locking', Indexes, Count \in 1 .. n, Load(t)
  PROVE  Count' = Count - 1 /\ Contents # <<>> /\ Contents' = Tail(Contents) /\ item'[t] = Head(Contents)
  <1>1. at[t] = "load" /\ at' = [at EXCEPT ![t] = "V(mutex) remove"] /\ at \in [Threads -> Points]
    BY DEF Load, Go, EchoVariables
  <1>2. UNCHANGED <<n, buf, front, rear>> /\ item' = [item EXCEPT ![t] = buf[front % n]]
    BY <1>1 DEF Load, Indexes
  <1>3. IndexFacts /\ IndexFacts'
    BY Indices, IndicesNext
  <1>4. \A u \in Threads : at[u] # "store" /\ at'[u] # "store" /\ at'[u] # "load"
    BY <1>1 DEF Locking, OneLocked, LockedBuffer
  <1>5. /\ n \in Nat \ {0} /\ front \in 0 .. 2 * n - 1 /\ item \in [Threads -> Items \cup {None}]
        /\ buf \in [0 .. n - 1 -> Items \cup {None}]
    BY <1>3 DEF IndexFacts, EchoVariables
  <1>6. Removed = (IF front = 0 THEN 2 * n - 1 ELSE front - 1) /\ Removed' = front /\ Inserted' = Inserted
    BY <1>1, <1>2, <1>3, <1>4 DEF IndexFacts
  <1>7. Count' = Count - 1
    <2>1. Count = IF Removed <= Inserted THEN Inserted - Removed ELSE Inserted + 2 * n - Removed
      BY <1>3 DEF IndexFacts
    <2>2. Count' = IF front <= Inserted THEN Inserted - front ELSE Inserted + 2 * n - front
      BY <1>2, <1>3, <1>6 DEF IndexFacts
    <2>3. Inserted \in 0 .. 2 * n - 1
      BY <1>3 DEF IndexFacts
    <2>. QED  BY <1>5, <1>6, <2>1, <2>2, <2>3
  <1>8. PICK r \in 0 .. 2 * n - 1 : r = Removed
    BY <1>3 DEF IndexFacts
  <1>9. PICK c \in 1 .. n : c = Count
    BY <1>5
  <1>10. r + 1 = front \/ r + 1 = front + 2 * n
    BY <1>5, <1>6, <1>8
  <1>11. \A i \in 0 .. c - 1 : (r + 1 + i) % n = (front + i) % n
    <2>. SUFFICES ASSUME NEW i \in 0 .. c - 1 PROVE (r + 1 + i) % n = (front + i) % n
      OBVIOUS
    <2>1. r + 1 + i \in 0 .. 3 * n - 1 /\ front + i \in 0 .. 3 * n - 1
      BY <1>5
    <2>2. r + 1 + i = front + i \/ r + 1 + i = front + i + 2 * n
      BY <1>5, <1>10
    <2>. QED  BY <1>5, <2>1, <2>2, SamePlace
  <1>12. /\ Contents \in Seq(Items \cup {None}) /\ Len(Contents) = c
         /\ \A i \in 1 .. c : Contents[i] = buf[(r + i) % n]
    BY <1>8, <1>9, ContentsSeq DEF ContentsFacts
  <1>13. /\ Contents' \in Seq(Items \cup {None}) /\ Len(Contents') = c - 1
         /\ \A i \in 1 .. c - 1 : Contents'[i] = buf[(front + i) % n]
    BY <1>2, <1>6, <1>7, <1>9, ContentsSeqNext DEF ContentsFacts
  <1>14. Contents # <<>>
    BY <1>12
  <1>15. /\ Head(Contents) = Contents[1] /\ Tail(Contents) \in Seq(Items \cup {None})
         /\ Len(Tail(Contents)) = c - 1
         /\ \A i \in 1 .. c - 1 : Tail(Contents)[i] = Contents[i + 1]
    BY <1>12, <1>14, HeadTailProperties
  <1>16. \A i \in 1 .. c - 1 : Contents'[i] = Tail(Contents)[i]
    <2>. SUFFICES ASSUME NEW i \in 1 .. c - 1 PROVE Contents'[i] = Contents[i + 1]
      BY <1>15
    <2>1. i \in 0 .. c - 1 /\ i + 1 \in 1 .. c /\ r + 1 + i = r + (i + 1)
      OBVIOUS
    <2>2. (r + (i + 1)) % n = (front + i) % n
      BY <1>11, <2>1
    <2>. QED  BY <1>12, <1>13, <2>1, <2>2
  <1>17. Contents' = Tail(Contents)
    BY <1>13, <1>15, <1>16, SeqEqual
  <1>18. item'[t] = Head(Contents)
    <2>1. 0 \in 0 .. c - 1 /\ 1 \in 1 .. c /\ r + 1 + 0 = r + 1 /\ front + 0 = front
      BY <1>5
    <2>2. (r + 1) % n = front % n
      BY <1>11, <2>1
    <2>. QED  BY <1>2, <1>5, <1>12, <1>15, <2>1, <2>2
  <1>. QED  BY <1>7, <1>14, <1>17, <1>18

-----------------------------------------------------------------------------
(* The invariant of the buffer.                                            *)

LEMMA TypesStep ==
  ASSUME NEW t \in Threads, EchoVariables, BufferStep(t)
  PROVE  EchoVariables'
  <1>1. n \in Nat \ {0} /\ at[t] \in Points
    BY SbufAssumption DEF EchoVariables
  <1>2. CASE WaitSlot(t) \/ WaitItem(t) \/ PostItem(t) \/ PostSlot(t)
    <2>0. slots \in Nat /\ items \in Nat
      BY DEF EchoVariables
    <2>1. slots' \in Nat /\ items' \in Nat
      <3>1. CASE WaitSlot(t)
        <4>1. slots > 0 /\ slots' = slots - 1 /\ items' = items
          BY <3>1 DEF WaitSlot
        <4>. QED  BY <2>0, <4>1
      <3>2. CASE WaitItem(t)
        <4>1. items > 0 /\ items' = items - 1 /\ slots' = slots
          BY <3>2 DEF WaitItem
        <4>. QED  BY <2>0, <4>1
      <3>3. CASE PostItem(t) \/ PostSlot(t)
        BY <2>0, <3>3 DEF PostItem, PostSlot
      <3>. QED  BY <1>2, <3>1, <3>2, <3>3
    <2>2. UNCHANGED <<n, buf, front, rear, item, idx>>
      BY <1>2 DEF WaitSlot, WaitItem, PostItem, PostSlot
    <2>3. at' \in [Threads -> Points]
      BY <1>2 DEF EchoVariables, WaitSlot, WaitItem, PostItem, PostSlot, Go, Points, Inserting, Removing
    <2>. QED  BY <2>1, <2>2, <2>3 DEF EchoVariables
  <1>3. CASE LockInsert(t) \/ LockRemove(t) \/ UnlockInsert(t) \/ UnlockRemove(t)
    <2>1. UNCHANGED <<n, buf, front, rear, slots, items, item, idx>>
      BY <1>3 DEF LockInsert, LockRemove, UnlockInsert, UnlockRemove
    <2>2. at' \in [Threads -> Points]
      BY <1>3 DEF EchoVariables, LockInsert, LockRemove, UnlockInsert, UnlockRemove, Go, Points, Inserting, Removing
    <2>. QED  BY <2>1, <2>2 DEF EchoVariables
  <1>4. CASE AdvanceRear(t)
    <2>1. rear' = IF rear = 2 * n - 1 THEN 0 ELSE rear + 1
      BY <1>1, <1>4, Advanced DEF AdvanceRear, EchoVariables
    <2>2. rear' \in 0 .. 2 * n - 1 /\ UNCHANGED <<n, buf, front, slots, items, item>>
      BY <1>1, <1>4, <2>1 DEF AdvanceRear, EchoVariables
    <2>3. idx' \in [Threads -> 0 .. 2 * n - 1]
      BY <1>4, <2>2 DEF AdvanceRear, EchoVariables
    <2>4. at' \in [Threads -> Points]
      BY <1>4 DEF EchoVariables, AdvanceRear, Go, Points, Inserting
    <2>. QED  BY <2>2, <2>3, <2>4 DEF EchoVariables
  <1>5. CASE AdvanceFront(t)
    <2>1. front' = IF front = 2 * n - 1 THEN 0 ELSE front + 1
      BY <1>1, <1>5, Advanced DEF AdvanceFront, EchoVariables
    <2>2. front' \in 0 .. 2 * n - 1 /\ UNCHANGED <<n, buf, rear, slots, items, item>>
      BY <1>1, <1>5, <2>1 DEF AdvanceFront, EchoVariables
    <2>3. idx' \in [Threads -> 0 .. 2 * n - 1]
      BY <1>5, <2>2 DEF AdvanceFront, EchoVariables
    <2>4. at' \in [Threads -> Points]
      BY <1>5 DEF EchoVariables, AdvanceFront, Go, Points, Removing
    <2>. QED  BY <2>2, <2>3, <2>4 DEF EchoVariables
  <1>6. CASE Store(t) \/ Load(t)
    <2>1. PICK i \in 0 .. n - 1 : i = idx[t] % n
      BY <1>1 DEF EchoVariables
    <2>0. 0 \in 0 .. 2 * n - 1
      BY <1>1
    <2>2. idx' \in [Threads -> 0 .. 2 * n - 1]
      BY <1>6, <2>0 DEF Store, Load, EchoVariables
    <2>3. UNCHANGED <<n, front, rear, slots, items>>
      BY <1>6 DEF Store, Load
    <2>4. buf' \in [0 .. n - 1 -> Items \cup {None}] /\ item' \in [Threads -> Items \cup {None}]
      BY <1>6, <2>1 DEF Store, Load, EchoVariables
    <2>5. at' \in [Threads -> Points]
      BY <1>6 DEF EchoVariables, Store, Load, Go, Points, Inserting, Removing
    <2>. QED  BY <2>2, <2>3, <2>4, <2>5 DEF EchoVariables
  <1>. QED  BY <1>2, <1>3, <1>4, <1>5, <1>6 DEF BufferStep, Waits, Runs

LEMMA IndexesStep ==
  ASSUME NEW t \in Threads, EchoVariables, Locking, Indexes, BufferStep(t)
  PROVE  Indexes'
  <1>1. at \in [Threads -> Points] /\ idx \in [Threads -> 0 .. 2 * n - 1]
    BY DEF EchoVariables
  <1>2. CASE AdvanceRear(t) \/ AdvanceFront(t)
    <2>1. \A u \in Threads \ {t} : at'[u] = at[u] /\ at[u] \notin {"store", "load"}
      BY <1>1, <1>2 DEF AdvanceRear, AdvanceFront, Go, Locking, OneLocked, LockedBuffer
    <2>2. CASE AdvanceRear(t)
      BY <1>1, <2>1, <2>2 DEF AdvanceRear, Go, Indexes
    <2>3. CASE AdvanceFront(t)
      BY <1>1, <2>1, <2>3 DEF AdvanceFront, Go, Indexes
    <2>. QED  BY <1>2, <2>2, <2>3
  <1>3. CASE Store(t) \/ Load(t)
    <2>1. UNCHANGED <<front, rear>> /\ at'[t] \notin {"store", "load"}
      BY <1>1, <1>3 DEF Store, Load, Go
    <2>2. \A u \in Threads \ {t} : at'[u] = at[u] /\ idx'[u] = idx[u]
      BY <1>1, <1>3 DEF Store, Load, Go
    <2>. QED  BY <2>1, <2>2 DEF Indexes
  <1>4. CASE \/ WaitSlot(t) \/ WaitItem(t) \/ PostItem(t) \/ PostSlot(t)
             \/ LockInsert(t) \/ LockRemove(t) \/ UnlockInsert(t) \/ UnlockRemove(t)
    <2>1. UNCHANGED <<front, rear, idx>>
      BY <1>4 DEF WaitSlot, WaitItem, PostItem, PostSlot, LockInsert, LockRemove, UnlockInsert, UnlockRemove
    <2>2. at'[t] \notin {"store", "load"} /\ \A u \in Threads \ {t} : at'[u] = at[u]
      BY <1>1, <1>4
      DEF WaitSlot, WaitItem, PostItem, PostSlot, LockInsert, LockRemove, UnlockInsert, UnlockRemove, Go
    <2>. QED  BY <2>1, <2>2 DEF Indexes
  <1>. QED  BY <1>2, <1>3, <1>4 DEF BufferStep, Waits, Runs

LEMMA HoldsStep ==
  ASSUME NEW t \in Threads, EchoVariables, Holds, BufferStep(t)
  PROVE  Holds'
  <1>1. at \in [Threads -> Points] /\ item \in [Threads -> Items \cup {None}]
    BY DEF EchoVariables
  <1>2. CASE Store(t) \/ Load(t)
    <2>1. \A u \in Threads \ {t} : at'[u] = at[u] /\ item'[u] = item[u]
      BY <1>1, <1>2 DEF Store, Load, Go
    <2>2. (at'[t] = "V(mutex) insert" /\ item'[t] = None) \/ at'[t] = "V(mutex) remove"
      BY <1>1, <1>2 DEF Store, Load, Go
    <2>. QED  BY <2>1, <2>2 DEF Holds, Bringing, EmptyBuffer
  <1>3. CASE \/ WaitSlot(t) \/ WaitItem(t) \/ PostItem(t) \/ PostSlot(t) \/ AdvanceRear(t) \/ AdvanceFront(t)
             \/ LockInsert(t) \/ LockRemove(t) \/ UnlockInsert(t) \/ UnlockRemove(t)
    <2>1. item' = item
      BY <1>3 DEF WaitSlot, WaitItem, PostItem, PostSlot, AdvanceRear, AdvanceFront, LockInsert, LockRemove,
                  UnlockInsert, UnlockRemove
    <2>2. \A u \in Threads \ {t} : at'[u] = at[u]
      BY <1>1, <1>3
      DEF WaitSlot, WaitItem, PostItem, PostSlot, AdvanceRear, AdvanceFront, LockInsert, LockRemove,
          UnlockInsert, UnlockRemove, Go
    <2>3. (at'[t] \in Bringing => at[t] \in Bringing) /\ (at'[t] \in EmptyBuffer => at[t] \in EmptyBuffer)
      BY <1>1, <1>3
      DEF WaitSlot, WaitItem, PostItem, PostSlot, AdvanceRear, AdvanceFront, LockInsert, LockRemove,
          UnlockInsert, UnlockRemove, Go, Bringing, EmptyBuffer
    <2>. QED  BY <2>1, <2>2, <2>3 DEF Holds
  <1>. QED  BY <1>2, <1>3 DEF BufferStep, Waits, Runs

LEMMA QueueStep ==
  ASSUME NEW t \in Threads, EchoVariables, Locking, BufferStep(t), ~Store(t), ~Load(t)
  PROVE  Count' = Count /\ Contents' = Contents
  <1>1. EchoVariables' /\ Locking' /\ at \in [Threads -> Points]
    BY TypesStep, LockStep DEF EchoVariables
  <1>2. CASE AdvanceRear(t)
    BY <1>1, <1>2, AdvanceRearStep
  <1>3. CASE AdvanceFront(t)
    BY <1>1, <1>3, AdvanceFrontStep
  <1>4. CASE \/ WaitSlot(t) \/ WaitItem(t) \/ PostItem(t) \/ PostSlot(t)
             \/ LockInsert(t) \/ LockRemove(t) \/ UnlockInsert(t) \/ UnlockRemove(t)
    <2>1. UNCHANGED <<n, buf, front, rear>>
      BY <1>4 DEF WaitSlot, WaitItem, PostItem, PostSlot, LockInsert, LockRemove, UnlockInsert, UnlockRemove
    <2>2. PICK p : at' = [at EXCEPT ![t] = p] /\ {at[t], p} \cap {"store", "load"} = {}
      BY <1>4
      DEF WaitSlot, WaitItem, PostItem, PostSlot, LockInsert, LockRemove, UnlockInsert, UnlockRemove, Go
    <2>. QED  BY <1>1, <2>1, <2>2, QuietQueue
  <1>. QED  BY <1>2, <1>3, <1>4 DEF BufferStep, Waits, Runs

\* A thread at store has a slot of its own, one at load an item.
LEMMA Room ==
  ASSUME NEW t \in Threads, EchoVariables, Locking, Tokens
  PROVE  Count \in 0 .. n /\ (at[t] = "store" => Count < n) /\ (at[t] = "load" => Count > 0)
         /\ slots \in 0 .. n /\ items \in 0 .. n
  <1>1. Cardinality(Who(at, Itemed)) \in Nat /\ Cardinality(Who(at, Slotted)) \in Nat
    BY WhoFinite
  <1>2. at[t] = "load" => Cardinality(Who(at, Itemed)) > 0
    BY WhoSome DEF Itemed
  <1>3. at[t] = "store" => Cardinality(Who(at, Slotted)) > 0
    BY WhoSome DEF Slotted
  <1>4. n \in Nat /\ slots \in Nat /\ items \in Nat
    BY SbufAssumption DEF EchoVariables
  <1>. QED  BY <1>1, <1>2, <1>3, <1>4 DEF Tokens

LEMMA TokensStep ==
  ASSUME NEW t \in Threads, EchoVariables, Locking, Indexes, Tokens, BufferStep(t)
  PROVE  Tokens'
  <1>. DEFINE I == Cardinality(Who(at, Itemed))
              S == Cardinality(Who(at, Slotted))
              J == Cardinality(Who(at', Itemed))
              T == Cardinality(Who(at', Slotted))
  <1>1. EchoVariables' /\ Locking' /\ at \in [Threads -> Points]
    BY TypesStep, LockStep DEF EchoVariables
  <1>2. /\ n \in Nat /\ Count \in Nat /\ I \in Nat /\ S \in Nat /\ J \in Nat /\ T \in Nat
        /\ slots \in Nat /\ items \in Nat
    BY SbufAssumption, Indices, WhoFinite DEF EchoVariables, IndexFacts
  <1>3. Count = items + I /\ n = Count + slots + S
    BY DEF Tokens
  <1>4. n' = n /\ (Count' = items' + J /\ n = Count' + slots' + T => Tokens')
    BY DEF Tokens, Who, BufferStep, Waits, Runs, WaitSlot, WaitItem, PostItem, PostSlot, LockInsert, LockRemove,
           UnlockInsert, UnlockRemove, AdvanceRear, AdvanceFront, Store, Load
  <1>. HIDE DEF I, S, J, T
  <1>6. CASE WaitSlot(t)
    <2>1. slots > 0 /\ slots' = slots - 1 /\ items' = items /\ Count' = Count
      BY <1>6, QueueStep DEF WaitSlot, Store, Load, Go
    <2>2. at[t] = "P(slots)" /\ at' = [at EXCEPT ![t] = "P(mutex) insert"]
      BY <1>6 DEF WaitSlot, Go
    <2>3. /\ at[t] \notin Itemed /\ "P(mutex) insert" \notin Itemed
          /\ at[t] \notin Slotted /\ "P(mutex) insert" \in Slotted
      BY <2>2 DEF Itemed, Slotted
    <2>4. J = I
      BY <1>1, <2>2, <2>3, WhoStays DEF I, J
    <2>5. T = S + 1
      BY <1>1, <2>2, <2>3, WhoEnters DEF S, T
    <2>. QED  BY <1>2, <1>3, <1>4, <2>1, <2>4, <2>5
  <1>7. CASE WaitItem(t)
    <2>1. items > 0 /\ items' = items - 1 /\ slots' = slots /\ Count' = Count
      BY <1>7, QueueStep DEF WaitItem, Store, Load, Go
    <2>2. at[t] = "P(items)" /\ at' = [at EXCEPT ![t] = "P(mutex) remove"]
      BY <1>7 DEF WaitItem, Go
    <2>3. /\ at[t] \notin Itemed /\ "P(mutex) remove" \in Itemed
          /\ at[t] \notin Slotted /\ "P(mutex) remove" \notin Slotted
      BY <2>2 DEF Itemed, Slotted
    <2>4. J = I + 1
      BY <1>1, <2>2, <2>3, WhoEnters DEF I, J
    <2>5. T = S
      BY <1>1, <2>2, <2>3, WhoStays DEF S, T
    <2>. QED  BY <1>2, <1>3, <1>4, <2>1, <2>4, <2>5
  <1>8. CASE PostItem(t)
    <2>1. items' = items + 1 /\ slots' = slots /\ Count' = Count
      BY <1>8, QueueStep DEF PostItem, Store, Load, Go
    <2>2. at[t] = "V(items)" /\ at' = [at EXCEPT ![t] = "out"]
      BY <1>8 DEF PostItem, Go
    <2>3. /\ at[t] \in Itemed /\ "out" \notin Itemed
          /\ at[t] \notin Slotted /\ "out" \notin Slotted
      BY <2>2 DEF Itemed, Slotted
    <2>4. J = I - 1
      BY <1>1, <2>2, <2>3, WhoLeaves DEF I, J
    <2>5. T = S
      BY <1>1, <2>2, <2>3, WhoStays DEF S, T
    <2>. QED  BY <1>2, <1>3, <1>4, <2>1, <2>4, <2>5
  <1>9. CASE PostSlot(t)
    <2>1. slots' = slots + 1 /\ items' = items /\ Count' = Count
      BY <1>9, QueueStep DEF PostSlot, Store, Load, Go
    <2>2. at[t] = "V(slots)" /\ at' = [at EXCEPT ![t] = "out"]
      BY <1>9 DEF PostSlot, Go
    <2>3. /\ at[t] \notin Itemed /\ "out" \notin Itemed
          /\ at[t] \in Slotted /\ "out" \notin Slotted
      BY <2>2 DEF Itemed, Slotted
    <2>4. J = I
      BY <1>1, <2>2, <2>3, WhoStays DEF I, J
    <2>5. T = S - 1
      BY <1>1, <2>2, <2>3, WhoLeaves DEF S, T
    <2>. QED  BY <1>2, <1>3, <1>4, <2>1, <2>4, <2>5
  <1>10. CASE \/ LockInsert(t) \/ LockRemove(t) \/ UnlockInsert(t) \/ UnlockRemove(t)
              \/ AdvanceRear(t) \/ AdvanceFront(t)
    <2>1. ~Store(t) /\ ~Load(t)
      BY <1>10 DEF LockInsert, LockRemove, UnlockInsert, UnlockRemove, AdvanceRear, AdvanceFront, Store, Load, Go
    <2>2. slots' = slots /\ items' = items /\ Count' = Count
      BY <1>10, <2>1, QueueStep
      DEF LockInsert, LockRemove, UnlockInsert, UnlockRemove, AdvanceRear, AdvanceFront
    <2>3. PICK p : /\ at' = [at EXCEPT ![t] = p]
                   /\ (at[t] \in Itemed <=> p \in Itemed) /\ (at[t] \in Slotted <=> p \in Slotted)
      BY <1>10
      DEF LockInsert, LockRemove, UnlockInsert, UnlockRemove, AdvanceRear, AdvanceFront, Go, Itemed, Slotted
    <2>4. J = I /\ T = S
      BY <1>1, <2>3, WhoStays DEF I, J, S, T
    <2>. QED  BY <1>3, <1>4, <2>2, <2>4
  <1>11. CASE Store(t)
    <2>1. at[t] = "store" /\ at' = [at EXCEPT ![t] = "V(mutex) insert"]
      BY <1>11 DEF Store, Go
    <2>2. Count' = Count + 1
      BY <1>1, <1>11, <2>1, Room, StoreStep
    <2>3. /\ at[t] \notin Itemed /\ "V(mutex) insert" \in Itemed
          /\ at[t] \in Slotted /\ "V(mutex) insert" \notin Slotted
      BY <2>1 DEF Itemed, Slotted
    <2>4. J = I + 1
      BY <1>1, <2>1, <2>3, WhoEnters DEF I, J
    <2>5. T = S - 1
      BY <1>1, <2>1, <2>3, WhoLeaves DEF S, T
    <2>6. slots' = slots /\ items' = items
      BY <1>11 DEF Store
    <2>7. Count' = items' + J /\ n = Count' + slots' + T
      BY <1>2, <1>3, <2>2, <2>4, <2>5, <2>6
    <2>. QED  BY <1>4, <2>7
  <1>12. CASE Load(t)
    <2>1. at[t] = "load" /\ at' = [at EXCEPT ![t] = "V(mutex) remove"]
      BY <1>12 DEF Load, Go
    <2>2. Count \in 1 .. n
      <3>1. Count \in 0 .. n /\ Count > 0
        BY <2>1, Room
      <3>. QED  BY <1>2, <3>1
    <2>3. Count' = Count - 1
      BY <1>1, <1>12, <2>2, LoadStep
    <2>4. /\ at[t] \in Itemed /\ "V(mutex) remove" \notin Itemed
          /\ at[t] \notin Slotted /\ "V(mutex) remove" \in Slotted
      BY <2>1 DEF Itemed, Slotted
    <2>5. J = I - 1
      BY <1>1, <2>1, <2>4, WhoLeaves DEF I, J
    <2>6. T = S + 1
      BY <1>1, <2>1, <2>4, WhoEnters DEF S, T
    <2>7. slots' = slots /\ items' = items
      BY <1>12 DEF Load
    <2>8. Count' = items' + J /\ n = Count' + slots' + T
      BY <1>2, <1>3, <2>3, <2>5, <2>6, <2>7
    <2>. QED  BY <1>4, <2>8
  <1>. QED  BY <1>6, <1>7, <1>8, <1>9, <1>10, <1>11, <1>12 DEF BufferStep, Waits, Runs

LEMMA BufferInvariant ==
  ASSUME NEW t \in Threads, SbufInv, BufferStep(t)
  PROVE  SbufInv'
  BY TypesStep, LockStep, IndexesStep, HoldsStep, TokensStep DEF SbufInv

\* What a thread outside the buffer does: it calls in, or changes its item.
LEMMA CallInvariant ==
  ASSUME NEW t \in Threads, NEW p \in {"out", "P(slots)", "P(items)"}, SbufInv, at[t] = "out",
         at' = [at EXCEPT ![t] = p], item' \in [Threads -> Items \cup {None}],
         \A u \in Threads : u # t => item'[u] = item[u],
         p = "P(slots)" => item'[t] \in Items, p = "P(items)" => item'[t] = None,
         UNCHANGED <<n, buf, front, rear, mutex, slots, items, idx>>
  PROVE  SbufInv' /\ Contents' = Contents
  <1>1. at \in [Threads -> Points] /\ at' \in [Threads -> Points]
    BY DEF SbufInv, EchoVariables, Points, Inserting, Removing
  <1>2. EchoVariables'
    BY <1>1 DEF SbufInv, EchoVariables
  <1>3. at'[t] = p /\ \A u \in Threads : u # t => at'[u] = at[u]
    BY <1>1
  <1>4. Locking'
    BY <1>3 DEF SbufInv, Locking, OneLocked, LockedBuffer
  <1>5. Indexes'
    BY <1>3 DEF SbufInv, Indexes
  <1>6. Holds'
    BY <1>3 DEF SbufInv, Holds, Bringing, EmptyBuffer
  <1>7. Count' = Count /\ Contents' = Contents
    BY <1>1, QuietQueue
  <1>8. Who(at', Itemed) = Who(at, Itemed) /\ Who(at', Slotted) = Who(at, Slotted)
    BY <1>3 DEF Who, Itemed, Slotted
  <1>9. Tokens'
    BY <1>7, <1>8 DEF SbufInv, Tokens, Who
  <1>. QED  BY <1>2, <1>4, <1>5, <1>6, <1>7, <1>9 DEF SbufInv

LEMMA SameInvariant ==
  ASSUME SbufInv, UNCHANGED sbufVars
  PROVE  SbufInv' /\ Contents' = Contents
  <1>1. UNCHANGED <<n, buf, front, rear, mutex, slots, items, at, item, idx>>
    BY DEF sbufVars
  <1>2. Count' = Count /\ Contents' = Contents
    BY <1>1, SameQueue
  <1>. QED  BY <1>1, <1>2 DEF SbufInv, EchoVariables, Locking, Indexes, Holds, Tokens, Who

-----------------------------------------------------------------------------
(* The invariant of the server.                                            *)

ServerTypes ==
  /\ open \subseteq Items /\ todo \in [Workers -> Todo]
  /\ once \in {"no", "running", "done"}
  /\ byte_cnt \in 0 .. Wrap - 1 /\ counted \in 0 .. Wrap - 1
  /\ reg \in [Workers -> 0 .. Wrap - 1] /\ exited \in BOOLEAN

\* Who calls what, and who has nothing when it calls.
Hands ==
  /\ at[Main] \in {"out"} \cup Inserting
  /\ at[Main] = "out" => item[Main] = None
  /\ \A t \in Workers :
       /\ at[t] \in {"out"} \cup Removing
       /\ at[t] # "out" => todo[t] = "once"
       /\ todo[t] = "remove" => item[t] = None

Unready  == {"remove", "once", "sem_init", "byte_cnt = 0"}
Initing  == {"sem_init", "byte_cnt = 0"}
Adding   == {"load", "store", "V(mutex)"}

\* One thread initialises, and nobody counts before; then one thread counts
\* at a time.
Counted ==
  /\ once # "done" => byte_cnt = 0 /\ \A t \in Workers : todo[t] \in Unready
  /\ \A t \in Workers : todo[t] \in Initing => once = "running"
  /\ \A t, u \in Workers : todo[t] \in Initing /\ todo[u] \in Initing => t = u
  /\ \A t \in Workers : todo[t] = "byte_cnt = 0" => cntMutex = 1
  /\ cntMutex \in {0, 1}
  /\ cntMutex = 1 => \A t \in Workers : todo[t] \notin Adding
  /\ \A t, u \in Workers : todo[t] \in Adding /\ todo[u] \in Adding => t = u
  /\ \A t \in Workers : todo[t] = "store" => reg[t] = byte_cnt
  /\ byte_cnt = counted

\* With q in the buffer and h with the threads, the descriptors of o are each
\* in one place, and no others.
Owned(q, h, o) ==
  /\ q \in Seq(Items \cup {None}) /\ h \in [Threads -> Items \cup {None}]
  /\ \A i \in 1 .. Len(q) : q[i] \in Items
  /\ \A i, j \in 1 .. Len(q) : q[i] = q[j] => i = j
  /\ \A t, u \in Threads : h[t] = h[u] /\ h[t] \in Items => t = u
  /\ \A t \in Threads, i \in 1 .. Len(q) : h[t] # q[i]
  /\ \A fd \in Items : fd \in o <=> (\E t \in Threads : h[t] = fd) \/ (\E i \in 1 .. Len(q) : q[i] = fd)

EchoInv == SbufInv /\ ServerTypes /\ Hands /\ Counted /\ Owned(Contents, item, open)

LEMMA Constants ==
  /\ Main \in Threads /\ Workers \subseteq Threads /\ Main \notin Workers
  /\ \A t \in Threads : t = Main \/ t \in Workers
  /\ None \notin Items /\ Wrap \in Nat \ {0}
  BY EchoAssumption, SbufAssumption

\* The descriptors through an insertion, a removal, an accept and a close.
LEMMA OwnedPut ==
  ASSUME NEW q, NEW h, NEW o, NEW t \in Threads, Owned(q, h, o), h[t] \in Items
  PROVE  Owned(Append(q, h[t]), [h EXCEPT ![t] = None], o)
  <1>. DEFINE r == Append(q, h[t])
              g == [h EXCEPT ![t] = None]
  <1>1. q \in Seq(Items \cup {None}) /\ h[t] \in Items \cup {None} /\ Len(q) \in Nat
    BY LenProperties DEF Owned
  <1>2. /\ r \in Seq(Items \cup {None}) /\ Len(r) = Len(q) + 1
        /\ \A i \in 1 .. Len(q) : r[i] = q[i]
        /\ r[Len(q) + 1] = h[t]
    BY <1>1, AppendProperties
  <1>3. g \in [Threads -> Items \cup {None}] /\ g[t] = None /\ \A u \in Threads \ {t} : g[u] = h[u]
    BY DEF Owned
  <1>4. \A i \in 1 .. Len(r) : i \in 1 .. Len(q) \/ i = Len(q) + 1
    BY <1>1, <1>2
  <1>5. Len(q) + 1 \in 1 .. Len(r) /\ \A i \in 1 .. Len(q) : i \in 1 .. Len(r)
    BY <1>1, <1>2
  <1>. HIDE DEF r, g
  <1>6. \A i \in 1 .. Len(r) : r[i] \in Items
    BY <1>2, <1>4 DEF Owned
  <1>7. \A i, j \in 1 .. Len(r) : r[i] = r[j] => i = j
    BY <1>2, <1>4 DEF Owned
  <1>8. \A u, v \in Threads : g[u] = g[v] /\ g[u] \in Items => u = v
    BY <1>3, Constants DEF Owned
  <1>9. \A u \in Threads, i \in 1 .. Len(r) : g[u] # r[i]
    BY <1>2, <1>3, <1>4, Constants DEF Owned
  <1>10. ASSUME NEW fd \in Items
         PROVE  fd \in o <=> (\E u \in Threads : g[u] = fd) \/ (\E i \in 1 .. Len(r) : r[i] = fd)
    BY <1>2, <1>3, <1>4, <1>5, Constants DEF Owned
  <1>11. Owned(r, g, o)
    BY <1>2, <1>3, <1>6, <1>7, <1>8, <1>9, <1>10 DEF Owned
  <1>. QED  BY <1>11 DEF r, g

LEMMA OwnedGet ==
  ASSUME NEW q, NEW h, NEW o, NEW t \in Threads, Owned(q, h, o), h[t] = None, q # <<>>
  PROVE  Owned(Tail(q), [h EXCEPT ![t] = Head(q)], o)
  <1>. DEFINE r == Tail(q)
              g == [h EXCEPT ![t] = Head(q)]
  <1>1. q \in Seq(Items \cup {None}) /\ Len(q) \in Nat /\ Len(q) # 0
    BY LenProperties, EmptySeq DEF Owned
  <1>2. /\ r \in Seq(Items \cup {None}) /\ Len(r) = Len(q) - 1 /\ Head(q) = q[1]
        /\ \A i \in 1 .. Len(q) - 1 : r[i] = q[i + 1]
    BY <1>1, HeadTailProperties DEF Owned
  <1>3. q[1] \in Items /\ 1 \in 1 .. Len(q)
    BY <1>1 DEF Owned
  <1>4. g \in [Threads -> Items \cup {None}] /\ g[t] = q[1] /\ \A u \in Threads \ {t} : g[u] = h[u]
    BY <1>2, <1>3 DEF Owned
  <1>5. \A i \in 1 .. Len(r) : i + 1 \in 1 .. Len(q) /\ i + 1 # 1 /\ r[i] = q[i + 1]
    BY <1>1, <1>2
  <1>6. \A i \in 1 .. Len(q) : i = 1 \/ (i - 1 \in 1 .. Len(r) /\ r[i - 1] = q[i])
    <2>. TAKE i \in 1 .. Len(q)
    <2>1. i # 1 => i - 1 \in 1 .. Len(q) - 1 /\ (i - 1) + 1 = i
      BY <1>1
    <2>. QED  BY <1>2, <2>1
  <1>. HIDE DEF r, g
  <1>7. \A i \in 1 .. Len(r) : r[i] \in Items
    BY <1>5 DEF Owned
  <1>8. \A i, j \in 1 .. Len(r) : r[i] = r[j] => i = j
    <2>. SUFFICES ASSUME NEW i \in 1 .. Len(r), NEW j \in 1 .. Len(r), r[i] = r[j] PROVE i = j
      OBVIOUS
    <2>1. i + 1 = j + 1
      BY <1>5 DEF Owned
    <2>. QED  BY <2>1
  <1>9. \A u, v \in Threads : g[u] = g[v] /\ g[u] \in Items => u = v
    BY <1>3, <1>4 DEF Owned
  <1>10. \A u \in Threads, i \in 1 .. Len(r) : g[u] # r[i]
    BY <1>3, <1>4, <1>5 DEF Owned
  <1>11. ASSUME NEW fd \in Items
         PROVE  fd \in o <=> (\E u \in Threads : g[u] = fd) \/ (\E i \in 1 .. Len(r) : r[i] = fd)
    <2>1. (\E i \in 1 .. Len(q) : q[i] = fd) <=> q[1] = fd \/ (\E i \in 1 .. Len(r) : r[i] = fd)
      <3>1. ASSUME NEW i \in 1 .. Len(q), q[i] = fd PROVE q[1] = fd \/ (\E j \in 1 .. Len(r) : r[j] = fd)
        BY <1>6, <3>1
      <3>2. ASSUME NEW i \in 1 .. Len(r), r[i] = fd PROVE \E j \in 1 .. Len(q) : q[j] = fd
        BY <1>5, <3>2
      <3>. QED  BY <1>3, <3>1, <3>2
    <2>2. (\E u \in Threads : g[u] = fd) <=> q[1] = fd \/ (\E u \in Threads : h[u] = fd)
      BY <1>4, Constants
    <2>. QED  BY <2>1, <2>2 DEF Owned
  <1>12. Owned(r, g, o)
    BY <1>2, <1>4, <1>7, <1>8, <1>9, <1>10, <1>11 DEF Owned
  <1>. QED  BY <1>12 DEF r, g

LEMMA OwnedBring ==
  ASSUME NEW q, NEW h, NEW o, NEW t \in Threads, NEW x \in Items, Owned(q, h, o), h[t] = None, x \notin o
  PROVE  Owned(q, [h EXCEPT ![t] = x], o \cup {x})
  <1>. DEFINE g == [h EXCEPT ![t] = x]
  <1>1. g \in [Threads -> Items \cup {None}] /\ g[t] = x /\ \A u \in Threads \ {t} : g[u] = h[u]
    BY DEF Owned
  <1>. HIDE DEF g
  <1>2. Owned(q, g, o \cup {x})
    BY <1>1, Constants DEF Owned
  <1>. QED  BY <1>2 DEF g

LEMMA OwnedDrop ==
  ASSUME NEW q, NEW h, NEW o, NEW t \in Threads, Owned(q, h, o)
  PROVE  Owned(q, [h EXCEPT ![t] = None], o \ {h[t]})
  <1>. DEFINE g == [h EXCEPT ![t] = None]
  <1>1. g \in [Threads -> Items \cup {None}] /\ g[t] = None /\ \A u \in Threads \ {t} : g[u] = h[u]
    BY DEF Owned
  <1>. HIDE DEF g
  <1>2. Owned(q, g, o \ {h[t]})
    BY <1>1, Constants DEF Owned
  <1>. QED  BY <1>2 DEF g

-----------------------------------------------------------------------------
(* The steps of the server.                                                *)

\* What the step means to the queue.
QueueMoves == Q!Next \/ UNCHANGED <<n, Contents, item>>

\* A step in the buffer: the threads that are not in it stay as they are.
LEMMA BufferFrame ==
  ASSUME NEW t \in Threads, EchoVariables, BufferStep(t)
  PROVE  /\ n' = n /\ at[t] # "out"
         /\ at[t] \in Inserting => at'[t] \in Inserting \cup {"out"}
         /\ at[t] \in Removing => at'[t] \in Removing \cup {"out"}
         /\ at'[t] = "out" => item' = item /\ (at[t] = "V(items)" \/ at[t] = "V(slots)")
         /\ \A u \in Threads : u # t => at'[u] = at[u] /\ item'[u] = item[u]
  <1>1. at \in [Threads -> Points] /\ item \in [Threads -> Items \cup {None}]
    BY DEF EchoVariables
  <1>2. PICK a, b : /\ at[t] = a /\ at' = [at EXCEPT ![t] = b] /\ a # "out"
                    /\ (a \in Inserting => b \in Inserting \cup {"out"})
                    /\ (a \in Removing => b \in Removing \cup {"out"})
                    /\ (b = "out" => a = "V(items)" \/ a = "V(slots)")
    <2>1. \/ WaitSlot(t) \/ LockInsert(t) \/ AdvanceRear(t) \/ Store(t) \/ UnlockInsert(t) \/ PostItem(t)
          \/ WaitItem(t) \/ LockRemove(t) \/ AdvanceFront(t) \/ Load(t) \/ UnlockRemove(t) \/ PostSlot(t)
      BY DEF BufferStep, Waits, Runs
    <2>2. PICK a, b : Go(t, a, b) /\ <<a, b>> \in
            {<<"P(slots)", "P(mutex) insert">>, <<"P(mutex) insert", "++rear">>, <<"++rear", "store">>,
             <<"store", "V(mutex) insert">>, <<"V(mutex) insert", "V(items)">>, <<"V(items)", "out">>,
             <<"P(items)", "P(mutex) remove">>, <<"P(mutex) remove", "++front">>, <<"++front", "load">>,
             <<"load", "V(mutex) remove">>, <<"V(mutex) remove", "V(slots)">>, <<"V(slots)", "out">>}
      BY <2>1 DEF WaitSlot, WaitItem, PostItem, PostSlot, LockInsert, LockRemove,
                  UnlockInsert, UnlockRemove, AdvanceRear, AdvanceFront, Store, Load
    <2>. QED  BY <2>2 DEF Go, Inserting, Removing
  <1>3. n' = n
    BY DEF BufferStep, Waits, Runs, WaitSlot, WaitItem, PostItem, PostSlot, LockInsert, LockRemove,
           UnlockInsert, UnlockRemove, AdvanceRear, AdvanceFront, Store, Load
  <1>4. item' = item \/ Store(t) \/ Load(t)
    BY DEF BufferStep, Waits, Runs, WaitSlot, WaitItem, PostItem, PostSlot, LockInsert, LockRemove,
           UnlockInsert, UnlockRemove, AdvanceRear, AdvanceFront
  <1>5. Store(t) \/ Load(t) => b # "out" /\ \A u \in Threads : u # t => item'[u] = item[u]
    BY <1>1, <1>2 DEF Store, Load, Go
  <1>. QED  BY <1>1, <1>2, <1>3, <1>4, <1>5

LEMMA BufferKeepsHands ==
  ASSUME NEW t \in Threads, EchoInv, BufferStep(t), UNCHANGED serverVars
  PROVE  Hands'
  <1>1. EchoVariables /\ Holds /\ Hands /\ todo' = todo
    BY DEF EchoInv, SbufInv, serverVars
  <1>2. /\ at[t] # "out"
        /\ at[t] \in Inserting => at'[t] \in Inserting \cup {"out"}
        /\ at[t] \in Removing => at'[t] \in Removing \cup {"out"}
        /\ at'[t] = "out" => item' = item /\ (at[t] = "V(items)" \/ at[t] = "V(slots)")
        /\ \A u \in Threads : u # t => at'[u] = at[u] /\ item'[u] = item[u]
    BY <1>1, BufferFrame
  <1>3. at'[Main] \in {"out"} \cup Inserting
    BY <1>1, <1>2, Constants DEF Hands
  <1>4. ASSUME at'[Main] = "out" PROVE item'[Main] = None
    <2>1. CASE t = Main
      <3>1. at[Main] = "V(items)"
        BY <1>1, <1>2, <1>4, <2>1 DEF Hands, Inserting
      <3>. QED  BY <1>1, <1>2, <1>4, <2>1, <3>1, Constants DEF Holds, EmptyBuffer
    <2>2. CASE t # Main
      BY <1>1, <1>2, <1>4, <2>2, Constants DEF Hands
    <2>. QED  BY <2>1, <2>2
  <1>5. ASSUME NEW u \in Workers
        PROVE  /\ at'[u] \in {"out"} \cup Removing /\ (at'[u] # "out" => todo'[u] = "once")
               /\ (todo'[u] = "remove" => item'[u] = None)
    <2>1. CASE u = t
      <3>1. at[t] \in Removing /\ todo[t] = "once"
        BY <1>1, <1>2, <2>1 DEF Hands
      <3>. QED  BY <1>1, <1>2, <2>1, <3>1
    <2>2. CASE u # t
      BY <1>1, <1>2, <2>2, Constants DEF Hands
    <2>. QED  BY <2>1, <2>2
  <1>. QED  BY <1>3, <1>4, <1>5 DEF Hands

LEMMA SameServer ==
  ASSUME UNCHANGED serverVars
  PROVE  (ServerTypes => ServerTypes') /\ (Counted => Counted')
  BY DEF serverVars, ServerTypes, Counted

\* A thread in the buffer.
LEMMA BufferMoves ==
  ASSUME NEW t \in Threads, EchoInv, BufferStep(t), UNCHANGED serverVars
  PROVE  EchoInv' /\ QueueMoves
  <1>1. /\ EchoVariables /\ Locking /\ Indexes /\ Holds /\ Tokens /\ EchoVariables' /\ Locking' /\ SbufInv'
        /\ Owned(Contents, item, open) /\ open' = open
    BY BufferInvariant DEF EchoInv, SbufInv, serverVars
  <1>2. ServerTypes' /\ Counted' /\ Hands'
    BY SameServer, BufferKeepsHands DEF EchoInv
  <1>3. n' = n /\ item \in [Threads -> Items \cup {None}] /\ n \in Nat
    BY <1>1, BufferFrame, SbufAssumption DEF EchoVariables
  <1>4. CASE Store(t)
    <2>1. at[t] = "store"
      BY <1>4 DEF Store, Go
    <2>2. item[t] \in Items /\ item[t] # None /\ item' = [item EXCEPT ![t] = None]
      BY <1>1, <1>4, <2>1, Constants DEF Store, Holds, Bringing
    <2>3. Count < n
      BY <1>1, <2>1, Room
    <2>4. Contents' = Append(Contents, item[t])
      BY <1>1, <1>4, <2>3, StoreStep
    <2>5. Len(Contents) = Count
      BY <1>1, ContentsSeq DEF ContentsFacts
    <2>6. Q!Put(t)
      BY <1>3, <2>2, <2>3, <2>4, <2>5 DEF Q!Put
    <2>7. Owned(Contents', item', open')
      BY <1>1, <2>2, <2>4, OwnedPut
    <2>. QED  BY <1>1, <1>2, <2>6, <2>7 DEF EchoInv, QueueMoves, Q!Next
  <1>5. CASE Load(t)
    <2>1. at[t] = "load" /\ item[t] = None
      BY <1>1, <1>5 DEF Load, Go, Holds, EmptyBuffer
    <2>2. Count \in 1 .. n
      <3>1. Count \in 0 .. n /\ Count > 0
        BY <1>1, <2>1, Room
      <3>. QED  BY <1>3, <3>1
    <2>3. Contents # <<>> /\ Contents' = Tail(Contents) /\ item'[t] = Head(Contents)
      BY <1>1, <1>5, <2>2, LoadStep
    <2>4. item' = [item EXCEPT ![t] = Head(Contents)]
      BY <1>3, <1>5, <2>3 DEF Load
    <2>5. Q!Get(t)
      BY <1>3, <2>1, <2>3, <2>4 DEF Q!Get
    <2>6. Owned(Contents', item', open')
      BY <1>1, <2>1, <2>3, <2>4, OwnedGet
    <2>. QED  BY <1>1, <1>2, <2>5, <2>6 DEF EchoInv, QueueMoves, Q!Next
  <1>6. CASE ~Store(t) /\ ~Load(t)
    <2>1. Contents' = Contents
      BY <1>1, <1>6, QueueStep
    <2>2. item' = item
      BY <1>6 DEF BufferStep, Waits, Runs, WaitSlot, WaitItem, PostItem, PostSlot, LockInsert, LockRemove,
                  UnlockInsert, UnlockRemove, AdvanceRear, AdvanceFront
    <2>. QED  BY <1>1, <1>2, <1>3, <2>1, <2>2 DEF EchoInv, QueueMoves
  <1>. QED  BY <1>4, <1>5, <1>6

\* What a worker does outside the buffer.
WorkerStep(t) == WorkerRuns(t) \/ ClientActs(t) \/ LockCount(t)

LEMMA WorkerTypes ==
  ASSUME NEW t \in Workers, ServerTypes, WorkerStep(t)
  PROVE  ServerTypes'
  <1>1. todo' \in [Workers -> Todo]
    <2>1. PICK a, b \in Todo : Does(t, a, b)
      BY DEF WorkerStep, WorkerRuns, ClientActs,
             Remove, Once, InitMutex, InitCount, ReadLine, Eof, LockCount, LoadCount, StoreCount,
             UnlockCount, Echo, Close, Todo
    <2>. QED  BY <2>1 DEF Does, ServerTypes
  <1>2. open' \subseteq Items /\ once' \in {"no", "running", "done"} /\ exited' \in BOOLEAN
    BY DEF ServerTypes, WorkerStep, WorkerRuns, ClientActs,
           Remove, Once, InitMutex, InitCount, ReadLine, Eof, LockCount, LoadCount,
           StoreCount, UnlockCount, Echo, Close
  <1>3. /\ 0 \in 0 .. Wrap - 1 /\ (counted + 1) % Wrap \in 0 .. Wrap - 1 /\ (reg[t] + 1) % Wrap \in 0 .. Wrap - 1
        /\ byte_cnt \in 0 .. Wrap - 1 /\ counted \in 0 .. Wrap - 1
    BY Constants DEF ServerTypes
  <1>4. byte_cnt' \in 0 .. Wrap - 1 /\ counted' \in 0 .. Wrap - 1 /\ reg' \in [Workers -> 0 .. Wrap - 1]
    <2>1. CASE StoreCount(t)
      BY <1>3, <2>1 DEF ServerTypes, StoreCount
    <2>2. CASE LoadCount(t)
      BY <1>3, <2>2 DEF ServerTypes, LoadCount
    <2>3. CASE InitCount(t)
      BY <1>3, <2>3 DEF ServerTypes, InitCount
    <2>4. CASE UNCHANGED <<byte_cnt, counted, reg>>
      BY <2>4 DEF ServerTypes
    <2>. QED  BY <2>1, <2>2, <2>3, <2>4
              DEF WorkerStep, WorkerRuns, ClientActs,
                  Remove, Once, InitMutex, ReadLine, Eof, LockCount, UnlockCount, Echo, Close
  <1>. QED  BY <1>1, <1>2, <1>4 DEF ServerTypes

LEMMA WorkerCounts ==
  ASSUME NEW t \in Workers, ServerTypes, Counted, WorkerStep(t)
  PROVE  Counted'
  <1>1. todo \in [Workers -> Todo] /\ reg \in [Workers -> 0 .. Wrap - 1]
    BY DEF ServerTypes
  <1>2. CASE Remove(t) \/ ReadLine(t) \/ Eof(t) \/ Echo(t) \/ Close(t)
    <2>1. UNCHANGED <<once, cntMutex, byte_cnt, reg, counted>>
      BY <1>2 DEF Remove, ReadLine, Eof, Echo, Close
    <2>2. /\ \A u \in Workers \ {t} : todo'[u] = todo[u]
          /\ todo[t] \notin Initing \cup Adding /\ todo'[t] \notin Initing \cup Adding
          /\ (todo[t] \in Unready => todo'[t] \in Unready)
      BY <1>1, <1>2 DEF Remove, ReadLine, Eof, Echo, Close, Does, Initing, Adding, Unready
    <2>3. todo'[t] # "store" /\ todo'[t] # "byte_cnt = 0"
      BY <2>2 DEF Initing, Adding
    <2>. QED  BY <2>1, <2>2, <2>3 DEF Counted
  <1>3. CASE Once(t)
    <2>1. UNCHANGED <<cntMutex, byte_cnt, reg, counted>> /\ \A u \in Workers \ {t} : todo'[u] = todo[u]
      BY <1>1, <1>3 DEF Once, Does
    <2>2. CASE once = "no"
      <3>1. once' = "running" /\ todo'[t] = "sem_init"
        BY <1>1, <1>3, <2>2 DEF Once, Does
      <3>2. \A u \in Workers : todo[u] \in Unready /\ todo[u] \notin Initing
        BY <2>2 DEF Counted
      <3>. QED  BY <2>1, <2>2, <3>1, <3>2 DEF Counted, Unready, Initing, Adding
    <2>3. CASE once # "no"
      <3>1. once = "done" /\ once' = once /\ todo'[t] = "readline"
        BY <1>1, <1>3, <2>3 DEF Once, Does
      <3>. QED  BY <2>1, <3>1 DEF Counted, Initing, Adding
    <2>. QED  BY <2>2, <2>3
  <1>4. CASE InitMutex(t)
    <2>1. /\ UNCHANGED <<once, byte_cnt, reg, counted>> /\ \A u \in Workers \ {t} : todo'[u] = todo[u]
          /\ cntMutex' = 1 /\ todo[t] = "sem_init" /\ todo'[t] = "byte_cnt = 0"
      BY <1>1, <1>4 DEF InitMutex, Does
    <2>2. once = "running" /\ \A u \in Workers : todo[u] \in Unready
      BY <2>1 DEF Counted, Initing
    <2>. QED  BY <2>1, <2>2 DEF Counted, Unready, Initing, Adding
  <1>5. CASE InitCount(t)
    <2>1. /\ UNCHANGED <<cntMutex, reg, counted>> /\ \A u \in Workers \ {t} : todo'[u] = todo[u]
          /\ byte_cnt' = 0 /\ once' = "done" /\ todo[t] = "byte_cnt = 0" /\ todo'[t] = "readline"
      BY <1>1, <1>5 DEF InitCount, Does
    <2>2. once = "running" /\ byte_cnt = 0 /\ \A u \in Workers : todo[u] \in Unready
      BY <2>1 DEF Counted, Initing
    <2>3. \A u \in Workers : todo'[u] \notin Initing
      BY <2>1 DEF Counted, Initing
    <2>. QED  BY <2>1, <2>2, <2>3 DEF Counted, Unready, Initing, Adding
  <1>6. CASE LockCount(t)
    <2>1. /\ UNCHANGED <<once, byte_cnt, reg, counted>> /\ \A u \in Workers \ {t} : todo'[u] = todo[u]
          /\ todo[t] = "P(mutex)" /\ todo'[t] = "load"
      BY <1>1, <1>6 DEF LockCount, Does
    <2>2. cntMutex \in {0, 1} /\ cntMutex > 0 /\ cntMutex' = cntMutex - 1
      BY <1>6 DEF LockCount, Counted
    <2>3. cntMutex = 1 /\ cntMutex' = 0
      BY <2>2
    <2>4. \A u \in Workers : todo[u] \notin Adding
      BY <2>3 DEF Counted
    <2>5. once = "done" /\ \A u \in Workers : todo[u] \notin Initing
      BY <2>1 DEF Counted, Unready
    <2>6. /\ \A u \in Workers : todo'[u] \notin Initing /\ todo'[u] # "byte_cnt = 0" /\ todo'[u] # "store"
          /\ \A u \in Workers : todo'[u] \in Adding => u = t
      BY <2>1, <2>4, <2>5 DEF Initing, Adding
    <2>7. once' = "done" /\ byte_cnt' = counted'
      BY <2>1, <2>5 DEF Counted
    <2>8. cntMutex' \in {0, 1} /\ cntMutex' # 1
      BY <2>3
    <2>. QED  BY <2>6, <2>7, <2>8 DEF Counted
  <1>7. CASE LoadCount(t)
    <2>1. /\ UNCHANGED <<once, byte_cnt, cntMutex, counted>>
          /\ \A u \in Workers \ {t} : todo'[u] = todo[u] /\ reg'[u] = reg[u]
          /\ todo[t] = "load" /\ todo'[t] = "store" /\ reg'[t] = byte_cnt
      BY <1>1, <1>7 DEF LoadCount, Does
    <2>2. once = "done"
      BY <2>1 DEF Counted, Unready
    <2>. QED  BY <2>1, <2>2 DEF Counted, Initing, Adding
  <1>8. CASE StoreCount(t)
    <2>1. /\ UNCHANGED <<once, cntMutex>>
          /\ \A u \in Workers \ {t} : todo'[u] = todo[u] /\ reg'[u] = reg[u]
          /\ todo[t] = "store" /\ todo'[t] = "V(mutex)"
          /\ byte_cnt' = (reg[t] + 1) % Wrap /\ counted' = (counted + 1) % Wrap
      BY <1>1, <1>8 DEF StoreCount, Does
    <2>2. once = "done" /\ reg[t] = byte_cnt /\ byte_cnt = counted
      BY <2>1 DEF Counted, Unready
    <2>3. \A u \in Workers \ {t} : todo[u] \notin Adding
      BY <2>1 DEF Counted, Adding
    <2>4. byte_cnt' = counted'
      BY <2>1, <2>2
    <2>. QED  BY <2>1, <2>2, <2>3, <2>4 DEF Counted, Initing, Adding
  <1>9. CASE UnlockCount(t)
    <2>1. /\ UNCHANGED <<once, byte_cnt, reg, counted>> /\ \A u \in Workers \ {t} : todo'[u] = todo[u]
          /\ todo[t] = "V(mutex)" /\ todo'[t] = "writen" /\ cntMutex' = cntMutex + 1
      BY <1>1, <1>9 DEF UnlockCount, Does
    <2>2. once = "done" /\ cntMutex = 0
      BY <2>1 DEF Counted, Unready, Adding
    <2>3. \A u \in Workers \ {t} : todo[u] \notin Adding
      BY <2>1 DEF Counted, Adding
    <2>4. cntMutex' = 1
      BY <2>1, <2>2
    <2>. QED  BY <2>1, <2>2, <2>3, <2>4 DEF Counted, Initing, Adding
  <1>. QED  BY <1>2, <1>3, <1>4, <1>5, <1>6, <1>7, <1>8, <1>9 DEF WorkerStep, WorkerRuns, ClientActs

\* A worker outside the buffer.
LEMMA WorkerMoves ==
  ASSUME NEW t \in Workers, EchoInv, WorkerStep(t)
  PROVE  EchoInv' /\ QueueMoves
  <1>1. /\ SbufInv /\ EchoVariables /\ Hands /\ Owned(Contents, item, open) /\ ServerTypes' /\ Counted'
        /\ item \in [Threads -> Items \cup {None}] /\ at \in [Threads -> Points] /\ todo \in [Workers -> Todo]
    BY WorkerTypes, WorkerCounts DEF EchoInv, SbufInv, EchoVariables, ServerTypes
  <1>2. t \in Threads /\ t # Main /\ at[t] = "out" /\ \A u \in Workers \ {t} : todo'[u] = todo[u]
    BY <1>1, Constants
    DEF WorkerStep, WorkerRuns, ClientActs,
        Remove, Once, InitMutex, InitCount, ReadLine, Eof, LockCount, LoadCount, StoreCount,
        UnlockCount, Echo, Close, Does
  <1>3. CASE Remove(t)
    <2>1. /\ UNCHANGED <<n, buf, front, rear, mutex, slots, items, idx, item, open>>
          /\ at' = [at EXCEPT ![t] = "P(items)"] /\ todo[t] = "remove" /\ todo'[t] = "once"
      BY <1>1, <1>3 DEF Remove, RemoveCall, Go, Does
    <2>2. item[t] = None
      BY <1>1, <2>1 DEF Hands
    <2>3. SbufInv' /\ Contents' = Contents
      BY <1>1, <1>2, <2>1, <2>2, CallInvariant
    <2>4. Hands'
      BY <1>1, <1>2, <2>1, Constants DEF Hands, Removing
    <2>. QED  BY <1>1, <2>1, <2>3, <2>4 DEF EchoInv, QueueMoves
  <1>4. CASE Close(t)
    <2>1. /\ UNCHANGED <<n, buf, front, rear, mutex, slots, items, at, idx>> /\ todo'[t] = "remove"
          /\ item' = [item EXCEPT ![t] = None] /\ open' = open \ {item[t]}
      BY <1>1, <1>4 DEF Close, Does
    <2>2. at' = [at EXCEPT ![t] = "out"]
      BY <1>1, <1>2, <2>1
    <2>3. /\ item' \in [Threads -> Items \cup {None}] /\ item'[t] = None
          /\ \A u \in Threads : u # t => item'[u] = item[u]
      BY <1>1, <1>2, <2>1
    <2>4. SbufInv' /\ Contents' = Contents
      BY <1>1, <1>2, <2>1, <2>2, <2>3, CallInvariant
    <2>5. Owned(Contents', item', open')
      BY <1>1, <1>2, <2>1, <2>4, OwnedDrop
    <2>6. Hands'
      BY <1>1, <1>2, <2>1, <2>3, Constants DEF Hands
    <2>7. Q!Drop(t) \/ item' = item
      BY <1>1, <1>2, <2>1, <2>4 DEF Q!Drop
    <2>. QED  BY <1>1, <1>2, <2>1, <2>4, <2>5, <2>6, <2>7 DEF EchoInv, QueueMoves, Q!Next
  <1>5. CASE ~Remove(t) /\ ~Close(t)
    <2>1. UNCHANGED sbufVars /\ open' = open
      BY <1>5 DEF WorkerStep, WorkerRuns, ClientActs,
                  Once, InitMutex, InitCount, ReadLine, Eof, LockCount, LoadCount, StoreCount,
                  UnlockCount, Echo
    <2>2. SbufInv' /\ Contents' = Contents
      BY <1>1, <2>1, SameInvariant
    <2>3. UNCHANGED <<n, at, item>>
      BY <2>1 DEF sbufVars
    <2>4. todo'[t] # "remove"
      BY <1>1, <1>5
      DEF WorkerStep, WorkerRuns, ClientActs,
          Once, InitMutex, InitCount, ReadLine, Eof, LockCount, LoadCount, StoreCount,
          UnlockCount, Echo, Does
    <2>5. Hands'
      BY <1>1, <1>2, <2>3, <2>4 DEF Hands
    <2>. QED  BY <1>1, <2>1, <2>2, <2>3, <2>5 DEF EchoInv, QueueMoves
  <1>. QED  BY <1>3, <1>4, <1>5

\* The main thread accepts a connection and calls sbuf_insert.
LEMMA AcceptMoves ==
  ASSUME NEW fd \in Items, EchoInv, AcceptInsert(fd)
  PROVE  EchoInv' /\ QueueMoves
  <1>1. /\ SbufInv /\ EchoVariables /\ Hands /\ Owned(Contents, item, open) /\ ServerTypes /\ Counted
        /\ item \in [Threads -> Items \cup {None}] /\ at \in [Threads -> Points] /\ Main \in Threads
    BY Constants DEF EchoInv, SbufInv, EchoVariables
  <1>2. /\ at[Main] = "out" /\ at' = [at EXCEPT ![Main] = "P(slots)"] /\ item' = [item EXCEPT ![Main] = fd]
        /\ UNCHANGED <<n, buf, front, rear, mutex, slots, items, idx>> /\ fd \notin open
        /\ open' = open \cup {fd} /\ UNCHANGED <<todo, once, cntMutex, byte_cnt, reg, exited, counted>>
    BY DEF AcceptInsert, InsertCall, Go
  <1>3. item[Main] = None
    BY <1>1, <1>2 DEF Hands
  <1>4. /\ item' \in [Threads -> Items \cup {None}] /\ item'[Main] = fd
        /\ \A u \in Threads : u # Main => item'[u] = item[u]
    BY <1>1, <1>2
  <1>5. SbufInv' /\ Contents' = Contents
    BY <1>1, <1>2, <1>4, CallInvariant
  <1>6. Owned(Contents', item', open')
    BY <1>1, <1>2, <1>3, <1>5, OwnedBring
  <1>7. Hands'
    BY <1>1, <1>2, <1>4, Constants DEF Hands, Inserting
  <1>8. ServerTypes' /\ Counted'
    BY <1>1, <1>2 DEF ServerTypes, Counted
  <1>9. Q!Bring(Main)
    BY <1>2, <1>3, <1>5 DEF Q!Bring
  <1>. QED  BY <1>1, <1>5, <1>6, <1>7, <1>8, <1>9 DEF EchoInv, QueueMoves, Q!Next

\* A stutter, and a client that ends the process.
LEMMA StillMoves ==
  ASSUME EchoInv, UNCHANGED <<sbufVars, open, todo, once, cntMutex, byte_cnt, reg, counted>>, exited' \in BOOLEAN
  PROVE  EchoInv' /\ QueueMoves
  <1>1. SbufInv' /\ Contents' = Contents /\ UNCHANGED <<n, at, item>>
    BY SameInvariant DEF EchoInv, sbufVars
  <1>2. ServerTypes' /\ Counted' /\ Hands'
    BY <1>1 DEF EchoInv, ServerTypes, Counted, Hands
  <1>. QED  BY <1>1, <1>2 DEF EchoInv, QueueMoves

LEMMA EchoMoves ==
  ASSUME EchoInv, [EchoNext]_echoVars
  PROVE  EchoInv' /\ QueueMoves
  <1>1. CASE UNCHANGED echoVars
    <2>1. exited' \in BOOLEAN
      BY <1>1 DEF echoVars, serverVars, EchoInv, ServerTypes
    <2>. QED  BY <1>1, <2>1, StillMoves DEF echoVars, serverVars
  <1>2. ASSUME NEW fd \in Items, AcceptInsert(fd) PROVE EchoInv' /\ QueueMoves
    BY <1>2, AcceptMoves
  <1>3. ASSUME NEW t \in Threads, Step(t) PROVE EchoInv' /\ QueueMoves
    BY <1>3, BufferMoves, WorkerMoves DEF Step, BufferStep, WorkerStep
  <1>4. ASSUME NEW t \in Workers, ClientActs(t) PROVE EchoInv' /\ QueueMoves
    BY <1>4, WorkerMoves DEF WorkerStep
  <1>5. ASSUME NEW t \in Workers, Reset(t) PROVE EchoInv' /\ QueueMoves
    BY <1>5, StillMoves DEF Reset
  <1>. QED  BY <1>1, <1>2, <1>3, <1>4, <1>5 DEF EchoNext

LEMMA EchoStarts == EchoInit => EchoInv /\ Q!Init
  <1>. SUFFICES ASSUME EchoInit PROVE EchoInv /\ Q!Init
    OBVIOUS
  <1>1. sbuf_init /\ n \in Nat \ {0}
    BY SbufAssumption DEF EchoInit, sbuf_init
  <1>2. 0 \in 0 .. 2 * n - 1 /\ n \in Nat
    BY <1>1
  <1>3. EchoVariables
    BY <1>1, <1>2 DEF EchoVariables, sbuf_init, Points
  <1>4. \A t \in Threads : at[t] = "out" /\ item[t] = None
    BY <1>1 DEF sbuf_init
  <1>5. Locking /\ Indexes /\ Holds
    BY <1>1, <1>4 DEF Locking, OneLocked, LockedBuffer, Indexes, Holds, Bringing, EmptyBuffer, sbuf_init
  <1>6. IndexFacts /\ ContentsFacts
    BY <1>3, <1>5, Indices, ContentsSeq
  <1>7. Count = 0
    BY <1>1, <1>2, <1>4, <1>6 DEF IndexFacts, sbuf_init
  <1>8. Who(at, Itemed) = {} /\ Who(at, Slotted) = {}
    BY <1>4 DEF Who, Itemed, Slotted
  <1>9. Tokens
    <2>1. items = 0 /\ slots = n
      BY <1>1 DEF sbuf_init
    <2>2. Cardinality(Who(at, Itemed)) = 0 /\ Cardinality(Who(at, Slotted)) = 0
      BY <1>8, FS_EmptySet
    <2>. QED  BY <1>2, <1>7, <2>1, <2>2 DEF Tokens
  <1>10. Contents = <<>> /\ Len(Contents) = 0 /\ Contents \in Seq(Items \cup {None})
    BY <1>6, <1>7, EmptySeq DEF ContentsFacts
  <1>11. item \in [Threads -> Items \cup {None}] /\ open = {}
    BY <1>3 DEF EchoVariables, EchoInit
  <1>12. Owned(Contents, item, open)
    BY <1>4, <1>10, <1>11, Constants DEF Owned
  <1>13. ServerTypes
    <2>1. 0 \in 0 .. Wrap - 1 /\ "remove" \in Todo
      BY Constants DEF Todo
    <2>. QED  BY <2>1 DEF EchoInit, ServerTypes
  <1>14. Counted
    BY DEF EchoInit, Counted, Unready, Initing, Adding
  <1>15. Hands
    BY <1>4, Constants DEF EchoInit, Hands
  <1>16. Q!Init
    BY <1>1, <1>10 DEF Q!Init, sbuf_init
  <1>. QED  BY <1>3, <1>5, <1>9, <1>12, <1>13, <1>14, <1>15, <1>16 DEF EchoInv, SbufInv

LEMMA EchoInvariant == EchoSpec => []EchoInv
  <1>1. EchoInv /\ [EchoNext]_echoVars => EchoInv'
    BY EchoMoves
  <1>. QED  BY <1>1, EchoStarts, PTL DEF EchoSpec

-----------------------------------------------------------------------------
(* The theorems.                                                           *)

\* The types of the server, and that the semaphores stay within the buffer's
\* size and mutex below 2: sbuf_init's comments call them a binary semaphore,
\* the empty slots and the data items.
THEOREM EchoTypes == EchoSpec => []EchoTypeOK
  <1>1. EchoInv => EchoTypeOK
    <2>. SUFFICES ASSUME EchoInv PROVE EchoTypeOK
      OBVIOUS
    <2>1. slots \in 0 .. n /\ items \in 0 .. n
      BY Constants, Room DEF EchoInv, SbufInv
    <2>2. mutex \in 0 .. 1 /\ cntMutex \in 0 .. 1
      <3>1. mutex \in {0, 1} /\ cntMutex \in {0, 1}
        BY DEF EchoInv, SbufInv, Locking, Counted
      <3>. QED  BY <3>1
    <2>3. at \in [Threads -> {"out"} \cup Inserting \cup Removing]
      BY DEF EchoInv, SbufInv, EchoVariables, Points
    <2>. QED  BY <2>1, <2>2, <2>3 DEF EchoTypeOK, EchoInv, SbufInv, EchoVariables, ServerTypes
  <1>. QED  BY <1>1, EchoInvariant, PTL

\* In the server, where main inserts, sbuf.c implements a bounded queue, whatever
\* its size and however many workers remove at the same time.
THEOREM BufferIsQueue == EchoSpec => ImplementsQueue
  <1>1. EchoInv /\ [EchoNext]_echoVars => [Q!Next]_(Q!queueVars)
    BY EchoMoves DEF QueueMoves, Q!queueVars
  <1>2. EchoInit => Q!Init
    BY EchoStarts
  <1>. QED  BY <1>1, <1>2, EchoInvariant, PTL DEF EchoSpec, ImplementsQueue, Q!Spec

\* Every open descriptor is with the main thread, in the buffer or with one
\* worker, and in one of these places only.
THEOREM DescriptorsAreOwned == EchoSpec => []OneOwner
  <1>1. EchoInv => OneOwner
    <2>. SUFFICES ASSUME EchoInv, NEW fd \in Items PROVE Places(fd) = IF fd \in open THEN 1 ELSE 0
      BY DEF OneOwner
    <2>. DEFINE H == {t \in Threads : item[t] = fd}
                C == {i \in 1 .. Count : Contents[i] = fd}
    <2>1. Owned(Contents, item, open) /\ Len(Contents) = Count
      BY ContentsSeq DEF EchoInv, SbufInv, ContentsFacts
    <2>2. H = {} \/ \E t \in Threads : H = {t}
      BY <2>1 DEF Owned
    <2>3. C = {} \/ \E i \in 1 .. Count : C = {i}
      BY <2>1 DEF Owned
    <2>4. (H = {} \/ C = {}) /\ (fd \in open <=> H # {} \/ C # {})
      BY <2>1 DEF Owned
    <2>5. Places(fd) = Cardinality(H) + Cardinality(C)
      BY DEF Places
    <2>. HIDE DEF H, C
    <2>6. /\ Cardinality(H) = IF H = {} THEN 0 ELSE 1
          /\ Cardinality(C) = IF C = {} THEN 0 ELSE 1
      BY <2>2, <2>3, FS_EmptySet, FS_Singleton
    <2>. QED  BY <2>4, <2>5, <2>6
  <1>. QED  BY <1>1, EchoInvariant, PTL

\* byte_cnt counts every byte once, and nothing before it is initialised.
THEOREM NoByteIsLost == EchoSpec => []CountIsTotal
  <1>1. EchoInv => CountIsTotal
    BY DEF EchoInv, Counted, CountIsTotal
  <1>. QED  BY <1>1, EchoInvariant, PTL
=============================================================================
