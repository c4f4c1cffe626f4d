--------------------------- MODULE StreamInput_proof ---------------------------
(***************************************************************************)
(* Proofs about StreamInput: whatever the sizes of the reads, the buffer   *)
(* holds the latest bytes of the movie, its elements are consumed in       *)
(* order, and nothing complete is left waiting.                            *)
(***************************************************************************)
EXTENDS StreamInput, TLAPS

(* How many pieces are still to be passed on, and where: behind the data,  *)
(* within the buffer, the second behind the first.                         *)
Shape ==
  /\ pc = "idle" => Len(bodies) = 0
  /\ pc = "body" => Len(bodies) \in {1, 2}
  /\ pc = "process" => Len(bodies) \in {0, 1}
  /\ \A k \in 1 .. Len(bodies) :
       length <= bodies[k].at /\ bodies[k].at + bodies[k].length <= BufferLength
  /\ Len(bodies) = 2 => bodies[1].at + bodies[1].length <= bodies[2].at

\* Where element k begins, and where one after the last would.
Position(k) == IF k \in DOMAIN movie THEN movie[k].at ELSE Total

(* The next element begins at the front of the data, or where the loop of  *)
(* process_data has come to.                                               *)
Progress ==
  /\ \A k \in DOMAIN handled : handled[k] = k + 2
  /\ NextElement <= Len(movie) + 1
  /\ state = "HeaderDetectionState" => handled = <<>>
  /\ Up /\ state = "HeaderDetectionState" => Base = 0
  /\ Up /\ state = "StreamingState" =>
       Base + (IF pc = "process" THEN scan ELSE 0) = Position(NextElement)

IInv == TypeOK /\ Shape /\ BufferExact /\ Progress /\ NothingWaits /\ HeaderFits

-----------------------------------------------------------------------------
(* The movie.                                                              *)

\* What the assumption says of an input.
LEMMA MovieFacts ==
  ASSUME TypeOK
  PROVE  /\ Len(movie) \in Nat /\ Len(movie) >= 4
         /\ DOMAIN movie = 1 .. Len(movie)
         /\ \A i \in DOMAIN movie :
              /\ movie[i].at \in Nat /\ movie[i].id \in Nat
              /\ movie[i].head \in Nat /\ movie[i].size \in Nat
              /\ 0 < movie[i].id /\ movie[i].id < movie[i].head
              /\ movie[i].head <= movie[i].size
              /\ i < Len(movie) => movie[i + 1].at = movie[i].at + movie[i].size
              /\ \A k \in DOMAIN movie :
                   i < k => movie[i].at + movie[i].size <= movie[k].at
         /\ movie[1].at = 0
<1>1. movie \in Movies
  BY DEF TypeOK
<1>2. movie \in Seq(Element) /\ Len(movie) >= 4 /\ movie[1].at = 0
  BY <1>1, MovieAssumption
<1>3. Len(movie) \in Nat /\ DOMAIN movie = 1 .. Len(movie)
  BY <1>2
<1>4. ASSUME NEW i \in DOMAIN movie
      PROVE  /\ movie[i].at \in Nat /\ movie[i].id \in Nat
             /\ movie[i].head \in Nat /\ movie[i].size \in Nat
             /\ 0 < movie[i].id
  <2>1. movie[i] \in Element
    BY <1>2
  <2> QED
    BY <2>1 DEF Element
<1>5. ASSUME NEW i \in DOMAIN movie
      PROVE  /\ movie[i].id < movie[i].head
             /\ movie[i].head <= movie[i].size
             /\ i < Len(movie) => movie[i + 1].at = movie[i].at + movie[i].size
             /\ \A k \in DOMAIN movie : i < k => movie[i].at + movie[i].size <= movie[k].at
  BY <1>1, MovieAssumption
<1> QED
  BY <1>2, <1>3, <1>4, <1>5

\* An element ends before every later one begins.
LEMMA InOrder ==
  ASSUME TypeOK, NEW i \in DOMAIN movie, NEW k \in DOMAIN movie, i < k
  PROVE  /\ movie[i].at + movie[i].size <= movie[k].at
         /\ movie[i].at < movie[k].at
<1>1. movie[i].at + movie[i].size <= movie[k].at
  BY MovieFacts
<1>2. movie[i].at \in Nat /\ movie[k].at \in Nat
  BY MovieFacts
<1>3. movie[i].size \in Nat /\ movie[i].size > 0
  <2>1. /\ movie[i].id \in Nat /\ movie[i].head \in Nat /\ movie[i].size \in Nat
        /\ 0 < movie[i].id /\ movie[i].id < movie[i].head
        /\ movie[i].head <= movie[i].size
    BY MovieFacts
  <2> QED
    BY <2>1
<1> QED
  BY <1>1, <1>2, <1>3

\* The end of the movie.
LEMMA TotalFacts ==
  ASSUME TypeOK
  PROVE  /\ Total \in Nat
         /\ Total = movie[Len(movie)].at + movie[Len(movie)].size
         /\ \A i \in DOMAIN movie : movie[i].at < Total
<1>1. Len(movie) \in DOMAIN movie
  BY MovieFacts
<1>2. ASSUME NEW i \in DOMAIN movie PROVE movie[i].at < Total
  <2>1. CASE i = Len(movie)
    BY <1>1, <2>1, MovieFacts DEF Total, End
  <2>2. CASE i < Len(movie)
    <3>1. movie[i].at < movie[Len(movie)].at
      BY <1>1, <2>2, InOrder
    <3> QED
      BY <1>1, <3>1, MovieFacts DEF Total, End
  <2> QED
    BY <2>1, <2>2, MovieFacts
<1> QED
  BY <1>1, <1>2, MovieFacts DEF Total, End

\* The Segment is the second element.
LEMMA SegmentIsSecond == ASSUME TypeOK PROVE Of("segment") = movie[2]
<1>1. movie[2].kind = "segment" /\ movie[1].kind = "ebml" /\ 2 \in DOMAIN movie /\ 1 \in DOMAIN movie
  BY MovieAssumption, MovieFacts DEF TypeOK
<1>2. First(movie, "segment", 2)
  BY <1>1 DEF First
<1>3. ASSUME NEW i \in DOMAIN movie, First(movie, "segment", i) PROVE i = 2
  <2>1. i \in Nat /\ i >= 1
    BY MovieFacts
  <2>2. i # 1
    BY <1>1, <1>3 DEF First
  <2>3. ~(i > 2)
    BY <1>1, <1>3, <2>1 DEF First
  <2> QED
    BY <2>1, <2>2, <2>3
<1>4. (CHOOSE i \in DOMAIN movie : First(movie, "segment", i)) = 2
  BY <1>1, <1>2, <1>3
<1> QED
  BY <1>4 DEF Of

\* Info and Tracks are elements behind it.
LEMMA OfFacts ==
  ASSUME TypeOK, NEW kind \in {"info", "tracks"}
  PROVE  \E i \in 3 .. Len(movie) : Of(kind) = movie[i] /\ movie[i].kind = kind
<1>1. \E i \in 3 .. Len(movie) : First(movie, kind, i)
  BY MovieAssumption DEF TypeOK
<1>2. \E i \in DOMAIN movie : First(movie, kind, i)
  BY <1>1, MovieFacts
<1> DEFINE n == CHOOSE i \in DOMAIN movie : First(movie, kind, i)
<1>3. n \in DOMAIN movie /\ First(movie, kind, n)
  BY <1>2
<1>4. movie[n].kind = kind
  BY <1>3 DEF First
<1>5. movie[1].kind = "ebml" /\ movie[2].kind = "segment"
  BY MovieAssumption DEF TypeOK
<1> HIDE DEF n
<1>6. n \in 3 .. Len(movie)
  BY <1>3, <1>4, <1>5, MovieFacts
<1>7. Of(kind) = movie[n]
  BY DEF Of, n
<1> QED
  BY <1>4, <1>6, <1>7

\* The header ends behind the Segment's head and all that is kept of it.
LEMMA HeaderEndFacts ==
  ASSUME TypeOK
  PROVE  /\ HeaderEnd \in Nat
         /\ End(movie[2]) \in Nat /\ 0 < End(movie[2])
         /\ End(movie[2]) = movie[3].at
         /\ End(movie[2]) <= HeaderEnd
         /\ movie[1].size + movie[2].size + Of("info").size + Of("tracks").size <= HeaderEnd
         /\ movie[1].size + movie[2].size + Of("info").size <= End(Of("info"))
         /\ End(Of("info")) \in Nat
         /\ movie[1].size \in Nat /\ movie[2].size \in Nat
         /\ Of("info").size \in Nat /\ Of("tracks").size \in Nat
<1>1. PICK i \in 3 .. Len(movie) : Of("info") = movie[i] /\ movie[i].kind = "info"
  BY OfFacts
<1>2. PICK j \in 3 .. Len(movie) : Of("tracks") = movie[j] /\ movie[j].kind = "tracks"
  BY OfFacts
<1>3. i # j
  BY <1>1, <1>2
<1>4. 1 \in DOMAIN movie /\ 2 \in DOMAIN movie /\ i \in DOMAIN movie /\ j \in DOMAIN movie
  BY MovieFacts
<1>5. /\ movie[1].at = 0 /\ movie[2].at = movie[1].size
      /\ movie[3].at = movie[2].at + movie[2].size
      /\ movie[1].size \in Nat /\ movie[2].size \in Nat /\ movie[1].size > 0
  BY <1>4, MovieFacts
<1>6. /\ movie[2].at + movie[2].size <= movie[i].at
      /\ movie[2].at + movie[2].size <= movie[j].at
      /\ movie[i].at \in Nat /\ movie[i].size \in Nat
      /\ movie[j].at \in Nat /\ movie[j].size \in Nat
  <2>1. 2 < i /\ 2 < j
    OBVIOUS
  <2>2. /\ movie[2].at + movie[2].size <= movie[i].at
        /\ movie[2].at + movie[2].size <= movie[j].at
    BY <1>4, <2>1, InOrder
  <2> QED
    BY <1>4, <2>2, MovieFacts
<1>7. \/ movie[i].at + movie[i].size <= movie[j].at
      \/ movie[j].at + movie[j].size <= movie[i].at
  <2>1. i < j \/ j < i
    BY <1>3
  <2> QED
    BY <1>4, <2>1, InOrder
<1>8. HeaderEnd = IF movie[i].at + movie[i].size < movie[j].at + movie[j].size
                    THEN movie[j].at + movie[j].size ELSE movie[i].at + movie[i].size
  BY <1>1, <1>2 DEF HeaderEnd, End
<1>9. End(movie[2]) = movie[2].at + movie[2].size
  BY DEF End
<1> DEFINE s1 == movie[1].size
           s2 == movie[2].size
           ai == movie[i].at
           si == movie[i].size
           aj == movie[j].at
           sj == movie[j].size
<1>10. /\ s1 \in Nat /\ s2 \in Nat /\ ai \in Nat /\ si \in Nat /\ aj \in Nat /\ sj \in Nat
       /\ s1 > 0 /\ s1 + s2 <= ai /\ s1 + s2 <= aj
       /\ ai + si <= aj \/ aj + sj <= ai
       /\ HeaderEnd = IF ai + si < aj + sj THEN aj + sj ELSE ai + si
       /\ End(movie[2]) = s1 + s2 /\ movie[3].at = s1 + s2
       /\ Of("info").size = si /\ Of("tracks").size = sj
       /\ End(Of("info")) = ai + si
  <2>1. s1 \in Nat /\ s2 \in Nat /\ ai \in Nat /\ si \in Nat /\ aj \in Nat /\ sj \in Nat /\ s1 > 0
    BY <1>5, <1>6
  <2>2. s1 + s2 <= ai /\ s1 + s2 <= aj
    BY <1>5, <1>6
  <2>3. ai + si <= aj \/ aj + sj <= ai
    BY <1>7
  <2>4. HeaderEnd = IF ai + si < aj + sj THEN aj + sj ELSE ai + si
    BY <1>8
  <2>5. End(movie[2]) = s1 + s2 /\ movie[3].at = s1 + s2
    BY <1>5, <1>9
  <2>6. Of("info").size = si /\ Of("tracks").size = sj /\ End(Of("info")) = ai + si
    BY <1>1, <1>2 DEF End
  <2> QED
    BY <2>1, <2>2, <2>3, <2>4, <2>5, <2>6
<1> HIDE DEF s1, s2, ai, si, aj, sj
<1>11. /\ HeaderEnd \in Nat /\ s1 + s2 <= HeaderEnd /\ s1 + s2 + si + sj <= HeaderEnd
       /\ s1 + s2 + si <= ai + si /\ ai + si \in Nat
       /\ s1 + s2 \in Nat /\ 0 < s1 + s2
  BY <1>10
<1>12. movie[1].size = s1 /\ movie[2].size = s2
  BY DEF s1, s2
<1> QED
  BY <1>10, <1>11, <1>12

\* What is copied into header_buffer: Info and Tracks were in the input's
\* buffer, and only the Segment's replacement can make them longer.
LEMMA CopiedFacts ==
  ASSUME TypeOK
  PROVE  /\ Copied \in Nat
         /\ EbmlTooLong => ~(Copied <= BufferLength)
         /\ ~(Copied <= BufferLength) => EbmlTooLong \/ Of("segment").size < SegmentLength
<1> DEFINE s1 == movie[1].size
           s2 == movie[2].size
           si == Of("info").size
           sj == Of("tracks").size
           ei == End(Of("info"))
<1>1. /\ s1 \in Nat /\ s2 \in Nat /\ si \in Nat /\ sj \in Nat /\ ei \in Nat
      /\ HeaderEnd \in Nat /\ s1 + s2 + si <= ei /\ s1 + s2 + si + sj <= HeaderEnd
  BY HeaderEndFacts
<1>2. /\ length \in Nat /\ BufferLength \in Nat /\ SegmentLength \in Nat
      /\ length <= BufferLength
  BY BufferAssumption DEF TypeOK
<1>3. HeaderEnd < length => ei < length
  <2>1. ei <= HeaderEnd
    <3>1. End(Of("tracks")) \in Nat
      <4>1. PICK j \in 3 .. Len(movie) : Of("tracks") = movie[j]
        BY OfFacts
      <4> QED
        BY <4>1, MovieFacts DEF End
    <3> QED
      BY <1>1, <3>1 DEF HeaderEnd
  <2> QED
    BY <1>1, <1>2, <2>1
<1>4. /\ Copied = s1 + SegmentLength + (IF ei < length THEN si ELSE 0)
                  + (IF HeaderEnd < length THEN sj ELSE 0)
      /\ EbmlTooLong <=> s1 + SegmentLength > BufferLength
      /\ Of("segment").size = s2
  BY SegmentIsSecond DEF Copied, Found, EbmlTooLong
<1> HIDE DEF s1, s2, si, sj, ei
<1>5. CASE HeaderEnd < length
  BY <1>1, <1>2, <1>3, <1>4, <1>5
<1>6. CASE ~(HeaderEnd < length) /\ ei < length
  BY <1>1, <1>2, <1>4, <1>6
<1>7. CASE ~(HeaderEnd < length) /\ ~(ei < length)
  BY <1>1, <1>2, <1>4, <1>7
<1> QED
  BY <1>5, <1>6, <1>7

-----------------------------------------------------------------------------
(* The pieces of a read.                                                   *)

LEMMA BytesFacts ==
  ASSUME NEW b \in Seq(Body), Len(b) \in {0, 1, 2}
  PROVE  /\ Bytes(b) \in Nat
         /\ Len(b) = 0 => Bytes(b) = 0
         /\ Len(b) = 1 => Bytes(b) = b[1].length
         /\ Len(b) = 2 => Bytes(b) = b[1].length + b[2].length
<1>1. \A k \in 1 .. Len(b) : b[k] \in Body
  OBVIOUS
<1>2. \A k \in 1 .. Len(b) : b[k].length \in Nat
  BY <1>1 DEF Body
<1> QED
  BY <1>2 DEF Bytes

LEMMA BodyFacts ==
  ASSUME TypeOK, NEW k \in 1 .. Len(bodies)
  PROVE  /\ bodies[k] \in Body
         /\ bodies[k].at \in Nat /\ bodies[k].length \in Nat /\ bodies[k].length > 0
<1>1. bodies[k] \in Body
  BY DEF TypeOK
<1> QED
  BY <1>1, BufferAssumption DEF Body, Addresses
-----------------------------------------------------------------------------
(* The initial state and reads.                                            *)

LEMMA InitHolds == Init => IInv
<1> SUFFICES ASSUME Init PROVE IInv
  OBVIOUS
<1>1. TypeOK
  <2>1. Total \in Nat
    <3>1. movie \in Movies
      BY DEF Init
    <3>2. movie \in Seq(Element) /\ Len(movie) >= 4
      BY <3>1, MovieAssumption
    <3>3. movie[Len(movie)] \in Element
      BY <3>2
    <3> QED
      BY <3>3 DEF Total, End, Element
  <2>2. buffer \in [Addresses -> 0 .. Total]
    BY <2>1 DEF Init, Junk
  <2> QED
    BY <2>1, <2>2, BufferAssumption DEF Init, TypeOK
<1>2. Shape
  BY <1>1, BufferAssumption DEF Init, Shape
<1>3. Base = 0
  <2>1. bodies \in Seq(Body) /\ Len(bodies) = 0 /\ Len(bodies) \in {0, 1, 2}
    BY <1>1 DEF Init, TypeOK
  <2>2. Bytes(bodies) = 0
    BY <2>1, BytesFacts
  <2> QED
    BY <2>2 DEF Init, Base, Passed
<1>4. BufferExact
  BY <1>3 DEF Init, BufferExact, Lies
<1>5. Progress
  BY <1>3, <1>1, MovieFacts DEF Init, Progress, NextElement
<1>6. NothingWaits
  BY <1>1, HeaderEndFacts DEF Init, NothingWaits
<1>7. HeaderFits
  <2>1. 1 \in DOMAIN movie
    BY <1>1, MovieFacts
  <2>2. 0 < movie[1].head
    <3>1. /\ movie[1].id \in Nat /\ movie[1].head \in Nat
          /\ 0 < movie[1].id /\ movie[1].id < movie[1].head
      BY <1>1, <2>1, MovieFacts
    <3> QED
      BY <3>1
  <2> QED
    BY <2>2, BufferAssumption DEF Init, HeaderFits
<1> QED
  BY <1>1, <1>2, <1>4, <1>5, <1>6, <1>7 DEF IInv

\* What on_read finds when it is called.
LEMMA IdleFacts ==
  ASSUME IInv, Idle
  PROVE  /\ Len(bodies) = 0 /\ bodies = <<>> /\ offset = length
         /\ Passed = arrived /\ Base = arrived - length
         /\ arrived \in Nat /\ length \in Nat /\ offset \in Nat /\ Total \in Nat
         /\ Lies(0, length, Base)
<1>1. Len(bodies) = 0 /\ bodies \in Seq(Body)
  BY DEF IInv, TypeOK, Shape, Idle
<1>2. Bytes(bodies) = 0 /\ bodies = <<>>
  <2>1. bodies = <<>>
    BY <1>1
  <2>2. Len(bodies) \in {0, 1, 2}
    BY <1>1
  <2>3. Bytes(bodies) = 0
    BY <1>1, <2>2, BytesFacts
  <2> QED
    BY <2>1, <2>3
<1>3. offset = length /\ Lies(0, length, Base)
  BY DEF IInv, BufferExact, Idle
<1>4. arrived \in Nat /\ length \in Nat /\ Total \in Nat
  BY TotalFacts, BufferAssumption DEF IInv, TypeOK
<1> QED
  BY <1>1, <1>2, <1>3, <1>4 DEF Passed, Base

\* A read puts its pieces behind the data and leaves the data alone.
LEMMA ReadHolds ==
  ASSUME IInv, NEW before \in 0 .. OverheadMax, NEW between \in 0 .. OverheadMax,
         NEW first \in 1 .. BufferLength, NEW second \in 0 .. BufferLength,
         Read(before, first, between, second)
  PROVE  IInv'
<1> DEFINE at1 == offset + before
           at2 == offset + before + first + between
           piece1 == [at |-> at1, length |-> first]
           piece2 == [at |-> at2, length |-> second]
<1>1. /\ before \in Nat /\ between \in Nat /\ first \in Nat /\ second \in Nat /\ first > 0
      /\ BufferLength \in Nat
  BY BufferAssumption
<1>2. /\ Idle /\ Len(bodies) = 0 /\ offset = length
      /\ Base = arrived - length /\ Passed = arrived
      /\ arrived \in Nat /\ length \in Nat /\ offset \in Nat /\ Total \in Nat
      /\ Lies(0, length, Base)
  BY IdleFacts DEF Read
<1>3. /\ before + first + between + second <= BufferLength - offset
      /\ first + second <= Total - arrived
      /\ arrived' = arrived + first + second
      /\ pc' = "body"
      /\ bodies' = IF second = 0 THEN <<piece1>> ELSE <<piece1, piece2>>
      /\ UNCHANGED <<movie, offset, length, running, state, parser, scan, handled, header, fault>>
  BY DEF Read, Room
<1>4. /\ at1 \in Nat /\ at2 \in Nat /\ offset <= at1 /\ at1 + first <= at2
      /\ at2 + second <= BufferLength /\ at1 + first <= BufferLength
      /\ arrived + first + second \in 0 .. Total
  BY <1>1, <1>2, <1>3
<1>5. buffer' = [i \in Addresses |->
                   CASE i \in Span(at1, first) -> arrived + i - at1 + 1
                     [] i \in Span(at2, second) -> arrived + first + i - at2 + 1
                     [] i < offset -> buffer[i]
                     [] OTHER -> Junk]
  BY DEF Read
<1> HIDE DEF at1, at2
<1>6. ASSUME NEW i \in Addresses
      PROVE  /\ i \in Nat
             /\ i < offset => buffer'[i] = buffer[i]
             /\ at1 <= i /\ i < at1 + first => buffer'[i] = arrived + i - at1 + 1
             /\ at2 <= i /\ i < at2 + second => buffer'[i] = arrived + first + i - at2 + 1
             /\ buffer'[i] \in 0 .. Total
  <2>1. i \in Nat
    BY BufferAssumption DEF Addresses
  <2>2. /\ i \in Span(at1, first) <=> at1 <= i /\ i < at1 + first
        /\ i \in Span(at2, second) <=> at2 <= i /\ i < at2 + second
    BY <1>1, <1>4, <2>1 DEF Span
  <2>3. buffer'[i] = CASE i \in Span(at1, first) -> arrived + i - at1 + 1
                       [] i \in Span(at2, second) -> arrived + first + i - at2 + 1
                       [] i < offset -> buffer[i]
                       [] OTHER -> Junk
    BY <1>5
  <2>4. buffer[i] \in 0 .. Total
    BY DEF IInv, TypeOK
  <2>5. CASE at1 <= i /\ i < at1 + first
    <3>1. ~(i < offset) /\ ~(at2 <= i)
      BY <1>1, <1>2, <1>4, <2>1, <2>5
    <3>2. buffer'[i] = arrived + i - at1 + 1
      BY <2>2, <2>3, <2>5, <3>1
    <3>3. arrived + i - at1 + 1 \in 0 .. Total
      BY <1>1, <1>2, <1>4, <2>1, <2>5
    <3> QED
      BY <2>5, <3>1, <3>2, <3>3, <2>1
  <2>6. CASE at2 <= i /\ i < at2 + second
    <3>1. ~(i < offset) /\ ~(i < at1 + first)
      BY <1>1, <1>2, <1>4, <2>1, <2>6
    <3>2. buffer'[i] = arrived + first + i - at2 + 1
      BY <2>2, <2>3, <2>6, <3>1
    <3>3. arrived + first + i - at2 + 1 \in 0 .. Total
      BY <1>1, <1>2, <1>4, <2>1, <2>6
    <3> QED
      BY <2>6, <3>1, <3>2, <3>3, <2>1
  <2>7. CASE ~(at1 <= i /\ i < at1 + first) /\ ~(at2 <= i /\ i < at2 + second)
    BY <1>2, <2>1, <2>2, <2>3, <2>4, <2>7 DEF Junk
  <2> QED
    BY <2>5, <2>6, <2>7, <2>1, <1>1, <1>2, <1>4
<1>7. /\ piece1 \in Body
      /\ second > 0 => piece2 \in Body
  BY <1>1, <1>4 DEF Body, Addresses
<1>8. /\ bodies' \in Seq(Body)
      /\ second = 0 => Len(bodies') = 1 /\ bodies'[1] = piece1
      /\ second > 0 => Len(bodies') = 2 /\ bodies'[1] = piece1 /\ bodies'[2] = piece2
  BY <1>1, <1>3, <1>7
<1>9. Total' = Total
  BY <1>3 DEF Total, End
<1>10. TypeOK'
  <2>1. buffer' \in [Addresses -> 0 .. Total]
    <3>1. \A i \in Addresses : buffer'[i] \in 0 .. Total
      BY <1>6
    <3> QED
      BY <1>5, <3>1
  <2> QED
    BY <1>3, <1>4, <1>8, <1>9, <2>1 DEF IInv, TypeOK
<1>11. Bytes(bodies') = first + second
  BY <1>1, <1>8, BytesFacts
<1>12. Passed' = arrived /\ Base' = Base
  BY <1>1, <1>2, <1>3, <1>11 DEF Passed, Base
<1>13. Shape'
  BY <1>1, <1>2, <1>3, <1>4, <1>8 DEF Shape
<1>14. BufferExact'
  <2>1. Lies(0, length, Base)'
    <3>1. ASSUME NEW i \in 0 .. (length - 1) PROVE buffer'[0 + i] = Base + i + 1
      <4>1. i \in Addresses /\ i < offset /\ 0 + i = i
        BY <1>1, <1>2, <1>4 DEF Addresses
      <4>2. buffer'[i] = buffer[i]
        BY <1>6, <4>1
      <4>3. buffer[0 + i] = Base + i + 1
        BY <1>2 DEF Lies
      <4> QED
        BY <4>1, <4>2, <4>3
    <3>2. length' = length
      BY <1>3
    <3> QED
      BY <3>1, <3>2, <1>12 DEF Lies
  <2>2. \A i \in 0 .. (first - 1) : buffer'[at1 + i] = arrived + i + 1
    <3>1. ASSUME NEW i \in 0 .. (first - 1) PROVE buffer'[at1 + i] = arrived + i + 1
      <4>1. at1 + i \in Addresses /\ at1 <= at1 + i /\ at1 + i < at1 + first /\ i \in Nat
        BY <1>1, <1>4 DEF Addresses
      <4>2. buffer'[at1 + i] = arrived + (at1 + i) - at1 + 1
        BY <1>6, <4>1
      <4> QED
        BY <4>1, <4>2, <1>2, <1>4
    <3> QED
      BY <3>1
  <2>3. \A i \in 0 .. (second - 1) : buffer'[at2 + i] = arrived + first + i + 1
    <3>1. ASSUME NEW i \in 0 .. (second - 1)
          PROVE  buffer'[at2 + i] = arrived + first + i + 1
      <4>1. at2 + i \in Addresses /\ at2 <= at2 + i /\ at2 + i < at2 + second /\ i \in Nat
        BY <1>1, <1>4 DEF Addresses
      <4>2. buffer'[at2 + i] = arrived + first + (at2 + i) - at2 + 1
        BY <1>6, <4>1
      <4> QED
        BY <4>1, <4>2, <1>1, <1>2, <1>4
    <3> QED
      BY <3>1
  <2>4. /\ bodies'[1].at = at1 /\ bodies'[1].length = first
        /\ second > 0 => bodies'[2].at = at2 /\ bodies'[2].length = second
        /\ Len(bodies') = 2 => second > 0
    <3>1. /\ piece1.at = at1 /\ piece1.length = first
          /\ piece2.at = at2 /\ piece2.length = second
      OBVIOUS
    <3>2. bodies'[1] = piece1 /\ (second > 0 => bodies'[2] = piece2)
      BY <1>1, <1>8
    <3>3. Len(bodies') = 2 => second > 0
      BY <1>1, <1>8
    <3> HIDE DEF piece1, piece2
    <3> QED
      BY <3>1, <3>2, <3>3
  <2>5. /\ Lies(bodies[1].at, bodies[1].length, Passed)'
        /\ Len(bodies') = 2 =>
              Lies(bodies[2].at, bodies[2].length, Passed + bodies[1].length)'
    BY <2>2, <2>3, <2>4, <1>12 DEF Lies
  <2>6. (pc # "process" => offset = length)'
    BY <1>2, <1>3
  <2> QED
    BY <2>1, <2>5, <2>6 DEF BufferExact
<1>15. Progress'
  <2>1. pc = "idle"
    BY <1>2 DEF Idle
  <2>2. NextElement' = NextElement /\ \A k : Position(k)' = Position(k)
    BY <1>3, <1>9 DEF NextElement, Position
  <2> QED
    BY <1>3, <1>12, <2>1, <2>2 DEF IInv, Progress, Up
<1>16. NothingWaits' /\ HeaderFits'
  BY <1>2, <1>3 DEF IInv, NothingWaits, HeaderFits, EbmlTooLong, Of, First, Idle, Up
<1> QED
  BY <1>10, <1>13, <1>14, <1>15, <1>16 DEF IInv

\* The end of the input and a read of no bytes leave the buffer alone.
LEMMA QuietHolds ==
  ASSUME IInv, EmptyRead \/ Close
  PROVE  IInv'
<1>1. /\ parser' \in {"ok", "failed"} /\ running' \in BOOLEAN
      /\ UNCHANGED <<movie, arrived, buffer, offset, length, state, pc,
                     bodies, scan, handled, header, fault>>
  BY DEF EmptyRead, Close, IInv, TypeOK
<1>2. TypeOK'
  BY <1>1 DEF IInv, TypeOK, Total, End
<1>3. Shape' /\ BufferExact'
  BY <1>1 DEF IInv, Shape, BufferExact, Lies, Base, Passed, Bytes, Up
<1>4. Progress' /\ HeaderFits'
  BY <1>1 DEF IInv, Progress, NextElement, Position, Total, End, Base, Passed,
              Bytes, Up, HeaderFits, EbmlTooLong, Of, First
<1>5. NothingWaits'
  BY <1>1 DEF IInv, NothingWaits, NextElement, Up, HeaderEnd, Of, First, End
<1> QED
  BY <1>2, <1>3, <1>4, <1>5 DEF IInv

-----------------------------------------------------------------------------
(* The buffer.                                                             *)

\* The numbers of a state and where they lie.
LEMMA Numbers ==
  ASSUME IInv
  PROVE  /\ Base \in Int /\ Passed \in Int /\ Base + length = Passed
         /\ length \in Nat /\ scan \in Nat /\ arrived \in Nat /\ Total \in Nat
         /\ offset \in Nat /\ BufferLength \in Nat
         /\ length <= BufferLength /\ scan <= BufferLength
         /\ Passed <= arrived /\ arrived <= Total
         /\ Len(bodies) \in {0, 1, 2} /\ bodies \in Seq(Body)
<1>1. Len(bodies) \in {0, 1, 2} /\ bodies \in Seq(Body)
  BY DEF IInv, TypeOK, Shape
<1>2. Bytes(bodies) \in Nat
  BY <1>1, BytesFacts
<1>3. /\ length \in Nat /\ scan \in Nat /\ arrived \in Nat /\ Total \in Nat
      /\ offset \in Nat /\ BufferLength \in Nat
      /\ length <= BufferLength /\ scan <= BufferLength /\ arrived <= Total
  BY TotalFacts, BufferAssumption DEF IInv, TypeOK
<1>4. Passed = arrived - Bytes(bodies) /\ Base = Passed - length
  BY DEF Passed, Base
<1> QED
  BY <1>1, <1>2, <1>3, <1>4

\* What memmove writes, and what it leaves.
LEMMA MemmoveFacts ==
  ASSUME TypeOK, NEW to \in Nat, NEW from \in Nat, NEW n \in Nat,
         to + n <= BufferLength, from + n <= BufferLength
  PROVE  /\ Memmove(to, from, n) \in [Addresses -> 0 .. Total]
         /\ \A i \in 0 .. (n - 1) :
              to + i \in Addresses /\ Memmove(to, from, n)[to + i] = buffer[from + i]
         /\ \A i \in Addresses :
              i < to \/ to + n <= i => Memmove(to, from, n)[i] = buffer[i]
<1>1. BufferLength \in Nat
  BY BufferAssumption
<1>2. \A i \in Addresses : buffer[i] \in 0 .. Total
  BY DEF TypeOK
<1>3. ASSUME NEW i \in Addresses
      PROVE  /\ Memmove(to, from, n)[i] = IF i \in Span(to, n) THEN buffer[from + i - to]
                                                               ELSE buffer[i]
             /\ i \in Span(to, n) <=> to <= i /\ i < to + n
  BY <1>1 DEF Memmove, Span, Addresses
<1>4. ASSUME NEW i \in Addresses PROVE Memmove(to, from, n)[i] \in 0 .. Total
  <2>1. CASE i \in Span(to, n)
    <3>1. from + i - to \in Addresses
      BY <1>1, <1>3, <2>1 DEF Addresses
    <3> QED
      BY <1>2, <1>3, <2>1, <3>1
  <2>2. CASE i \notin Span(to, n)
    BY <1>2, <1>3, <2>2
  <2> QED
    BY <2>1, <2>2
<1>5. ASSUME NEW i \in 0 .. (n - 1)
      PROVE  to + i \in Addresses /\ Memmove(to, from, n)[to + i] = buffer[from + i]
  <2>1. to + i \in Addresses /\ to <= to + i /\ to + i < to + n
    BY <1>1 DEF Addresses
  <2>2. Memmove(to, from, n)[to + i] = buffer[from + (to + i) - to]
    BY <1>3, <2>1
  <2>3. from + (to + i) - to = from + i
    OBVIOUS
  <2> QED
    BY <2>1, <2>2, <2>3
<1>6. ASSUME NEW i \in Addresses, i < to \/ to + n <= i
      PROVE  Memmove(to, from, n)[i] = buffer[i]
  <2>1. i \in Nat
    BY <1>1 DEF Addresses
  <2> QED
    BY <1>3, <1>6, <2>1
<1>7. Memmove(to, from, n) \in [Addresses -> 0 .. Total]
  <2>1. \A i \in Addresses : Memmove(to, from, n)[i] \in 0 .. Total
    BY <1>4
  <2> DEFINE f(i) == IF i \in Span(to, n) THEN buffer[from + i - to] ELSE buffer[i]
  <2>2. Memmove(to, from, n) = [i \in Addresses |-> f(i)]
    BY DEF Memmove
  <2> QED
    BY <2>1, <2>2
<1> QED
  BY <1>5, <1>6, <1>7

\* on_body moves its piece up to the data: the data grow by it, and the piece
\* that is still to come stays where it is.
LEMMA OnBodyHolds ==
  ASSUME IInv, OnBody
  PROVE  IInv'
<1> DEFINE at1 == bodies[1].at
           n == bodies[1].length
<1>1. /\ Up /\ pc = "body" /\ pc' = "process" /\ scan' = 0
      /\ buffer' = Memmove(offset, Head(bodies).at, Head(bodies).length)
      /\ length' = length + Head(bodies).length
      /\ bodies' = Tail(bodies)
      /\ UNCHANGED <<movie, arrived, offset, running, state, parser, handled, header, fault>>
  BY DEF OnBody
<1>2. Len(bodies) \in {1, 2} /\ offset = length /\ 1 \in 1 .. Len(bodies)
  BY <1>1 DEF IInv, Shape, BufferExact
<1>3. Head(bodies) = bodies[1]
  BY <1>2, Numbers
<1>4. /\ at1 \in Nat /\ n \in Nat /\ n > 0
      /\ length <= at1 /\ at1 + n <= BufferLength
  BY <1>2, BodyFacts DEF IInv, Shape
<1>5. length \in Nat /\ BufferLength \in Nat /\ Base \in Int /\ Passed = Base + length
  BY Numbers
<1>6. /\ Len(bodies') = Len(bodies) - 1 /\ bodies' \in Seq(Body)
      /\ Len(bodies) = 2 => bodies'[1] = bodies[2]
  BY <1>1, <1>2, Numbers
<1>7. buffer' = Memmove(length, at1, n) /\ length' = length + n
  BY <1>1, <1>2, <1>3
<1> HIDE DEF at1, n
<1>8. length + n <= BufferLength
  BY <1>4, <1>5
<1>9. /\ Memmove(length, at1, n) \in [Addresses -> 0 .. Total]
      /\ \A i \in 0 .. (n - 1) :
           length + i \in Addresses /\ Memmove(length, at1, n)[length + i] = buffer[at1 + i]
      /\ \A i \in Addresses :
           i < length \/ length + n <= i => Memmove(length, at1, n)[i] = buffer[i]
  BY <1>4, <1>5, <1>8, MemmoveFacts DEF IInv
<1>10. Total' = Total /\ \A k : Position(k)' = Position(k)
  BY <1>1 DEF Total, End, Position
<1>11. TypeOK'
  BY <1>1, <1>4, <1>5, <1>6, <1>7, <1>8, <1>9, <1>10 DEF IInv, TypeOK
<1>12. Passed' = Passed + n /\ Base' = Base
  <2>1. Bytes(bodies) = n + Bytes(bodies')
    <3>1. CASE Len(bodies) = 1
      <4>1. Len(bodies') = 0 /\ Len(bodies') \in {0, 1, 2}
        BY <1>6, <3>1
      <4>2. Bytes(bodies') = 0
        BY <1>6, <4>1, BytesFacts
      <4>3. Bytes(bodies) = bodies[1].length
        BY <3>1, Numbers, BytesFacts
      <4> QED
        BY <1>4, <4>2, <4>3 DEF n
    <3>2. CASE Len(bodies) = 2
      <4>1. Len(bodies') = 1 /\ Len(bodies') \in {0, 1, 2}
        BY <1>6, <3>2
      <4>2. Bytes(bodies') = bodies'[1].length
        BY <1>6, <4>1, BytesFacts
      <4>3. Bytes(bodies) = bodies[1].length + bodies[2].length
        BY <3>2, Numbers, BytesFacts
      <4>4. bodies'[1].length = bodies[2].length
        BY <1>6, <3>2
      <4> QED
        BY <4>2, <4>3, <4>4 DEF n
    <3> QED
      BY <1>2, <3>1, <3>2
  <2>2. Len(bodies') \in {0, 1, 2}
    BY <1>2, <1>6
  <2>3. Bytes(bodies') \in Nat
    BY <1>6, <2>2, BytesFacts
  <2>4. Passed' = arrived - Bytes(bodies') /\ Passed = arrived - Bytes(bodies)
    BY <1>1 DEF Passed
  <2>5. Base' = Passed' - length' /\ Base = Passed - length
    BY DEF Base
  <2>6. arrived \in Nat /\ n \in Nat
    BY <1>4, Numbers
  <2>7. Passed' = Passed + n
    BY <2>1, <2>3, <2>4, <2>6
  <2>8. length' = length + n
    BY <1>7
  <2> QED
    BY <1>5, <2>5, <2>6, <2>7, <2>8
<1>13. Len(bodies) = 2 =>
         /\ bodies[2].at \in Nat /\ bodies[2].length \in Nat
         /\ at1 + n <= bodies[2].at
         /\ bodies[2].at + bodies[2].length <= BufferLength
  <2>1. Len(bodies) = 2 => 2 \in 1 .. Len(bodies)
    OBVIOUS
  <2> QED
    BY <2>1, BodyFacts DEF IInv, Shape, at1, n
<1>14. Shape'
  <2>1. ASSUME NEW k \in 1 .. Len(bodies')
        PROVE  length' <= bodies'[k].at /\ bodies'[k].at + bodies'[k].length <= BufferLength
    <3>1. k = 1 /\ Len(bodies) = 2 /\ bodies'[k] = bodies[2]
      BY <1>2, <1>6
    <3>2. length + n <= bodies[2].at
      BY <3>1, <1>4, <1>5, <1>13
    <3> QED
      BY <3>1, <3>2, <1>7, <1>13
  <2> QED
    BY <1>1, <1>2, <1>6, <2>1 DEF Shape
<1>15. BufferExact'
  <2>1. ASSUME NEW i \in 0 .. (length + n - 1) PROVE buffer'[0 + i] = Base + i + 1
    <3>1. CASE i < length
      <4>1. i \in Addresses /\ i \in 0 .. (length - 1) /\ 0 + i = i
        BY <3>1, <1>4, <1>5, <1>8 DEF Addresses
      <4>2. buffer'[i] = buffer[i]
        BY <1>7, <1>9, <3>1, <4>1
      <4>3. buffer[0 + i] = Base + i + 1
        BY <1>1, <4>1 DEF IInv, BufferExact, Lies
      <4> QED
        BY <4>1, <4>2, <4>3
    <3>2. CASE i >= length
      <4> DEFINE d == i - length
      <4>1. d \in 0 .. (n - 1) /\ length + d = i /\ 0 + i = i
        BY <3>2, <1>4, <1>5
      <4> HIDE DEF d
      <4>2. buffer'[i] = buffer[at1 + d]
        BY <1>7, <1>9, <4>1
      <4>3. buffer[at1 + d] = Passed + d + 1
        BY <1>1, <1>2, <4>1 DEF IInv, BufferExact, Lies, at1, n
      <4>4. Passed + d + 1 = Base + i + 1
        BY <1>5, <4>1
      <4> QED
        BY <4>1, <4>2, <4>3, <4>4
    <3> QED
      BY <3>1, <3>2, <1>4, <1>5
  <2>2. Lies(0, length, Base)'
    <3>1. \A i \in 0 .. (length' - 1) : buffer'[0 + i] = Base' + i + 1
      <4>1. length' = length + n /\ Base' = Base
        BY <1>7, <1>12
      <4>2. 0 .. (length' - 1) = 0 .. (length + n - 1)
        BY <4>1, <1>4, <1>5
      <4>3. \A i \in 0 .. (length + n - 1) : buffer'[0 + i] = Base + i + 1
        BY <2>1
      <4> HIDE DEF Base
      <4> QED
        BY <4>1, <4>2, <4>3, Zenon
    <3> QED
      BY <3>1 DEF Lies
  <2>3. (bodies # <<>> => Lies(bodies[1].at, bodies[1].length, Passed))'
    <3> SUFFICES ASSUME Len(bodies) = 2
                 PROVE  Lies(bodies[1].at, bodies[1].length, Passed)'
      BY <1>2, <1>6
    <3> DEFINE a == bodies[2].at
               l == bodies[2].length
    <3>1. bodies'[1].at = a /\ bodies'[1].length = l
      BY <1>6
    <3>2. /\ a \in Nat /\ l \in Nat /\ length + n <= a /\ a + l <= BufferLength
      BY <1>13, <1>4, <1>5
    <3>3. Lies(a, l, Passed + n)
      BY <1>1 DEF IInv, BufferExact, n
    <3> HIDE DEF a, l
    <3>4. ASSUME NEW i \in 0 .. (l - 1) PROVE buffer'[a + i] = Passed + n + i + 1
      <4>1. a + i \in Addresses /\ length + n <= a + i
        BY <3>2, <1>4, <1>5 DEF Addresses
      <4>2. buffer'[a + i] = buffer[a + i]
        BY <1>7, <1>9, <4>1
      <4>3. buffer[a + i] = Passed + n + i + 1
        BY <3>3 DEF Lies
      <4> QED
        BY <4>2, <4>3
    <3> QED
      BY <3>1, <3>4, <1>12 DEF Lies
  <2>4. Len(bodies') # 2
    <3> DEFINE l == Len(bodies)
               m == Len(bodies')
    <3>1. l \in {1, 2} /\ m = l - 1
      BY <1>2, <1>6
    <3> HIDE DEF l, m
    <3>2. m # 2
      BY <3>1
    <3> QED
      BY <3>2 DEF m
  <2> QED
    BY <1>1, <2>2, <2>3, <2>4 DEF BufferExact
<1>16. Progress'
  <2>1. NextElement' = NextElement /\ (Up' <=> Up)
    BY <1>1 DEF NextElement, Up
  <2> QED
    BY <1>1, <1>10, <1>12, <2>1 DEF IInv, Progress
<1>17. NothingWaits' /\ HeaderFits'
  BY <1>1 DEF IInv, NothingWaits, HeaderFits, EbmlTooLong, Up
<1> QED
  BY <1>11, <1>14, <1>15, <1>16, <1>17 DEF IInv

\* What is forgotten between two reads is behind the data.
LEMMA ForgetFacts ==
  ASSUME TypeOK, NEW rest \in Nat
  PROVE  /\ Forget(buffer, rest) \in [Addresses -> 0 .. Total]
         /\ \A i \in Addresses :
              i < rest \/ bodies # <<>> => Forget(buffer, rest)[i] = buffer[i]
<1>1. \A i \in Addresses : buffer[i] \in 0 .. Total /\ i \in Nat
  BY BufferAssumption DEF TypeOK, Addresses
<1>2. Junk \in 0 .. Total
  BY TotalFacts DEF Junk
<1>3. \A i \in Addresses : i < rest => ~(i >= rest)
  BY <1>1
<1>4. \A i \in Addresses :
        Forget(buffer, rest)[i] = IF bodies = <<>> /\ i >= rest THEN Junk ELSE buffer[i]
  BY DEF Forget
<1>5. Forget(buffer, rest) \in [Addresses -> 0 .. Total]
  <2> DEFINE f(i) == IF bodies = <<>> /\ i >= rest THEN Junk ELSE buffer[i]
  <2>1. \A i \in Addresses : f(i) \in 0 .. Total
    BY <1>1, <1>2
  <2>2. Forget(buffer, rest) = [i \in Addresses |-> f(i)]
    BY DEF Forget
  <2> HIDE DEF f
  <2> QED
    BY <2>1, <2>2
<1> QED
  BY <1>3, <1>4, <1>5

\* An offset within the data: the data from there on are what is left of them,
\* at the front of the buffer, and the piece that is still to come is untouched.
LEMMA ReturnFacts ==
  ASSUME IInv, Up, pc = "process", NEW new \in 0 .. length, Return(new),
         UNCHANGED <<movie, arrived>>
  PROVE  /\ Up' /\ length' = length - new /\ Base' = Base + new
         /\ bodies' = bodies /\ fault' = fault
         /\ buffer' \in [Addresses -> 0 .. Total]
         /\ offset' \in 0 .. BufferLength /\ length' \in 0 .. BufferLength
         /\ scan' \in 0 .. BufferLength
         /\ pc' \in {"idle", "body", "process"}
         /\ pc' = "process" => scan' = 0
         /\ 0 < new /\ new < length => pc' = "process"
         /\ Shape' /\ BufferExact'
<1>1. /\ length \in Nat /\ BufferLength \in Nat /\ length <= BufferLength /\ new \in Nat
      /\ new <= length /\ Base \in Int /\ Base + length = Passed /\ Passed \in Int
      /\ bodies \in Seq(Body) /\ scan \in 0 .. BufferLength
  BY Numbers DEF IInv, TypeOK
<1>2. Len(bodies) \in {0, 1}
  BY DEF IInv, Shape
<1>3. TypeOK
  BY DEF IInv
<1>4. ASSUME NEW rest \in Nat, rest = length - new, Leave(rest),
             buffer' = Forget(buffer, rest), new = 0 \/ new = length
      PROVE  /\ length' = length - new /\ bodies' = bodies /\ fault' = fault /\ scan' = scan
             /\ pc' = IF bodies = <<>> THEN "idle" ELSE "body"
             /\ offset' = length'
             /\ buffer' \in [Addresses -> 0 .. Total]
             /\ \A i \in 0 .. (length - new - 1) : buffer'[i] = buffer[new + i]
             /\ bodies # <<>> => \A i \in Addresses : length <= i => buffer'[i] = buffer[i]
  <2>1. /\ length' = length - new /\ bodies' = bodies /\ fault' = fault /\ scan' = scan
        /\ pc' = IF bodies = <<>> THEN "idle" ELSE "body"
        /\ offset' = length'
    BY <1>4 DEF Leave
  <2>2. /\ buffer' \in [Addresses -> 0 .. Total]
        /\ \A i \in Addresses : i < rest \/ bodies # <<>> => buffer'[i] = buffer[i]
    BY <1>3, <1>4, ForgetFacts
  <2>3. ASSUME NEW i \in 0 .. (length - new - 1) PROVE buffer'[i] = buffer[new + i]
    <3>1. new = 0 /\ i < rest /\ i \in Addresses /\ new + i = i
      BY <1>1, <1>4, <2>3 DEF Addresses
    <3> QED
      BY <2>2, <3>1
  <2> QED
    BY <2>1, <2>2, <2>3
<1>5. ASSUME Advance(new), new > 0
      PROVE  /\ length' = length - new /\ bodies' = bodies /\ fault' = fault /\ scan' = 0
             /\ pc' = "process" /\ offset' = length'
             /\ buffer' \in [Addresses -> 0 .. Total]
             /\ \A i \in 0 .. (length - new - 1) : buffer'[i] = buffer[new + i]
             /\ bodies # <<>> => \A i \in Addresses : length <= i => buffer'[i] = buffer[i]
  <2> DEFINE n == length - new
  <2>1. /\ length' = n /\ bodies' = bodies /\ fault' = fault /\ scan' = 0
        /\ pc' = "process" /\ offset' = n /\ buffer' = Memmove(0, new, n) /\ new < length
    BY <1>5 DEF Advance, Again
  <2>2. n \in Nat /\ 0 + n <= BufferLength /\ new + n <= BufferLength /\ n <= length
    BY <1>1
  <2>3. n = length - new
    OBVIOUS
  <2> HIDE DEF n
  <2>4. /\ buffer' \in [Addresses -> 0 .. Total]
        /\ \A i \in 0 .. (n - 1) : 0 + i \in Addresses /\ buffer'[0 + i] = buffer[new + i]
        /\ \A i \in Addresses : i < 0 \/ 0 + n <= i => buffer'[i] = buffer[i]
    <3>1. /\ Memmove(0, new, n) \in [Addresses -> 0 .. Total]
          /\ \A i \in 0 .. (n - 1) :
               0 + i \in Addresses /\ Memmove(0, new, n)[0 + i] = buffer[new + i]
          /\ \A i \in Addresses : i < 0 \/ 0 + n <= i => Memmove(0, new, n)[i] = buffer[i]
      <4>1. 0 \in Nat /\ new \in Nat
        BY <1>1
      <4> QED
        BY <1>3, <2>2, <4>1, MemmoveFacts, Zenon
    <3> QED
      BY <2>1, <3>1, Zenon
  <2>5. ASSUME NEW i \in Addresses, length <= i PROVE buffer'[i] = buffer[i]
    <3>1. 0 + n <= i
      BY <1>1, <2>2, <2>5 DEF Addresses
    <3> QED
      BY <2>4, <3>1
  <2>6. ASSUME NEW i \in 0 .. (n - 1) PROVE buffer'[i] = buffer[new + i]
    <3>1. 0 + i = i
      BY <2>2
    <3> QED
      BY <2>4, <3>1
  <2> QED
    BY <2>1, <2>3, <2>4, <2>5, <2>6
<1>6. /\ length' = length - new /\ bodies' = bodies /\ fault' = fault
      /\ pc' \in {"idle", "body", "process"}
      /\ pc' = "process" => scan' = 0
      /\ scan' \in 0 .. BufferLength
      /\ 0 < new /\ new < length => pc' = "process"
      /\ pc' = "idle" => bodies = <<>>
      /\ pc' = "body" => bodies # <<>>
      /\ offset' = length'
      /\ buffer' \in [Addresses -> 0 .. Total]
      /\ \A i \in 0 .. (length - new - 1) : buffer'[i] = buffer[new + i]
      /\ bodies # <<>> => \A i \in Addresses : length <= i => buffer'[i] = buffer[i]
  <2>1. CASE new = 0 /\ Break
    <3>1. Leave(length) /\ buffer' = Forget(buffer, length) /\ length = length - new
      BY <1>1, <2>1 DEF Break
    <3>2. ~(0 < new)
      BY <2>1
    <3> QED
      BY <1>1, <1>4, <2>1, <3>1, <3>2
  <2>2. CASE new > 0 /\ new = length /\ Leave(0) /\ buffer' = Forget(buffer, 0)
    <3>1. 0 = length - new /\ 0 \in Nat /\ ~(new < length)
      BY <1>1, <2>2
    <3> QED
      BY <1>1, <1>4, <2>2, <3>1
  <2>3. CASE new > 0 /\ Advance(new)
    <3>1. 0 \in 0 .. BufferLength
      BY <1>1
    <3> QED
      BY <1>5, <2>3, <3>1
  <2>4. ~(new > length)
    BY <1>1
  <2> QED
    BY <2>1, <2>2, <2>3, <2>4 DEF Return, BeyondData
<1>7. length' \in 0 .. BufferLength /\ offset' \in 0 .. BufferLength /\ length' <= length
  BY <1>1, <1>6
<1>8. Passed' = Passed
  BY <1>6 DEF Passed, Bytes
<1>9. Base' = Base + new
  <2>1. Base' = Passed' - length' /\ length' = length - new
    BY <1>6 DEF Base
  <2> QED
    BY <1>1, <1>8, <2>1
<1>10. Len(bodies) = 1 =>
         /\ bodies[1].at \in Nat /\ bodies[1].length \in Nat
         /\ length <= bodies[1].at /\ bodies[1].at + bodies[1].length <= BufferLength
         /\ Lies(bodies[1].at, bodies[1].length, Passed)
  <2>1. ASSUME Len(bodies) = 1 PROVE 1 \in 1 .. Len(bodies) /\ bodies # <<>>
    BY <2>1
  <2> QED
    BY <2>1, BodyFacts DEF IInv, Shape, BufferExact
<1>11. Shape'
  <2>1. ASSUME NEW k \in 1 .. Len(bodies)
        PROVE  length' <= bodies[k].at /\ bodies[k].at + bodies[k].length <= BufferLength
    <3>1. k = 1 /\ Len(bodies) = 1
      <4>1. k \in Nat /\ 1 <= k /\ k <= Len(bodies)
        BY <1>1
      <4>2. Len(bodies) = 0 \/ Len(bodies) = 1
        BY <1>2
      <4>3. Len(bodies) # 0
        <5> DEFINE l == Len(bodies)
        <5>1. 1 <= k /\ k <= l /\ k \in Nat
          BY <4>1
        <5> HIDE DEF l
        <5>2. l # 0
          BY <5>1
        <5> QED
          BY <5>2 DEF l
      <4>4. Len(bodies) = 1
        BY <4>2, <4>3
      <4>5. k <= 1
        BY <4>1, <4>4
      <4> QED
        BY <4>1, <4>4, <4>5
    <3> QED
      BY <1>1, <1>6, <1>10, <3>1
  <2>2. /\ bodies = <<>> => Len(bodies) = 0
        /\ bodies # <<>> => Len(bodies) = 1
    BY <1>1, <1>2
  <2> QED
    BY <1>2, <1>6, <2>1, <2>2 DEF Shape
<1>12. BufferExact'
  <2>1. Lies(0, length, Base)'
    <3>1. ASSUME NEW i \in 0 .. (length' - 1) PROVE buffer'[0 + i] = Base' + i + 1
      <4>1. /\ i \in 0 .. (length - new - 1) /\ 0 + i = i /\ i \in Nat
            /\ new + i \in 0 .. (length - 1) /\ 0 + (new + i) = new + i
        BY <1>1, <1>6
      <4>2. buffer'[i] = buffer[new + i]
        BY <1>6, <4>1
      <4>3. buffer[0 + (new + i)] = Base + (new + i) + 1
        BY <4>1 DEF IInv, BufferExact, Lies
      <4>4. Base + (new + i) + 1 = Base' + i + 1
        BY <1>1, <1>9, <4>1
      <4> QED
        BY <4>1, <4>2, <4>3, <4>4
    <3> QED
      BY <3>1 DEF Lies
  <2>2. (bodies # <<>> => Lies(bodies[1].at, bodies[1].length, Passed))'
    <3> SUFFICES ASSUME bodies # <<>> PROVE Lies(bodies[1].at, bodies[1].length, Passed)'
      BY <1>6
    <3> DEFINE a == bodies[1].at
               l == bodies[1].length
    <3>1. Len(bodies) = 1
      BY <1>1, <1>2
    <3>2. /\ a \in Nat /\ l \in Nat /\ length <= a /\ a + l <= BufferLength
          /\ Lies(a, l, Passed)
      BY <1>10, <3>1
    <3>3. bodies'[1].at = a /\ bodies'[1].length = l
      BY <1>6
    <3> HIDE DEF a, l
    <3>4. ASSUME NEW i \in 0 .. (l - 1) PROVE buffer'[a + i] = Passed + i + 1
      <4>1. a + i \in Addresses /\ length <= a + i
        BY <1>1, <3>2 DEF Addresses
      <4>2. buffer'[a + i] = buffer[a + i]
        BY <1>6, <4>1
      <4>3. buffer[a + i] = Passed + i + 1
        BY <3>2 DEF Lies
      <4> QED
        BY <4>2, <4>3
    <3> QED
      BY <1>8, <3>3, <3>4 DEF Lies
  <2>3. Len(bodies') # 2
    <3>1. Len(bodies) # 2
      BY <1>2
    <3> QED
      BY <3>1, <1>6
  <2> QED
    BY <1>6, <2>1, <2>2, <2>3 DEF BufferExact
<1> QED
  BY <1>6, <1>7, <1>9, <1>11, <1>12 DEF Up

-----------------------------------------------------------------------------
(* The steps of process_data.                                              *)

\* Where the element after k begins.
LEMMA PositionFacts ==
  ASSUME TypeOK, NEW k \in DOMAIN movie
  PROVE  /\ Position(k) = movie[k].at
         /\ Position(k + 1) = movie[k].at + movie[k].size
<1>1. k \in Nat /\ 1 <= k /\ k <= Len(movie) /\ Len(movie) \in Nat
  BY MovieFacts
<1>2. CASE k < Len(movie)
  <2>1. k + 1 \in DOMAIN movie
    BY <1>1, <1>2, MovieFacts
  <2> QED
    BY <1>1, <1>2, <2>1, MovieFacts DEF Position
<1>3. CASE k = Len(movie)
  <2>1. k + 1 \notin DOMAIN movie
    BY <1>1, <1>3, MovieFacts
  <2>2. Total = movie[k].at + movie[k].size
    BY <1>3, TotalFacts
  <2> QED
    BY <2>1, <2>2 DEF Position
<1> QED
  BY <1>1, <1>2, <1>3

\* A step that ends the process leaves nothing to be shown but what is past.
LEMMA DiesHolds ==
  ASSUME IInv, NEW how \in {"thrown", "exited", "overrun", "wrapped"}, Dies(how),
         how = "overrun" =>
           length < movie[1].head \/ EbmlTooLong \/ Of("segment").size < SegmentLength,
         UNCHANGED <<movie, arrived, running, state, parser, handled, header>>
  PROVE  IInv'
<1>1. fault' = how /\ UNCHANGED <<buffer, offset, length, bodies, scan, pc>>
  BY DEF Dies
<1>2. TypeOK'
  BY <1>1 DEF IInv, TypeOK, Total, End
<1>3. ~Up'
  BY <1>1 DEF Up
<1>4. Shape' /\ BufferExact' /\ NothingWaits'
  BY <1>1, <1>3 DEF IInv, Shape, BufferExact, NothingWaits
<1>5. Progress'
  BY <1>1, <1>3 DEF IInv, Progress, NextElement
<1>6. HeaderFits'
  BY <1>1, <1>3 DEF IInv, HeaderFits, EbmlTooLong, Of, First
<1> QED
  BY <1>2, <1>4, <1>5, <1>6 DEF IInv

\* An offset beyond the data ends it.
LEMMA BeyondHolds ==
  ASSUME IInv, NEW new \in Nat, new > length, Return(new),
         UNCHANGED <<movie, arrived, running, state, parser, handled, header>>
  PROVE  IInv'
<1>1. length \in Nat
  BY Numbers
<1>2. new # 0 /\ new # length /\ ~(new < length)
  BY <1>1
<1>3. BeyondData(new)
  BY <1>2 DEF Return, Advance
<1>4. PICK how \in {"thrown", "wrapped"} : Dies(how)
  BY <1>3 DEF BeyondData
<1> QED
  BY <1>4, DiesHolds

\* An offset within the data, at which the next element begins.
LEMMA ReturnHolds ==
  ASSUME IInv, Up, pc = "process", NEW new \in 0 .. length, Return(new),
         UNCHANGED <<movie, arrived, running, parser, handled>>,
         state' \in {"HeaderDetectionState", "StreamingState"}, header' \in Nat,
         state' = "HeaderDetectionState" => handled = <<>> /\ Base + new = 0,
         state' = "StreamingState" => Base + new = Position(NextElement),
         NothingWaits', HeaderFits'
  PROVE  IInv'
<1>1. /\ Up' /\ length' = length - new /\ Base' = Base + new
      /\ bodies' = bodies /\ fault' = fault
      /\ buffer' \in [Addresses -> 0 .. Total]
      /\ offset' \in 0 .. BufferLength /\ length' \in 0 .. BufferLength
      /\ scan' \in 0 .. BufferLength
      /\ pc' \in {"idle", "body", "process"}
      /\ pc' = "process" => scan' = 0
      /\ Shape' /\ BufferExact'
  BY ReturnFacts
<1>2. Total' = Total /\ \A k : Position(k)' = Position(k)
  BY DEF Total, End, Position
<1>3. TypeOK'
  BY <1>1, <1>2 DEF IInv, TypeOK
<1>4. NextElement' = NextElement /\ Base + new \in Int
  BY Numbers DEF NextElement
<1>5. Base' + (IF pc' = "process" THEN scan' ELSE 0) = Base + new
  BY <1>1, <1>4
<1>6. Progress'
  BY <1>1, <1>2, <1>4, <1>5 DEF IInv, Progress
<1> QED
  BY <1>1, <1>3, <1>6 DEF IInv

\* The Segment begins the stream: what follows it is the third element.
LEMMA DetectHeaderHolds ==
  ASSUME IInv, DetectHeader
  PROVE  IInv'
<1> DEFINE new == End(movie[2])
<1>1. /\ Up /\ pc = "process" /\ state = "HeaderDetectionState" /\ Found /\ CopiesFit
      /\ state' = "StreamingState"
      /\ header' = Copied
      /\ UNCHANGED <<movie, arrived, running, parser, handled>>
  BY DEF DetectHeader, Detecting
<1>2. TypeOK
  BY DEF IInv
<1>3. Return(new)
  BY <1>2, SegmentIsSecond DEF DetectHeader
<1>4. /\ HeaderEnd \in Nat /\ new \in Nat /\ 0 < new /\ new = movie[3].at
      /\ new <= HeaderEnd
  BY <1>2, HeaderEndFacts
<1>5. HeaderEnd < length /\ length \in Nat /\ length <= BufferLength /\ BufferLength \in Nat
  BY <1>1, Numbers DEF Found
<1>6. movie[1].head <= length
  <2>1. /\ 1 \in DOMAIN movie /\ movie[1].head \in Nat /\ movie[1].size \in Nat
        /\ movie[1].head <= movie[1].size
    BY <1>2, MovieFacts
  <2>2. /\ movie[2].size \in Nat /\ Of("info").size \in Nat /\ Of("tracks").size \in Nat
        /\ movie[1].size + movie[2].size + Of("info").size + Of("tracks").size <= HeaderEnd
    BY <1>2, HeaderEndFacts
  <2>3. movie[1].size <= HeaderEnd
    BY <1>4, <2>1, <2>2
  <2> QED
    BY <1>4, <1>5, <2>1, <2>3
<1> HIDE DEF new
<1>7. new \in 0 .. length /\ new < length
  BY <1>4, <1>5
<1>8. header' \in Nat /\ header' <= BufferLength /\ ~EbmlTooLong
  BY <1>1, <1>2, <1>6, CopiedFacts DEF CopiesFit
<1>9. HeaderFits'
  <2>1. Up' /\ EbmlTooLong' = EbmlTooLong
    BY <1>1, <1>3, <1>7, ReturnFacts DEF EbmlTooLong
  <2> QED
    BY <1>8, <2>1 DEF HeaderFits, Up
<1>10. pc' = "process"
  BY <1>1, <1>3, <1>4, <1>7, ReturnFacts
<1>11. NothingWaits'
  BY <1>10 DEF NothingWaits
<1>12. Base = 0 /\ handled = <<>> /\ NextElement = 3
  <2>1. Base = 0 /\ handled = <<>>
    BY <1>1 DEF IInv, Progress
  <2> QED
    BY <2>1 DEF NextElement
<1>13. Base + new = Position(NextElement)
  <2>1. 3 \in DOMAIN movie
    BY <1>2, MovieFacts
  <2> QED
    BY <1>2, <1>4, <1>12, <2>1, PositionFacts
<1> QED
  BY <1>1, <1>3, <1>7, <1>8, <1>9, <1>11, <1>13, ReturnHolds

\* Until the header is complete, all data are kept.
LEMMA NoHeaderYetHolds ==
  ASSUME IInv, NoHeaderYet
  PROVE  IInv'
<1>1. /\ Up /\ pc = "process" /\ state = "HeaderDetectionState" /\ ~Found /\ Return(0)
      /\ CopiesFit
      /\ UNCHANGED <<movie, arrived, running, parser, handled, state, header>>
  BY DEF NoHeaderYet, Detecting
<1>2. /\ length \in Nat /\ 0 \in 0 .. length /\ HeaderEnd \in Nat
      /\ Base = 0 /\ handled = <<>> /\ Base + 0 = 0
  BY <1>1, Numbers, HeaderEndFacts DEF IInv, Progress
<1>3. length' = length - 0
  BY <1>1, <1>2, ReturnFacts
<1>4. HeaderEnd' = HeaderEnd /\ length' <= HeaderEnd
  <2>1. HeaderEnd' = HeaderEnd
    BY <1>1 DEF HeaderEnd, Of, First, End
  <2>2. length <= HeaderEnd
    BY <1>1, <1>2 DEF Found
  <2> QED
    BY <1>2, <1>3, <2>1, <2>2
<1>5. NothingWaits'
  BY <1>1, <1>4 DEF NothingWaits
<1>6. header' \in Nat /\ TypeOK
  BY <1>1 DEF IInv, TypeOK
<1>7. HeaderFits'
  <2>1. Up' /\ length' = length /\ EbmlTooLong' = EbmlTooLong
    BY <1>1, <1>2, <1>3, ReturnFacts DEF EbmlTooLong
  <2>2. EbmlTooLong => length < movie[1].head
    <3>1. 1 \in DOMAIN movie /\ movie[1].head \in Nat
      BY <1>6, MovieFacts
    <3>2. EbmlTooLong => ~(movie[1].head <= length)
      BY <1>1, <1>6, CopiedFacts DEF CopiesFit
    <3> QED
      BY <1>2, <3>1, <3>2
  <2> QED
    BY <1>1, <2>1, <2>2 DEF IInv, HeaderFits, Up
<1> QED
  BY <1>1, <1>2, <1>5, <1>6, <1>7, ReturnHolds

\* Copies that do not fit are the end.
LEMMA HeaderOverrunsHolds ==
  ASSUME IInv, HeaderOverruns
  PROVE  IInv'
<1>1. TypeOK
  BY DEF IInv
<1>2. EbmlTooLong \/ Of("segment").size < SegmentLength
  BY <1>1, CopiedFacts DEF HeaderOverruns, CopiesFit
<1> QED
  BY <1>2, DiesHolds DEF HeaderOverruns, Detecting

\* Data whose first bytes are those of element i begin with the next element,
\* since the bytes of an element are nowhere else.
LEMMA DecodedIsNext ==
  ASSUME IInv, Up, pc = "process", state = "StreamingState", scan < length,
         NEW i \in DOMAIN movie, Decodes(i)
  PROVE  /\ i = NextElement /\ i = Len(handled) + 3
         /\ Base + scan = movie[i].at /\ Base + scan \in Int
<1>1. /\ Base \in Int /\ Base + length = Passed /\ Passed \in Int
      /\ length \in Nat /\ scan \in Nat /\ Passed <= arrived /\ arrived <= Total
      /\ arrived \in Nat /\ Total \in Nat
  BY Numbers
<1>2. Base + scan = Position(NextElement) /\ NextElement <= Len(movie) + 1
  BY DEF IInv, Progress
<1>3. TypeOK
  BY DEF IInv
<1>4. NextElement \in Nat /\ NextElement >= 3 /\ Len(movie) \in Nat
  <2>1. Len(handled) \in Nat
    BY DEF IInv, TypeOK
  <2> QED
    BY <1>3, <2>1, MovieFacts DEF NextElement
<1>5. NextElement \in DOMAIN movie
  <2>1. Base + scan < Total
    BY <1>1
  <2>2. Position(NextElement) # Total
    BY <1>1, <1>2, <2>1
  <2> QED
    BY <2>2 DEF Position
<1>6. Base + scan = movie[NextElement].at
  BY <1>2, <1>3, <1>5, PositionFacts
<1>7. buffer[scan + 0] = movie[i].at + 0 + 1
  <2>1. movie[i].head \in Nat /\ 0 < movie[i].head
    BY <1>3, MovieFacts
  <2>2. 0 \in 0 .. (movie[i].head - 1) /\ scan + 0 < length
    BY <1>1, <2>1
  <2> QED
    BY <2>2 DEF Decodes
<1>8. buffer[0 + scan] = Base + scan + 1
  <2>1. scan \in 0 .. (length - 1)
    BY <1>1
  <2> QED
    BY <2>1 DEF IInv, BufferExact, Lies
<1>9. movie[i].at = movie[NextElement].at
  <2>1. scan + 0 = 0 + scan /\ movie[i].at \in Nat /\ movie[NextElement].at \in Nat
    BY <1>1, <1>3, <1>5, MovieFacts
  <2>2. movie[i].at + 0 + 1 = Base + scan + 1
    BY <1>7, <1>8, <2>1
  <2> QED
    BY <1>1, <1>6, <2>1, <2>2
<1>10. ~(i < NextElement) /\ ~(NextElement < i)
  <2>1. movie[i].at \in Nat /\ movie[NextElement].at \in Nat
    BY <1>3, <1>5, MovieFacts
  <2>2. ASSUME i < NextElement PROVE FALSE
    BY <1>3, <1>5, <1>9, <2>1, <2>2, InOrder
  <2>3. ASSUME NextElement < i PROVE FALSE
    BY <1>3, <1>5, <1>9, <2>1, <2>3, InOrder
  <2> QED
    BY <2>2, <2>3
<1>11. i = NextElement
  <2>1. i \in Nat
    BY <1>3, MovieFacts
  <2> QED
    BY <1>4, <1>10, <2>1
<1> QED
  BY <1>1, <1>6, <1>11 DEF NextElement

\* A complete element is the next one, and the one behind it comes next.
LEMMA ConsumeHolds ==
  ASSUME IInv, NEW i \in DOMAIN movie, Consume(i)
  PROVE  IInv'
<1>1. /\ Up /\ pc = "process" /\ state = "StreamingState" /\ scan < length
      /\ Decodes(i) /\ Loaded(i)
      /\ scan' = scan + movie[i].size /\ handled' = Append(handled, i)
      /\ UNCHANGED <<movie, arrived, running, parser, state, header>>
      /\ UNCHANGED <<buffer, offset, length, bodies, pc, fault>>
  BY DEF Consume, Streaming
<1>2. /\ i = NextElement /\ i = Len(handled) + 3 /\ Base + scan = movie[i].at
  BY <1>1, DecodedIsNext
<1>3. TypeOK /\ handled \in Seq(DOMAIN movie) /\ Len(handled) \in Nat
  BY DEF IInv, TypeOK
<1>4. movie[i].size \in Nat /\ movie[i].at \in Nat /\ i \in Nat /\ i <= Len(movie) /\ Len(movie) \in Nat
  BY <1>3, MovieFacts
<1>5. Base \in Int /\ length \in Nat /\ scan \in Nat /\ length <= BufferLength /\ BufferLength \in Nat
  BY Numbers
<1>6. scan' \in 0 .. BufferLength
  BY <1>1, <1>4, <1>5 DEF Loaded
<1>7. /\ handled' \in Seq(DOMAIN movie) /\ Len(handled') = Len(handled) + 1
      /\ DOMAIN handled' = 1 .. (Len(handled) + 1)
      /\ handled'[Len(handled) + 1] = i
      /\ \A k \in DOMAIN handled : k # Len(handled) + 1 /\ handled'[k] = handled[k]
      /\ DOMAIN handled = 1 .. Len(handled)
  BY <1>1, <1>3
<1>8. Total' = Total /\ \A k : Position(k)' = Position(k)
  BY <1>1 DEF Total, End, Position
<1>9. TypeOK'
  BY <1>1, <1>3, <1>6, <1>7, <1>8 DEF TypeOK
<1>10. Base' = Base /\ (Up' <=> Up)
  BY <1>1 DEF Base, Passed, Bytes, Up
<1>11. NextElement' = i + 1
  BY <1>2, <1>3, <1>7 DEF NextElement
<1>12. Base' + scan' = Position(i + 1)
  <2>1. Base + (scan + movie[i].size) = movie[i].at + movie[i].size
    BY <1>2, <1>4, <1>5
  <2>2. Position(i + 1) = movie[i].at + movie[i].size
    BY <1>3, PositionFacts
  <2> QED
    BY <1>1, <1>10, <2>1, <2>2
<1>13. \A k \in DOMAIN handled' : handled'[k] = k + 2
  <2>1. ASSUME NEW k \in DOMAIN handled' PROVE handled'[k] = k + 2
    <3>1. CASE k = Len(handled) + 1
      BY <1>2, <1>3, <1>7, <3>1
    <3>2. CASE k # Len(handled) + 1
      <4>1. k \in DOMAIN handled
        BY <1>3, <1>7, <3>2
      <4> QED
        BY <1>7, <4>1 DEF IInv, Progress
    <3> QED
      BY <3>1, <3>2
  <2> QED
    BY <2>1
<1>14. Progress'
  <2>1. NextElement' <= Len(movie') + 1
    BY <1>1, <1>4, <1>11
  <2> QED
    BY <1>1, <1>8, <1>10, <1>11, <1>12, <1>13, <2>1 DEF Progress
<1>15. Shape' /\ BufferExact'
  BY <1>1, <1>10 DEF IInv, Shape, BufferExact, Lies, Passed, Bytes
<1>16. NothingWaits' /\ HeaderFits'
  BY <1>1 DEF IInv, NothingWaits, HeaderFits, EbmlTooLong, Up
<1> QED
  BY <1>9, <1>14, <1>15, <1>16 DEF IInv

\* At the end of the data nothing is left of them.
LEMMA ReachEndHolds ==
  ASSUME IInv, ReachEnd
  PROVE  IInv'
<1>1. /\ Up /\ pc = "process" /\ state = "StreamingState" /\ scan = length /\ Return(scan)
      /\ UNCHANGED <<movie, arrived, running, parser, state, header, handled>>
  BY DEF ReachEnd, Streaming
<1>2. TypeOK /\ length \in Nat /\ scan \in 0 .. length
  BY <1>1, Numbers DEF IInv
<1>3. length' = length - scan
  BY <1>1, <1>2, ReturnFacts
<1>4. Base + scan = Position(NextElement)
  BY <1>1 DEF IInv, Progress
<1>5. NothingWaits'
  <2>1. length' = 0
    BY <1>1, <1>2, <1>3
  <2>2. NextElement' = NextElement /\ NextElement \in Nat /\ NextElement >= 3
    BY <1>1 DEF NextElement, IInv, TypeOK
  <2>3. NextElement <= Len(movie) => 0 < movie[NextElement].size
    <3>1. ASSUME NextElement <= Len(movie) PROVE NextElement \in DOMAIN movie
      BY <1>2, <2>2, <3>1, MovieFacts
    <3>2. \A k \in DOMAIN movie : 0 < movie[k].size
      BY <1>2, MovieFacts
    <3> QED
      BY <3>1, <3>2
  <2> QED
    BY <1>1, <2>1, <2>2, <2>3 DEF NothingWaits
<1>6. HeaderFits' /\ header' \in Nat
  <2>1. Up'
    BY <1>1, <1>2, ReturnFacts
  <2> QED
    BY <1>1, <2>1 DEF IInv, TypeOK, HeaderFits, EbmlTooLong, Up
<1> QED
  BY <1>1, <1>2, <1>4, <1>5, <1>6, ReturnHolds

\* What is held back is the beginning of the next element.
LEMMA HoldBackHolds ==
  ASSUME IInv, NEW i \in DOMAIN movie, HoldBack(i)
  PROVE  IInv'
<1>1. /\ Up /\ pc = "process" /\ state = "StreamingState" /\ scan < length /\ Return(scan)
      /\ Decodes(i) /\ ~Loaded(i)
      /\ UNCHANGED <<movie, arrived, running, parser, state, header, handled>>
  BY DEF HoldBack, Streaming
<1>2. i = NextElement
  BY <1>1, DecodedIsNext
<1>3. TypeOK /\ length \in Nat /\ scan \in Nat /\ scan \in 0 .. length
  BY <1>1, Numbers DEF IInv
<1>4. length' = length - scan
  BY <1>1, <1>3, ReturnFacts
<1>5. Base + scan = Position(NextElement)
  BY <1>1 DEF IInv, Progress
<1>6. NothingWaits'
  <2>1. movie[i].size \in Nat
    BY <1>3, MovieFacts
  <2>2. length' < movie[i].size
    BY <1>1, <1>3, <1>4, <2>1 DEF Loaded
  <2>3. NextElement' = NextElement
    BY <1>1 DEF NextElement
  <2> QED
    BY <1>1, <1>2, <2>2, <2>3 DEF NothingWaits
<1>7. HeaderFits' /\ header' \in Nat
  <2>1. Up'
    BY <1>1, <1>3, ReturnFacts
  <2> QED
    BY <1>1, <2>1 DEF IInv, TypeOK, HeaderFits, EbmlTooLong, Up
<1> QED
  BY <1>1, <1>3, <1>5, <1>6, <1>7, ReturnHolds

\* Heads that are not complete.
LEMMA TornHolds ==
  ASSUME IInv, NEW i \in DOMAIN movie, HeaderTorn \/ HeadTorn(i) \/ ClusterTorn(i)
  PROVE  IInv'
<1>1. CASE HeaderTorn
  <2>1. PICK how \in {"exited", "thrown", "overrun"} :
          Dies(how) /\ (how = "overrun" => length < movie[1].head)
    BY <1>1 DEF HeaderTorn
  <2> QED
    BY <1>1, <2>1, DiesHolds DEF HeaderTorn, Detecting
<1>2. CASE HeadTorn(i)
  BY <1>2, DiesHolds DEF HeadTorn, Streaming
<1>3. CASE ClusterTorn(i)
  <2>1. PICK new \in (length + 1) .. (scan + HeadLengthMax) : Return(new)
    BY <1>3 DEF ClusterTorn
  <2>2. new \in Nat /\ new > length
    BY Numbers, BufferAssumption
  <2> QED
    BY <1>3, <2>1, <2>2, BeyondHolds DEF ClusterTorn, Streaming
<1> QED
  BY <1>1, <1>2, <1>3

-----------------------------------------------------------------------------
(* The theorems.                                                           *)

LEMMA NextHolds == IInv /\ [Next]_vars => IInv'
<1> SUFFICES ASSUME IInv, [Next]_vars PROVE IInv'
  OBVIOUS
<1>1. CASE UNCHANGED vars
  <2>1. UNCHANGED <<movie, arrived, buffer, offset, length, running, state, parser, pc,
                    bodies, scan, handled, header, fault>>
    BY <1>1 DEF vars
  <2> QED
    BY <2>1 DEF IInv, TypeOK, Shape, BufferExact, Lies, Base, Passed, Bytes,
                Progress, NextElement, Position, Total, End, Up, NothingWaits,
                HeaderEnd, HeaderFits, EbmlTooLong, Of, First
<1>2. CASE \E before, between \in 0 .. OverheadMax :
             \E first \in 1 .. BufferLength, second \in 0 .. BufferLength :
               Read(before, first, between, second)
  BY <1>2, ReadHolds
<1>3. CASE EmptyRead \/ Close
  BY <1>3, QuietHolds
<1>4. CASE Step
  <2>1. CASE OnBody
    BY <2>1, OnBodyHolds
  <2>2. CASE DetectHeader
    BY <2>2, DetectHeaderHolds
  <2>3. CASE NoHeaderYet
    BY <2>3, NoHeaderYetHolds
  <2>4. CASE HeaderOverruns
    BY <2>4, HeaderOverrunsHolds
  <2>5. CASE HeaderTorn
    <3>1. 1 \in DOMAIN movie
      BY MovieFacts DEF IInv
    <3> QED
      BY <2>5, <3>1, TornHolds
  <2>6. CASE ReachEnd
    BY <2>6, ReachEndHolds
  <2>7. ASSUME NEW i \in DOMAIN movie,
               Consume(i) \/ HoldBack(i) \/ HeadTorn(i) \/ ClusterTorn(i)
        PROVE  IInv'
    BY <2>7, ConsumeHolds, HoldBackHolds, TornHolds
  <2> QED
    BY <1>4, <2>1, <2>2, <2>3, <2>4, <2>5, <2>6, <2>7 DEF Step
<1> QED
  BY <1>1, <1>2, <1>3, <1>4 DEF Next

(* The inductive invariant: where the pieces of a read lie, what the       *)
(* buffer holds, and that the next element begins where process_data is.   *)
THEOREM Inductive == Spec => []IInv
BY InitHolds, NextHolds, PTL DEF Spec

(* StreamInput, its buffer and the scan of process_data keep their types:  *)
(* in particular no offset or length leaves the buffer.                    *)
THEOREM TypeCorrect == Spec => []TypeOK
<1>1. IInv => TypeOK
  BY DEF IInv
<1> QED
  BY <1>1, Inductive, PTL

(* For buffers of every length, on_body's two memmoves keep the data the   *)
(* latest bytes of the movie, and no piece of a read is overwritten.       *)
THEOREM BufferIsExact == Spec => []BufferExact
<1>1. IInv => BufferExact
  BY DEF IInv
<1> QED
  BY <1>1, Inductive, PTL

(* StreamingState consumes the elements of every movie in order, each once *)
(* and each from its first byte, however the reads cut it.                 *)
THEOREM InOrderOnce == Spec => []OneByOne
<1>1. IInv => OneByOne
  <2> SUFFICES ASSUME IInv PROVE OneByOne
    OBVIOUS
  <2>1. ASSUME NextElement <= Len(movie)
        PROVE  Position(NextElement) = movie[NextElement].at
    <3>1. TypeOK /\ Len(handled) \in Nat
      BY DEF IInv, TypeOK
    <3>2. NextElement \in DOMAIN movie
      BY <2>1, <3>1, MovieFacts DEF NextElement
    <3> QED
      BY <3>1, <3>2, PositionFacts
  <2> QED
    BY <2>1 DEF IInv, Progress, OneByOne
<1> QED
  BY <1>1, Inductive, PTL

(* When on_read returns, no complete element is left in the buffer.        *)
THEOREM NothingLeft == Spec => []NothingWaits
<1>1. IInv => NothingWaits
  BY DEF IInv
<1> QED
  BY <1>1, Inductive, PTL

(* The buffer only fills up, and the connection only stalls, for a header  *)
(* or an element that is longer than the buffer.                           *)
THEOREM FullIfOversize == Spec => []FullOnlyIfOversize
<1>1. IInv => FullOnlyIfOversize
  <2> SUFFICES ASSUME IInv, Up, pc = "idle", Room = 0
               PROVE  IF state = "HeaderDetectionState"
                        THEN HeaderEnd >= BufferLength
                        ELSE movie[NextElement].size > BufferLength
    BY DEF FullOnlyIfOversize
  <2>1. /\ Base \in Int /\ Base + length = Passed /\ Passed \in Int
        /\ length \in Nat /\ offset \in Nat /\ BufferLength \in Nat
        /\ Passed <= arrived /\ arrived <= Total /\ arrived \in Nat /\ Total \in Nat
    BY Numbers
  <2>2. offset = length
    BY DEF IInv, BufferExact
  <2>3. length = BufferLength /\ 0 < length
    BY <2>1, <2>2, BufferAssumption DEF Room
  <2>4. TypeOK
    BY DEF IInv
  <2>5. CASE state = "HeaderDetectionState"
    <3>1. length <= HeaderEnd
      BY <2>5 DEF IInv, NothingWaits
    <3> QED
      BY <2>3, <2>5, <3>1
  <2>6. CASE state # "HeaderDetectionState"
    <3>1. Base + 0 = Position(NextElement)
      BY <2>4, <2>6 DEF IInv, TypeOK, Progress
    <3>2. NextElement \in DOMAIN movie
      <4>1. Base + 0 < Total
        BY <2>1, <2>3
      <4>2. Position(NextElement) # Total
        BY <2>1, <3>1, <4>1
      <4> QED
        BY <4>2 DEF Position
    <3>3. NextElement <= Len(movie)
      BY <2>4, <3>2, MovieFacts
    <3>4. length < movie[NextElement].size
      BY <2>6, <3>3 DEF IInv, NothingWaits
    <3>5. movie[NextElement].size \in Nat
      BY <2>4, <3>2, MovieFacts
    <3> QED
      BY <2>3, <2>6, <3>4, <3>5, <2>1
  <2> QED
    BY <2>5, <2>6
<1> QED
  BY <1>1, Inductive, PTL

(* For buffers of every length and every movie: what process_data copies   *)
(* into header_buffer stays in it unless the head of the EBML element was  *)
(* torn, the Segment put in is longer than the input's, or the EBML        *)
(* element leaves no room for it, which no process survives.               *)
THEOREM HeaderHasRoom == Spec => []HeaderFits
<1>1. IInv => HeaderFits
  BY DEF IInv
<1> QED
  BY <1>1, Inductive, PTL
================================================================================
