------------------------- MODULE MjpegParser_proofs -------------------------
(***************************************************************************)
(* The parser of capture_loop cuts every stream, read in whatever chunks,  *)
(* into the same frames, within bounded memory.                            *)
(*                                                                         *)
(* The inductive invariant says where pending lies: it is the end of the   *)
(* stream (Suffix), it begins behind the last frame (Placed), and what was *)
(* dropped in between holds no start marker (Gap).  Placed also says that  *)
(* an empty buffer begins right behind a frame or a clear(); otherwise a   *)
(* start marker could arrive that has its first byte in the gap.           *)
(***************************************************************************)
EXTENDS MjpegParser, SequenceTheorems, WellFoundedInduction, TLAPS

USE DEF Bytes, Interval

NatLess == {ss \in Nat \X Nat : ss[1] < ss[2]}

\* What find_marker returns is the first marker, if there is any.
LEMMA LeastIsLeast ==
  ASSUME NEW S, S \subseteq Nat, S # {}
  PROVE  Least(S) \in S /\ \A j \in S : Least(S) <= j
<1>1. IsWellFoundedOn(NatLess, Nat)
  BY NatLessThanWellFounded, Zenon DEF OpToRel, NatLess
<1>2. PICK x \in S : \A y \in S : ~ (<<y, x>> \in NatLess)
  BY <1>1, WFMin
<1>3. ASSUME NEW y \in S
      PROVE  x <= y
  <2>1. x \in Nat /\ y \in Nat
    OBVIOUS
  <2>2. ~ (<<y, x>> \in NatLess)
    BY <1>2
  <2> QED
    BY <2>1, <2>2 DEF NatLess
<1> QED
  BY <1>3, Zenon DEF Least

-----------------------------------------------------------------------------
Before == Len(stream) - Len(pending)

Suffix ==
  /\ Len(pending) <= Len(stream)
  /\ \A i \in 1 .. Len(pending) : pending[i] = stream[Before + i]

Placed ==
  /\ End(Len(frames)) <= Before
  /\ Len(pending) = 0 => End(Len(frames)) = Before

Gap == \A i \in End(Len(frames)) + 1 .. Before : ~Soi(i)

FramesCut == \A k \in 1 .. Len(frames) : IsFrame(k)

Rest ==
  pc # "parse" =>
    \A i \in End(Len(frames)) + 1 .. Len(stream) :
      Soi(i) => \A j \in i + 2 .. Len(stream) : ~Eoi(j)

IInv == TypeOK /\ Suffix /\ Placed /\ Gap /\ FramesCut /\ Rest /\ BufferBounded

-----------------------------------------------------------------------------
\* Everything before the first frame, and every frame, ends somewhere.
LEMMA EndType ==
  ASSUME TypeOK, NEW k \in 0 .. Len(frames)
  PROVE  End(k) \in Nat
<1>1. CASE k = 0
  BY <1>1 DEF TypeOK, End
<1>2. CASE k # 0
  <2>1. k \in 1 .. Len(frames) /\ frames \in Seq(Interval)
    BY <1>2 DEF TypeOK
  <2>2. frames[k] \in Interval
    BY <2>1, ElementOfSeq
  <2> QED
    BY <1>2, <2>2 DEF End
<1> QED
  BY <1>1, <1>2

\* The first start marker in the buffer.
LEMMA StartFacts ==
  ASSUME TypeOK, Starts # {}
  PROVE  LET s == Least(Starts)
         IN  /\ s \in 1 .. Len(pending) - 1
             /\ pending[s] = FF /\ pending[s + 1] = D8
             /\ \A i \in 1 .. s - 1 : ~(pending[i] = FF /\ pending[i + 1] = D8)
<1>1. Starts \subseteq Nat /\ Len(pending) \in Nat
  BY DEF Starts, Markers, TypeOK
<1>2. Least(Starts) \in Starts /\ \A j \in Starts : Least(Starts) <= j
  BY <1>1, LeastIsLeast
<1>3. \A i \in Starts : i \in 1 .. Len(pending) - 1 /\ pending[i] = FF /\ pending[i + 1] = D8
  BY DEF Starts, Markers
<1>4. \A i \in 1 .. Len(pending) - 1 : pending[i] = FF /\ pending[i + 1] = D8 => i \in Starts
  BY DEF Starts, Markers
<1>5. Least(Starts) \in 1 .. Len(pending) - 1
  BY <1>2, <1>3
<1>6. ASSUME NEW i \in 1 .. Least(Starts) - 1
      PROVE  ~(pending[i] = FF /\ pending[i + 1] = D8)
  <2>1. i \notin Starts /\ i \in 1 .. Len(pending) - 1
    BY <1>1, <1>2, <1>5
  <2> QED
    BY <2>1, <1>4
<1> QED
  BY <1>2, <1>3, <1>5, <1>6

\* The first end marker behind it.
LEMMA EndFacts ==
  ASSUME TypeOK, Starts # {}, Ends # {}
  PROVE  LET s == Least(Starts)
             e == Least(Ends)
         IN  /\ e \in s + 2 .. Len(pending) - 1
             /\ pending[e] = FF /\ pending[e + 1] = D9
             /\ \A i \in s + 2 .. e - 1 : ~(pending[i] = FF /\ pending[i + 1] = D9)
<1> DEFINE s == Least(Starts)
<1>1. s \in 1 .. Len(pending) - 1 /\ Len(pending) \in Nat
  BY StartFacts DEF TypeOK
<1>2. /\ \A i \in Ends : i \in s + 2 .. Len(pending) - 1 /\ pending[i] = FF /\ pending[i + 1] = D9
      /\ \A i \in s + 2 .. Len(pending) - 1 : pending[i] = FF /\ pending[i + 1] = D9 => i \in Ends
  BY DEF Ends, Markers
<1> HIDE DEF s
<1>3. Ends \subseteq Nat
  BY <1>1, <1>2
<1>4. Least(Ends) \in Ends /\ \A j \in Ends : Least(Ends) <= j
  BY <1>3, LeastIsLeast
<1>5. ASSUME NEW i \in s + 2 .. Least(Ends) - 1
      PROVE  ~(pending[i] = FF /\ pending[i + 1] = D9)
  <2>1. Least(Ends) \in s + 2 .. Len(pending) - 1
    BY <1>2, <1>4
  <2>2. i \notin Ends /\ i \in s + 2 .. Len(pending) - 1
    BY <1>1, <1>4, <2>1
  <2> QED
    BY <2>2, <1>2
<1> QED
  BY <1>2, <1>4, <1>5 DEF s

\* Erasing the first m - 1 bytes of the buffer.
LEMMA Erase ==
  ASSUME TypeOK, Suffix, NEW m \in 1 .. Len(pending) + 1,
         stream' = stream, pending' = SubSeq(pending, m, Len(pending))
  PROVE  /\ pending' \in Seq(Bytes)
         /\ Len(pending') = Len(pending) - m + 1
         /\ Before' = Before + m - 1
         /\ Suffix'
<1>1. /\ Len(pending) \in Nat /\ Len(stream) \in Nat
      /\ \A i \in m .. Len(pending) : pending[i] \in Bytes
  BY DEF TypeOK
<1>2. /\ pending' \in Seq(Bytes)
      /\ Len(pending') = IF m <= Len(pending) THEN Len(pending) - m + 1 ELSE 0
      /\ \A i \in 1 .. Len(pending) - m + 1 : pending'[i] = pending[m + i - 1]
  <2>1. m \in Int /\ Len(pending) \in Int
    BY <1>1
  <2> QED
    BY <1>1, <2>1, SubSeqProperties
<1>3. Len(pending') = Len(pending) - m + 1
  BY <1>1, <1>2
<1>4. Before' = Before + m - 1
  BY <1>1, <1>3 DEF Before
<1>5. Before \in Nat
  BY <1>1 DEF Before, Suffix
<1>6. ASSUME NEW i \in 1 .. Len(pending')
      PROVE  pending'[i] = stream'[Before' + i]
  <2>1. i \in 1 .. Len(pending) - m + 1 /\ m + i - 1 \in 1 .. Len(pending)
    BY <1>1, <1>3
  <2>2. pending'[i] = pending[m + i - 1]
    BY <1>2, <2>1
  <2>3. pending[m + i - 1] = stream[Before + (m + i - 1)]
    BY <2>1 DEF Suffix
  <2>4. Before + (m + i - 1) = Before' + i
    BY <1>1, <1>4, <1>5
  <2> QED
    BY <2>2, <2>3, <2>4
<1> QED
  BY <1>1, <1>2, <1>3, <1>4, <1>6 DEF Suffix
\* Markers in the buffer are markers of the stream.
LEMMA InStream ==
  ASSUME TypeOK, Suffix, NEW i \in 1 .. Len(pending) - 1
  PROVE  /\ Soi(Before + i) <=> pending[i] = FF /\ pending[i + 1] = D8
         /\ Eoi(Before + i) <=> pending[i] = FF /\ pending[i + 1] = D9
<1>1. Len(pending) \in Nat /\ Len(stream) \in Nat
  BY DEF TypeOK
<1>2. Before + i < Len(stream) /\ Before + (i + 1) = (Before + i) + 1
  BY <1>1 DEF Before, Suffix
<1>3. pending[i] = stream[Before + i] /\ pending[i + 1] = stream[Before + (i + 1)]
  BY <1>1 DEF Suffix
<1> QED
  BY <1>2, <1>3 DEF Soi, Eoi

-----------------------------------------------------------------------------
(* Every step preserves the invariant. *)

\* The initial state satisfies the inductive invariant.
LEMMA InitIInv == Init => IInv
<1> SUFFICES ASSUME Init PROVE IInv
  OBVIOUS
<1>1. Len(pending) = 0 /\ Len(stream) = 0 /\ Len(frames) = 0
  BY DEF Init
<1>2. TypeOK
  BY EmptySeq DEF Init, TypeOK
<1>3. Before = 0 /\ End(Len(frames)) = 0
  BY <1>1 DEF Before, End, Init
<1> QED
  BY <1>1, <1>2, <1>3, ParserAssumption
  DEF Init, IInv, Suffix, Placed, Gap, FramesCut, Rest, BufferBounded

\* read() appends to the stream and to the buffer; markers read before stay.
LEMMA ReadStep ==
  ASSUME IInv, NEW n \in 1 .. ReadSize, NEW chunk \in [1 .. n -> Bytes], Read(chunk)
  PROVE  IInv'
<1> USE DEF Read, Inserted
<1>1. chunk \in Seq(Bytes) /\ Len(chunk) = n /\ n \in Nat
  <2>1. n \in Nat
    BY ParserAssumption
  <2>2. chunk \in Seq(Bytes)
    BY <2>1, SeqDef
  <2> QED
    BY <2>1, <2>2, LenProperties
<1>2. /\ pending' \in Seq(Bytes)
      /\ Len(pending') = Len(pending) + n
      /\ \A i \in 1 .. Len(pending) + n :
           pending'[i] = IF i <= Len(pending) THEN pending[i] ELSE chunk[i - Len(pending)]
  BY <1>1, ConcatProperties DEF IInv, TypeOK
<1>3. /\ stream' \in Seq(Bytes)
      /\ Len(stream') = Len(stream) + n
      /\ \A i \in 1 .. Len(stream) + n :
           stream'[i] = IF i <= Len(stream) THEN stream[i] ELSE chunk[i - Len(stream)]
  BY <1>1, ConcatProperties DEF IInv, TypeOK
<1>4. Len(pending) \in Nat /\ Len(stream) \in Nat /\ Len(frames) \in Nat
  BY DEF IInv, TypeOK
<1>5. Before' = Before /\ Before \in Nat
  BY <1>1, <1>2, <1>3, <1>4 DEF Before, IInv, Suffix
<1>6. TypeOK'
  BY <1>2, <1>3 DEF IInv, TypeOK
<1>7. Suffix'
  <2>1. Len(pending') <= Len(stream')
    BY <1>1, <1>2, <1>3, <1>4 DEF IInv, Suffix
  <2>2. ASSUME NEW i \in 1 .. Len(pending')
        PROVE  pending'[i] = stream'[Before + i]
    <3>1. i \in 1 .. Len(pending) + n /\ Before + i \in 1 .. Len(stream) + n
      BY <1>1, <1>2, <1>4, <1>5 DEF Before
    <3>2. i <= Len(pending) <=> Before + i <= Len(stream)
      BY <1>4, <3>1 DEF Before
    <3>3. i - Len(pending) = (Before + i) - Len(stream)
      BY <1>4, <3>1 DEF Before
    <3>4. i <= Len(pending) => pending[i] = stream[Before + i]
      BY <1>4, <3>1 DEF IInv, Suffix
    <3> QED
      BY <1>2, <1>3, <3>1, <3>2, <3>3, <3>4
  <2> QED
    BY <1>5, <2>1, <2>2 DEF Suffix
<1>8. \A k \in 0 .. Len(frames) : End(k)' = End(k) /\ End(k) \in Nat
  BY EndType DEF IInv, End
<1>9. \A i \in Nat \ {0} : i < Len(stream) =>
        (Soi(i)' <=> Soi(i)) /\ (Eoi(i)' <=> Eoi(i))
  BY <1>1, <1>3, <1>4 DEF Soi, Eoi
<1>10. Placed'
  BY <1>1, <1>2, <1>4, <1>5, <1>8 DEF IInv, Placed
<1>11. Gap'
  <2>1. ASSUME NEW i \in End(Len(frames)) + 1 .. Before
        PROVE  ~Soi(i)'
    <3>1. i \in Nat \ {0} /\ End(Len(frames)) \in Nat
      BY <1>4, <1>5, <1>8
    <3>2. Len(pending) # 0
      BY <1>4, <1>5, <3>1 DEF IInv, Placed
    <3>3. i < Len(stream)
      BY <1>4, <1>5, <3>1, <3>2 DEF Before
    <3> QED
      BY <1>9, <3>1, <3>3 DEF IInv, Gap
  <2> QED
    BY <1>4, <1>5, <1>8, <2>1 DEF Gap
<1>12. FramesCut'
  <2>1. ASSUME NEW k \in 1 .. Len(frames)
        PROVE  IsFrame(k)'
    <3> DEFINE first == frames[k].first
               last  == frames[k].last
    <3>1. frames[k] \in Interval
      BY ElementOfSeq DEF IInv, TypeOK
    <3>2. first \in Nat /\ last \in Nat /\ End(k - 1) \in Nat /\ End(k - 1)' = End(k - 1)
      BY <1>4, <1>8, <3>1
    <3>3. /\ End(k - 1) < first /\ first + 2 <= last - 1
          /\ Soi(first) /\ Eoi(last - 1)
          /\ \A i \in End(k - 1) + 1 .. first - 1 : ~Soi(i)
          /\ \A i \in first + 2 .. last - 2 : ~Eoi(i)
      BY DEF IInv, FramesCut, IsFrame
    <3>4. first' = first /\ last' = last
      OBVIOUS
    <3> HIDE DEF first, last
    <3>5. last - 1 < Len(stream)
      BY <3>3 DEF Eoi
    <3>6. Soi(first)' /\ Eoi(last - 1)'
      <4>1. PICK a, b \in Nat : a = first /\ b = last - 1
        BY <1>4, <3>2, <3>3
      <4>2. Soi(a)' /\ Eoi(b)'
        <5>1. a \in Nat \ {0} /\ a < Len(stream) /\ b \in Nat \ {0} /\ b < Len(stream)
          BY <1>4, <3>2, <3>3, <3>5, <4>1
        <5>2. Soi(a) /\ Eoi(b)
          BY <3>3, <4>1
        <5> QED
          BY <1>9, <5>1, <5>2
      <4>3. a = first' /\ b = last' - 1
        BY <3>4, <4>1
      <4> QED
        BY <4>2, <4>3, Zenon DEF Soi, Eoi
    <3>7. /\ \A i \in End(k - 1) + 1 .. first - 1 : ~Soi(i)'
          /\ \A i \in first + 2 .. last - 2 : ~Eoi(i)'
      BY <1>4, <1>9, <3>2, <3>3, <3>5
    <3> QED
      BY <3>2, <3>3, <3>4, <3>6, <3>7 DEF IsFrame, first, last
  <2> QED
    BY <1>4, <2>1 DEF FramesCut
<1>13. Rest'
  BY DEF Rest
<1>14. BufferBounded'
  <2>1. Len(pending') <= MaxBuffered + ReadSize
    BY <1>1, <1>2, <1>4, ParserAssumption DEF IInv, BufferBounded
  <2> QED
    BY <2>1 DEF IInv, BufferBounded
<1> QED
  BY <1>6, <1>7, <1>10, <1>11, <1>12, <1>13, <1>14 DEF IInv

\* A step that leaves the stream and the frames alone leaves the markers alone.
LEMMA Unmoved ==
  ASSUME IInv, UNCHANGED <<stream, origin, frames>>
  PROVE  /\ \A i \in Nat : (Soi(i)' <=> Soi(i)) /\ (Eoi(i)' <=> Eoi(i))
         /\ End(Len(frames))' = End(Len(frames)) /\ End(Len(frames)) \in Nat
         /\ FramesCut'
<1>1. \A i \in Nat : (Soi(i)' <=> Soi(i)) /\ (Eoi(i)' <=> Eoi(i))
  BY DEF Soi, Eoi
<1>2. Len(frames) \in 0 .. Len(frames)
  BY DEF IInv, TypeOK
<1>3. End(Len(frames))' = End(Len(frames)) /\ End(Len(frames)) \in Nat
  BY <1>2, EndType DEF IInv, End
<1>4. FramesCut'
  BY DEF IInv, FramesCut, IsFrame, End, Soi, Eoi
<1> QED
  BY <1>1, <1>3, <1>4

\* The two ways the inner loop ends: the bytes before position m hold no start
\* marker and are erased, and the rest holds no complete frame.
LEMMA LoopEnds ==
  ASSUME IInv, NEW m \in 1 .. Len(pending) + 1,
         m = 1 \/ m <= Len(pending),
         \A i \in 1 .. m - 1 :
           i < Len(pending) => ~(pending[i] = FF /\ pending[i + 1] = D8),
         \A i \in m .. Len(pending) - 1 : pending[i] = FF /\ pending[i + 1] = D8 =>
           \A j \in i + 2 .. Len(pending) - 1 : ~(pending[j] = FF /\ pending[j + 1] = D9),
         pending' = SubSeq(pending, m, Len(pending)), pc' = "check",
         UNCHANGED <<stream, origin, frames>>
  PROVE  IInv'
<1>1. Len(pending) \in Nat /\ Len(stream) \in Nat /\ Len(frames) \in Nat
  BY DEF IInv, TypeOK
<1>2. TypeOK /\ Suffix
  BY DEF IInv
<1>3. /\ pending' \in Seq(Bytes)
      /\ Len(pending') = Len(pending) - m + 1
      /\ Before' = Before + m - 1
      /\ Suffix'
  BY <1>2, Erase
<1>4. /\ \A i \in Nat : (Soi(i)' <=> Soi(i)) /\ (Eoi(i)' <=> Eoi(i))
      /\ End(Len(frames))' = End(Len(frames)) /\ End(Len(frames)) \in Nat
      /\ FramesCut'
  BY Unmoved
<1>5. Before \in Nat /\ Before + Len(pending) = Len(stream)
  BY <1>1 DEF IInv, Before, Suffix
<1>6. TypeOK'
  BY <1>3 DEF IInv, TypeOK
<1>7. Placed'
  BY <1>1, <1>3, <1>4, <1>5 DEF IInv, Placed
<1>8. ASSUME NEW i \in End(Len(frames)) + 1 .. Before + m - 1
      PROVE  ~Soi(i)
  <2>1. CASE i <= Before
    BY <1>4, <1>5, <2>1 DEF IInv, Gap
  <2>2. CASE i > Before /\ i - Before < Len(pending)
    <3>1. i - Before \in 1 .. Len(pending) - 1 /\ i - Before \in 1 .. m - 1
      BY <1>1, <1>4, <1>5, <2>2
    <3>2. i = Before + (i - Before)
      BY <1>1, <1>4, <1>5
    <3> QED
      BY <1>2, <2>2, <3>1, <3>2, InStream
  <2>3. CASE i > Before /\ i - Before >= Len(pending)
    BY <1>1, <1>4, <1>5, <2>3 DEF Soi
  <2> QED
    BY <1>1, <1>4, <1>5, <2>1, <2>2, <2>3
<1>9. Gap'
  <2>1. \A i \in End(Len(frames)) + 1 .. Before + m - 1 : i \in Nat
    BY <1>4
  <2> QED
    BY <1>3, <1>4, <1>8, <2>1 DEF Gap
<1>10. ASSUME NEW i \in End(Len(frames)) + 1 .. Len(stream), Soi(i),
              NEW j \in i + 2 .. Len(stream)
       PROVE  ~Eoi(j)
  <2>1. i > Before + m - 1
    BY <1>1, <1>4, <1>5, <1>8, <1>10
  <2>2. i < Len(stream)
    BY <1>10 DEF Soi
  <2>3. CASE j = Len(stream)
    BY <1>1, <2>3 DEF Eoi
  <2>4. CASE j < Len(stream)
    <3>1. i - Before \in m .. Len(pending) - 1 /\ i - Before \in 1 .. Len(pending) - 1
      BY <1>1, <1>4, <1>5, <2>1, <2>2
    <3>2. j - Before \in (i - Before) + 2 .. Len(pending) - 1 /\ j - Before \in 1 .. Len(pending) - 1
      BY <1>1, <1>4, <1>5, <2>1, <2>4
    <3>3. i = Before + (i - Before) /\ j = Before + (j - Before)
      BY <1>1, <1>4, <1>5
    <3>4. pending[i - Before] = FF /\ pending[(i - Before) + 1] = D8
      BY <1>2, <1>10, <3>1, <3>3, InStream
    <3>5. ~(pending[j - Before] = FF /\ pending[(j - Before) + 1] = D9)
      BY <3>1, <3>2, <3>4
    <3> QED
      BY <1>2, <3>2, <3>3, <3>5, InStream
  <2> QED
    BY <1>1, <1>4, <2>3, <2>4
<1>11. Rest'
  <2>1. \A i \in End(Len(frames)) + 1 .. Len(stream) :
          i \in Nat /\ \A j \in i + 2 .. Len(stream) : j \in Nat
    BY <1>1, <1>4
  <2> QED
    BY <1>4, <1>10, <2>1 DEF Rest
<1>12. BufferBounded'
  <2>1. Len(pending') <= MaxBuffered + ReadSize
    BY <1>1, <1>3, ParserAssumption DEF IInv, BufferBounded
  <2> QED
    BY <2>1 DEF IInv, BufferBounded
<1> QED
  BY <1>3, <1>4, <1>6, <1>7, <1>9, <1>11, <1>12 DEF IInv

\* Without a start marker all but the last byte may go: none begins there.
LEMMA NoStartStep ==
  ASSUME IInv, NoStart
  PROVE  IInv'
<1>1. Len(pending) \in Nat /\ pending \in Seq(Bytes)
  BY DEF IInv, TypeOK
<1>2. \A i \in 1 .. Len(pending) - 1 : ~(pending[i] = FF /\ pending[i + 1] = D8)
  BY DEF NoStart, Starts, Markers
<1>3. CASE Len(pending) > 1
  <2>1. pending' = SubSeq(pending, Len(pending), Len(pending))
    <3>1. pending' = <<pending[Len(pending)]>> /\ pending[Len(pending)] \in Bytes
      BY <1>1, <1>3 DEF NoStart
    <3>2. /\ SubSeq(pending, Len(pending), Len(pending)) \in Seq(Bytes)
          /\ Len(SubSeq(pending, Len(pending), Len(pending))) = 1
          /\ SubSeq(pending, Len(pending), Len(pending))[1] = pending[Len(pending)]
      <4>1. Len(pending) \in Int /\ \A i \in Len(pending) .. Len(pending) : pending[i] \in Bytes
        BY <1>1, <3>1
      <4> QED
        BY <1>1, <4>1, SubSeqProperties
    <3>3. pending' \in Seq(Bytes) /\ Len(pending') = 1 /\ pending'[1] = pending[Len(pending)]
      BY <3>1
    <3> QED
      BY <3>2, <3>3, SeqEqual
  <2>2. Len(pending) \in 1 .. Len(pending) + 1
    BY <1>1, <1>3
  <2> QED
    BY <1>1, <1>2, <1>3, <2>1, <2>2, LoopEnds DEF NoStart
<1>4. CASE ~(Len(pending) > 1)
  <2>1. pending' = SubSeq(pending, 1, Len(pending))
    BY <1>1, <1>4, SubSeqFull DEF NoStart
  <2>2. 1 \in 1 .. Len(pending) + 1
    BY <1>1
  <2> QED
    BY <1>1, <1>2, <2>1, <2>2, LoopEnds DEF NoStart
<1> QED
  BY <1>3, <1>4

\* With a start marker but no end marker, what is before the start may go.
LEMMA NoEndStep ==
  ASSUME IInv, NoEnd
  PROVE  IInv'
<1> DEFINE s == Least(Starts)
<1>1. Len(pending) \in Nat /\ TypeOK
  BY DEF IInv, TypeOK
<1>2. /\ s \in 1 .. Len(pending) - 1
      /\ \A i \in 1 .. s - 1 : ~(pending[i] = FF /\ pending[i + 1] = D8)
  BY <1>1, StartFacts DEF NoEnd
<1>3. \A j \in s + 2 .. Len(pending) - 1 : ~(pending[j] = FF /\ pending[j + 1] = D9)
  BY DEF NoEnd, Ends, Markers
<1>4. /\ pending' = SubSeq(pending, s, Len(pending)) /\ pc' = "check"
      /\ UNCHANGED <<stream, origin, frames>>
  BY DEF NoEnd
<1> HIDE DEF s
<1>5. /\ s \in 1 .. Len(pending) + 1 /\ s <= Len(pending)
      /\ \A i \in s .. Len(pending) - 1 : \A j \in i + 2 .. Len(pending) - 1 :
           ~(pending[j] = FF /\ pending[j + 1] = D9)
  BY <1>1, <1>2, <1>3
<1> QED
  BY <1>2, <1>4, <1>5, LoopEnds

\* A frame is cut from the first start marker, at s, to the first end marker
\* behind it, at e.
LEMMA CutStep ==
  ASSUME IInv, pc = "parse",
         NEW b \in Nat, b = Before, NEW n \in Nat, n = Len(frames),
         NEW s \in 1 .. Len(pending) - 1,
         pending[s] = FF, pending[s + 1] = D8,
         \A i \in 1 .. s - 1 : ~(pending[i] = FF /\ pending[i + 1] = D8),
         NEW e \in s + 2 .. Len(pending) - 1,
         pending[e] = FF, pending[e + 1] = D9,
         \A i \in s + 2 .. e - 1 : ~(pending[i] = FF /\ pending[i + 1] = D9),
         pending' = SubSeq(pending, e + 2, Len(pending)),
         frames' = Append(frames, [first |-> b + s, last |-> b + (e + 1)]),
         UNCHANGED <<pc, stream, origin>>
  PROVE  IInv'
<1> DEFINE f == [first |-> b + s, last |-> b + (e + 1)]
<1>1. /\ TypeOK /\ Suffix /\ Len(pending) \in Nat /\ Len(stream) \in Nat
      /\ frames \in Seq(Interval)
  BY DEF IInv, TypeOK
<1>2. s \in Nat /\ e \in Nat
  BY <1>1
<1>3. b + Len(pending) = Len(stream)
  BY <1>1 DEF Before, Suffix
<1>4. /\ pending' \in Seq(Bytes)
      /\ Len(pending') = Len(pending) - (e + 2) + 1
      /\ Before' = b + (e + 2) - 1
      /\ Suffix'
  <2>1. e + 2 \in 1 .. Len(pending) + 1
    BY <1>1, <1>2
  <2> QED
    BY <1>1, <2>1, Erase
<1>5. f \in Interval /\ f.first = b + s /\ f.last = b + (e + 1)
  BY <1>1, <1>2, <1>3
<1> HIDE DEF f
<1>6. /\ frames' \in Seq(Interval) /\ Len(frames') = n + 1
      /\ \A k \in 1 .. n : frames'[k] = frames[k]
      /\ frames'[n + 1] = f
  BY <1>1, <1>5
<1>7. TypeOK'
  BY <1>1, <1>4, <1>6 DEF TypeOK
<1>8. /\ \A k \in 0 .. n : End(k)' = End(k) /\ End(k) \in Nat
       /\ End(n + 1)' = b + (e + 1)
  <2>1. \A k \in 0 .. n : End(k)' = End(k)
    BY <1>1, <1>6 DEF End
  <2>2. End(n + 1)' = b + (e + 1)
    BY <1>1, <1>5, <1>6 DEF End
  <2> QED
    BY <1>1, <2>1, <2>2, EndType
<1>9. End(Len(frames))' = b + (e + 1) /\ Before' = b + (e + 1)
  BY <1>1, <1>2, <1>3, <1>4, <1>6, <1>8 DEF End
<1>10. Placed' /\ Gap'
  BY <1>2, <1>3, <1>9 DEF Placed, Gap
<1>11. \A i \in Nat : (Soi(i)' <=> Soi(i)) /\ (Eoi(i)' <=> Eoi(i))
  BY DEF Soi, Eoi
<1>12. ASSUME NEW k \in 1 .. n
       PROVE  IsFrame(k)'
  <2>1. IsFrame(k)
    BY DEF IInv, FramesCut
  <2>2. End(k - 1)' = End(k - 1) /\ frames'[k] = frames[k]
    BY <1>1, <1>6, <1>8
  <2> QED
    BY <2>1, <2>2 DEF IsFrame, Soi, Eoi
<1>13. IsFrame(n + 1)'
  <2>1. PICK p \in Nat : p = End(n) /\ p <= b /\ End((n + 1) - 1)' = p
    <3>1. End(n) \in Nat /\ End(n) <= b /\ End(n)' = End(n)
      BY <1>1, <1>8 DEF IInv, Placed
    <3>2. End((n + 1) - 1)' = End(n)'
      BY <1>1 DEF End
    <3> QED
      BY <3>1, <3>2
  <2>2. Soi(b + s)' /\ Eoi(b + e)'
    <3>1. Soi(b + s) /\ Eoi(b + e)
      BY <1>1, <1>2, InStream
    <3> QED
      BY <3>1 DEF Soi, Eoi
  <2>3. ASSUME NEW i \in p + 1 .. b + s - 1
        PROVE  ~Soi(i)'
    <3>1. CASE i <= b
      <4>1. ~Soi(i)
        BY <1>3, <2>1, <3>1 DEF IInv, Gap
      <4> QED
        BY <4>1 DEF Soi
    <3>2. CASE i > b
      <4>1. i - b \in 1 .. s - 1 /\ i - b \in 1 .. Len(pending) - 1
        BY <1>1, <1>2, <1>3, <2>1, <3>2
      <4>2. i = b + (i - b)
        BY <1>3, <2>1
      <4>3. ~Soi(i)
        BY <1>1, <1>2, <4>1, <4>2, InStream
      <4> QED
        BY <4>3 DEF Soi
    <3> QED
      BY <1>3, <2>1, <3>1, <3>2
  <2>4. ASSUME NEW i \in b + s + 2 .. b + e - 1
        PROVE  ~Eoi(i)'
    <3>1. i - b \in s + 2 .. e - 1 /\ i - b \in 1 .. Len(pending) - 1
      BY <1>1, <1>2, <1>3
    <3>2. i = b + (i - b)
      BY <1>2, <1>3
    <3>3. ~Eoi(i)
      BY <1>1, <3>1, <3>2, InStream
    <3> QED
      BY <3>3 DEF Eoi
  <2>5. frames'[n + 1].first = b + s /\ frames'[n + 1].last = b + (e + 1)
    BY <1>5, <1>6
  <2>6. b + (e + 1) - 1 = b + e /\ b + (e + 1) - 2 = b + e - 1
    BY <1>2, <1>3
  <2>7. p < b + s /\ b + s + 2 <= b + e
    BY <1>2, <1>3, <2>1
  <2>8. \A i \in End((n + 1) - 1)' + 1 .. frames'[n + 1].first - 1 : ~Soi(i)'
    BY <2>1, <2>3, <2>5
  <2>9. \A i \in frames'[n + 1].first + 2 .. frames'[n + 1].last - 2 : ~Eoi(i)'
    BY <2>4, <2>5, <2>6
  <2>10. /\ End((n + 1) - 1)' < frames'[n + 1].first
         /\ frames'[n + 1].first + 2 <= frames'[n + 1].last - 1
    BY <2>1, <2>5, <2>6, <2>7
  <2>11. (Soi(frames[n + 1].first) /\ Eoi(frames[n + 1].last - 1))'
    <3>1. frames'[n + 1].last - 1 = b + e
      BY <2>5, <2>6
    <3> QED
      BY <2>2, <2>5, <3>1, Zenon DEF Soi, Eoi
  <2> QED
    BY <2>8, <2>9, <2>10, <2>11, Zenon DEF IsFrame
<1>14. FramesCut'
  <2>1. ASSUME NEW k \in 1 .. n + 1
        PROVE  IsFrame(k)'
    <3>1. CASE k \in 1 .. n
      BY <1>12, <3>1
    <3>2. CASE k = n + 1
      BY <1>13, <3>2 DEF IsFrame, End, Soi, Eoi
    <3>3. k \in 1 .. n \/ k = n + 1
      OBVIOUS
    <3> QED
      BY <3>1, <3>2, <3>3, Zenon
  <2> QED
    BY <1>6, <2>1 DEF FramesCut
<1>15. Rest'
  BY DEF Rest
<1>16. BufferBounded'
  <2>1. Len(pending') <= MaxBuffered + ReadSize
    BY <1>1, <1>2, <1>4, ParserAssumption DEF IInv, BufferBounded
  <2>2. f.last - f.first < MaxBuffered + ReadSize
    BY <1>1, <1>2, <1>3, <1>5, ParserAssumption DEF IInv, BufferBounded
  <2> QED
    BY <1>1, <1>6, <2>1, <2>2 DEF IInv, BufferBounded
<1> QED
  BY <1>4, <1>7, <1>10, <1>14, <1>15, <1>16 DEF IInv

\* FrameFound cuts at the first markers, as CutStep wants it.
LEMMA FrameFoundStep ==
  ASSUME IInv, FrameFound
  PROVE  IInv'
<1>1. /\ TypeOK /\ Before \in Nat /\ Len(frames) \in Nat /\ Len(pending) \in Nat
  BY DEF IInv, TypeOK, Before, Suffix
<1>2. PICK b \in Nat, n \in Nat : b = Before /\ n = Len(frames)
  BY <1>1
<1>3. PICK s \in 1 .. Len(pending) - 1 :
        /\ s = Least(Starts)
        /\ pending[s] = FF /\ pending[s + 1] = D8
        /\ \A i \in 1 .. s - 1 : ~(pending[i] = FF /\ pending[i + 1] = D8)
  BY <1>1, StartFacts DEF FrameFound
<1>4. PICK e \in s + 2 .. Len(pending) - 1 :
        /\ e = Least(Ends)
        /\ pending[e] = FF /\ pending[e + 1] = D9
        /\ \A i \in s + 2 .. e - 1 : ~(pending[i] = FF /\ pending[i + 1] = D9)
  BY <1>1, <1>3, EndFacts DEF FrameFound
<1>5. /\ pc = "parse" /\ UNCHANGED <<pc, stream, origin>>
      /\ pending' = SubSeq(pending, e + 2, Len(pending))
      /\ frames' = Append(frames, [first |-> b + s, last |-> b + (e + 1)])
  <2>1. e + 1 + 1 = e + 2
    BY <1>1, <1>3, <1>4
  <2> QED
    BY <1>2, <1>3, <1>4, <2>1 DEF FrameFound, Cut, Before
<1> QED
  BY <1>2, <1>3, <1>4, <1>5, CutStep

\* The limit check keeps the buffer or starts afresh behind it.
LEMMA LimitStep ==
  ASSUME IInv, WithinLimit \/ OverLimit
  PROVE  IInv'
<1>1. CASE WithinLimit
  <2>1. FramesCut'
    BY <1>1, Unmoved DEF WithinLimit
  <2> QED
    BY <1>1, <2>1 DEF WithinLimit, IInv, TypeOK, Before, Suffix, Placed, Gap, Rest, BufferBounded, End, Soi, Eoi
<1>2. CASE OverLimit
  <2>1. Len(stream) \in Nat /\ Len(pending') = 0 /\ Len(frames') = 0
    BY <1>2 DEF OverLimit, IInv, TypeOK
  <2>2. TypeOK'
    BY <1>2, <2>1, EmptySeq DEF OverLimit, IInv, TypeOK
  <2>3. Before' = Len(stream) /\ End(Len(frames))' = Len(stream) /\ stream' = stream
    BY <1>2, <2>1 DEF OverLimit, Before, End
  <2> QED
    BY <2>1, <2>2, <2>3, ParserAssumption
    DEF IInv, Suffix, Placed, Gap, FramesCut, Rest, BufferBounded
<1> QED
  BY <1>1, <1>2

\* Every step, and every stutter, keeps the inductive invariant.
LEMMA NextIInv == IInv /\ [Next]_vars => IInv'
<1> SUFFICES ASSUME IInv, [Next]_vars PROVE IInv'
  OBVIOUS
<1>1. ASSUME NEW n \in 1 .. ReadSize, NEW chunk \in [1 .. n -> Bytes], Read(chunk)
      PROVE  IInv'
  BY <1>1, ReadStep
<1>2. CASE NoStart
  BY <1>2, NoStartStep
<1>3. CASE NoEnd
  BY <1>3, NoEndStep
<1>4. CASE FrameFound
  BY <1>4, FrameFoundStep
<1>5. CASE WithinLimit \/ OverLimit
  BY <1>5, LimitStep
<1>6. CASE UNCHANGED vars
  <2>1. FramesCut'
    BY <1>6, Unmoved DEF vars
  <2> QED
    BY <1>6, <2>1 DEF vars, IInv, TypeOK, Before, Suffix, Placed, Gap, Rest, BufferBounded, End, Soi, Eoi
<1> QED
  BY <1>1, <1>2, <1>3, <1>4, <1>5, <1>6 DEF Next

-----------------------------------------------------------------------------
\* Buffer, stream and frames keep their types.
THEOREM TypeCorrect == Spec => []TypeOK
<1>1. IInv => TypeOK
  BY DEF IInv
<1> QED
  BY <1>1, InitIInv, NextIInv, PTL DEF Spec

\* For every stream and every way to chunk it, capture_loop hands over the
\* frames of the stream: none is lost, cut short, merged or invented.
THEOREM ChunkIndependence == Spec => []FramesAreTheStreams
<1>1. IInv => FramesAreTheStreams
  BY DEF IInv, FramesCut, Rest, FramesAreTheStreams
<1> QED
  BY <1>1, InitIInv, NextIInv, PTL DEF Spec

\* For every limit and every size of read_buffer the memory stays bounded.
THEOREM BoundedMemory == Spec => []BufferBounded
<1>1. IInv => BufferBounded
  BY DEF IInv
<1> QED
  BY <1>1, InitIInv, NextIInv, PTL DEF Spec
=============================================================================
