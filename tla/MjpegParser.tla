----------------------------- MODULE MjpegParser -----------------------------
(***************************************************************************)
(* How capture_loop of client/src/camera_process.cpp cuts the byte stream  *)
(* of rpicam-vid into JPEG frames.  read() returns the stream in chunks    *)
(* whose boundaries mean nothing; the bytes not used yet wait in pending.  *)
(* CameraProcess models the loop around this one without the bytes.        *)
(***************************************************************************)
EXTENDS Integers, Sequences

CONSTANTS
  FF, D8, D9,    \* the bytes of markers; out of place they are data
  ReadSize,      \* the size of read_buffer
  MaxBuffered,   \* kMaximumBufferedBytes
  MaxStream      \* bound: bytes the camera writes

ASSUME ParserAssumption ==
  /\ ReadSize \in Nat \ {0}
  /\ MaxBuffered \in Nat \ {0, 1}
  /\ MaxStream \in Nat
  /\ FF # D8 /\ FF # D9 /\ D8 # D9

VARIABLES
  pc,       \* "read", "parse" (the inner loop) or "check" (the limit)
  pending,  \* pending
  stream,   \* history: every byte read
  origin,   \* history: the bytes read before the last clear()
  frames    \* history: where the frames handed to on_frame since then lie

vars == <<pc, pending, stream, origin, frames>>

Bytes == {FF, D8, D9}

Interval == [first : Nat, last : Nat]

TypeOK ==
  /\ pc \in {"read", "parse", "check"}
  /\ pending \in Seq(Bytes)
  /\ stream \in Seq(Bytes)
  /\ origin \in Nat
  /\ frames \in Seq(Interval)

Init ==
  /\ pc = "read"
  /\ pending = <<>>
  /\ stream = <<>>
  /\ origin = 0
  /\ frames = <<>>

-----------------------------------------------------------------------------
\* Where find_marker(bytes, first, second, offset) may return, and does first.
Markers(bytes, first, second, offset) ==
  {i \in offset .. Len(bytes) - 1 : bytes[i] = first /\ bytes[i + 1] = second}

Least(S) == CHOOSE i \in S : \A j \in S : i <= j

Starts == Markers(pending, FF, D8, 1)

Ends == Markers(pending, FF, D9, Least(Starts) + 2)

Inserted(chunk, bytes) ==
  /\ pc = "read"
  /\ Len(stream) + Len(chunk) <= MaxStream
  /\ pending' = pending \o bytes
  /\ stream' = stream \o chunk
  /\ pc' = "parse"
  /\ UNCHANGED <<frames, origin>>

\* Fault: all of read_buffer is inserted, not the count of bytes read.
ReadAll(chunk) ==
  Inserted(chunk, [i \in 1 .. ReadSize |-> IF i \in DOMAIN chunk THEN chunk[i] ELSE 0])

Read(chunk) == Inserted(chunk, chunk)

\* Fault: nothing is kept of a buffer without a start marker.
NoStartClears ==
  /\ pc = "parse"
  /\ Starts = {}
  /\ pending' = <<>>
  /\ pc' = "check"
  /\ UNCHANGED <<stream, frames, origin>>

\* The last byte may be the first half of a start marker.
NoStart ==
  /\ pc = "parse"
  /\ Starts = {}
  /\ pending' = IF Len(pending) > 1 THEN <<pending[Len(pending)]>> ELSE pending
  /\ pc' = "check"
  /\ UNCHANGED <<stream, frames, origin>>

NoEnd ==
  /\ pc = "parse"
  /\ Starts # {} /\ Ends = {}
  /\ pending' = SubSeq(pending, Least(Starts), Len(pending))
  /\ pc' = "check"
  /\ UNCHANGED <<stream, frames, origin>>

Cut(first, last) ==
  LET before == Len(stream) - Len(pending)
  IN  /\ frames' = Append(frames, [first |-> before + first, last |-> before + last])
      /\ pending' = SubSeq(pending, last + 1, Len(pending))
      /\ UNCHANGED <<pc, stream, origin>>

\* on_frame gets everything from the start marker through the end marker.
FrameFound ==
  /\ pc = "parse"
  /\ Starts # {} /\ Ends # {}
  /\ Cut(Least(Starts), Least(Ends) + 1)

WithinLimit ==
  /\ pc = "check"
  /\ Len(pending) <= MaxBuffered
  /\ pc' = "read"
  /\ UNCHANGED <<pending, stream, frames, origin>>

\* Fault: the error is reported but the buffer is kept.
OverLimitKept ==
  /\ pc = "check"
  /\ Len(pending) > MaxBuffered
  /\ pc' = "read"
  /\ UNCHANGED <<pending, stream, frames, origin>>

\* clear() and on_error; the capture goes on.
OverLimit ==
  /\ pc = "check"
  /\ Len(pending) > MaxBuffered
  /\ pending' = <<>>
  /\ origin' = Len(stream)
  /\ frames' = <<>>
  /\ pc' = "read"
  /\ UNCHANGED stream

Next ==
  \/ \E n \in 1 .. ReadSize : \E chunk \in [1 .. n -> Bytes] : Read(chunk)
  \/ NoStart \/ NoEnd \/ FrameFound
  \/ WithinLimit \/ OverLimit

Spec == Init /\ [][Next]_vars

-----------------------------------------------------------------------------
(* Properties *)

\* The stream has a start or end marker at i.
Soi(i) == i < Len(stream) /\ stream[i] = FF /\ stream[i + 1] = D8
Eoi(i) == i < Len(stream) /\ stream[i] = FF /\ stream[i + 1] = D9

\* Where frame k ends; where everything before the first frame does.
End(k) == IF k = 0 THEN origin ELSE frames[k].last

\* Frame k is what it should be: the first start marker behind the frame
\* before it, up to the first end marker behind that.
IsFrame(k) ==
  LET first == frames[k].first
      last  == frames[k].last
  IN  /\ End(k - 1) < first /\ first + 2 <= last - 1
      /\ Soi(first) /\ Eoi(last - 1)
      /\ \A i \in End(k - 1) + 1 .. first - 1 : ~Soi(i)
      /\ \A i \in first + 2 .. last - 2 : ~Eoi(i)

\* The frames cut since the last clear() are the frames of the stream itself,
\* however read() chunked it, and behind them is no complete frame.  Each
\* begins and ends with markers of its own, so none fails the boundary check of
\* send_frame (client/src/socket_io_client.cpp:199) and costs the client its
\* connection.
FramesAreTheStreams ==
  /\ \A k \in 1 .. Len(frames) : IsFrame(k)
  /\ pc = "read" =>
       \A i \in End(Len(frames)) + 1 .. Len(stream) :
         Soi(i) => \A j \in i + 2 .. Len(stream) : ~Eoi(j)

\* Whatever the camera writes, the buffer stays within its limit between
\* reads, within one read of it in between, and so does every frame.
BufferBounded ==
  /\ pc = "read" => Len(pending) <= MaxBuffered
  /\ Len(pending) <= MaxBuffered + ReadSize
  /\ \A k \in 1 .. Len(frames) : frames[k].last - frames[k].first < MaxBuffered + ReadSize
=============================================================================
