------------------------ MODULE SocketIoClient_proofs ------------------------
(***************************************************************************)
(* Theorems about SocketIoClient: the verdict a call returns is the        *)
(* server's verdict on that very frame, over any number of frames,         *)
(* connections, pings and broadcasts.                                      *)
(*                                                                         *)
(* The argument: a frame is in one place at a time.  It is written by its  *)
(* call (attach), on its way (Sent), with the handler (Jobs) or answered   *)
(* (Acks), each excludes the others (Unsettled), and only the last lets    *)
(* the call return without an exception.  What an earlier connection left  *)
(* behind is a job of an earlier link, which answers nobody.               *)
(***************************************************************************)
EXTENDS SocketIoClient, SequenceTheorems, FiniteSetTheorems, TLAPS

Sent == half.kind = "frame" \/ \E i \in DOMAIN up : up[i].kind \in {"frame", "binary"}

Working == \E job \in working : job.frame = calls

AckSent == \E i \in DOMAIN down : down[i].kind = "ack"

Counters ==
  /\ nextAckId <= calls
  /\ pc \in {"attach", "ack"} => nextAckId >= 1
  /\ socket = "up" => links >= 1

\* A descriptor goes before its attachment, and nothing behind that.
Outgoing ==
  /\ \A i \in DOMAIN up :
       up[i].kind = "frame" => pc \in {"attach", "ack"} /\ up[i].id = nextAckId - 1
  /\ \A i \in DOMAIN up : up[i].kind = "binary" => pc = "ack" /\ up[i].frame = calls
  /\ \A i, j \in DOMAIN up :
       up[i].kind = "binary" /\ up[j].kind \in {"frame", "binary"} => j <= i
  /\ half.kind = "frame" => pc \in {"attach", "ack"} /\ half.id = nextAckId - 1
  /\ socket # "up" => up = <<>> /\ half = NoHalf

Unsettled ==
  pc = "attach" \/ Sent => handled[calls] = NoVerdict /\ ~Working /\ ~AckSent

Jobs ==
  /\ \A job \in working :
       job.frame <= calls /\ job.link <= links /\ handled[job.frame] = NoVerdict
  /\ \A a, b \in working : a.frame = b.frame => a = b
  /\ \A job \in working :
       socket = "up" /\ job.link = links =>
         pc = "ack" /\ job.frame = calls /\ job.id = nextAckId - 1 /\ ~AckSent

Acks ==
  /\ AcksAreNotAhead
  /\ \A i \in DOMAIN down :
       down[i].kind = "ack" => down[i].verdict = handled[calls] /\ handled[calls] # NoVerdict
  /\ \A i, j \in DOMAIN down : down[i].kind = "ack" /\ down[j].kind = "ack" => i = j

Untouched == \A f \in Frames : f > calls => handled[f] = NoVerdict

XInv == Counters /\ Outgoing /\ Unsettled /\ Jobs /\ Acks /\ Untouched

\* The open packet comes first, and nothing is sent before it is read.
Handshake ==
  /\ authenticated => session = "joined"
  /\ pc \in {"attach", "ack"} => authenticated
  /\ session = "new" => up = <<>> /\ down = <<>>
  /\ pc = "open" /\ down # <<>> => Head(down).kind = "open"
  /\ pc = "open" /\ socket = "up" /\ session # "new" => down # <<>>
  /\ \A i \in DOMAIN down : down[i].kind = "joined" => session = "joined"

PingCount ==
  /\ Cardinality(Places("ping")) <= pings
  /\ ReadPingsAreAnswered

IInv == TypeOK /\ XInv /\ Handshake /\ PingCount

-----------------------------------------------------------------------------
(* Messages on their way *)

\* What is written or told is a message.
LEMMA MessageType ==
  /\ \A kind \in Kinds : Plain(kind) \in Messages
  /\ \A kind \in Kinds, id \in -1 .. MaxFrames, f \in 0 .. MaxFrames,
        v \in Verdict \cup {NoVerdict} : Message(kind, id, f, v) \in Messages
  /\ Broadcast \in Seq(Messages)
  /\ NoHalf \in Messages
<1>1. \A kind \in Kinds, id \in -1 .. MaxFrames, f \in 0 .. MaxFrames,
        v \in Verdict \cup {NoVerdict} : Message(kind, id, f, v) \in Messages
  BY DEF Message, Messages
<1>2. \A kind \in Kinds : Plain(kind) \in Messages
  BY <1>1, ClientAssumption DEF Plain
<1>3. "event" \in Kinds /\ "binary" \in Kinds
  BY DEF Kinds
<1>4. Broadcast \in Seq(Messages) /\ NoHalf \in Messages
  BY <1>2, <1>3 DEF Broadcast, NoHalf
<1> QED
  BY <1>1, <1>2, <1>4

\* Reading takes the first message and leaves the others in order.
LEMMA ReadFacts ==
  ASSUME down \in Seq(Messages), Read
  PROVE  /\ down' \in Seq(Messages)
         /\ Head(down) \in Messages
         /\ 1 \in DOMAIN down /\ down[1] = Head(down)
         /\ \A i \in DOMAIN down' : i \in Nat /\ i + 1 \in DOMAIN down /\ down'[i] = down[i + 1]
         /\ DOMAIN down = 1 .. Len(down) /\ DOMAIN down' = 1 .. Len(down) - 1
         /\ Len(down) \in Nat
<1>1. down # <<>> /\ down' = Tail(down)
  BY DEF Read
<1>2. Len(down) \in Nat /\ Len(down) # 0 /\ DOMAIN down = 1 .. Len(down)
  BY <1>1, EmptySeq, LenProperties
<1>3. /\ Head(down) \in Messages
      /\ down' \in Seq(Messages)
      /\ Len(down') = Len(down) - 1
      /\ \A i \in 1 .. Len(down') : down'[i] = down[i + 1]
  BY <1>1, HeadTailProperties
<1>4. DOMAIN down' = 1 .. Len(down')
  BY <1>3, LenProperties
<1>5. down[1] = Head(down)
  BY <1>1, <1>2
<1> QED
  BY <1>2, <1>3, <1>4, <1>5

\* Telling puts messages behind those on their way.
LEMMA TellFacts ==
  ASSUME down \in Seq(Messages), NEW ms \in Seq(Messages), Tell(ms)
  PROVE  /\ down' \in Seq(Messages)
         /\ Len(down') = Len(down) + Len(ms)
         /\ Len(down) \in Nat /\ Len(ms) \in Nat
         /\ DOMAIN down = 1 .. Len(down) /\ DOMAIN down' = 1 .. Len(down) + Len(ms)
         /\ \A i \in 1 .. Len(down) : down'[i] = down[i]
         /\ \A i \in 1 .. Len(ms) : down'[Len(down) + i] = ms[i]
<1>1. down' = down \o ms
  BY DEF Tell
<1>2. /\ Len(down) \in Nat /\ Len(ms) \in Nat
      /\ DOMAIN down = 1 .. Len(down)
  BY LenProperties
<1>3. /\ down' \in Seq(Messages)
      /\ Len(down') = Len(down) + Len(ms)
      /\ \A i \in 1 .. Len(down) + Len(ms) :
           down'[i] = IF i <= Len(down) THEN down[i] ELSE ms[i - Len(down)]
  BY <1>1, ConcatProperties
<1>4. DOMAIN down' = 1 .. Len(down) + Len(ms)
  BY <1>3, LenProperties
<1> QED
  BY <1>2, <1>3, <1>4

\* Writing one message puts it behind those on their way, or it is lost.
LEMMA WriteFacts ==
  ASSUME up \in Seq(Messages), NEW m \in Messages, Write(<<m>>)
  PROVE  /\ up' \in Seq(Messages)
         /\ Len(up) \in Nat /\ DOMAIN up = 1 .. Len(up)
         /\ \A i \in DOMAIN up' :
              \/ i \in DOMAIN up /\ up'[i] = up[i]
              \/ socket = "up" /\ i = Len(up) + 1 /\ up'[i] = m
         /\ socket # "up" => up' = up
<1>1. Len(up) \in Nat /\ DOMAIN up = 1 .. Len(up)
  BY LenProperties
<1>2. CASE socket = "up"
  <2>1. up' = up \o <<m>>
    BY <1>2 DEF Write
  <2>2. <<m>> \in Seq(Messages) /\ Len(<<m>>) = 1 /\ <<m>>[1] = m
    OBVIOUS
  <2>3. /\ up' \in Seq(Messages)
        /\ Len(up') = Len(up) + 1
        /\ \A i \in 1 .. Len(up) + 1 :
             up'[i] = IF i <= Len(up) THEN up[i] ELSE <<m>>[i - Len(up)]
    BY <2>1, <2>2, ConcatProperties
  <2>4. DOMAIN up' = 1 .. Len(up) + 1
    BY <2>3, LenProperties
  <2> QED
    BY <1>1, <1>2, <2>2, <2>3, <2>4
<1>3. CASE socket # "up"
  BY <1>1, <1>3 DEF Write
<1> QED
  BY <1>2, <1>3

\* The server takes the first message on its way to it.
LEMMA TakeFacts ==
  ASSUME up \in Seq(Messages), up # <<>>, up' = Tail(up)
  PROVE  /\ up' \in Seq(Messages)
         /\ Head(up) \in Messages
         /\ 1 \in DOMAIN up /\ up[1] = Head(up)
         /\ \A i \in DOMAIN up' : i \in Nat /\ i + 1 \in DOMAIN up /\ up'[i] = up[i + 1]
<1>1. Len(up) \in Nat /\ Len(up) # 0 /\ DOMAIN up = 1 .. Len(up)
  BY EmptySeq, LenProperties
<1>2. /\ Head(up) \in Messages
      /\ up' \in Seq(Messages)
      /\ Len(up') = Len(up) - 1
      /\ \A i \in 1 .. Len(up') : up'[i] = up[i + 1]
  BY HeadTailProperties
<1>3. DOMAIN up' = 1 .. Len(up')
  BY <1>2, LenProperties
<1>4. up[1] = Head(up)
  BY <1>1
<1> QED
  BY <1>1, <1>2, <1>3, <1>4

-----------------------------------------------------------------------------
(* Steps that neither move the current frame on nor answer it *)

\* No part of a frame is added to what is on its way, and no ACK.
NoNewPart ==
  \E k \in Nat : \A i \in DOMAIN up' :
    up'[i].kind \in {"frame", "binary"} =>
      i \in Nat /\ i + k \in DOMAIN up /\ up'[i] = up[i + k]

NoNewAck ==
  \E k \in Nat : \A i \in DOMAIN down' :
    down'[i].kind = "ack" => i \in Nat /\ i + k \in DOMAIN down /\ down'[i] = down[i + k]

\* Messages of other kinds, read, written or lost.
LEMMA QuietStep ==
  ASSUME TypeOK, XInv, NoNewPart, NoNewAck,
         UNCHANGED <<working, handled, calls, links>>,
         \/ UNCHANGED <<pc, nextAckId>>
         \/ /\ pc \in {"open", "join"} /\ pc' \notin {"attach", "ack"}
            /\ nextAckId' \in {nextAckId, 0},
         \/ UNCHANGED <<socket, half>> /\ (socket # "up" => up' = <<>>)
         \/ socket' # "up" /\ up' = <<>> /\ half' = NoHalf
  PROVE  XInv'
<1> USE DEF TypeOK
<1>1. PICK k \in Nat : \A i \in DOMAIN up' :
        up'[i].kind \in {"frame", "binary"} =>
          i \in Nat /\ i + k \in DOMAIN up /\ up'[i] = up[i + k]
  BY DEF NoNewPart
<1>2. PICK n \in Nat : \A i \in DOMAIN down' :
        down'[i].kind = "ack" => i \in Nat /\ i + n \in DOMAIN down /\ down'[i] = down[i + n]
  BY DEF NoNewAck
<1>3. half' = half \/ half' = NoHalf
  OBVIOUS
<1>4. NoHalf.kind = "binary"
  BY DEF NoHalf, Plain, Message
<1>5. Sent' => Sent
  BY <1>1, <1>3, <1>4 DEF Sent
<1>6. AckSent' => AckSent
  BY <1>2 DEF AckSent
<1>7. socket' = "up" => socket = "up"
  OBVIOUS
<1>8. Counters'
  <2>1. nextAckId' <= nextAckId /\ nextAckId \in Nat /\ calls \in Nat
    OBVIOUS
  <2> QED
    BY <2>1, <1>7 DEF XInv, Counters
<1>9. Outgoing'
  <2>1. Sent => pc \in {"attach", "ack"}
    BY DEF XInv, Outgoing, Sent
  <2>2. Sent => UNCHANGED <<pc, nextAckId>>
    BY <2>1
  <2>3. ASSUME NEW i \in DOMAIN up', up'[i].kind = "frame"
        PROVE  pc' \in {"attach", "ack"} /\ up'[i].id = nextAckId' - 1
    <3>1. i + k \in DOMAIN up /\ up'[i] = up[i + k]
      BY <1>1, <2>3
    <3>2. pc \in {"attach", "ack"} /\ up'[i].id = nextAckId - 1 /\ Sent
      BY <2>3, <3>1 DEF XInv, Outgoing, Sent
    <3> QED
      BY <2>2, <3>2
  <2>4. ASSUME NEW i \in DOMAIN up', up'[i].kind = "binary"
        PROVE  pc' = "ack" /\ up'[i].frame = calls'
    <3>1. i + k \in DOMAIN up /\ up'[i] = up[i + k]
      BY <1>1, <2>4
    <3>2. pc = "ack" /\ up'[i].frame = calls /\ Sent
      BY <2>4, <3>1 DEF XInv, Outgoing, Sent
    <3> QED
      BY <2>2, <3>2
  <2>5. ASSUME NEW i \in DOMAIN up', NEW j \in DOMAIN up', up'[i].kind = "binary",
               up'[j].kind \in {"frame", "binary"}
        PROVE  j <= i
    <3>1. /\ i \in Nat /\ i + k \in DOMAIN up /\ up'[i] = up[i + k]
          /\ j \in Nat /\ j + k \in DOMAIN up /\ up'[j] = up[j + k]
      BY <1>1, <2>5
    <3>2. j + k <= i + k
      BY <2>5, <3>1 DEF XInv, Outgoing
    <3> QED
      BY <3>1, <3>2
  <2>6. half'.kind = "frame" => pc' \in {"attach", "ack"} /\ half'.id = nextAckId' - 1
    <3>1. half'.kind = "frame" => half' = half /\ Sent
      BY <1>3, <1>4 DEF Sent
    <3> QED
      BY <2>2, <3>1 DEF XInv, Outgoing
  <2>7. socket' # "up" => up' = <<>> /\ half' = NoHalf
    BY DEF XInv, Outgoing
  <2> QED
    BY <2>3, <2>4, <2>5, <2>6, <2>7 DEF Outgoing
<1>10. Unsettled'
  <2>1. Working' <=> Working
    BY DEF Working
  <2>2. pc' = "attach" => pc = "attach"
    OBVIOUS
  <2> QED
    BY <1>5, <1>6, <2>1, <2>2 DEF XInv, Unsettled
<1>11. Jobs'
  <2>1. ASSUME NEW job \in working, socket' = "up", job.link = links
        PROVE  UNCHANGED <<pc, nextAckId>>
    BY <1>7, <2>1 DEF XInv, Jobs
  <2> QED
    BY <1>6, <1>7, <2>1 DEF XInv, Jobs
<1>12. Acks'
  <2>1. AckSent => pc = "ack"
    BY DEF XInv, Acks, AcksAreNotAhead, AckSent
  <2>2. ASSUME NEW i \in DOMAIN down', down'[i].kind = "ack"
        PROVE  /\ pc' = "ack" /\ down'[i].id = nextAckId' - 1
               /\ down'[i].verdict = handled'[calls'] /\ handled'[calls'] # NoVerdict
               /\ i \in Nat /\ i + n \in DOMAIN down /\ down'[i] = down[i + n]
    <3>1. i \in Nat /\ i + n \in DOMAIN down /\ down'[i] = down[i + n]
      BY <1>2, <2>2
    <3>2. /\ pc = "ack" /\ down'[i].id = nextAckId - 1
          /\ down'[i].verdict = handled[calls] /\ handled[calls] # NoVerdict
      BY <2>2, <3>1 DEF XInv, Acks, AcksAreNotAhead, IsAck
    <3> QED
      BY <3>1, <3>2
  <2>3. ASSUME NEW i \in DOMAIN down', NEW j \in DOMAIN down',
               down'[i].kind = "ack", down'[j].kind = "ack"
        PROVE  i = j
    <3>1. i + n = j + n
      BY <2>2, <2>3 DEF XInv, Acks
    <3> QED
      BY <2>2, <2>3, <3>1
  <2> QED
    BY <2>2, <2>3 DEF Acks, AcksAreNotAhead, IsAck
<1>13. Untouched'
  BY DEF XInv, Untouched
<1> QED
  BY <1>8, <1>9, <1>10, <1>11, <1>12, <1>13 DEF XInv

\* A connection is given up or replaced: nothing of it is on its way any more.
LEMMA ClearedStep ==
  ASSUME TypeOK, XInv, up' = <<>>, down' = <<>>, half' = NoHalf,
         UNCHANGED <<working, handled, calls, nextAckId>>,
         pc' \notin {"attach", "ack"},
         (links' = links /\ socket' # "up") \/ links' = links + 1
  PROVE  XInv'
<1> USE DEF TypeOK
<1>1. ~Sent' /\ ~AckSent'
  BY DEF Sent, AckSent, NoHalf, Plain, Message
<1>2. links \in Nat
  OBVIOUS
<1>3. Counters'
  BY <1>2 DEF XInv, Counters
<1>4. Outgoing'
  BY DEF Outgoing, NoHalf, Plain, Message
<1>5. Unsettled'
  BY <1>1 DEF Unsettled
<1>6. Jobs'
  <2>1. ASSUME NEW job \in working
        PROVE  job.link <= links /\ job.link \in Nat
    BY <2>1 DEF XInv, Jobs, Job
  <2>2. \A job \in working : job.link <= links' /\ ~(socket' = "up" /\ job.link = links')
    BY <1>2, <2>1
  <2> QED
    BY <2>2 DEF XInv, Jobs
<1>7. Acks'
  BY DEF Acks, AcksAreNotAhead
<1>8. Untouched'
  BY DEF XInv, Untouched
<1> QED
  BY <1>3, <1>4, <1>5, <1>6, <1>7, <1>8 DEF XInv

-----------------------------------------------------------------------------
(* The steps of a frame *)

\* The next id belongs to the next frame, of which nothing exists yet.
LEMMA SendFrameStep ==
  ASSUME TypeOK, XInv, SendFrame
  PROVE  XInv'
<1> USE DEF TypeOK
<1> DEFINE m == Message("frame", nextAckId, calls + 1, NoVerdict)
<1>1. /\ pc = "idle" /\ pc' = "attach" /\ calls < MaxFrames
      /\ calls' = calls + 1 /\ nextAckId' = nextAckId + 1
      /\ Write(<<m>>)
      /\ UNCHANGED <<links, socket, down, half, working, handled>>
  BY DEF SendFrame, SendDescriptor, server
<1>2. nextAckId \in 0 .. MaxFrames /\ calls \in 0 .. MaxFrames /\ MaxFrames \in Nat
  BY ClientAssumption
<1>3. m \in Messages /\ m.kind = "frame" /\ m.id = nextAckId
  <2>1. calls + 1 \in 0 .. MaxFrames /\ "frame" \in Kinds /\ nextAckId \in -1 .. MaxFrames
    BY <1>1, <1>2 DEF Kinds
  <2> QED
    BY <2>1, MessageType DEF Message
<1> HIDE DEF m
<1>4. /\ \A i \in DOMAIN up' : up'[i] = m \/ (i \in DOMAIN up /\ up'[i] = up[i])
      /\ socket # "up" => up' = up
  BY <1>1, <1>3, WriteFacts
<1>5. ~Sent /\ ~AckSent
  BY <1>1 DEF XInv, Outgoing, Acks, AcksAreNotAhead, Sent, AckSent
<1>6. \A i \in DOMAIN up' : up'[i].kind \in {"frame", "binary"} => up'[i] = m
  BY <1>4, <1>5 DEF Sent
<1>7. ~Working' /\ handled'[calls'] = NoVerdict /\ ~AckSent'
  <2>1. ASSUME NEW job \in working
        PROVE  job.frame # calls + 1
    <3>1. job.frame <= calls /\ job.frame \in Nat
      BY <2>1 DEF XInv, Jobs, Job, Frames
    <3> QED
      BY <1>2, <3>1
  <2>2. calls + 1 \in Frames
    BY <1>1, <1>2 DEF Frames
  <2>3. handled[calls + 1] = NoVerdict
    BY <1>2, <2>2 DEF XInv, Untouched
  <2> QED
    BY <1>1, <1>5, <2>1, <2>3 DEF Working, AckSent
<1>8. Counters'
  BY <1>1, <1>2 DEF XInv, Counters
<1>9. Outgoing'
  <2>1. half.kind # "frame"
    BY <1>5 DEF Sent
  <2>2. m.id = nextAckId' - 1
    BY <1>1, <1>2, <1>3
  <2>3. \A i \in DOMAIN up' : up'[i].kind = "frame" => up'[i].id = nextAckId' - 1
    BY <1>6, <2>2
  <2>4. \A i \in DOMAIN up' : up'[i].kind # "binary"
    BY <1>3, <1>6
  <2>5. socket' # "up" => up' = <<>> /\ half' = NoHalf
    BY <1>1, <1>4 DEF XInv, Outgoing
  <2> QED
    BY <1>1, <2>1, <2>3, <2>4, <2>5 DEF Outgoing
<1>10. Unsettled'
  BY <1>7 DEF Unsettled
<1>11. Jobs'
  <2>1. ASSUME NEW job \in working
        PROVE  job.frame <= calls' /\ ~(socket = "up" /\ job.link = links)
    <3>1. job.frame <= calls /\ job.frame \in Nat
      BY <2>1 DEF XInv, Jobs, Job, Frames
    <3> QED
      BY <1>1, <1>2, <3>1 DEF XInv, Jobs
  <2> QED
    BY <1>1, <2>1 DEF XInv, Jobs
<1>12. Acks'
  BY <1>1, <1>5 DEF Acks, AcksAreNotAhead, AckSent
<1>13. Untouched'
  <2>1. \A f \in Frames : f > calls' => f > calls
    BY <1>1, <1>2 DEF Frames
  <2> QED
    BY <1>1, <2>1 DEF XInv, Untouched
<1> QED
  BY <1>8, <1>9, <1>10, <1>11, <1>12, <1>13 DEF XInv

\* The attachment goes behind its descriptor.
LEMMA SendAttachmentStep ==
  ASSUME TypeOK, XInv, SendAttachment
  PROVE  XInv'
<1> USE DEF TypeOK
<1> DEFINE m == Message("binary", -1, calls, NoVerdict)
<1>1. /\ pc = "attach" /\ pc' = "ack"
      /\ Write(<<m>>)
      /\ UNCHANGED <<calls, nextAckId, links, socket, down, half, working, handled>>
  BY DEF SendAttachment, server
<1>2. m \in Messages /\ m.kind = "binary" /\ m.frame = calls
  <2>1. calls \in 0 .. MaxFrames /\ "binary" \in Kinds /\ -1 \in -1 .. MaxFrames
    BY ClientAssumption DEF Kinds
  <2> QED
    BY <2>1, MessageType DEF Message
<1> HIDE DEF m
<1>3. /\ Len(up) \in Nat /\ DOMAIN up = 1 .. Len(up)
      /\ \A i \in DOMAIN up' :
           \/ i \in DOMAIN up /\ up'[i] = up[i]
           \/ i = Len(up) + 1 /\ up'[i] = m
      /\ socket # "up" => up' = up
  BY <1>1, <1>2, WriteFacts
<1>4. handled[calls] = NoVerdict /\ ~Working /\ ~AckSent
  BY <1>1 DEF XInv, Unsettled
<1>5. ~Working' /\ handled'[calls'] = NoVerdict /\ ~AckSent'
  BY <1>1, <1>4 DEF Working, AckSent
<1>6. Counters'
  BY <1>1 DEF XInv, Counters
<1>7. Outgoing'
  <2>1. \A i \in DOMAIN up : up[i].kind # "binary"
    BY <1>1 DEF XInv, Outgoing
  <2>2. \A i \in DOMAIN up' : up'[i].kind = "binary" => i = Len(up) + 1 /\ up'[i] = m
    BY <1>3, <2>1
  <2>3. \A j \in DOMAIN up' : j <= Len(up) + 1
    BY <1>3
  <2>4. \A i \in DOMAIN up' : up'[i].kind = "frame" => i \in DOMAIN up /\ up'[i] = up[i]
    BY <1>2, <1>3
  <2> QED
    BY <1>1, <1>2, <1>3, <2>2, <2>3, <2>4 DEF XInv, Outgoing
<1>8. Unsettled'
  BY <1>5 DEF Unsettled
<1>9. Jobs'
  BY <1>1, <1>5 DEF XInv, Jobs
<1>10. Acks'
  BY <1>1, <1>4 DEF Acks, AcksAreNotAhead, AckSent
<1>11. Untouched'
  BY <1>1 DEF XInv, Untouched
<1> QED
  BY <1>6, <1>7, <1>8, <1>9, <1>10, <1>11 DEF XInv

\* The only ACK there is: with it read, nothing of the frame is left.
LEMMA ReadAckStep ==
  ASSUME TypeOK, XInv, ReadAck
  PROVE  /\ XInv'
         /\ Head(down).verdict = handled[calls] /\ handled[calls] # NoVerdict
<1> USE DEF TypeOK
<1>1. /\ pc = "ack" /\ pc' = "idle" /\ Read /\ IsAck(Head(down))
      /\ UNCHANGED <<calls, nextAckId, links, socket, up, half, working, handled>>
  BY DEF ReadAck, TakeAck, server
<1>2. /\ 1 \in DOMAIN down /\ down[1] = Head(down)
      /\ \A i \in DOMAIN down' : i \in Nat /\ i + 1 \in DOMAIN down /\ down'[i] = down[i + 1]
      /\ DOMAIN down' = 1 .. Len(down) - 1
  BY <1>1, ReadFacts
<1>3. down[1].kind = "ack" /\ AckSent
  BY <1>1, <1>2 DEF IsAck, AckSent
<1>4. Head(down).verdict = handled[calls] /\ handled[calls] # NoVerdict
  BY <1>2, <1>3 DEF XInv, Acks
<1>5. ~AckSent'
  <2>1. ASSUME NEW i \in DOMAIN down', down'[i].kind = "ack"
        PROVE  FALSE
    <3>1. i \in Nat /\ i >= 1 /\ i + 1 \in DOMAIN down /\ down[i + 1].kind = "ack"
      BY <1>2, <2>1
    <3>2. i + 1 = 1
      BY <1>2, <1>3, <3>1 DEF XInv, Acks
    <3> QED
      BY <3>1, <3>2
  <2> QED
    BY <2>1 DEF AckSent
<1>6. ~Sent
  BY <1>3 DEF XInv, Unsettled
<1>7. ~Sent'
  BY <1>1, <1>6 DEF Sent
<1>8. Counters'
  BY <1>1 DEF XInv, Counters
<1>9. Outgoing'
  BY <1>1, <1>7 DEF XInv, Outgoing, Sent
<1>10. Unsettled'
  BY <1>1, <1>7 DEF Unsettled
<1>11. Jobs'
  BY <1>1, <1>3 DEF XInv, Jobs
<1>12. Acks'
  BY <1>5 DEF Acks, AcksAreNotAhead, AckSent
<1>13. Untouched'
  BY <1>1 DEF XInv, Untouched
<1> QED
  BY <1>4, <1>8, <1>9, <1>10, <1>11, <1>12, <1>13 DEF XInv

-----------------------------------------------------------------------------
(* The steps of the server *)

\* Parts of a frame on their way belong to the current call, unanswered yet.
LEMMA SentFacts ==
  ASSUME TypeOK, XInv, Sent
  PROVE  /\ pc \in {"attach", "ack"} /\ handled[calls] = NoVerdict /\ ~Working /\ ~AckSent
         /\ socket = "up" /\ links \in 1 .. MaxLinks /\ calls \in Frames
         /\ nextAckId \in 1 .. MaxFrames
<1> USE DEF TypeOK
<1>1. pc \in {"attach", "ack"}
  BY DEF XInv, Outgoing, Sent
<1>2. handled[calls] = NoVerdict /\ ~Working /\ ~AckSent
  BY DEF XInv, Unsettled
<1>3. socket = "up"
  BY DEF XInv, Outgoing, Sent, NoHalf, Plain, Message
<1>4. nextAckId >= 1 /\ nextAckId <= calls /\ links >= 1
  BY <1>1, <1>3 DEF XInv, Counters
<1> QED
  BY <1>1, <1>2, <1>3, <1>4, ClientAssumption DEF Frames

\* The descriptor waits for its attachment.
LEMMA DescriptorStep ==
  ASSUME TypeOK, XInv, ServerReceives, Head(up).kind = "frame"
  PROVE  /\ XInv'
         /\ UNCHANGED <<client, socket, session, working, down, handled, noise, pings>>
         /\ up' = Tail(up) /\ half' = Head(up) /\ socket = "up"
<1> USE DEF TypeOK
<1>1. /\ socket = "up" /\ up # <<>> /\ up' = Tail(up) /\ half' = Head(up)
      /\ UNCHANGED <<client, socket, session, working, down, handled, noise, pings>>
  BY DEF ServerReceives
<1>2. /\ Head(up) \in Messages /\ 1 \in DOMAIN up /\ up[1] = Head(up)
      /\ \A i \in DOMAIN up' : i \in Nat /\ i + 1 \in DOMAIN up /\ up'[i] = up[i + 1]
  BY <1>1, TakeFacts
<1>3. Sent
  BY <1>2 DEF Sent
<1>4. /\ handled[calls] = NoVerdict /\ ~Working /\ ~AckSent
      /\ pc \in {"attach", "ack"} /\ Head(up).id = nextAckId - 1
  BY <1>2, <1>3, SentFacts DEF XInv, Outgoing
<1>5. /\ UNCHANGED <<pc, nextAckId, calls, links>>
      /\ handled'[calls'] = NoVerdict /\ ~Working' /\ ~AckSent'
  BY <1>1, <1>4 DEF Working, AckSent, client
<1>6. Counters'
  BY <1>1, <1>5 DEF XInv, Counters
<1>7. Outgoing'
  <2>1. ASSUME NEW i \in DOMAIN up', NEW j \in DOMAIN up',
               up'[i].kind = "binary", up'[j].kind \in {"frame", "binary"}
        PROVE  j <= i
    <3>1. i \in Nat /\ j \in Nat /\ j + 1 <= i + 1
      BY <1>2, <2>1 DEF XInv, Outgoing
    <3> QED
      BY <3>1
  <2>2. \A i \in DOMAIN up' :
          /\ up'[i].kind = "frame" => pc \in {"attach", "ack"} /\ up'[i].id = nextAckId - 1
          /\ up'[i].kind = "binary" => pc = "ack" /\ up'[i].frame = calls
    BY <1>2 DEF XInv, Outgoing
  <2> QED
    BY <1>1, <1>4, <1>5, <2>1, <2>2 DEF Outgoing
<1>8. Unsettled'
  BY <1>5 DEF Unsettled
<1>9. Jobs'
  BY <1>1, <1>5 DEF XInv, Jobs, AckSent
<1>10. Acks' /\ Untouched'
  BY <1>1, <1>5 DEF XInv, Acks, AcksAreNotAhead, IsAck, Untouched
<1> QED
  BY <1>1, <1>6, <1>7, <1>8, <1>9, <1>10 DEF XInv

\* The attachment comes last, and makes its frame the handler's only one.
LEMMA AttachmentStep ==
  ASSUME TypeOK, XInv, ServerReceives, Head(up).kind = "binary"
  PROVE  /\ XInv'
         /\ UNCHANGED <<client, socket, session, down, handled, noise, pings>>
         /\ up' = Tail(up) /\ half' = NoHalf /\ working' \in SUBSET Job /\ socket = "up"
<1> USE DEF TypeOK
<1> DEFINE job == [link |-> links, id |-> half.id, frame |-> Head(up).frame]
<1>1. /\ socket = "up" /\ up # <<>> /\ up' = Tail(up) /\ half' = NoHalf
      /\ working' = (IF half.kind = "frame" /\ session = "joined"
                       THEN working \cup {job} ELSE working)
      /\ UNCHANGED <<client, socket, session, down, handled, noise, pings>>
  BY DEF ServerReceives
<1>2. /\ Head(up) \in Messages /\ 1 \in DOMAIN up /\ up[1] = Head(up)
      /\ \A i \in DOMAIN up' : i \in Nat /\ i + 1 \in DOMAIN up /\ up'[i] = up[i + 1]
      /\ DOMAIN up' = 1 .. Len(up') /\ Len(up') \in Nat
  <2>1. up' \in Seq(Messages)
    BY <1>1, TakeFacts
  <2> QED
    BY <1>1, <2>1, TakeFacts, LenProperties
<1>3. Sent
  BY <1>2 DEF Sent
<1>4. /\ pc = "ack" /\ Head(up).frame = calls
      /\ handled[calls] = NoVerdict /\ ~Working /\ ~AckSent
      /\ links \in 1 .. MaxLinks /\ calls \in Frames /\ nextAckId \in 1 .. MaxFrames
  BY <1>2, <1>3, SentFacts DEF XInv, Outgoing
<1>5. half.kind = "frame" => job.id = nextAckId - 1 /\ job \in Job
  <2>1. half.kind = "frame" => half.id = nextAckId - 1
    BY DEF XInv, Outgoing
  <2>2. nextAckId - 1 \in 0 .. MaxFrames
    BY <1>4, ClientAssumption
  <2> QED
    BY <1>4, <2>1, <2>2 DEF Job
<1>6. job.frame = calls /\ job.link = links
  BY <1>4
<1> HIDE DEF job
<1>7. working' \in SUBSET Job
  BY <1>1, <1>5
<1>8. ~Sent'
  <2>1. ASSUME NEW i \in DOMAIN up', up'[i].kind \in {"frame", "binary"}
        PROVE  FALSE
    <3>1. i \in Nat /\ i >= 1 /\ i + 1 \in DOMAIN up /\ up[i + 1].kind \in {"frame", "binary"}
      BY <1>2, <2>1
    <3>2. i + 1 <= 1
      BY <1>2, <3>1 DEF XInv, Outgoing
    <3> QED
      BY <3>1, <3>2
  <2> QED
    BY <1>1, <2>1 DEF Sent, NoHalf, Plain, Message
<1>9. UNCHANGED <<pc, nextAckId, calls, links>> /\ ~AckSent'
  BY <1>1, <1>4 DEF client, AckSent
<1>10. Counters'
  BY <1>1, <1>9 DEF XInv, Counters
<1>11. Outgoing'
  BY <1>1, <1>8, <1>9 DEF Outgoing, Sent
<1>12. Unsettled'
  BY <1>4, <1>8, <1>9 DEF Unsettled
<1>13. Jobs'
  <2>1. \A a \in working : a.frame # calls
    BY <1>4 DEF Working
  <2>2. \A a \in working : ~(socket = "up" /\ a.link = links)
    BY <2>1 DEF XInv, Jobs
  <2>3. \A a \in working' : a \in working \/ (a = job /\ half.kind = "frame")
    BY <1>1
  <2>4. \A a \in working' :
          a.frame <= calls /\ a.link <= links /\ handled[a.frame] = NoVerdict
    BY <1>4, <1>6, <2>3 DEF XInv, Jobs, Frames
  <2>5. \A a, b \in working' : a.frame = b.frame => a = b
    BY <1>6, <2>1, <2>3 DEF XInv, Jobs
  <2>6. \A a \in working' :
          socket = "up" /\ a.link = links =>
            pc = "ack" /\ a.frame = calls /\ a.id = nextAckId - 1
    BY <1>4, <1>5, <1>6, <2>2, <2>3
  <2> QED
    BY <1>1, <1>9, <2>4, <2>5, <2>6 DEF Jobs
<1>14. Acks' /\ Untouched'
  BY <1>1, <1>9 DEF XInv, Acks, AcksAreNotAhead, IsAck, Untouched
<1> QED
  BY <1>1, <1>7, <1>10, <1>11, <1>12, <1>13, <1>14 DEF XInv

\* What the handler of a job tells.
Answer(job, v) ==
  (IF v = "accepted" THEN Broadcast ELSE <<>>) \o <<Message("ack", job.id, 0, v)>>

\* An ACK, behind messages of other kinds.
LEMMA AnswerFacts ==
  ASSUME NEW job \in Job, NEW v \in Verdict
  PROVE  LET ms == Answer(job, v)
         IN  /\ ms \in Seq(Messages) /\ Len(ms) \in 1 .. 3
             /\ ms[Len(ms)] = Message("ack", job.id, 0, v)
             /\ \A i \in 1 .. Len(ms) - 1 : ms[i].kind \in {"event", "binary"}
<1> DEFINE m == Message("ack", job.id, 0, v)
<1>1. m \in Messages
  <2>1. "ack" \in Kinds /\ job.id \in -1 .. MaxFrames /\ 0 \in 0 .. MaxFrames
    BY ClientAssumption DEF Kinds, Job
  <2> QED
    BY <2>1, MessageType
<1> HIDE DEF m
<1>2. CASE v = "accepted"
  <2> DEFINE e == Plain("event")
  <2> DEFINE b == Plain("binary")
  <2>1. e \in Messages /\ b \in Messages /\ e.kind = "event" /\ b.kind = "binary"
    BY MessageType DEF Kinds, Plain, Message
  <2>2. Broadcast = <<e, b>>
    BY DEF Broadcast
  <2> HIDE DEF e, b
  <2>3. Answer(job, v) = <<e, b>> \o <<m>>
    BY <1>2, <2>2 DEF Answer, m
  <2>4. <<e, b>> \in Seq(Messages) /\ <<m>> \in Seq(Messages)
        /\ Len(<<e, b>>) = 2 /\ Len(<<m>>) = 1
    BY <1>1, <2>1
  <2>5. /\ Answer(job, v) \in Seq(Messages)
        /\ Len(Answer(job, v)) = 3
        /\ \A i \in 1 .. 3 : Answer(job, v)[i] = IF i <= 2 THEN <<e, b>>[i] ELSE <<m>>[i - 2]
    BY <2>3, <2>4, ConcatProperties
  <2>6. Answer(job, v)[1] = e /\ Answer(job, v)[2] = b /\ Answer(job, v)[3] = m
    BY <2>5
  <2> QED
    BY <2>1, <2>5, <2>6 DEF m
<1>3. CASE v # "accepted"
  <2>1. Answer(job, v) = <<m>>
    <3>1. <<>> \o <<m>> = <<m>>
      OBVIOUS
    <3> QED
      BY <1>3, <3>1 DEF Answer, m
  <2> QED
    BY <1>1, <2>1 DEF m
<1> QED
  BY <1>2, <1>3

\* A place behind the first a ones.
LEMMA PlaceBehind ==
  ASSUME NEW a \in Nat, NEW b \in Nat, NEW i \in 1 .. a + b, i > a
  PROVE  \E k \in 1 .. b : i = a + k
<1>1. i - a \in 1 .. b /\ i = a + (i - a)
  OBVIOUS
<1> QED
  BY <1>1

\* The handler answers each job once, and over a later connection not at all.
LEMMA ServerAnswersStep ==
  ASSUME TypeOK, XInv, NEW job \in working, NEW v \in Verdict,
         working' = working \ {job},
         handled' = [handled EXCEPT ![job.frame] = v],
         IF socket = "up" /\ job.link = links THEN Tell(Answer(job, v)) ELSE UNCHANGED down,
         UNCHANGED <<client, socket, up, session, half, noise, pings>>
  PROVE  XInv'
<1> USE DEF TypeOK
<1>1. /\ UNCHANGED <<pc, nextAckId, calls, links>>
      /\ calls \in 0 .. MaxFrames /\ MaxFrames \in Nat
  BY ClientAssumption DEF client
<1>2. /\ job \in Job /\ job.frame \in Frames /\ job.frame <= calls
      /\ handled[job.frame] = NoVerdict
      /\ \A b \in working : b.frame = job.frame => b = job
  BY DEF XInv, Jobs, Job
<1>3. /\ v # NoVerdict /\ handled'[job.frame] = v
      /\ \A f \in Frames : f # job.frame => handled'[f] = handled[f]
  BY <1>2, ClientAssumption DEF Verdict
<1>4. Sent' <=> Sent
  BY DEF Sent
<1>5. Sent \/ pc = "attach" => calls # job.frame
  BY DEF XInv, Unsettled, Working
<1>6. pc \in {"attach", "ack"} => calls \in Frames
  BY <1>1 DEF XInv, Counters, Frames
<1>7. Counters' /\ Outgoing'
  BY <1>1 DEF XInv, Counters, Outgoing
<1>8. Untouched'
  <2>1. \A f \in Frames : f > calls => f # job.frame
    BY <1>1, <1>2 DEF Frames
  <2> QED
    BY <1>1, <1>3, <2>1 DEF XInv, Untouched
<1>9. CASE socket = "up" /\ job.link = links
  <2> DEFINE ms == Answer(job, v)
  <2>1. /\ pc = "ack" /\ job.frame = calls /\ job.id = nextAckId - 1 /\ ~AckSent
    BY <1>9 DEF XInv, Jobs
  <2>2. /\ ms \in Seq(Messages) /\ Len(ms) \in 1 .. 3
        /\ ms[Len(ms)] = Message("ack", job.id, 0, v)
        /\ \A i \in 1 .. Len(ms) - 1 : ms[i].kind \in {"event", "binary"}
    BY <1>2, AnswerFacts
  <2> HIDE DEF ms
  <2>3. Tell(ms)
    BY <1>9 DEF ms
  <2>4. /\ Len(down) \in Nat
        /\ DOMAIN down = 1 .. Len(down) /\ DOMAIN down' = 1 .. Len(down) + Len(ms)
        /\ \A i \in 1 .. Len(down) : down'[i] = down[i]
        /\ \A i \in 1 .. Len(ms) : down'[Len(down) + i] = ms[i]
    BY <2>2, <2>3, TellFacts
  <2> DEFINE n == Len(down) + Len(ms)
  <2>5. ASSUME NEW i \in DOMAIN down', down'[i].kind = "ack"
        PROVE  i = n /\ down'[i].id = job.id /\ down'[i].verdict = v
    <3>1. i > Len(down)
      <4>1. i \in 1 .. Len(down) => i \in DOMAIN down /\ down[i].kind = "ack"
        BY <2>4, <2>5
      <4>2. i \notin 1 .. Len(down)
        BY <2>1, <4>1 DEF AckSent
      <4>3. i \in 1 .. Len(down) + Len(ms) /\ Len(ms) \in Nat
        BY <2>2, <2>4
      <4> QED
        BY <2>4, <4>2, <4>3
    <3>2. i \in 1 .. Len(down) + Len(ms) /\ Len(down) \in Nat /\ Len(ms) \in Nat
      BY <2>2, <2>4
    <3>3. PICK k \in 1 .. Len(ms) : i = Len(down) + k
      BY <3>1, <3>2, PlaceBehind
    <3>4. down'[i] = ms[k]
      BY <2>4, <3>3
    <3>5. k = Len(ms)
      <4>1. ms[k].kind = "ack"
        BY <2>5, <3>4
      <4>2. k \notin 1 .. Len(ms) - 1
        BY <2>2, <4>1
      <4> QED
        BY <3>2, <4>2
    <3>6. down'[i] = Message("ack", job.id, 0, v)
      BY <2>2, <3>4, <3>5
    <3> QED
      BY <3>3, <3>5, <3>6 DEF Message
  <2>6. ~Sent' /\ pc' # "attach"
    BY <1>1, <1>4, <1>5, <2>1
  <2>7. Jobs'
    <3>1. \A b \in working' : b.frame # calls /\ b.frame # job.frame
      BY <1>2, <2>1
    <3>2. \A b \in working' : ~(socket = "up" /\ b.link = links)
      BY <3>1 DEF XInv, Jobs
    <3>3. \A b \in working' : handled'[b.frame] = NoVerdict
      BY <1>3, <3>1 DEF XInv, Jobs, Job
    <3> QED
      BY <1>1, <3>2, <3>3 DEF XInv, Jobs
  <2>8. Acks'
    BY <1>1, <1>3, <2>1, <2>5 DEF Acks, AcksAreNotAhead, IsAck
  <2> QED
    BY <1>7, <1>8, <2>6, <2>7, <2>8 DEF XInv, Unsettled
<1>10. CASE ~(socket = "up" /\ job.link = links)
  <2>1. down' = down
    BY <1>10
  <2>2. AckSent' <=> AckSent
    BY <2>1 DEF AckSent
  <2>3. AckSent => calls # job.frame /\ calls \in Frames
    BY <1>2, <1>6 DEF XInv, Acks, AcksAreNotAhead, AckSent
  <2>4. Unsettled'
    <3>1. Sent \/ pc = "attach" => calls \in Frames
      BY <1>6 DEF XInv, Outgoing, Sent
    <3>2. Working' => Working
      BY <1>1 DEF Working
    <3> QED
      BY <1>1, <1>3, <1>4, <1>5, <2>2, <3>1, <3>2 DEF XInv, Unsettled
  <2>5. Jobs'
    <3>1. \A b \in working' : b.frame # job.frame /\ b \in working
      BY <1>2
    <3>2. \A b \in working' : handled'[b.frame] = NoVerdict
      BY <1>3, <3>1 DEF XInv, Jobs, Job
    <3> QED
      BY <1>1, <2>2, <3>1, <3>2 DEF XInv, Jobs
  <2>6. Acks'
    <3>1. AckSent => handled'[calls] = handled[calls]
      BY <1>3, <2>3
    <3> QED
      BY <1>1, <2>1, <3>1 DEF XInv, Acks, AcksAreNotAhead, IsAck, AckSent
  <2> QED
    BY <1>7, <1>8, <2>4, <2>5, <2>6 DEF XInv
<1> QED
  BY <1>9, <1>10

-----------------------------------------------------------------------------
(* Counting pings *)

\* They are finitely many.
LEMMA PingsAreFinite ==
  ASSUME down \in Seq(Messages)
  PROVE  IsFiniteSet(Places("ping")) /\ Cardinality(Places("ping")) \in Nat
<1>1. Places("ping") \in SUBSET (1 .. Len(down)) /\ Len(down) \in Nat
  BY LenProperties DEF Places
<1>2. IsFiniteSet(1 .. Len(down))
  BY <1>1, FS_Interval
<1> QED
  BY <1>1, <1>2, FS_Subset, FS_CardinalityType

\* Reading a ping takes one away, reading another message none.
LEMMA PingRead ==
  ASSUME down \in Seq(Messages), Read
  PROVE  Cardinality(Places("ping"))' =
           Cardinality(Places("ping")) - (IF Head(down).kind = "ping" THEN 1 ELSE 0)
<1> DEFINE S == Places("ping") \ {1}
<1> DEFINE T == Places("ping")'
<1> DEFINE f == [i \in S |-> i - 1]
<1>1. /\ down[1] = Head(down) /\ 1 \in DOMAIN down /\ Len(down) \in Nat
      /\ \A i \in DOMAIN down' : i \in Nat /\ i + 1 \in DOMAIN down /\ down'[i] = down[i + 1]
      /\ DOMAIN down = 1 .. Len(down) /\ DOMAIN down' = 1 .. Len(down) - 1
  BY ReadFacts
<1>2. IsFiniteSet(Places("ping")) /\ Cardinality(Places("ping")) \in Nat
  BY PingsAreFinite
<1>3. \A i \in S : i \in 2 .. Len(down) /\ i - 1 \in T
  <2>1. ASSUME NEW i \in S PROVE i \in 2 .. Len(down) /\ i - 1 \in T
    <3>1. i \in 2 .. Len(down) /\ down[i].kind = "ping"
      BY <1>1 DEF Places
    <3>2. i - 1 \in DOMAIN down' /\ down'[i - 1] = down[(i - 1) + 1] /\ (i - 1) + 1 = i
      BY <1>1, <3>1
    <3> QED
      BY <3>1, <3>2 DEF Places
  <2> QED
    BY <2>1
<1>4. \A j \in T : j + 1 \in S /\ j \in Nat
  <2>1. ASSUME NEW j \in T PROVE j + 1 \in S /\ j \in Nat
    <3>1. j \in DOMAIN down' /\ down'[j].kind = "ping"
      BY DEF Places
    <3>2. j \in 1 .. Len(down) - 1 /\ j + 1 \in DOMAIN down /\ down[j + 1].kind = "ping"
      BY <1>1, <3>1
    <3> QED
      BY <1>1, <3>2 DEF Places
  <2> QED
    BY <2>1
<1> HIDE DEF S, T
<1>5. f \in Bijection(S, T)
  <2>1. f \in [S -> T]
    BY <1>3
  <2>2. \A a, b \in S : f[a] = f[b] => a = b
    BY <1>3
  <2>3. \A t \in T : t + 1 \in S /\ f[t + 1] = t
    BY <1>4
  <2> HIDE DEF f
  <2>4. \A t \in T : \E s \in S : f[s] = t
    BY <2>3
  <2>5. DOMAIN f = S
    BY <2>1
  <2> QED
    BY <2>1, <2>2, <2>4, <2>5 DEF Bijection, Injection, Surjection, IsInjective
<1>6. IsFiniteSet(S) /\ Cardinality(S) =
        (IF 1 \in Places("ping") THEN Cardinality(Places("ping")) - 1
                                 ELSE Cardinality(Places("ping")))
  BY <1>2, FS_RemoveElement DEF S
<1>7. Cardinality(T) = Cardinality(S)
  <2>1. ExistsBijection(S, T)
    BY <1>5 DEF ExistsBijection
  <2> QED
    BY <1>6, <2>1, FS_Bijection
<1>8. 1 \in Places("ping") <=> Head(down).kind = "ping"
  BY <1>1 DEF Places
<1> QED
  BY <1>2, <1>6, <1>7, <1>8 DEF T

\* Telling other messages adds none.
LEMMA PingTold ==
  ASSUME down \in Seq(Messages), NEW ms \in Seq(Messages), Tell(ms),
         \A i \in 1 .. Len(ms) : ms[i].kind # "ping"
  PROVE  Places("ping")' = Places("ping")
<1>1. /\ Len(down) \in Nat /\ Len(ms) \in Nat
      /\ DOMAIN down = 1 .. Len(down) /\ DOMAIN down' = 1 .. Len(down) + Len(ms)
      /\ \A i \in 1 .. Len(down) : down'[i] = down[i]
      /\ \A i \in 1 .. Len(ms) : down'[Len(down) + i] = ms[i]
  BY TellFacts
<1>2. ASSUME NEW i \in DOMAIN down', i \notin DOMAIN down
      PROVE  down'[i].kind # "ping"
  <2>1. i - Len(down) \in 1 .. Len(ms) /\ i = Len(down) + (i - Len(down))
    BY <1>1, <1>2
  <2> QED
    BY <1>1, <2>1
<1>3. \A i \in DOMAIN down : i \in DOMAIN down' /\ down'[i] = down[i]
  BY <1>1
<1> QED
  BY <1>2, <1>3 DEF Places

\* A ping told is one more.
LEMMA PingSent ==
  ASSUME down \in Seq(Messages), Tell(<<Plain("ping")>>)
  PROVE  Cardinality(Places("ping"))' = Cardinality(Places("ping")) + 1
<1> DEFINE p == Plain("ping")
<1>1. p \in Messages /\ p.kind = "ping"
  BY MessageType DEF Kinds, Plain, Message
<1> HIDE DEF p
<1> DEFINE ms == <<p>>
<1>2. ms \in Seq(Messages) /\ Len(ms) = 1 /\ ms[1] = p
  BY <1>1
<1>3. Tell(ms)
  BY DEF p
<1> HIDE DEF ms
<1>4. /\ Len(down) \in Nat
      /\ DOMAIN down = 1 .. Len(down) /\ DOMAIN down' = 1 .. Len(down) + 1
      /\ \A i \in 1 .. Len(down) : down'[i] = down[i]
      /\ down'[Len(down) + 1] = p
  BY <1>2, <1>3, TellFacts
<1>5. Len(down) + 1 \notin Places("ping")
  BY <1>4 DEF Places
<1>6. Places("ping")' = Places("ping") \cup {Len(down) + 1}
  BY <1>1, <1>4 DEF Places
<1> QED
  BY <1>5, <1>6, PingsAreFinite, FS_AddElement

\* Of a message queue cut short, fewer are left.
LEMMA PingsCut ==
  ASSUME down \in Seq(Messages), NEW n \in 0 .. Len(down), down' = SubSeq(down, 1, n)
  PROVE  /\ down' \in Seq(Messages)
         /\ \A i \in DOMAIN down' : i \in Nat /\ i \in DOMAIN down /\ down'[i] = down[i]
         /\ down' # <<>> => down # <<>> /\ Head(down') = Head(down)
         /\ Cardinality(Places("ping"))' <= Cardinality(Places("ping"))
         /\ Cardinality(Places("ping"))' \in Nat
<1>1. Len(down) \in Nat /\ DOMAIN down = 1 .. Len(down)
  BY LenProperties
<1>2. \A i \in 1 .. n : down[i] \in Messages
  BY <1>1, ElementOfSeq
<1>3. /\ down' \in Seq(Messages)
      /\ Len(down') = IF 1 <= n THEN n - 1 + 1 ELSE 0
      /\ \A i \in 1 .. n - 1 + 1 : down'[i] = down[1 + i - 1]
  <2>1. n \in Int
    BY <1>1
  <2> QED
    BY <1>2, <2>1, SubSeqProperties
<1>4. DOMAIN down' = 1 .. n
  BY <1>1, <1>3, LenProperties
<1>5. \A i \in DOMAIN down' : i \in Nat /\ i \in DOMAIN down /\ down'[i] = down[i]
  BY <1>1, <1>3, <1>4
<1>6. Places("ping")' \in SUBSET Places("ping")
  BY <1>5 DEF Places
<1>7. down' # <<>> => down # <<>> /\ Head(down') = Head(down)
  <2>1. ASSUME down' # <<>> PROVE 1 \in DOMAIN down'
    BY <1>1, <1>3, <1>4, <2>1, EmptySeq
  <2>2. ASSUME down' # <<>> PROVE down # <<>> /\ down'[1] = down[1]
    BY <1>1, <1>5, <2>1, <2>2
  <2>3. \A s \in Seq(Messages) : s # <<>> => Head(s) = s[1]
    OBVIOUS
  <2> QED
    BY <1>3, <2>2, <2>3
<1>8. IsFiniteSet(Places("ping")')
  BY <1>6, PingsAreFinite, FS_Subset
<1> QED
  BY <1>3, <1>5, <1>6, <1>7, <1>8, PingsAreFinite, FS_Subset, FS_CardinalityType

-----------------------------------------------------------------------------
(* The steps of the client *)

\* Nothing is read before the open packet, and "joined" only when it is true.
LEMMA ReadHandshake ==
  ASSUME TypeOK, Handshake, Read, UNCHANGED session, pc' # "open",
         authenticated' => authenticated \/ Head(down).kind = "joined",
         pc' \in {"attach", "ack"} => pc' = pc /\ authenticated' = authenticated
  PROVE  Handshake' /\ session # "new"
<1> USE DEF TypeOK
<1>1. /\ 1 \in DOMAIN down /\ down[1] = Head(down)
      /\ \A i \in DOMAIN down' : i + 1 \in DOMAIN down /\ down'[i] = down[i + 1]
  BY ReadFacts
<1>2. session # "new"
  BY DEF Handshake, Read
<1>3. authenticated' => session' = "joined"
  BY <1>1 DEF Handshake
<1>4. \A i \in DOMAIN down' : down'[i].kind = "joined" => session' = "joined"
  BY <1>1 DEF Handshake
<1> QED
  BY <1>2, <1>3, <1>4 DEF Handshake

\* Reading leaves the ACKs that are not read.
LEMMA ReadNoNewAck ==
  ASSUME TypeOK, Read
  PROVE  NoNewAck
<1>1. \A i \in DOMAIN down' : i \in Nat /\ i + 1 \in DOMAIN down /\ down'[i] = down[i + 1]
  BY ReadFacts DEF TypeOK
<1> QED
  BY <1>1 DEF NoNewAck

\* Writing another message adds no part of a frame.
LEMMA WriteNoNewPart ==
  ASSUME TypeOK, NEW m \in Messages, m.kind \notin {"frame", "binary"}, Write(<<m>>)
  PROVE  NoNewPart /\ up' \in Seq(Messages)
<1>1. /\ up' \in Seq(Messages)
      /\ Len(up) \in Nat /\ DOMAIN up = 1 .. Len(up)
      /\ \A i \in DOMAIN up' : (i \in DOMAIN up /\ up'[i] = up[i]) \/ up'[i] = m
  BY WriteFacts DEF TypeOK
<1>2. \A i \in DOMAIN up' : up'[i].kind \in {"frame", "binary"} =>
        i \in Nat /\ i + 0 \in DOMAIN up /\ up'[i] = up[i + 0]
  BY <1>1
<1> QED
  BY <1>1, <1>2 DEF NoNewPart

\* Nothing written, or nothing new told.
LEMMA UnchangedQuiet ==
  ASSUME TypeOK
  PROVE  (up' = up => NoNewPart) /\ (down' = down => NoNewAck)
<1>1. \A i \in DOMAIN up : i \in Nat /\ i + 0 = i
  BY LenProperties DEF TypeOK
<1>2. \A i \in DOMAIN down : i \in Nat /\ i + 0 = i
  BY LenProperties DEF TypeOK
<1> QED
  BY <1>1, <1>2 DEF NoNewPart, NoNewAck

\* disconnect, and connect up to the upgrade, leave nothing of a connection.
LEMMA DisconnectStep ==
  ASSUME IInv, Disconnect
  PROVE  IInv'
<1> USE DEF IInv
<1>1. /\ pc = "idle" /\ pc' = "idle" /\ authenticated' = FALSE /\ socket' = "none"
      /\ up' = <<>> /\ down' = <<>> /\ session' = "new" /\ half' = NoHalf
      /\ noise' = 0 /\ pings' = 0
      /\ UNCHANGED <<nextAckId, calls, result, links, working, handled>>
  BY DEF Disconnect, Drop
<1>2. TypeOK'
  <2>1. <<>> \in Seq(Messages) /\ NoHalf \in Messages /\ 0 \in 0 .. MaxNoise
    BY MessageType, ClientAssumption
  <2> QED
    BY <1>1, <2>1 DEF TypeOK
<1>3. XInv'
  BY <1>1, ClearedStep
<1>4. Handshake'
  BY <1>1 DEF Handshake
<1>5. PingCount'
  <2>1. Places("ping")' = {}
    BY <1>1 DEF Places
  <2>2. Cardinality(Places("ping"))' = 0
    BY <2>1, FS_EmptySet
  <2> QED
    BY <1>1, <2>2 DEF PingCount, ReadPingsAreAnswered
<1> QED
  BY <1>2, <1>3, <1>4, <1>5

\* A connection that is not up is one that failed to come up.
LEMMA ConnectStep ==
  ASSUME IInv, Connect
  PROVE  IInv'
<1> USE DEF IInv
<1>1. /\ pc = "idle" /\ links < MaxLinks /\ links' = links + 1 /\ authenticated' = FALSE
      /\ up' = <<>> /\ down' = <<>> /\ session' = "new" /\ half' = NoHalf
      /\ noise' = 0 /\ pings' = 0
      /\ pc' \in {"open", "idle"} /\ socket' \in {"up", "lost"}
      /\ UNCHANGED <<nextAckId, calls, result, working, handled>>
  BY DEF Connect, Dial, Drop
<1>2. TypeOK'
  <2>1. <<>> \in Seq(Messages) /\ NoHalf \in Messages /\ 0 \in 0 .. MaxNoise
    BY MessageType, ClientAssumption
  <2>2. links' \in 0 .. MaxLinks
    BY <1>1, ClientAssumption DEF TypeOK
  <2> QED
    BY <1>1, <2>1, <2>2 DEF TypeOK, PC
<1>3. XInv'
  BY <1>1, ClearedStep
<1>4. Handshake'
  BY <1>1 DEF Handshake
<1>5. PingCount'
  <2>1. Places("ping")' = {}
    BY <1>1 DEF Places
  <2>2. Cardinality(Places("ping"))' = 0
    BY <2>1, FS_EmptySet
  <2> QED
    BY <1>1, <2>2 DEF PingCount, ReadPingsAreAnswered
<1> QED
  BY <1>2, <1>3, <1>4, <1>5

\* An exception ends the call and leaves what the server may still do.
LEMMA ThrowsStep ==
  ASSUME IInv, Throws
  PROVE  IInv'
<1> USE DEF IInv
<1>1. /\ socket = "lost" /\ socket' = "lost" /\ pc' = "idle" /\ down' = <<>>
      /\ UNCHANGED <<authenticated, nextAckId, calls, result, links, up, session, half,
                     working, handled, noise, pings>>
  BY DEF Throws, server
<1>2. up' = <<>> /\ half' = NoHalf
  BY <1>1 DEF XInv, Outgoing
<1>3. TypeOK'
  BY <1>1 DEF TypeOK, PC
<1>4. XInv'
  BY <1>1, <1>2, ClearedStep
<1>5. Handshake'
  BY <1>1 DEF Handshake
<1>6. PingCount'
  <2>1. Places("ping")' = {}
    BY <1>1 DEF Places
  <2>2. Cardinality(Places("ping"))' = 0
    BY <2>1, FS_EmptySet
  <2> QED
    BY <1>1, <2>2 DEF PingCount, ReadPingsAreAnswered, TypeOK
<1> QED
  BY <1>3, <1>4, <1>5, <1>6

\* Reading a message that is no ping leaves the pings to answer.
LEMMA ReadOther ==
  ASSUME TypeOK, PingCount, Read, Head(down).kind # "ping", UNCHANGED <<pings, socket>>
  PROVE  PingCount' /\ down' \in Seq(Messages)
<1>1. Cardinality(Places("ping"))' = Cardinality(Places("ping"))
  BY PingRead, PingsAreFinite DEF TypeOK
<1> QED
  BY <1>1, ReadFacts DEF PingCount, ReadPingsAreAnswered, TypeOK

\* What is read first is the open packet, which the join packet answers.
LEMMA ReadOpenStep ==
  ASSUME IInv, ReadOpen
  PROVE  IInv'
<1> USE DEF IInv
<1>1. /\ pc = "open" /\ Read /\ pc' \in {"join", "idle"}
      /\ Write(<<Plain("join")>>) \/ up' = up
      /\ UNCHANGED <<authenticated, nextAckId, calls, result, links, socket, session, half,
                     working, handled, noise, pings>>
  BY DEF ReadOpen, server
<1>2. Head(down).kind = "open"
  BY <1>1 DEF Handshake, Read
<1>3. Plain("join") \in Messages /\ Plain("join").kind = "join"
  BY MessageType DEF Kinds, Plain, Message
<1>4. NoNewPart /\ up' \in Seq(Messages) /\ (socket # "up" => up' = up)
  BY <1>1, <1>3, WriteNoNewPart, UnchangedQuiet DEF TypeOK, Write
<1>5. PingCount' /\ down' \in Seq(Messages)
  BY <1>1, <1>2, ReadOther
<1>6. TypeOK'
  BY <1>1, <1>4, <1>5 DEF TypeOK, PC
<1>7. NoNewAck
  BY <1>1, ReadNoNewAck
<1>8. XInv'
  <2>1. socket # "up" => up' = <<>>
    BY <1>4 DEF XInv, Outgoing
  <2> QED
    BY <1>1, <1>4, <1>7, <2>1, QuietStep
<1>9. Handshake'
  BY <1>1, ReadHandshake
<1> QED
  BY <1>5, <1>6, <1>8, <1>9

\* A ping read is a pong written.
LEMMA AnswerPingStep ==
  ASSUME IInv, AnswerPing
  PROVE  IInv'
<1> USE DEF IInv
<1>1. /\ pc \in {"join", "ack"} /\ Read /\ Head(down).kind = "ping"
      /\ Write(<<Plain("pong")>>) /\ pings' = pings - 1
      /\ UNCHANGED <<pc, authenticated, nextAckId, calls, result, links, socket, session, half,
                     working, handled, noise>>
  BY DEF AnswerPing, Pong, client, server
<1>2. Plain("pong") \in Messages /\ Plain("pong").kind = "pong"
  BY MessageType DEF Kinds, Plain, Message
<1>3. NoNewPart /\ up' \in Seq(Messages) /\ (socket # "up" => up' = up)
  BY <1>1, <1>2, WriteNoNewPart DEF TypeOK, Write
<1>4. /\ Cardinality(Places("ping"))' = Cardinality(Places("ping")) - 1
      /\ Cardinality(Places("ping")) \in Nat
  BY <1>1, PingRead, PingsAreFinite DEF TypeOK
<1>5. down' \in Seq(Messages)
  BY <1>1, ReadFacts DEF TypeOK
<1>6. Cardinality(Places("ping"))' \in Nat
  <2>1. IsFiniteSet(Places("ping")')
    <3>1. Places("ping")' \in SUBSET (1 .. Len(down')) /\ Len(down') \in Nat
      BY <1>5, LenProperties DEF Places
    <3> QED
      <4>1. IsFiniteSet(1 .. Len(down'))
        BY <3>1, FS_Interval
      <4> QED
        BY <3>1, <4>1, FS_Subset
  <2> QED
    BY <2>1, FS_CardinalityType
<1>7. pings' \in Nat /\ PingCount'
  BY <1>1, <1>4, <1>6 DEF PingCount, ReadPingsAreAnswered, TypeOK
<1>8. TypeOK'
  BY <1>1, <1>3, <1>5, <1>7 DEF TypeOK
<1>9. NoNewAck
  BY <1>1, ReadNoNewAck
<1>10. XInv'
  <2>1. socket # "up" => up' = <<>>
    BY <1>3 DEF XInv, Outgoing
  <2> QED
    BY <1>1, <1>3, <1>9, <2>1, QuietStep
<1>11. Handshake'
  BY <1>1, ReadHandshake
<1> QED
  BY <1>7, <1>8, <1>10, <1>11

\* The other messages of both loops, and the end of connect.
LEMMA OtherReadStep ==
  ASSUME IInv, Joined \/ Rejected \/ SkipInJoin \/ SkipInAck
  PROVE  IInv'
<1> USE DEF IInv
<1>1. /\ Read /\ Head(down).kind # "ping" /\ pc' # "open"
      /\ UNCHANGED <<calls, result, links, socket, up, session, half, working, handled, noise,
                     pings>>
      /\ authenticated' \in BOOLEAN
      /\ authenticated' => authenticated \/ Head(down).kind = "joined"
      /\ \/ UNCHANGED <<pc, nextAckId, authenticated>> /\ pc \in {"join", "ack"}
         \/ pc = "join" /\ pc' = "idle" /\ nextAckId' \in {nextAckId, 0}
  <2>1. CASE Joined
    BY <2>1 DEF Joined, server, TypeOK
  <2>2. CASE Rejected
    BY <2>2 DEF Rejected, server, TypeOK
  <2>3. CASE SkipInJoin
    BY <2>3 DEF SkipInJoin, Skip, client, server, TypeOK
  <2>4. CASE SkipInAck
    BY <2>4 DEF SkipInAck, Skip, client, server, TypeOK
  <2> QED
    BY <2>1, <2>2, <2>3, <2>4
<1>2. PingCount' /\ down' \in Seq(Messages)
  BY <1>1, ReadOther
<1>3. TypeOK'
  BY <1>1, <1>2, ClientAssumption DEF TypeOK, PC
<1>4. NoNewAck /\ NoNewPart
  BY <1>1, ReadNoNewAck, UnchangedQuiet
<1>5. XInv'
  <2>1. socket # "up" => up' = <<>>
    BY <1>1 DEF XInv, Outgoing
  <2> QED
    BY <1>1, <1>4, <2>1, QuietStep
<1>6. Handshake'
  BY <1>1, ReadHandshake
<1> QED
  BY <1>2, <1>3, <1>5, <1>6

\* Frames go out only over a confirmed connection.
LEMMA SendFrameKeeps ==
  ASSUME IInv, SendFrame
  PROVE  IInv'
<1> USE DEF IInv
<1> DEFINE m == Message("frame", nextAckId, calls + 1, NoVerdict)
<1>1. /\ pc = "idle" /\ pc' = "attach" /\ calls < MaxFrames /\ authenticated
      /\ calls' = calls + 1 /\ nextAckId' = nextAckId + 1
      /\ Write(<<m>>)
      /\ UNCHANGED <<authenticated, result, links, socket, down, session, half, working,
                     handled, noise, pings>>
  BY DEF SendFrame, SendDescriptor, server
<1>2. XInv'
  BY SendFrameStep
<1>3. nextAckId' \in 0 .. MaxFrames /\ calls' \in 0 .. MaxFrames
  <2>1. nextAckId <= calls
    BY DEF XInv, Counters
  <2> QED
    BY <1>1, <2>1, ClientAssumption DEF TypeOK
<1>4. m \in Messages
  <2>1. calls + 1 \in 0 .. MaxFrames /\ "frame" \in Kinds /\ nextAckId \in -1 .. MaxFrames
    BY <1>1, <1>3 DEF Kinds, TypeOK
  <2> QED
    BY <2>1, MessageType
<1> HIDE DEF m
<1>5. up' \in Seq(Messages)
  BY <1>1, <1>4, WriteFacts DEF TypeOK
<1>6. TypeOK'
  BY <1>1, <1>3, <1>5 DEF TypeOK, PC
<1>7. Handshake' /\ PingCount'
  BY <1>1 DEF Handshake, PingCount, ReadPingsAreAnswered, Places
<1> QED
  BY <1>2, <1>6, <1>7

\* The attachment changes nothing but what is on its way.
LEMMA SendAttachmentKeeps ==
  ASSUME IInv, SendAttachment
  PROVE  IInv'
<1> USE DEF IInv
<1> DEFINE m == Message("binary", -1, calls, NoVerdict)
<1>1. /\ pc = "attach" /\ pc' = "ack"
      /\ Write(<<m>>)
      /\ UNCHANGED <<authenticated, nextAckId, calls, result, links, socket, down, session,
                     half, working, handled, noise, pings>>
  BY DEF SendAttachment, server
<1>2. XInv'
  BY SendAttachmentStep
<1>3. m \in Messages
  <2>1. calls \in 0 .. MaxFrames /\ "binary" \in Kinds /\ -1 \in -1 .. MaxFrames
    BY ClientAssumption DEF Kinds, TypeOK
  <2> QED
    BY <2>1, MessageType
<1> HIDE DEF m
<1>4. up' \in Seq(Messages)
  BY <1>1, <1>3, WriteFacts DEF TypeOK
<1>5. TypeOK'
  BY <1>1, <1>4 DEF TypeOK, PC
<1>6. Handshake' /\ PingCount'
  BY <1>1 DEF Handshake, PingCount, ReadPingsAreAnswered, Places
<1> QED
  BY <1>2, <1>5, <1>6

\* The verdict returned is the one recorded for the frame.
LEMMA ReadAckKeeps ==
  ASSUME IInv, ReadAck
  PROVE  /\ IInv'
         /\ pc = "ack" /\ pc' = "idle" /\ calls \in Frames
         /\ result' = [result EXCEPT ![calls] = handled[calls]]
         /\ handled[calls] # NoVerdict
         /\ UNCHANGED <<calls, handled>>
<1> USE DEF IInv
<1>1. /\ pc = "ack" /\ pc' = "idle" /\ Read /\ IsAck(Head(down))
      /\ result' = [result EXCEPT ![calls] = Head(down).verdict]
      /\ UNCHANGED <<authenticated, nextAckId, calls, links, socket, up, session, half,
                     working, handled, noise, pings>>
  BY DEF ReadAck, TakeAck, server
<1>2. XInv' /\ Head(down).verdict = handled[calls] /\ handled[calls] # NoVerdict
  BY ReadAckStep
<1>3. calls \in Frames
  BY <1>1 DEF XInv, Counters, Frames, TypeOK
<1>4. PingCount' /\ down' \in Seq(Messages)
  BY <1>1, ReadOther DEF IsAck
<1>5. result' \in [Frames -> Verdict \cup {NoVerdict}]
  BY <1>1, <1>2, <1>3 DEF TypeOK
<1>6. TypeOK'
  BY <1>1, <1>4, <1>5 DEF TypeOK, PC
<1>7. Handshake'
  BY <1>1, ReadHandshake
<1> QED
  BY <1>1, <1>2, <1>3, <1>4, <1>6, <1>7

-----------------------------------------------------------------------------
(* The steps of the server and of the network *)

\* Telling anything but "open" after it, and "joined" only when it is true.
LEMMA TellHandshake ==
  ASSUME TypeOK, Handshake, NEW ms \in Seq(Messages), Len(ms) >= 1, Tell(ms), socket = "up",
         session # "new" \/ ms[1].kind = "open", session' # "new",
         session = "joined" => session' = "joined",
         \A i \in 1 .. Len(ms) : ms[i].kind = "joined" => session' = "joined",
         UNCHANGED <<pc, authenticated>>
  PROVE  Handshake'
<1>1. /\ Len(down) \in Nat /\ Len(ms) \in Nat /\ down' \in Seq(Messages)
      /\ DOMAIN down = 1 .. Len(down) /\ DOMAIN down' = 1 .. Len(down) + Len(ms)
      /\ \A i \in 1 .. Len(down) : down'[i] = down[i]
      /\ \A i \in 1 .. Len(ms) : down'[Len(down) + i] = ms[i]
  BY TellFacts DEF TypeOK
<1>2. 1 \in DOMAIN down' /\ down' # <<>> /\ Head(down') = down'[1]
  BY <1>1
<1>3. pc = "open" => Head(down').kind = "open"
  <2>1. CASE down = <<>>
    <3>1. pc = "open" => ms[1].kind = "open"
      BY <2>1 DEF Handshake
    <3>2. Len(down) = 0 /\ 1 \in 1 .. Len(ms)
      BY <1>1, <2>1
    <3>3. down'[1] = ms[1]
      BY <1>1, <3>2
    <3> QED
      BY <1>2, <3>1, <3>3
  <2>2. CASE down # <<>>
    <3>1. 1 \in 1 .. Len(down) /\ Head(down) = down[1]
      BY <1>1, <2>2, EmptySeq DEF TypeOK
    <3> QED
      BY <1>1, <1>2, <2>2, <3>1 DEF Handshake
  <2> QED
    BY <2>1, <2>2
<1>4. \A i \in DOMAIN down' : down'[i].kind = "joined" => session' = "joined"
  <2>1. ASSUME NEW i \in DOMAIN down', down'[i].kind = "joined"
        PROVE  session' = "joined"
    <3>1. CASE i \in 1 .. Len(down)
      BY <1>1, <2>1, <3>1 DEF Handshake
    <3>2. CASE i \notin 1 .. Len(down)
      <4>1. i - Len(down) \in 1 .. Len(ms) /\ Len(down) + (i - Len(down)) = i
        BY <1>1, <3>2
      <4> QED
        BY <1>1, <2>1, <4>1
    <3> QED
      BY <3>1, <3>2
  <2> QED
    BY <2>1
<1> QED
  BY <1>2, <1>3, <1>4 DEF Handshake

\* Telling anything but an ACK adds none.
LEMMA TellNoNewAck ==
  ASSUME TypeOK, NEW ms \in Seq(Messages), Tell(ms),
         \A i \in 1 .. Len(ms) : ms[i].kind # "ack"
  PROVE  NoNewAck
<1>1. /\ Len(down) \in Nat /\ Len(ms) \in Nat
      /\ DOMAIN down = 1 .. Len(down) /\ DOMAIN down' = 1 .. Len(down) + Len(ms)
      /\ \A i \in 1 .. Len(down) : down'[i] = down[i]
      /\ \A i \in 1 .. Len(ms) : down'[Len(down) + i] = ms[i]
  BY TellFacts DEF TypeOK
<1>2. ASSUME NEW i \in DOMAIN down', down'[i].kind = "ack"
      PROVE  i \in Nat /\ i + 0 \in DOMAIN down /\ down'[i] = down[i + 0]
  <2>1. CASE i \in 1 .. Len(down)
    BY <1>1, <2>1
  <2>2. CASE i \notin 1 .. Len(down)
    <3>1. i - Len(down) \in 1 .. Len(ms) /\ Len(down) + (i - Len(down)) = i
      BY <1>1, <2>2
    <3> QED
      BY <1>1, <1>2, <3>1
  <2> QED
    BY <2>1, <2>2
<1> QED
  BY <1>2 DEF NoNewAck

\* The open packet is the first message told.
LEMMA ServerOpensStep ==
  ASSUME IInv, ServerOpens
  PROVE  IInv'
<1> USE DEF IInv
<1> DEFINE ms == <<Plain("open")>>
<1>1. /\ socket = "up" /\ session = "new" /\ session' = "opened" /\ Tell(ms)
      /\ UNCHANGED <<pc, authenticated, nextAckId, calls, result, links, socket, up, half,
                     working, handled, noise, pings>>
  BY DEF ServerOpens, client
<1>2. ms \in Seq(Messages) /\ Len(ms) = 1 /\ ms[1].kind = "open"
  BY MessageType DEF Kinds, Plain, Message
<1> HIDE DEF ms
<1>3. \A i \in 1 .. Len(ms) : ms[i].kind = "open"
  BY <1>2
<1>4. down' \in Seq(Messages)
  BY <1>1, <1>2, TellFacts DEF TypeOK
<1>5. TypeOK'
  BY <1>1, <1>4 DEF TypeOK
<1>6. XInv'
  <2>1. NoNewPart /\ NoNewAck
    BY <1>1, <1>2, <1>3, UnchangedQuiet, TellNoNewAck
  <2> QED
    BY <1>1, <2>1, QuietStep
<1>7. Handshake'
  <2>1. \A i \in 1 .. Len(ms) : ms[i].kind # "joined"
    BY <1>3
  <2>2. Len(ms) >= 1 /\ session' # "new" /\ session # "joined"
    BY <1>1, <1>2
  <2> QED
    BY <1>1, <1>2, <2>1, <2>2, TellHandshake
<1>8. PingCount'
  <2>1. Places("ping")' = Places("ping")
    BY <1>1, <1>2, <1>3, PingTold DEF TypeOK
  <2> QED
    BY <1>1, <2>1 DEF PingCount, ReadPingsAreAnswered
<1> QED
  BY <1>5, <1>6, <1>7, <1>8

\* The server takes the join packet, or a pong.
LEMMA OtherReceivedStep ==
  ASSUME IInv, ServerReceives, Head(up).kind \in {"join", "pong"}
  PROVE  IInv'
<1> USE DEF IInv
<1>1. /\ socket = "up" /\ up # <<>> /\ up' = Tail(up)
      /\ UNCHANGED <<pc, authenticated, nextAckId, calls, result, links, socket, half, working,
                     handled, noise, pings>>
      /\ \/ session' = "joined" /\ Tell(<<Plain("joined")>>)
         \/ UNCHANGED session /\ Tell(<<Plain("rejected")>>)
         \/ UNCHANGED <<session, down>>
  BY DEF ServerReceives, client
<1>2. session # "new"
  BY <1>1 DEF Handshake
<1>3. /\ up' \in Seq(Messages)
      /\ \A i \in DOMAIN up' : i \in Nat /\ i + 1 \in DOMAIN up /\ up'[i] = up[i + 1]
  BY <1>1, TakeFacts DEF TypeOK
<1>4. NoNewPart
  BY <1>3 DEF NoNewPart
<1>5. ASSUME NEW kind \in {"joined", "rejected"}, Tell(<<Plain(kind)>>),
             session' = (IF kind = "joined" THEN "joined" ELSE session)
      PROVE  IInv'
  <2> DEFINE ms == <<Plain(kind)>>
  <2>1. ms \in Seq(Messages) /\ Len(ms) = 1 /\ ms[1].kind = kind /\ Tell(ms)
    BY <1>5, MessageType DEF Kinds, Plain, Message
  <2> HIDE DEF ms
  <2>2. \A i \in 1 .. Len(ms) : ms[i].kind = kind
    BY <2>1
  <2>3. down' \in Seq(Messages)
    BY <2>1, TellFacts DEF TypeOK
  <2>4. TypeOK'
    BY <1>1, <1>3, <1>5, <2>3 DEF TypeOK
  <2>5. NoNewAck
    BY <2>1, <2>2, TellNoNewAck
  <2>6. XInv'
    BY <1>1, <1>4, <2>5, QuietStep
  <2>7. Handshake'
    <3>1. \A i \in 1 .. Len(ms) : ms[i].kind = "joined" => session' = "joined"
      BY <1>5, <2>2
    <3>2. Len(ms) >= 1 /\ session' # "new" /\ (session = "joined" => session' = "joined")
      BY <1>2, <1>5, <2>1
    <3> QED
      BY <1>1, <1>2, <2>1, <3>1, <3>2, TellHandshake
  <2>8. PingCount'
    <3>1. Places("ping")' = Places("ping")
      BY <2>1, <2>2, PingTold DEF TypeOK
    <3> QED
      BY <1>1, <3>1 DEF PingCount, ReadPingsAreAnswered
  <2> QED
    BY <2>4, <2>6, <2>7, <2>8
<1>6. CASE UNCHANGED <<session, down>>
  <2>1. TypeOK'
    BY <1>1, <1>3, <1>6 DEF TypeOK
  <2>2. XInv'
    <3>1. NoNewAck
      BY <1>6, UnchangedQuiet
    <3> QED
      BY <1>1, <1>4, <3>1, QuietStep
  <2>3. Handshake' /\ PingCount'
    BY <1>1, <1>2, <1>6 DEF Handshake, PingCount, ReadPingsAreAnswered, Places
  <2> QED
    BY <2>1, <2>2, <2>3
<1> QED
  BY <1>1, <1>5, <1>6

\* Whatever the server takes from the connection.
LEMMA ServerReceivesStep ==
  ASSUME IInv, ServerReceives
  PROVE  IInv' /\ UNCHANGED <<client, handled>>
<1> USE DEF IInv
<1>1. /\ Head(up).kind \in {"join", "frame", "binary", "pong"}
      /\ up # <<>> /\ UNCHANGED <<client, handled>>
  BY DEF ServerReceives
<1>2. session # "new" /\ Head(up) \in Messages /\ Tail(up) \in Seq(Messages)
  BY <1>1, HeadTailProperties DEF Handshake, TypeOK
<1>3. CASE Head(up).kind = "frame"
  <2>1. /\ XInv' /\ up' = Tail(up) /\ half' = Head(up)
        /\ UNCHANGED <<client, socket, session, working, down, handled, noise, pings>>
    BY <1>3, DescriptorStep
  <2>2. TypeOK'
    BY <1>2, <2>1 DEF TypeOK, client
  <2>3. Handshake' /\ PingCount'
    BY <1>2, <2>1 DEF client, Handshake, PingCount, ReadPingsAreAnswered, Places
  <2> QED
    BY <1>1, <2>1, <2>2, <2>3
<1>4. CASE Head(up).kind = "binary"
  <2>1. /\ XInv' /\ up' = Tail(up) /\ half' = NoHalf /\ working' \in SUBSET Job
        /\ UNCHANGED <<client, socket, session, down, handled, noise, pings>>
    BY <1>4, AttachmentStep
  <2>2. TypeOK'
    BY <1>2, <2>1, MessageType DEF TypeOK, client
  <2>3. Handshake' /\ PingCount'
    BY <1>2, <2>1 DEF client, Handshake, PingCount, ReadPingsAreAnswered, Places
  <2> QED
    BY <1>1, <2>1, <2>2, <2>3
<1> QED
  BY <1>1, <1>3, <1>4, OtherReceivedStep

\* A job answered is a verdict on a frame that had none.
LEMMA ServerAnswersKeeps ==
  ASSUME IInv, ServerAnswers
  PROVE  /\ IInv' /\ UNCHANGED client
         /\ \E f \in Frames, v \in Verdict :
              /\ f <= calls /\ handled[f] = NoVerdict
              /\ handled' = [handled EXCEPT ![f] = v]
<1> USE DEF IInv
<1>1. PICK job \in working, v \in Verdict :
        /\ working' = working \ {job}
        /\ handled' = [handled EXCEPT ![job.frame] = v]
        /\ IF socket = "up" /\ job.link = links THEN Tell(Answer(job, v)) ELSE UNCHANGED down
        /\ UNCHANGED <<client, socket, up, session, half, noise, pings>>
  BY DEF ServerAnswers, Answer
<1>2. job \in Job /\ job.frame \in Frames /\ job.frame <= calls /\ handled[job.frame] = NoVerdict
  BY DEF XInv, Jobs, Job, TypeOK
<1>3. XInv'
  BY <1>1, ServerAnswersStep
<1>4. handled' \in [Frames -> Verdict \cup {NoVerdict}] /\ working' \in SUBSET Job
  BY <1>1, <1>2 DEF TypeOK
<1>5. CASE socket = "up" /\ job.link = links
  <2> DEFINE ms == Answer(job, v)
  <2>1. /\ ms \in Seq(Messages) /\ Len(ms) \in 1 .. 3
        /\ \A i \in 1 .. Len(ms) : ms[i].kind \in {"ack", "event", "binary"}
    <3>1. /\ ms \in Seq(Messages) /\ Len(ms) \in 1 .. 3
          /\ ms[Len(ms)] = Message("ack", job.id, 0, v)
          /\ \A i \in 1 .. Len(ms) - 1 : ms[i].kind \in {"event", "binary"}
      BY <1>2, AnswerFacts
    <3> HIDE DEF ms
    <3>2. ms[Len(ms)].kind = "ack"
      BY <3>1 DEF Message
    <3>3. \A i \in 1 .. Len(ms) : i = Len(ms) \/ i \in 1 .. Len(ms) - 1
      BY <3>1
    <3> QED
      BY <3>1, <3>2, <3>3
  <2>2. Tell(ms)
    BY <1>1, <1>5
  <2> HIDE DEF ms
  <2>3. session = "joined"
    BY <1>5 DEF XInv, Jobs, Handshake
  <2>4. TypeOK'
    BY <1>1, <1>4, <2>1, <2>2, TellFacts DEF TypeOK, client
  <2>5. Handshake'
    <3>1. UNCHANGED <<pc, authenticated>> /\ session' = "joined" /\ session # "new"
      BY <1>1, <2>3 DEF client
    <3>2. Len(ms) >= 1
      BY <2>1
    <3> QED
      BY <1>5, <2>1, <2>2, <3>1, <3>2, TellHandshake
  <2>6. PingCount'
    <3>1. Places("ping")' = Places("ping")
      BY <2>1, <2>2, PingTold DEF TypeOK
    <3> QED
      BY <1>1, <3>1 DEF PingCount, ReadPingsAreAnswered
  <2> QED
    BY <1>1, <1>2, <1>3, <2>4, <2>5, <2>6
<1>6. CASE ~(socket = "up" /\ job.link = links)
  <2>1. down' = down
    BY <1>1, <1>6
  <2>2. TypeOK'
    BY <1>1, <1>4, <2>1 DEF TypeOK, client
  <2>3. Handshake' /\ PingCount'
    BY <1>1, <2>1 DEF client, Handshake, PingCount, ReadPingsAreAnswered, Places
  <2> QED
    BY <1>1, <1>2, <1>3, <2>2, <2>3
<1> QED
  BY <1>5, <1>6

\* Pings are counted, broadcasts are not.
LEMMA ServerNoiseStep ==
  ASSUME IInv, ServerNoise
  PROVE  IInv'
<1> USE DEF IInv
<1>1. /\ socket = "up" /\ session # "new" /\ noise' \in 0 .. MaxNoise
      /\ UNCHANGED <<pc, authenticated, nextAckId, calls, result, links, socket, up, session,
                     half, working, handled>>
  BY ClientAssumption DEF ServerNoise, client, TypeOK
<1>2. PICK ms \in {<<Plain("ping")>>, Broadcast, <<Plain("event")>>} :
        Tell(ms) /\ pings' = IF ms = <<Plain("ping")>> THEN pings + 1 ELSE pings
  <2>1. Broadcast # <<Plain("ping")>>
    <3>1. Len(Broadcast) = 2 /\ Len(<<Plain("ping")>>) = 1
      BY DEF Broadcast
    <3> QED
      BY <3>1
  <2>2. <<Plain("event")>> # <<Plain("ping")>>
    <3>1. Plain("event") # Plain("ping")
      BY DEF Plain, Message
    <3> QED
      BY <3>1
  <2> QED
    BY <2>1, <2>2 DEF ServerNoise
<1>3. /\ ms \in Seq(Messages) /\ Len(ms) >= 1
      /\ \A i \in 1 .. Len(ms) : ms[i].kind \notin {"ack", "joined"}
      /\ ms # <<Plain("ping")>> => \A i \in 1 .. Len(ms) : ms[i].kind # "ping"
  <2>1. /\ Plain("ping") \in Messages /\ Plain("event") \in Messages
        /\ Plain("binary") \in Messages
        /\ Plain("ping").kind = "ping" /\ Plain("event").kind = "event"
        /\ Plain("binary").kind = "binary"
    BY MessageType DEF Kinds, Plain, Message
  <2>2. CASE ms = Broadcast
    <3>1. /\ ms \in Seq(Messages) /\ Len(ms) = 2
          /\ ms[1] = Plain("event") /\ ms[2] = Plain("binary")
      BY <2>1, <2>2 DEF Broadcast
    <3> QED
      BY <2>1, <3>1
  <2>3. ASSUME NEW kind \in {"ping", "event"}, ms = <<Plain(kind)>>
        PROVE  /\ ms \in Seq(Messages) /\ Len(ms) = 1
               /\ ms[1] = Plain(kind)
    BY <2>1, <2>3
  <2>4. CASE ms = <<Plain("ping")>>
    BY <2>1, <2>3, <2>4
  <2>5. CASE ms = <<Plain("event")>>
    BY <2>1, <2>3, <2>5
  <2> QED
    BY <1>2, <2>2, <2>4, <2>5
<1>4. down' \in Seq(Messages)
  BY <1>2, <1>3, TellFacts DEF TypeOK
<1>5. TypeOK'
  BY <1>1, <1>2, <1>4 DEF TypeOK
<1>6. XInv'
  <2>1. NoNewAck /\ NoNewPart
    BY <1>1, <1>2, <1>3, TellNoNewAck, UnchangedQuiet
  <2> QED
    BY <1>1, <2>1, QuietStep
<1>7. Handshake'
  <2>1. \A i \in 1 .. Len(ms) : ms[i].kind # "joined"
    BY <1>3
  <2> QED
    BY <1>1, <1>2, <1>3, <2>1, TellHandshake
<1>8. PingCount'
  <2>1. CASE ms = <<Plain("ping")>>
    <3>1. Cardinality(Places("ping"))' = Cardinality(Places("ping")) + 1
      BY <1>2, <2>1, PingSent DEF TypeOK
    <3> QED
      BY <1>1, <1>2, <2>1, <3>1, PingsAreFinite DEF PingCount, ReadPingsAreAnswered, TypeOK
  <2>2. CASE ms # <<Plain("ping")>>
    <3>1. Places("ping")' = Places("ping")
      BY <1>2, <1>3, <2>2, PingTold DEF TypeOK
    <3> QED
      BY <1>1, <1>2, <2>2, <3>1 DEF PingCount, ReadPingsAreAnswered
  <2> QED
    BY <2>1, <2>2
<1> QED
  BY <1>5, <1>6, <1>7, <1>8

\* What was sent to the client may still be read, what it sent is lost.
LEMMA LinkLostStep ==
  ASSUME IInv, LinkLost
  PROVE  IInv'
<1> USE DEF IInv
<1>1. /\ socket = "up" /\ socket' = "lost" /\ up' = <<>> /\ half' = NoHalf
      /\ UNCHANGED <<pc, authenticated, nextAckId, calls, result, links, session, working,
                     handled, noise, pings>>
  BY DEF LinkLost, client
<1>2. PICK n \in 0 .. Len(down) : down' = SubSeq(down, 1, n)
  BY DEF LinkLost
<1>3. /\ down' \in Seq(Messages)
      /\ \A i \in DOMAIN down' : i \in Nat /\ i \in DOMAIN down /\ down'[i] = down[i]
      /\ down' # <<>> => down # <<>> /\ Head(down') = Head(down)
      /\ Cardinality(Places("ping"))' <= Cardinality(Places("ping"))
      /\ Cardinality(Places("ping"))' \in Nat
  BY <1>2, PingsCut DEF TypeOK
<1>4. TypeOK'
  <2>1. <<>> \in Seq(Messages) /\ NoHalf \in Messages
    BY MessageType
  <2> QED
    BY <1>1, <1>3, <2>1 DEF TypeOK
<1>5. XInv'
  <2>1. NoNewPart
    BY <1>1 DEF NoNewPart
  <2>2. NoNewAck
    <3>1. \A i \in DOMAIN down' : i \in Nat /\ i + 0 \in DOMAIN down /\ down'[i] = down[i + 0]
      BY <1>3
    <3> QED
      BY <3>1 DEF NoNewAck
  <2> QED
    BY <1>1, <2>1, <2>2, QuietStep
<1>6. Handshake'
  <2>1. session = "new" => down' = <<>>
    BY <1>3 DEF Handshake
  <2>2. \A i \in DOMAIN down' : down'[i].kind = "joined" => session = "joined"
    BY <1>3 DEF Handshake
  <2> QED
    BY <1>1, <1>3, <2>1, <2>2 DEF Handshake
<1>7. PingCount'
  BY <1>1, <1>3, PingsAreFinite DEF PingCount, ReadPingsAreAnswered, TypeOK
<1> QED
  BY <1>4, <1>5, <1>6, <1>7

-----------------------------------------------------------------------------
(* The theorems *)

\* Nothing is on its way at first.
LEMMA InitIInv == Init => IInv
<1> SUFFICES ASSUME Init PROVE IInv
  OBVIOUS
<1>1. TypeOK
  <2>1. <<>> \in Seq(Messages) /\ NoHalf \in Messages
    BY MessageType
  <2>2. 0 \in 0 .. MaxFrames /\ 0 \in 0 .. MaxLinks /\ 0 \in 0 .. MaxNoise
    BY ClientAssumption
  <2>3. [f \in Frames |-> NoVerdict] \in [Frames -> Verdict \cup {NoVerdict}]
    OBVIOUS
  <2> QED
    BY <2>1, <2>2, <2>3 DEF Init, TypeOK, PC
<1>2. XInv
  BY DEF Init, XInv, Counters, Outgoing, Unsettled, Jobs, Acks, AcksAreNotAhead, Untouched,
         Sent, NoHalf, Plain, Message
<1>3. Handshake
  BY DEF Init, Handshake
<1>4. PingCount
  <2>1. Places("ping") = {} /\ pings = 0
    BY DEF Init, Places
  <2>2. Cardinality(Places("ping")) = 0
    BY <2>1, FS_EmptySet
  <2> QED
    BY <2>1, <2>2 DEF PingCount, ReadPingsAreAnswered
<1> QED
  BY <1>1, <1>2, <1>3, <1>4 DEF IInv

\* Every step keeps all of it.
LEMMA NextIInv == IInv /\ [Next]_vars => IInv'
<1> SUFFICES ASSUME IInv, [Next]_vars PROVE IInv'
  OBVIOUS
<1>1. CASE Next
  BY <1>1, DisconnectStep, ConnectStep, SendFrameKeeps, ThrowsStep, ReadOpenStep,
     AnswerPingStep, OtherReadStep, SendAttachmentKeeps, ReadAckKeeps, ServerOpensStep,
     ServerReceivesStep, ServerAnswersKeeps, ServerNoiseStep, LinkLostStep
     DEF Next, Client, Server
<1>2. CASE UNCHANGED vars
  BY <1>2 DEF vars, IInv, TypeOK, XInv, Counters, Outgoing, Unsettled, Jobs, Acks,
              AcksAreNotAhead, IsAck, Untouched, Sent, Working, AckSent, Handshake, PingCount,
              ReadPingsAreAnswered, Places
<1> QED
  BY <1>1, <1>2

\* Every variable of the client, of the server's half and of the connection
\* keeps its type; pings \in Nat says that no pong answers anything but a ping.
THEOREM TypeCorrect == Spec => []TypeOK
<1>1. IInv => TypeOK
  BY DEF IInv
<1> QED
  BY <1>1, InitIInv, NextIInv, PTL DEF Spec

\* connected() never speaks of an earlier connection.
THEOREM Confirmed == Spec => []ConnectedIsConfirmed
<1>1. IInv => ConnectedIsConfirmed
  BY DEF IInv, Handshake, ConnectedIsConfirmed
<1> QED
  BY <1>1, InitIInv, NextIInv, PTL DEF Spec

\* As many pongs are written as pings are read, over any number of pings.
THEOREM PingsAnswered == Spec => []ReadPingsAreAnswered
<1>1. IInv => ReadPingsAreAnswered
  BY DEF IInv, PingCount
<1> QED
  BY <1>1, InitIInv, NextIInv, PTL DEF Spec

\* Comparing a prefix of the ACK's text is sound for any number of frames.
THEOREM AckIdsMatch == Spec => []AcksAreNotAhead
<1>1. IInv => AcksAreNotAhead
  BY DEF IInv, XInv, Acks
<1> QED
  BY <1>1, InitIInv, NextIInv, PTL DEF Spec

\* A call of send_frame that returns has the server's verdict on its own frame,
\* whatever connections, pings and broadcasts are in between.
THEOREM Implementation == Spec => ExchangeSpec
<1> DEFINE calling == IF pc \in {"attach", "ack"} THEN calls ELSE 0
<1>1. Init => Exchange!Init
  BY DEF Init, Exchange!Init, Frames, Exchange!Frames
<1>2. IInv /\ [Next]_vars => [Exchange!Next]_Exchange!vars
  <2> SUFFICES ASSUME IInv, [Next]_vars
               PROVE  Exchange!Next \/ UNCHANGED <<calling, calls, handled, result>>
    BY DEF Exchange!vars
  <2>1. CASE SendFrame
    <3>1. pc = "idle" /\ pc' = "attach" /\ calls < MaxFrames /\ calls' = calls + 1
          /\ UNCHANGED <<handled, result>>
      BY <2>1 DEF SendFrame, SendDescriptor, server
    <3> QED
      BY <3>1 DEF Exchange!Next, Exchange!Call
  <2>2. CASE ReadAck
    <3>1. /\ pc = "ack" /\ pc' = "idle" /\ calls \in Frames
          /\ result' = [result EXCEPT ![calls] = handled[calls]]
          /\ handled[calls] # NoVerdict
          /\ UNCHANGED <<calls, handled>>
      BY <2>2, ReadAckKeeps
    <3>2. calls # 0
      BY <3>1 DEF Frames
    <3> QED
      BY <3>1, <3>2 DEF Exchange!Next, Exchange!Return
  <2>3. CASE Throws
    <3>1. pc' = "idle" /\ UNCHANGED <<calls, handled, result>>
      BY <2>3 DEF Throws, server
    <3> QED
      BY <3>1 DEF Exchange!Next, Exchange!Fail
  <2>4. CASE ServerAnswers
    <3>1. /\ UNCHANGED client
          /\ \E f \in Frames, v \in Verdict :
               /\ f <= calls /\ handled[f] = NoVerdict
               /\ handled' = [handled EXCEPT ![f] = v]
      BY <2>4, ServerAnswersKeeps
    <3> QED
      BY <3>1 DEF client, Exchange!Next, Exchange!Handle, Exchange!Frames, Frames
  <2>5. CASE ServerReceives
    BY <2>5, ServerReceivesStep DEF client
  <2>6. CASE Disconnect \/ Connect \/ ReadOpen \/ AnswerPing \/ Joined \/ Rejected \/ SkipInJoin
             \/ SendAttachment \/ SkipInAck \/ ServerOpens \/ ServerNoise \/ LinkLost
    BY <2>6 DEF Disconnect, Connect, Dial, ReadOpen, AnswerPing, Pong, Joined, Rejected,
                SkipInJoin, SendAttachment, SkipInAck, Skip, ServerOpens, ServerNoise, LinkLost,
                client, server
  <2>7. CASE UNCHANGED vars
    BY <2>7 DEF vars
  <2> QED
    BY <2>1, <2>2, <2>3, <2>4, <2>5, <2>6, <2>7 DEF Next, Client, Server
<1> QED
  BY <1>1, <1>2, InitIInv, NextIInv, PTL DEF Spec, ExchangeSpec, Exchange!Spec

-----------------------------------------------------------------------------
(* Whoever waits is waited for *)

OnWay(kinds) == \E i \in DOMAIN up : up[i].kind \in kinds

Coming(kinds) == \E i \in DOMAIN down : down[i].kind \in kinds

\* The current frame, with the handler of the current connection.
Handled ==
  \E job \in working : job.link = links /\ job.frame = calls /\ job.id = nextAckId - 1

\* The server has a frame's descriptor when the attachment arrives.
DescriptorFirst ==
  /\ pc = "attach" => half.kind = "frame" \/ OnWay({"frame"})
  /\ \A i \in DOMAIN up : up[i].kind = "binary" =>
       half.kind = "frame" \/ \E j \in DOMAIN up : j < i /\ up[j].kind = "frame"

\* A read that blocks is ended by somebody: the server has yet to open the
\* connection, to receive what its answer depends on, or to answer the frame.
AnswerIsComing ==
  socket = "up" =>
    /\ pc = "open" => session = "new" \/ down # <<>>
    /\ pc = "join" => OnWay({"join"}) \/ Coming({"joined", "rejected"})
    /\ pc = "ack" => OnWay({"binary"}) \/ Handled \/ Coming({"ack"})

WInv == (socket = "up" => DescriptorFirst) /\ AnswerIsComing

\* Reading a message leaves the others on their way.
LEMMA ReadComing ==
  ASSUME TypeOK, Read, NEW K, Head(down).kind \notin K, Coming(K)
  PROVE  Coming(K)'
<1>1. PICK i \in DOMAIN down : down[i].kind \in K
  BY DEF Coming
<1>2. /\ DOMAIN down = 1 .. Len(down) /\ DOMAIN down' = 1 .. Len(down) - 1
      /\ Len(down) \in Nat /\ down[1] = Head(down)
      /\ \A n \in DOMAIN down' : down'[n] = down[n + 1]
  BY ReadFacts DEF TypeOK
<1>3. i \in Nat /\ i > 1 /\ i <= Len(down)
  BY <1>1, <1>2
<1>4. i - 1 \in DOMAIN down' /\ (i - 1) + 1 = i
  BY <1>2, <1>3
<1>5. down'[i - 1] = down[i]
  BY <1>2, <1>4
<1> QED
  BY <1>1, <1>4, <1>5 DEF Coming

\* Telling leaves what is on its way, and adds what is told.
LEMMA TellComing ==
  ASSUME TypeOK, NEW ms \in Seq(Messages), Tell(ms), NEW K,
         Coming(K) \/ \E i \in 1 .. Len(ms) : ms[i].kind \in K
  PROVE  Coming(K)'
<1>1. /\ Len(down) \in Nat /\ Len(ms) \in Nat
      /\ DOMAIN down = 1 .. Len(down) /\ DOMAIN down' = 1 .. Len(down) + Len(ms)
      /\ \A i \in 1 .. Len(down) : down'[i] = down[i]
      /\ \A i \in 1 .. Len(ms) : down'[Len(down) + i] = ms[i]
  BY TellFacts DEF TypeOK
<1>2. CASE Coming(K)
  <2>1. PICK i \in DOMAIN down : down[i].kind \in K
    BY <1>2 DEF Coming
  <2>2. i \in DOMAIN down' /\ down'[i] = down[i]
    BY <1>1
  <2> QED
    BY <2>1, <2>2 DEF Coming
<1>3. CASE \E i \in 1 .. Len(ms) : ms[i].kind \in K
  <2>1. PICK i \in 1 .. Len(ms) : ms[i].kind \in K
    BY <1>3
  <2>2. Len(down) + i \in DOMAIN down' /\ down'[Len(down) + i] = ms[i]
    BY <1>1
  <2> QED
    BY <2>1, <2>2 DEF Coming
<1> QED
  BY <1>2, <1>3

\* Over a connection that is up a message is written behind the others.
LEMMA WriteOnWay ==
  ASSUME TypeOK, NEW m \in Messages, Write(<<m>>), socket = "up"
  PROVE  /\ Len(up) \in Nat /\ DOMAIN up = 1 .. Len(up) /\ DOMAIN up' = 1 .. Len(up) + 1
         /\ \A i \in DOMAIN up : up'[i] = up[i]
         /\ up'[Len(up) + 1] = m
         /\ \A K : OnWay(K) \/ m.kind \in K => OnWay(K)'
<1>1. up \in Seq(Messages) /\ up' = Append(up, m)
  BY DEF TypeOK, Write
<1>2. /\ Len(up) \in Nat /\ DOMAIN up = 1 .. Len(up)
      /\ up' \in Seq(Messages) /\ Len(up') = Len(up) + 1
      /\ \A i \in 1 .. Len(up) : up'[i] = up[i]
      /\ up'[Len(up) + 1] = m
  BY <1>1, AppendProperties, LenProperties
<1>3. DOMAIN up' = 1 .. Len(up) + 1
  BY <1>2, LenProperties
<1>4. ASSUME NEW K, OnWay(K) \/ m.kind \in K
      PROVE  OnWay(K)'
  <2>1. CASE OnWay(K)
    BY <1>2, <1>3, <2>1 DEF OnWay
  <2>2. CASE m.kind \in K
    <3>1. Len(up) + 1 \in DOMAIN up'
      BY <1>2, <1>3
    <3> QED
      BY <1>2, <2>2, <3>1 DEF OnWay
  <2> QED
    BY <1>4, <2>1, <2>2
<1> QED
  BY <1>2, <1>3, <1>4

\* The server takes one message and leaves the others on their way.
LEMMA TakeOnWay ==
  ASSUME TypeOK, up # <<>>, up' = Tail(up), NEW K, Head(up).kind \notin K, OnWay(K)
  PROVE  OnWay(K)'
<1>1. PICK i \in DOMAIN up : up[i].kind \in K
  BY DEF OnWay
<1>2. /\ up' \in Seq(Messages) /\ Len(up) \in Nat /\ Len(up') = Len(up) - 1
      /\ DOMAIN up = 1 .. Len(up) /\ up[1] = Head(up)
      /\ \A n \in 1 .. Len(up') : up'[n] = up[n + 1]
  <2>1. Len(up) \in Nat /\ Len(up) # 0 /\ DOMAIN up = 1 .. Len(up)
    BY EmptySeq, LenProperties DEF TypeOK
  <2> QED
    BY <2>1, HeadTailProperties DEF TypeOK
<1>3. DOMAIN up' = 1 .. Len(up')
  BY <1>2, LenProperties
<1>4. i \in Nat /\ i > 1 /\ i <= Len(up)
  BY <1>1, <1>2
<1>5. i - 1 \in DOMAIN up' /\ (i - 1) + 1 = i
  BY <1>2, <1>3, <1>4
<1>6. up'[i - 1] = up[i]
  BY <1>2, <1>3, <1>5
<1> QED
  BY <1>1, <1>5, <1>6 DEF OnWay

\* Outside send_frame no frame is on its way, so its order is no question.
LEMMA NoFrameNoOrder ==
  ASSUME TypeOK, XInv, pc \notin {"attach", "ack"}
  PROVE  DescriptorFirst
  BY DEF XInv, Outgoing, DescriptorFirst

\* What the client reads and writes in connect.
LEMMA JoinWaits ==
  ASSUME IInv, IInv', WInv,
         Disconnect \/ Connect \/ Throws \/ ReadOpen \/ Joined \/ Rejected \/ SkipInJoin
  PROVE  WInv'
<1> USE DEF IInv
<1>1. CASE Disconnect \/ Throws
  BY <1>1 DEF Disconnect, Throws, WInv, AnswerIsComing
<1>2. CASE Connect
  <2>1. pc' \in {"open", "idle"} /\ session' = "new"
    BY <1>2 DEF Connect, Dial, Drop
  <2>2. DescriptorFirst'
    BY <1>2, <2>1, NoFrameNoOrder DEF XInv, Outgoing, DescriptorFirst, Connect, Dial, Drop
  <2> QED
    BY <2>1, <2>2 DEF WInv, AnswerIsComing
<1>3. CASE ReadOpen
  <2>1. Head(down).kind = "open"
    BY <1>3 DEF ReadOpen, Handshake, Read
  <2>2. pc' = "join" /\ Write(<<Plain("join")>>) /\ socket' = socket
    BY <1>3, <2>1 DEF ReadOpen
  <2>3. Plain("join") \in Messages /\ Plain("join").kind = "join"
    BY MessageType DEF Kinds, Plain, Message
  <2>4. socket = "up" => OnWay({"join"})'
    BY <2>2, <2>3, WriteOnWay
  <2>5. \A i \in DOMAIN up' : up'[i].kind # "binary"
    BY <2>2 DEF XInv, Outgoing
  <2> QED
    BY <2>2, <2>4, <2>5 DEF WInv, AnswerIsComing, DescriptorFirst
<1>4. CASE Joined \/ Rejected
  <2>1. pc' = "idle"
    BY <1>4 DEF Joined, Rejected
  <2>2. \A i \in DOMAIN up' : up'[i].kind # "binary"
    BY <2>1 DEF XInv, Outgoing
  <2> QED
    BY <2>1, <2>2 DEF WInv, AnswerIsComing, DescriptorFirst
<1>5. CASE SkipInJoin
  <2>1. /\ pc = "join" /\ Read /\ Head(down).kind \notin {"joined", "rejected"}
        /\ UNCHANGED <<pc, socket, up, half>>
    BY <1>5 DEF SkipInJoin, Skip, client, server
  <2>2. Coming({"joined", "rejected"}) => Coming({"joined", "rejected"})'
    BY <2>1, ReadComing
  <2>3. OnWay({"join"}) => OnWay({"join"})'
    BY <2>1 DEF OnWay
  <2>4. \A i \in DOMAIN up' : up'[i].kind # "binary"
    BY <2>1 DEF XInv, Outgoing
  <2> QED
    BY <2>1, <2>2, <2>3, <2>4 DEF WInv, AnswerIsComing, DescriptorFirst
<1> QED
  BY <1>1, <1>2, <1>3, <1>4, <1>5

\* What the client reads and writes in send_frame, and the pings in both.
LEMMA AckWaits ==
  ASSUME IInv, IInv', WInv, AnswerPing \/ SendFrame \/ SendAttachment \/ ReadAck \/ SkipInAck
  PROVE  WInv'
<1> USE DEF IInv
<1>1. CASE AnswerPing
  <2>1. /\ pc \in {"join", "ack"} /\ Read /\ Head(down).kind = "ping"
        /\ Write(<<Plain("pong")>>)
        /\ UNCHANGED <<pc, nextAckId, calls, links, socket, session, half, working>>
    BY <1>1 DEF AnswerPing, Pong, client, server
  <2> SUFFICES ASSUME socket = "up" PROVE WInv'
    BY <2>1 DEF WInv, AnswerIsComing
  <2>2. Plain("pong") \in Messages /\ Plain("pong").kind = "pong"
    BY MessageType DEF Kinds, Plain, Message
  <2>3. /\ Len(up) \in Nat /\ DOMAIN up = 1 .. Len(up) /\ DOMAIN up' = 1 .. Len(up) + 1
        /\ \A i \in DOMAIN up : up'[i] = up[i]
        /\ up'[Len(up) + 1] = Plain("pong")
        /\ \A K : OnWay(K) => OnWay(K)'
    BY <2>1, <2>2, WriteOnWay
  <2>4. /\ Coming({"joined", "rejected"}) => Coming({"joined", "rejected"})'
        /\ Coming({"ack"}) => Coming({"ack"})'
    BY <2>1, ReadComing
  <2>5. Handled' <=> Handled
    BY <2>1 DEF Handled
  <2>6. AnswerIsComing'
    BY <2>1, <2>3, <2>4, <2>5 DEF WInv, AnswerIsComing
  <2>7. DescriptorFirst'
    <3>1. ASSUME NEW i \in DOMAIN up', up'[i].kind = "binary"
          PROVE  half'.kind = "frame" \/ \E j \in DOMAIN up' : j < i /\ up'[j].kind = "frame"
      <4>1. i \in DOMAIN up
        BY <2>2, <2>3, <3>1
      <4>2. half.kind = "frame" \/ \E j \in DOMAIN up : j < i /\ up[j].kind = "frame"
        BY <2>3, <3>1, <4>1 DEF WInv, DescriptorFirst
      <4> QED
        BY <2>1, <2>3, <4>2
    <3> QED
      BY <2>1, <3>1 DEF DescriptorFirst
  <2> QED
    BY <2>6, <2>7 DEF WInv
<1>2. CASE SendFrame
  <2> DEFINE m == Message("frame", nextAckId, calls + 1, NoVerdict)
  <2>1. pc' = "attach" /\ Write(<<m>>) /\ socket' = socket
    BY <1>2 DEF SendFrame, SendDescriptor
  <2>2. m \in Messages /\ m.kind = "frame"
    <3>1. nextAckId \in -1 .. MaxFrames /\ calls + 1 \in 0 .. MaxFrames /\ "frame" \in Kinds
      BY <1>2, ClientAssumption DEF SendFrame, SendDescriptor, TypeOK, Kinds
    <3> QED
      BY <3>1, MessageType DEF Message
  <2> HIDE DEF m
  <2>3. socket = "up" => OnWay({"frame"})'
    BY <2>1, <2>2, WriteOnWay
  <2>4. \A i \in DOMAIN up' : up'[i].kind # "binary"
    BY <2>1 DEF XInv, Outgoing
  <2> QED
    BY <2>1, <2>3, <2>4 DEF WInv, AnswerIsComing, DescriptorFirst
<1>3. CASE SendAttachment
  <2> DEFINE m == Message("binary", -1, calls, NoVerdict)
  <2>1. pc = "attach" /\ pc' = "ack" /\ Write(<<m>>) /\ socket' = socket /\ half' = half
    BY <1>3 DEF SendAttachment, server
  <2>2. m \in Messages /\ m.kind = "binary"
    <3>1. -1 \in -1 .. MaxFrames /\ calls \in 0 .. MaxFrames /\ "binary" \in Kinds
      BY ClientAssumption DEF TypeOK, Kinds
    <3> QED
      BY <3>1, MessageType DEF Message
  <2> HIDE DEF m
  <2> SUFFICES ASSUME socket = "up" PROVE WInv'
    BY <2>1 DEF WInv, AnswerIsComing
  <2>3. /\ Len(up) \in Nat /\ DOMAIN up = 1 .. Len(up) /\ DOMAIN up' = 1 .. Len(up) + 1
        /\ \A i \in DOMAIN up : up'[i] = up[i]
        /\ OnWay({"binary"})'
    BY <2>1, <2>2, WriteOnWay
  <2>4. \A i \in DOMAIN up : up[i].kind # "binary"
    BY <2>1 DEF XInv, Outgoing
  <2>5. half.kind = "frame" \/ \E j \in DOMAIN up : up[j].kind = "frame"
    BY <2>1 DEF WInv, DescriptorFirst, OnWay
  <2>6. ASSUME NEW i \in DOMAIN up', up'[i].kind = "binary"
        PROVE  half'.kind = "frame" \/ \E j \in DOMAIN up' : j < i /\ up'[j].kind = "frame"
    <3>1. i = Len(up) + 1
      BY <2>3, <2>4, <2>6
    <3> QED
      BY <2>1, <2>3, <2>5, <3>1
  <2> QED
    BY <2>1, <2>3, <2>6 DEF WInv, AnswerIsComing, DescriptorFirst
<1>4. CASE ReadAck
  <2>1. pc' = "idle"
    BY <1>4 DEF ReadAck, TakeAck
  <2>2. \A i \in DOMAIN up' : up'[i].kind # "binary"
    BY <2>1 DEF XInv, Outgoing
  <2> QED
    BY <2>1, <2>2 DEF WInv, AnswerIsComing, DescriptorFirst
<1>5. CASE SkipInAck
  <2>1. /\ pc = "ack" /\ Read /\ ~IsAck(Head(down))
        /\ UNCHANGED <<pc, nextAckId, calls, links, socket, up, half, working>>
    BY <1>5 DEF SkipInAck, Skip, client, server
  <2>2. Head(down).kind # "ack"
    <3>1. 1 \in DOMAIN down /\ down[1] = Head(down)
      BY <2>1, ReadFacts DEF TypeOK
    <3> QED
      BY <2>1, <3>1 DEF XInv, Acks, AcksAreNotAhead
  <2>3. Coming({"ack"}) => Coming({"ack"})'
    BY <2>1, <2>2, ReadComing
  <2>4. (OnWay({"binary"})' <=> OnWay({"binary"})) /\ (Handled' <=> Handled)
        /\ (DescriptorFirst' <=> DescriptorFirst)
    BY <2>1 DEF OnWay, Handled, DescriptorFirst
  <2> QED
    BY <2>1, <2>3, <2>4 DEF WInv, AnswerIsComing
<1> QED
  BY <1>1, <1>2, <1>3, <1>4, <1>5

\* What the server tells.
LEMMA ToldWaits ==
  ASSUME IInv, IInv', WInv, NEW ms \in Seq(Messages), Tell(ms),
         UNCHANGED <<client, socket, up, half, working>>
  PROVE  WInv'
<1> USE DEF IInv
<1>1. /\ Coming({"joined", "rejected"}) => Coming({"joined", "rejected"})'
      /\ Coming({"ack"}) => Coming({"ack"})'
  BY TellComing
<1>2. /\ \A K : OnWay(K) => OnWay(K)'
      /\ (Handled' <=> Handled) /\ (DescriptorFirst' <=> DescriptorFirst)
  BY DEF client, OnWay, Handled, DescriptorFirst
<1>3. pc' = "open" /\ socket' = "up" => session' = "new" \/ down' # <<>>
  BY DEF Handshake
<1> QED
  BY <1>1, <1>2, <1>3 DEF client, WInv, AnswerIsComing

\* What the server receives.
LEMMA ReceivedWaits ==
  ASSUME IInv, IInv', WInv, ServerReceives
  PROVE  WInv'
<1> USE DEF IInv
<1> DEFINE m == Head(up)
<1>1. /\ socket = "up" /\ up # <<>> /\ up' = Tail(up)
      /\ UNCHANGED <<pc, authenticated, nextAckId, calls, links, socket>>
      /\ m.kind \in {"join", "frame", "binary", "pong"}
  BY DEF ServerReceives, client
<1>2. /\ 1 \in DOMAIN up /\ up[1] = m /\ up' \in Seq(Messages)
      /\ \A i \in DOMAIN up' : i \in Nat /\ i + 1 \in DOMAIN up /\ up'[i] = up[i + 1]
  BY <1>1, TakeFacts DEF TypeOK
<1>3. /\ Len(up) \in Nat /\ DOMAIN up = 1 .. Len(up)
      /\ DOMAIN up' = 1 .. Len(up')  /\ Len(up') = Len(up) - 1
  <2>1. Len(up) \in Nat /\ Len(up) # 0 /\ DOMAIN up = 1 .. Len(up)
    BY <1>1, EmptySeq, LenProperties DEF TypeOK
  <2>2. Len(up') = Len(up) - 1
    BY <1>1, HeadTailProperties DEF TypeOK
  <2> QED
    BY <1>2, <2>1, <2>2, LenProperties
<1>4. \A K : m.kind \notin K /\ OnWay(K) => OnWay(K)'
  BY <1>1, TakeOnWay
<1>5. pc' = "open" /\ socket' = "up" => session' = "new" \/ down' # <<>>
  BY DEF Handshake
<1>6. DescriptorFirst'
  <2>1. CASE m.kind = "binary"
    <3>1. pc = "ack"
      BY <1>2, <2>1 DEF XInv, Outgoing
    <3>2. ASSUME NEW i \in DOMAIN up', up'[i].kind = "binary" PROVE FALSE
      <4>1. i \in Nat /\ i >= 1 /\ i + 1 \in DOMAIN up /\ up[i + 1].kind = "binary"
        BY <1>2, <1>3, <3>2
      <4>2. i + 1 <= 1
        BY <1>2, <2>1, <4>1 DEF XInv, Outgoing
      <4> QED
        BY <4>1, <4>2
    <3> QED
      BY <1>1, <3>1, <3>2 DEF DescriptorFirst
  <2>2. CASE m.kind = "frame"
    <3>1. half'.kind = "frame"
      BY <2>2 DEF ServerReceives
    <3> QED
      BY <3>1 DEF DescriptorFirst
  <2>3. CASE m.kind \in {"join", "pong"}
    <3>1. half' = half
      BY <2>3 DEF ServerReceives
    <3>2. pc' = "attach" => half'.kind = "frame" \/ OnWay({"frame"})'
      BY <1>1, <1>4, <2>3, <3>1 DEF WInv, DescriptorFirst
    <3>3. ASSUME NEW i \in DOMAIN up', up'[i].kind = "binary", half'.kind # "frame"
          PROVE  \E j \in DOMAIN up' : j < i /\ up'[j].kind = "frame"
      <4>1. i \in Nat /\ i + 1 \in DOMAIN up /\ up[i + 1].kind = "binary"
        BY <1>2, <3>3
      <4>2. PICK j \in DOMAIN up : j < i + 1 /\ up[j].kind = "frame"
        BY <1>1, <3>1, <3>3, <4>1 DEF WInv, DescriptorFirst
      <4>3. j \in Nat /\ j > 1 /\ j <= Len(up)
        BY <1>2, <1>3, <2>3, <4>2
      <4>4. j - 1 \in DOMAIN up' /\ (j - 1) + 1 = j /\ j - 1 < i
        BY <1>3, <4>1, <4>2, <4>3
      <4>5. up'[j - 1] = up[j]
        BY <1>2, <4>4
      <4> QED
        BY <4>2, <4>4, <4>5
    <3> QED
      BY <3>2, <3>3 DEF DescriptorFirst
  <2> QED
    BY <1>1, <2>1, <2>2, <2>3
<1>7. pc = "join" => OnWay({"join"})' \/ Coming({"joined", "rejected"})'
  <2> SUFFICES ASSUME pc = "join"
               PROVE  OnWay({"join"})' \/ Coming({"joined", "rejected"})'
    OBVIOUS
  <2>1. CASE m.kind = "join"
    <3>1. PICK kind \in {"joined", "rejected"} : Tell(<<Plain(kind)>>)
      BY <2>1 DEF ServerReceives
    <3>2. <<Plain(kind)>> \in Seq(Messages) /\ Plain(kind).kind = kind
      BY MessageType DEF Kinds, Plain, Message
    <3>3. \E i \in 1 .. Len(<<Plain(kind)>>) :
            <<Plain(kind)>>[i].kind \in {"joined", "rejected"}
      BY <3>2
    <3> QED
      BY <3>1, <3>2, <3>3, TellComing
  <2>2. CASE m.kind # "join"
    <3>1. down' = down
      BY <1>1, <2>2 DEF ServerReceives
    <3>2. Coming({"joined", "rejected"}) => Coming({"joined", "rejected"})'
      BY <3>1 DEF Coming
    <3>3. OnWay({"join"}) => OnWay({"join"})'
      BY <1>4, <2>2
    <3> QED
      BY <1>1, <3>2, <3>3 DEF WInv, AnswerIsComing
  <2> QED
    BY <2>1, <2>2
<1>8. pc = "ack" => OnWay({"binary"})' \/ Handled' \/ Coming({"ack"})'
  <2> SUFFICES ASSUME pc = "ack"
               PROVE  OnWay({"binary"})' \/ Handled' \/ Coming({"ack"})'
    OBVIOUS
  <2>1. CASE m.kind = "binary"
    <3>1. half.kind = "frame"
      <4>1. half.kind = "frame" \/ \E j \in DOMAIN up : j < 1
        BY <1>1, <1>2, <2>1 DEF WInv, DescriptorFirst
      <4> QED
        BY <1>3, <4>1
    <3>2. session = "joined"
      BY DEF Handshake
    <3>3. [link |-> links, id |-> half.id, frame |-> m.frame] \in working'
      BY <2>1, <3>1, <3>2 DEF ServerReceives
    <3>4. m.frame = calls /\ half.id = nextAckId - 1
      BY <1>2, <2>1, <3>1 DEF XInv, Outgoing
    <3> QED
      BY <1>1, <3>3, <3>4 DEF Handled
  <2>2. CASE m.kind # "binary"
    <3>1. working' = working /\ (OnWay({"binary"}) => OnWay({"binary"})')
      BY <1>1, <1>4, <2>2 DEF ServerReceives
    <3>2. Handled => Handled'
      BY <1>1, <3>1 DEF Handled
    <3>3. Coming({"ack"}) => Coming({"ack"})'
      <4>1. CASE m.kind = "join"
        <5>1. PICK kind \in {"joined", "rejected"} : Tell(<<Plain(kind)>>)
          BY <4>1 DEF ServerReceives
        <5>2. <<Plain(kind)>> \in Seq(Messages)
          BY MessageType DEF Kinds
        <5> QED
          BY <5>1, <5>2, TellComing
      <4>2. CASE m.kind # "join"
        <5>1. down' = down
          BY <1>1, <4>2 DEF ServerReceives
        <5> QED
          BY <5>1 DEF Coming
      <4> QED
        BY <4>1, <4>2
    <3> QED
      BY <1>1, <3>1, <3>2, <3>3 DEF WInv, AnswerIsComing
  <2> QED
    BY <2>1, <2>2
<1> QED
  BY <1>1, <1>5, <1>6, <1>7, <1>8 DEF WInv, AnswerIsComing

\* What the server answers: to the current frame, or to nobody.
LEMMA AnsweredWaits ==
  ASSUME IInv, IInv', WInv, ServerAnswers
  PROVE  WInv'
<1> USE DEF IInv
<1>1. PICK job \in working, v \in Verdict :
        /\ working' = working \ {job}
        /\ IF socket = "up" /\ job.link = links THEN Tell(Answer(job, v)) ELSE UNCHANGED down
        /\ UNCHANGED <<client, socket, up, session, half, noise, pings>>
  BY DEF ServerAnswers, Answer
<1>2. /\ UNCHANGED <<pc, nextAckId, calls, links, socket>>
      /\ \A K : OnWay(K) => OnWay(K)'
      /\ (DescriptorFirst' <=> DescriptorFirst)
  BY <1>1 DEF client, OnWay, DescriptorFirst
<1>3. pc' = "open" /\ socket' = "up" => session' = "new" \/ down' # <<>>
  BY DEF Handshake
<1>4. CASE socket = "up" /\ job.link = links
  <2>1. /\ Answer(job, v) \in Seq(Messages) /\ Len(Answer(job, v)) \in 1 .. 3
        /\ Answer(job, v)[Len(Answer(job, v))].kind = "ack"
    <3>1. job \in Job
      BY DEF TypeOK
    <3>2. Message("ack", job.id, 0, v).kind = "ack"
      BY DEF Message
    <3> QED
      BY <3>1, <3>2, AnswerFacts
  <2>2. Coming({"ack"})'
    <3>1. \E i \in 1 .. Len(Answer(job, v)) : Answer(job, v)[i].kind \in {"ack"}
      BY <2>1
    <3> QED
      BY <1>1, <1>4, <2>1, <3>1, TellComing
  <2>3. Coming({"joined", "rejected"}) => Coming({"joined", "rejected"})'
    BY <1>1, <1>4, <2>1, TellComing
  <2> QED
    BY <1>2, <1>3, <2>2, <2>3 DEF WInv, AnswerIsComing
<1>5. CASE ~(socket = "up" /\ job.link = links)
  <2>1. socket = "up" /\ Handled => Handled'
    BY <1>1, <1>2, <1>5 DEF Handled
  <2>2. \A K : Coming(K) => Coming(K)'
    BY <1>1, <1>5 DEF Coming
  <2> QED
    BY <1>2, <1>3, <2>1, <2>2 DEF WInv, AnswerIsComing
<1> QED
  BY <1>4, <1>5

\* Every step keeps it.
LEMMA NextWInv == IInv /\ WInv /\ [Next]_vars => WInv'
<1> SUFFICES ASSUME IInv, WInv, [Next]_vars PROVE WInv'
  OBVIOUS
<1>1. IInv'
  BY NextIInv
<1>2. CASE ServerOpens
  <2>1. <<Plain("open")>> \in Seq(Messages)
    BY MessageType DEF Kinds
  <2> QED
    BY <1>1, <1>2, <2>1, ToldWaits DEF ServerOpens
<1>3. CASE ServerNoise
  <2>1. /\ <<Plain("ping")>> \in Seq(Messages) /\ <<Plain("event")>> \in Seq(Messages)
        /\ Broadcast \in Seq(Messages)
    BY MessageType DEF Kinds
  <2>2. Tell(<<Plain("ping")>>) \/ Tell(Broadcast) \/ Tell(<<Plain("event")>>)
    BY <1>3 DEF ServerNoise
  <2>3. UNCHANGED <<client, socket, up, half, working>>
    BY <1>3 DEF ServerNoise
  <2> QED
    BY <1>1, <2>1, <2>2, <2>3, ToldWaits
<1>4. CASE LinkLost
  BY <1>4 DEF LinkLost, WInv, AnswerIsComing
<1>5. CASE UNCHANGED vars
  BY <1>5 DEF vars, WInv, AnswerIsComing, DescriptorFirst, OnWay, Coming, Handled
<1> QED
  BY <1>1, <1>2, <1>3, <1>4, <1>5, JoinWaits, AckWaits, ReceivedWaits, AnsweredWaits
     DEF Next, Client, Server

\* No call of connect or send_frame waits for a message that nobody is going to
\* send: as long as the connection is up, either what the next read needs is on
\* its way, or the server still has to open the connection, to receive the join
\* packet or the frame's attachment, or to answer the frame.
THEOREM NoVainWait == Spec => []AnswerIsComing
<1>1. Init => WInv
  BY DEF Init, WInv, AnswerIsComing
<1>2. Spec => []IInv
  BY InitIInv, NextIInv, PTL DEF Spec
<1>3. WInv => AnswerIsComing
  BY DEF WInv
<1> QED
  BY <1>1, <1>2, <1>3, NextWInv, PTL DEF Spec
=============================================================================
