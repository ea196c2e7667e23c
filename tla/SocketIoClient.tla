--------------------------- MODULE SocketIoClient ---------------------------
(***************************************************************************)
(* SocketIoClient of client/src/socket_io_client.cpp: Engine.IO and        *)
(* Socket.IO over one WebSocket, one blocking read or write at a time.     *)
(* The caller may call connect, send_frame and disconnect in any order.    *)
(* The server's half of the protocol (the socket.io library and the        *)
(* /stream gateway) is modelled from what the client sends and expects:    *)
(* it also pings and broadcasts to the camera what it broadcasts to the    *)
(* viewers, and the connection may break at any moment.                    *)
(***************************************************************************)
EXTENDS Integers, Sequences, FiniteSets

CONSTANTS
  NoVerdict,
  MaxFrames,  \* bound: calls of send_frame
  MaxLinks,   \* bound: WebSockets opened
  MaxNoise    \* bound: pings and broadcasts not caused by a frame, per link

ASSUME ClientAssumption ==
  /\ MaxFrames \in Nat /\ MaxLinks \in Nat /\ MaxNoise \in Nat
  /\ NoVerdict \notin {"accepted", "refused"}

VARIABLES
  pc,             \* which read or write of which call comes next
  authenticated,  \* authenticated_
  nextAckId,      \* next_ack_id_
  calls,          \* frames handed to send_frame; the last is the current one
  result,         \* history: what send_frame returned for each frame
  links,          \* WebSockets opened; the last is the current one
  socket,         \* "none" (nullptr), "up", or "lost" without its owner knowing
  up, down,       \* messages on their way to the server and to the client
  session,        \* the server's half: "new", "opened" or "joined"
  half,           \* the server's descriptor without its attachment yet
  working,        \* frames in the server's handler, with link and ACK id
  handled,        \* history: the server's verdict on each frame
  noise, pings    \* messages of the bound MaxNoise; pings not yet ponged

client == <<pc, authenticated, nextAckId, calls, result, links>>
server == <<session, half, working, handled, noise>>
vars == <<pc, authenticated, nextAckId, calls, result, links, socket, up, down,
          session, half, working, handled, noise, pings>>

Frames == 1 .. MaxFrames

Verdict == {"accepted", "refused"}

\* Between two calls, in connect, or in send_frame.
PC == {"idle", "open", "join", "attach", "ack"}

Message(kind, id, frame, verdict) ==
  [kind |-> kind, id |-> id, frame |-> frame, verdict |-> verdict]

Plain(kind) == Message(kind, -1, 0, NoVerdict)

\* A broadcast event with an attachment: two WebSocket messages.
Broadcast == <<Plain("event"), Plain("binary")>>

Kinds == {"open", "join", "joined", "rejected", "ping", "pong", "frame", "binary",
          "event", "ack"}

Messages ==
  [kind : Kinds, id : -1 .. MaxFrames, frame : 0 .. MaxFrames,
   verdict : Verdict \cup {NoVerdict}]

Job == [link : 1 .. MaxLinks, id : 0 .. MaxFrames, frame : Frames]

TypeOK ==
  /\ pc \in PC
  /\ authenticated \in BOOLEAN
  /\ nextAckId \in 0 .. MaxFrames
  /\ calls \in 0 .. MaxFrames
  /\ result \in [Frames -> Verdict \cup {NoVerdict}]
  /\ links \in 0 .. MaxLinks
  /\ socket \in {"none", "up", "lost"}
  /\ up \in Seq(Messages)
  /\ down \in Seq(Messages)
  /\ session \in {"new", "opened", "joined"}
  /\ half \in Messages
  /\ working \in SUBSET Job
  /\ handled \in [Frames -> Verdict \cup {NoVerdict}]
  /\ noise \in 0 .. MaxNoise
  /\ pings \in Nat

NoHalf == Plain("binary")

Init ==
  /\ pc = "idle"
  /\ authenticated = FALSE
  /\ nextAckId = 0
  /\ calls = 0
  /\ result = [f \in Frames |-> NoVerdict]
  /\ links = 0
  /\ socket = "none"
  /\ up = <<>>
  /\ down = <<>>
  /\ session = "new"
  /\ half = NoHalf
  /\ working = {}
  /\ handled = [f \in Frames |-> NoVerdict]
  /\ noise = 0
  /\ pings = 0

-----------------------------------------------------------------------------
(* Reading and writing *)

\* What is written to a broken connection is lost; the call may not notice.
Write(messages) == up' = IF socket = "up" THEN up \o messages ELSE up

\* read_message takes the next message.
Read == down # <<>> /\ down' = Tail(down)

\* A read or write throws, perhaps with messages unread that nobody will read
\* any more; the call ends, the socket object stays.
Throws ==
  /\ pc # "idle"
  /\ socket = "lost"
  /\ pc' = "idle"
  /\ down' = <<>>
  /\ UNCHANGED <<authenticated, nextAckId, calls, result, links, socket, up, server, pings>>

\* A fresh connection has nothing of an old one on it.
Drop ==
  /\ up' = <<>>
  /\ down' = <<>>
  /\ session' = "new"
  /\ half' = NoHalf
  /\ noise' = 0
  /\ pings' = 0

-----------------------------------------------------------------------------
(* disconnect and connect *)

Disconnect ==
  /\ pc = "idle"
  /\ authenticated' = FALSE
  /\ socket' = "none"
  /\ Drop
  /\ UNCHANGED <<pc, nextAckId, calls, result, links, working, handled>>

Dial(flag) ==
  /\ pc = "idle"
  /\ links < MaxLinks
  /\ links' = links + 1
  /\ authenticated' = flag
  /\ Drop
  /\ \/ socket' = "up" /\ pc' = "open"
     \/ socket' = "lost" /\ pc' = "idle"
  /\ UNCHANGED <<nextAckId, calls, result, working, handled>>

\* Fault: connect() does not begin with disconnect().
ConnectWithoutReset == Dial(authenticated)

\* connect: disconnect, then resolve, TCP and HTTP upgrade, of which each may
\* throw and leave an unusable socket object.
Connect == Dial(FALSE)

\* The first message must be the Engine.IO open packet.
ReadOpen ==
  /\ pc = "open"
  /\ Read
  /\ IF Head(down).kind = "open"
       THEN pc' = "join" /\ Write(<<Plain("join")>>)
       ELSE pc' = "idle" /\ UNCHANGED up
  /\ UNCHANGED <<authenticated, nextAckId, calls, result, links, socket, server, pings>>

Skip(kinds) ==
  /\ Read
  /\ Head(down).kind \in kinds
  /\ UNCHANGED <<client, socket, up, server, pings>>

Pong(kinds) ==
  /\ pc \in {"join", "ack"}
  /\ Read
  /\ Head(down).kind \in kinds
  /\ Write(<<Plain("pong")>>)
  /\ pings' = pings - 1
  /\ UNCHANGED <<client, socket, server>>

\* Faults: a ping is skipped like any other message; an event is taken for one.
AnswerPingNever == pc \in {"join", "ack"} /\ Skip({"ping"})
AnswerEvents == Pong({"ping", "event"})

\* Both loops answer a ping with a pong.
AnswerPing == Pong({"ping"})

Joined ==
  /\ pc = "join"
  /\ Read
  /\ Head(down).kind = "joined"
  /\ authenticated' = TRUE
  /\ nextAckId' = 0
  /\ pc' = "idle"
  /\ UNCHANGED <<calls, result, links, socket, up, server, pings>>

\* Fault: the connect error packet is not recognised.
RejectedSkipped == pc = "join" /\ Skip({"rejected"})

Rejected ==
  /\ pc = "join"
  /\ Read
  /\ Head(down).kind = "rejected"
  /\ pc' = "idle"
  /\ UNCHANGED <<authenticated, nextAckId, calls, result, links, socket, up, server, pings>>

SkipInJoin == pc = "join" /\ Skip(Kinds \ {"ping", "joined", "rejected"})

-----------------------------------------------------------------------------
(* send_frame.  Without authenticated_ and a socket, or with an invalid JPEG, *)
(* it throws before it changes anything.                                      *)

SendDescriptor(id) ==
  /\ pc = "idle"
  /\ authenticated /\ socket # "none"
  /\ calls < MaxFrames
  /\ calls' = calls + 1
  /\ nextAckId' = nextAckId + 1
  /\ Write(<<Message("frame", id, calls', NoVerdict)>>)
  /\ pc' = "attach"
  /\ UNCHANGED <<authenticated, result, links, socket, down, server, pings>>

\* Fault: the id is incremented before it is used for the descriptor.
SendFrameAhead == SendDescriptor(nextAckId + 1)

SendFrame == SendDescriptor(nextAckId)

SendAttachment ==
  /\ pc = "attach"
  /\ Write(<<Message("binary", -1, calls, NoVerdict)>>)
  /\ pc' = "ack"
  /\ UNCHANGED <<authenticated, nextAckId, calls, result, links, socket, down, server, pings>>

\* The ACK of this frame.  The code compares a prefix of the text, which is the
\* same as long as no ACK has a greater id (see AcksAreNotAhead).
IsAck(m) == m.kind = "ack" /\ m.id = nextAckId - 1

TakeAck(matches, verdict) ==
  /\ pc = "ack"
  /\ Read
  /\ matches
  /\ result' = [result EXCEPT ![calls] = verdict]
  /\ pc' = "idle"
  /\ UNCHANGED <<authenticated, nextAckId, calls, links, socket, up, server, pings>>

\* Fault: the first text message after the frame is taken for its ACK, and
\* without "accepted" in it for a refusal.
ReadAckUnmatched ==
  LET m == Head(down)
  IN  TakeAck(m.kind \notin {"binary", "ping"},
              IF m.kind = "ack" THEN m.verdict ELSE "refused")

ReadAck == TakeAck(IsAck(Head(down)), Head(down).verdict)

SkipInAck ==
  /\ pc = "ack"
  /\ down # <<>>
  /\ ~IsAck(Head(down))
  /\ Skip(Kinds \ {"ping"})

Client ==
  \/ Throws \/ ReadOpen \/ AnswerPing \/ Joined \/ Rejected \/ SkipInJoin
  \/ SendAttachment \/ ReadAck \/ SkipInAck

-----------------------------------------------------------------------------
(* The server and the network *)

Tell(messages) == down' = down \o messages

\* Engine.IO's open packet is the first message of a connection.
ServerOpens ==
  /\ socket = "up" /\ session = "new"
  /\ Tell(<<Plain("open")>>)
  /\ session' = "opened"
  /\ UNCHANGED <<client, socket, up, half, working, handled, noise, pings>>

\* The namespace is confirmed (or refused) as soon as it is asked for.
ServerReceives ==
  /\ socket = "up" /\ up # <<>>
  /\ LET m == Head(up)
     IN \/ /\ m.kind = "join"
           /\ \/ session' = "joined" /\ Tell(<<Plain("joined")>>)
              \/ UNCHANGED session /\ Tell(<<Plain("rejected")>>)
           /\ UNCHANGED <<half, working>>
        \/ /\ m.kind = "frame"
           /\ half' = m
           /\ UNCHANGED <<session, working, down>>
        \/ /\ m.kind = "binary"
           /\ half' = NoHalf
           /\ working' = IF half.kind = "frame" /\ session = "joined"
                           THEN working \cup {[link |-> links, id |-> half.id,
                                               frame |-> m.frame]}
                           ELSE working
           /\ UNCHANGED <<session, down>>
        \/ m.kind = "pong" /\ UNCHANGED <<session, half, working, down>>
  /\ up' = Tail(up)
  /\ UNCHANGED <<client, socket, handled, noise, pings>>

\* The handler answers; an accepted frame is broadcast first, to the camera as
\* well.  The answer to a frame of a former connection goes nowhere.
ServerAnswers ==
  \E job \in working, v \in Verdict :
    /\ working' = working \ {job}
    /\ handled' = [handled EXCEPT ![job.frame] = v]
    /\ IF socket = "up" /\ job.link = links
         THEN Tell((IF v = "accepted" THEN Broadcast ELSE <<>>)
                     \o <<Message("ack", job.id, 0, v)>>)
         ELSE UNCHANGED down
    /\ UNCHANGED <<client, socket, up, session, half, noise, pings>>

\* A ping, another camera's frame or a status event.  More liberal than the
\* real server, this one may broadcast before it confirms the namespace.
ServerNoise ==
  /\ socket = "up" /\ session # "new"
  /\ noise < MaxNoise
  /\ noise' = noise + 1
  /\ \/ Tell(<<Plain("ping")>>) /\ pings' = pings + 1
     \/ (Tell(Broadcast) \/ Tell(<<Plain("event")>>)) /\ UNCHANGED pings
  /\ UNCHANGED <<client, socket, up, session, half, working, handled>>

\* The server drops the client (a refused token, no pong in time, a restart)
\* or the network does; some of what was sent may still be read.
LinkLost ==
  /\ socket = "up"
  /\ socket' = "lost"
  /\ up' = <<>>
  /\ \E n \in 0 .. Len(down) : down' = SubSeq(down, 1, n)
  /\ half' = NoHalf
  /\ UNCHANGED <<client, session, working, handled, noise, pings>>

Server == ServerOpens \/ ServerReceives \/ ServerAnswers

Next ==
  \/ Disconnect \/ Connect \/ SendFrame \/ Client
  \/ Server \/ ServerNoise \/ LinkLost

Spec == Init /\ [][Next]_vars

\* The client's thread runs, and so does the server as long as the connection
\* holds.
FairSpec == Spec /\ WF_vars(Client) /\ WF_vars(Server)

-----------------------------------------------------------------------------
(* Properties *)

Places(kind) == {i \in DOMAIN down : down[i].kind = kind}

\* connected() is true only for a connection whose namespace the server has
\* confirmed: a flag left over from an earlier connection would let frames go
\* out before the handshake.
ConnectedIsConfirmed == authenticated /\ socket = "up" => session = "joined"

\* Every ping the client has read it has answered, in both of its loops.
ReadPingsAreAnswered == socket = "up" => pings = Cardinality(Places("ping"))

\* No ACK on its way has a greater id than the one awaited, and none is for an
\* earlier frame: "43/stream,1" cannot be taken for the beginning of
\* "43/stream,10".
AcksAreNotAhead ==
  \A i \in DOMAIN down : down[i].kind = "ack" => pc = "ack" /\ IsAck(down[i])

\* The client implements the abstract exchange: the verdict returned is the
\* server's verdict on that very frame.
Exchange == INSTANCE FrameExchange
  WITH calling <- IF pc \in {"attach", "ack"} THEN calls ELSE 0

ExchangeSpec == Exchange!Spec

\* While the connection or its loss reaches the client, every call returns.
CallsReturn == pc # "idle" ~> pc = "idle"
=============================================================================
