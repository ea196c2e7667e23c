---------------------------- MODULE CameraGateway ----------------------------
(***************************************************************************)
(* CameraGateway of server/src/camera/camera.gateway.ts over one           *)
(* CameraService: the Socket.IO namespace /stream, its camera and viewer   *)
(* sockets, and what they are told.  A socket connects once and closes     *)
(* once; a client that reconnects gets a new socket, possibly long before  *)
(* the ping timeout closes its old one.                                    *)
(*                                                                         *)
(* A WebSocket delivers in order, so a viewer's channel is represented by  *)
(* what the viewer knows once it has read everything sent to it.           *)
(***************************************************************************)
EXTENDS Integers

CONSTANTS
  Cameras, Undefined, Null, MinimumInterval, StartTime, MaxNow, MaxFrames,
  MaxConnects,        \* as in CameraService
  Sockets,            \* bound: the connections made
  CameraTokenIsSet,   \* process.env.CAMERA_TOKEN is not empty
  ViewerTokenIsSet    \* process.env.VIEWER_TOKEN is not empty

ASSUME GatewayAssumption ==
  /\ MinimumInterval \in Nat
  /\ StartTime \in Nat /\ StartTime >= MinimumInterval
  /\ MaxNow \in Nat /\ MaxNow >= StartTime
  /\ MaxFrames \in Nat
  /\ MaxConnects \in Nat
  /\ Null \notin Nat
  /\ CameraTokenIsSet \in BOOLEAN
  /\ ViewerTokenIsSet \in BOOLEAN

VARIABLES
  states, processing, lastAcceptedAt, calls, now, ended,  \* CameraService
  sockets,  \* each socket's lifecycle and the data handleConnection stored
  asked,    \* camera:frame events whose handler has not returned yet
  told,     \* per viewer socket and camera: the last presence it was sent
  shown     \* per viewer socket and camera: the last viewer:frame it was sent

Service == INSTANCE CameraService

ASSUME UndefinedAssumption == Undefined \notin Service!CameraState

service == <<states, processing, lastAcceptedAt, calls, now, ended>>
vars == <<states, processing, lastAcceptedAt, calls, now, ended,
          sockets, asked, told, shown>>

Presence == {"unknown", "online", "offline"}

Socket == [state : {"fresh", "open", "closed"},
           role : {"none", "camera", "viewer"}, cameraId : Cameras \cup {Null}]

TypeOK ==
  /\ Service!TypeOK
  /\ sockets \in [Sockets -> Socket]
  /\ asked \in SUBSET [socket : Sockets, camera : Cameras, frame : Nat]
  /\ told \in [Sockets -> [Cameras -> Presence]]
  /\ shown \in [Sockets -> [Cameras -> Nat]]

Init ==
  /\ Service!Init
  /\ sockets = [s \in Sockets |-> [state |-> "fresh", role |-> "none", cameraId |-> Null]]
  /\ asked = {}
  /\ told = [s \in Sockets |-> [c \in Cameras |-> "unknown"]]
  /\ shown = [s \in Sockets |-> [c \in Cameras |-> 0]]

-----------------------------------------------------------------------------
IsOpen(s, role) == sockets[s].state = "open" /\ sockets[s].role = role

\* handshake.auth as far as handleConnection distinguishes it: a cameraId that
\* normalizeCameraId rejects is Null.
Auth == [role : {"camera", "viewer", "other"}, rightToken : BOOLEAN,
         cameraId : Cameras \cup {Null}]

ValidToken(auth, configured, allowEmpty) ==
  IF configured THEN auth.rightToken ELSE allowEmpty

IsCamera(auth) ==
  /\ auth.role = "camera"
  /\ auth.cameraId # Null
  /\ ValidToken(auth, CameraTokenIsSet, FALSE)

IsViewer(auth) ==
  auth.role = "viewer" /\ ValidToken(auth, ViewerTokenIsSet, TRUE)

Accepted(s, role, id) ==
  sockets' = [sockets EXCEPT ![s] = [state |-> "open", role |-> role, cameraId |-> id]]

\* server.emit(...): every socket open at this moment hears it.  A camera
\* client skips what it hears (SocketIoClient); a viewer remembers it.
Emit(news, c, value) ==
  [s \in Sockets |->
     IF IsOpen(s, "viewer")' THEN [news[s] EXCEPT ![c] = value] ELSE news[s]]

EmitStatus(c, presence) == told' = Emit(told, c, presence)

PresenceOf(c) ==
  IF states[c] = Undefined THEN "unknown"
  ELSE IF states[c].connected THEN "online" ELSE "offline"

-----------------------------------------------------------------------------
(* handleConnection *)

CameraConnects(s, auth) ==
  /\ sockets[s].state = "fresh"
  /\ IsCamera(auth)
  /\ Accepted(s, "camera", auth.cameraId)
  /\ Service!Connect(auth.cameraId)
  /\ EmitStatus(auth.cameraId, "online")
  /\ UNCHANGED <<asked, shown>>

\* Fault: a new viewer waits for status events and is sent no list.
ViewerConnectsUntold(s, auth) ==
  /\ sockets[s].state = "fresh"
  /\ IsViewer(auth)
  /\ Accepted(s, "viewer", Null)
  /\ UNCHANGED <<service, asked, told, shown>>

ViewerConnects(s, auth) ==
  /\ sockets[s].state = "fresh"
  /\ IsViewer(auth)
  /\ Accepted(s, "viewer", Null)
  /\ told' = [told EXCEPT ![s] = [c \in Cameras |-> PresenceOf(c)]]
  /\ UNCHANGED <<service, asked, shown>>

\* disconnect(true); its handleDisconnect finds no role and does nothing.
ConnectionRefused(s, auth) ==
  /\ sockets[s].state = "fresh"
  /\ ~IsCamera(auth) /\ ~IsViewer(auth)
  /\ sockets' = [sockets EXCEPT ![s].state = "closed"]
  /\ UNCHANGED <<service, asked, told, shown>>

-----------------------------------------------------------------------------
(* handleDisconnect: the peer left or missed its ping timeout *)

\* Fault: a camera is told offline to the viewers but stays connected.
CameraDisconnectsOnlyTold(s) ==
  /\ IsOpen(s, "camera")
  /\ sockets' = [sockets EXCEPT ![s].state = "closed"]
  /\ EmitStatus(sockets[s].cameraId, "offline")
  /\ UNCHANGED <<service, asked, shown>>

CameraDisconnects(s) ==
  /\ IsOpen(s, "camera")
  /\ sockets' = [sockets EXCEPT ![s].state = "closed"]
  /\ Service!Disconnect(sockets[s].cameraId)
  /\ EmitStatus(sockets[s].cameraId, "offline")
  /\ UNCHANGED <<asked, shown>>

ViewerDisconnects(s) ==
  /\ IsOpen(s, "viewer")
  /\ sockets' = [sockets EXCEPT ![s].state = "closed"]
  /\ UNCHANGED <<service, asked, told, shown>>

-----------------------------------------------------------------------------
(* onFrame: a well-formed JPEG on an authenticated socket.  The answers      *)
(* unauthorized and invalid_jpeg return before any state is touched.         *)

FrameDropped(s) ==
  /\ IsOpen(s, "camera")
  /\ Service!DropFrame(sockets[s].cameraId)
  /\ UNCHANGED <<sockets, asked, told, shown>>

FrameStarted(s) ==
  LET c == sockets[s].cameraId
  IN  /\ IsOpen(s, "camera")
      /\ Service!StartFrame(c)
      /\ asked' = asked \cup {[socket |-> s, camera |-> c, frame |-> Service!Received(c) + 1]}
      /\ UNCHANGED <<sockets, told, shown>>

\* onFrame resumes when the vision call k settles, even if the socket closed.
Answered(k) == asked' = {r \in asked : r.camera # k.camera \/ r.frame # k.frame}

\* server.emit('viewer:frame', ...) and the ACK {accepted: true}.
FrameProcessed(k) ==
  /\ Service!Resolve(k)
  /\ Answered(k)
  /\ UNCHANGED <<sockets, told>>
  /\ shown' = Emit(shown, k.camera, k.frame)

\* Fault: no catch, so a rejected call never answers the camera.
FrameFailedUncaught(k) ==
  /\ Service!Reject(k)
  /\ UNCHANGED <<sockets, asked, told, shown>>

FrameFailed(k) ==
  /\ Service!Reject(k)
  /\ Answered(k)
  /\ UNCHANGED <<sockets, told, shown>>

FrameSettles(c) == \E k \in calls : k.camera = c /\ (FrameProcessed(k) \/ FrameFailed(k))

-----------------------------------------------------------------------------
Next ==
  \/ \E s \in Sockets :
       \/ \E auth \in Auth :
            CameraConnects(s, auth) \/ ViewerConnects(s, auth) \/ ConnectionRefused(s, auth)
       \/ CameraDisconnects(s) \/ ViewerDisconnects(s)
       \/ FrameDropped(s) \/ FrameStarted(s)
  \/ \E c \in Cameras : FrameSettles(c)
  \/ Service!ClockMoves /\ UNCHANGED <<sockets, asked, told, shown>>

\* AbortSignal.timeout(5_000) settles every vision call.
Fairness == \A c \in Cameras : WF_vars(FrameSettles(c))

Spec == Init /\ [][Next]_vars

FairSpec == Spec /\ Fairness

-----------------------------------------------------------------------------
(* Properties *)

\* A camera shown as connected has an open authenticated socket: neither a
\* frame that completes after the disconnect nor a refused reconnect brings a
\* camera without a connection back online.
OnlineHasSocket ==
  \A c \in Cameras : PresenceOf(c) = "online" =>
    \E s \in Sockets : IsOpen(s, "camera") /\ sockets[s].cameraId = c

\* Whenever a viewer joined, and in whatever order cameras came and went, the
\* list it was sent plus the later status events say exactly what
\* GET /api/cameras says.
ViewersAreCurrent ==
  \A s \in Sockets : IsOpen(s, "viewer") =>
    \A c \in Cameras : told[s][c] = PresenceOf(c)

\* Viewers see the frames of a camera in the order the server received them,
\* also when two sockets send under the same camera id.
ViewerFrameOrder ==
  [][\A s \in Sockets, c \in Cameras :
       shown'[s][c] # shown[s][c] => shown'[s][c] > shown[s][c]]_vars

\* Every camera:frame event is answered, whatever the vision service does and
\* whether or not its socket is still there.
EveryFrameAnswered ==
  \A s \in Sockets : (\E r \in asked : r.socket = s) ~> ~(\E r \in asked : r.socket = s)

\* README.md calls GET /api/cameras the list of connected cameras.  A camera
\* whose old socket times out after its new one connected is listed offline.
SocketIsOnline ==
  \A s \in Sockets : IsOpen(s, "camera") => PresenceOf(sockets[s].cameraId) = "online"
=============================================================================
