---------------------------- MODULE CameraService ----------------------------
(***************************************************************************)
(* CameraService of server/src/camera/camera.service.ts: the per-camera    *)
(* state behind GET /api/cameras, the backpressure rule and the FPS gate.  *)
(* Node runs one handler at a time, so a method is one step up to its      *)
(* await: acceptFrame is a step that drops the frame or starts the vision  *)
(* call, and a later step in which that call's promise settles.            *)
(*                                                                         *)
(* connect() puts a NEW object into the Map, while a pending acceptFrame   *)
(* keeps the reference it read before its await.  An object is a number    *)
(* here, and a write through a reference reaches the Map only if the       *)
(* number is still the current one.                                        *)
(***************************************************************************)
EXTENDS Integers, FiniteSets

CONSTANTS
  Cameras,          \* camera ids
  Undefined,        \* Map.get of an unknown camera
  Null,             \* lastFrameAt before the first processed frame
  MinimumInterval,  \* 1000 / MAX_CAMERA_FPS, in clock ticks, rounded up
  StartTime,        \* the earliest value Date.now() takes; the epoch is long past
  MaxNow,           \* bound: the latest value Date.now() takes
  MaxFrames,        \* bound: frames per camera
  MaxConnects       \* bound: reconnections per camera

ASSUME ServiceAssumption ==
  /\ MinimumInterval \in Nat
  /\ StartTime \in Nat /\ StartTime >= MinimumInterval
  /\ MaxNow \in Nat /\ MaxNow >= StartTime
  /\ MaxFrames \in Nat
  /\ MaxConnects \in Nat
  /\ Null \notin Nat

VARIABLES
  states,          \* Map of cameraId to the CameraState object
  processing,      \* Set of cameraIds with a frame at the vision service
  lastAcceptedAt,  \* Map of cameraId to the last admission time (0: none)
  calls,           \* pending acceptFrame calls, each awaiting openCv.process
  now,             \* Date.now(), which NTP may also step back
  ended            \* history per camera: calls that resolved, the time of the
                   \* last one, and calls that were rejected

vars == <<states, processing, lastAcceptedAt, calls, now, ended>>

CameraState ==
  [object : 0 .. MaxConnects, connected : BOOLEAN,
   lastFrameAt : Nat \cup {Null}, receivedFrames : Nat, droppedFrames : Nat]

ASSUME UndefinedAssumption == Undefined \notin CameraState

Call == [camera : Cameras, object : 0 .. MaxConnects, frame : Nat]

Outcomes == [ok : Nat, at : Nat \cup {Null}, failed : Nat]

TypeOK ==
  /\ states \in [Cameras -> CameraState \cup {Undefined}]
  /\ processing \in SUBSET Cameras
  /\ lastAcceptedAt \in [Cameras -> Nat]
  /\ calls \in SUBSET Call
  /\ now \in StartTime .. MaxNow
  /\ ended \in [Cameras -> Outcomes]

Init ==
  /\ states = [c \in Cameras |-> Undefined]
  /\ processing = {}
  /\ lastAcceptedAt = [c \in Cameras |-> 0]
  /\ calls = {}
  /\ now = StartTime
  /\ ended = [c \in Cameras |-> [ok |-> 0, at |-> Null, failed |-> 0]]

Known(c) == states[c] # Undefined

Received(c) == IF Known(c) THEN states[c].receivedFrames ELSE 0

Dropped(c) == IF Known(c) THEN states[c].droppedFrames ELSE 0

-----------------------------------------------------------------------------
(* connect and disconnect *)

\* Faults: a reconnecting camera starts with fresh statistics; a default for
\* an unknown camera is forgotten.
ConnectedAfresh(c) ==
  [object |-> IF Known(c) THEN states[c].object + 1 ELSE 0, connected |-> TRUE,
   lastFrameAt |-> Null, receivedFrames |-> 0, droppedFrames |-> 0]

ConnectedUndefined(c) ==
  [object |-> IF Known(c) THEN states[c].object + 1 ELSE 0, connected |-> TRUE,
   lastFrameAt |-> IF Known(c) THEN states[c].lastFrameAt ELSE Null,
   receivedFrames |-> Received(c),
   droppedFrames |-> IF Known(c) THEN states[c].droppedFrames ELSE Undefined]

\* The object connect() stores: always a new one, with the statistics so far.
Connected(c) ==
  [object |-> IF Known(c) THEN states[c].object + 1 ELSE 0,
   connected |-> TRUE,
   lastFrameAt |-> IF Known(c) THEN states[c].lastFrameAt ELSE Null,
   receivedFrames |-> Received(c),
   droppedFrames |-> Dropped(c)]

MayConnect(c) == Known(c) => states[c].object < MaxConnects

Connect(c) ==
  /\ MayConnect(c)
  /\ states' = [states EXCEPT ![c] = Connected(c)]
  /\ UNCHANGED <<processing, lastAcceptedAt, calls, now, ended>>

Disconnect(c) ==
  /\ states' = IF Known(c) THEN [states EXCEPT ![c].connected = FALSE] ELSE states
  /\ UNCHANGED <<processing, lastAcceptedAt, calls, now, ended>>

-----------------------------------------------------------------------------
(* acceptFrame up to the await *)

\* The object the frame is counted on; an unknown camera is connected first.
Current(c) == IF Known(c) THEN states[c] ELSE Connected(c)

\* Fault: a clock that stepped back opens the gate, instead of closing it until
\* the clock has caught up with the last admission.
TooFastUnlessBack(c) ==
  lastAcceptedAt[c] <= now /\ now - lastAcceptedAt[c] < MinimumInterval

TooFast(c) == now - lastAcceptedAt[c] < MinimumInterval

\* Fault: a dropped frame returns before it is counted as received.
DropFrameUncounted(c) ==
  /\ Received(c) < MaxFrames
  /\ c \in processing \/ TooFast(c)
  /\ states' = [states EXCEPT ![c] =
       [Current(c) EXCEPT !.droppedFrames = @ + 1]]
  /\ UNCHANGED <<processing, lastAcceptedAt, calls, now, ended>>

DropFrame(c) ==
  /\ Received(c) < MaxFrames
  /\ c \in processing \/ TooFast(c)
  /\ states' = [states EXCEPT ![c] =
       [Current(c) EXCEPT !.receivedFrames = @ + 1, !.droppedFrames = @ + 1]]
  /\ UNCHANGED <<processing, lastAcceptedAt, calls, now, ended>>

\* processing.add, lastAcceptedAt.set and the start of openCv.process.
Start(c) ==
  /\ Received(c) < MaxFrames
  /\ states' = [states EXCEPT ![c] = [Current(c) EXCEPT !.receivedFrames = @ + 1]]
  /\ processing' = processing \cup {c}
  /\ lastAcceptedAt' = [lastAcceptedAt EXCEPT ![c] = now]
  /\ calls' = calls \cup {[camera |-> c, object |-> Current(c).object,
                           frame |-> Received(c) + 1]}
  /\ UNCHANGED <<now, ended>>

\* Fault: only the FPS gate is tested.
StartFrameUnguarded(c) == ~TooFast(c) /\ Start(c)

StartFrame(c) == c \notin processing /\ ~TooFast(c) /\ Start(c)

AcceptFrame(c) == DropFrame(c) \/ StartFrame(c)

-----------------------------------------------------------------------------
(* acceptFrame after the await *)

Resolve(k) ==
  /\ states' = IF states[k.camera].object = k.object
                 THEN [states EXCEPT ![k.camera].lastFrameAt = now]
                 ELSE states
  /\ ended' = [ended EXCEPT ![k.camera].ok = @ + 1, ![k.camera].at = now]
  /\ processing' = processing \ {k.camera}
  /\ calls' = calls \ {k}
  /\ UNCHANGED <<lastAcceptedAt, now>>

\* Fault: the delete is not in a finally block.
RejectKeepsProcessing(k) ==
  /\ ended' = [ended EXCEPT ![k.camera].failed = @ + 1]
  /\ calls' = calls \ {k}
  /\ UNCHANGED <<states, processing, lastAcceptedAt, now>>

\* The vision service refused the frame, broke, or exceeded the 5 s signal.
Reject(k) ==
  /\ ended' = [ended EXCEPT ![k.camera].failed = @ + 1]
  /\ processing' = processing \ {k.camera}
  /\ calls' = calls \ {k}
  /\ UNCHANGED <<states, lastAcceptedAt, now>>

Settle(c) == \E k \in calls : k.camera = c /\ (Resolve(k) \/ Reject(k))

-----------------------------------------------------------------------------
ClockMoves ==
  /\ now' \in StartTime .. MaxNow
  /\ now' <= now + 1
  /\ UNCHANGED <<states, processing, lastAcceptedAt, calls, ended>>

Next ==
  \/ \E c \in Cameras :
       Connect(c) \/ Disconnect(c) \/ AcceptFrame(c) \/ Settle(c)
  \/ ClockMoves

Spec == Init /\ [][Next]_vars

-----------------------------------------------------------------------------
(* Properties *)

\* At most one frame per camera is at the vision service, and `processing`
\* names exactly the cameras that have one: no camera is forgotten there and
\* none is released while its call is still pending.
OneInFlight ==
  /\ \A j, k \in calls : j.camera = k.camera => j = k
  /\ processing = {k.camera : k \in calls}

\* The statistics behind /api/cameras add up at every moment and survive
\* reconnects: received = dropped + processed + failed + in flight.
StatsConserved ==
  \A c \in Cameras :
    Received(c) = Dropped(c) + ended[c].ok + ended[c].failed
                  + (IF c \in processing THEN 1 ELSE 0)

\* Frames that went past both tests of acceptFrame.
Admitted(c) == Received(c) - Dropped(c)

\* What a step may do to a camera: nothing, or one admission, stamped with the
\* time and an interval or more after the one before.
Apart(c) ==
  \/ Admitted(c)' = Admitted(c) /\ lastAcceptedAt'[c] = lastAcceptedAt[c]
  \/ /\ Admitted(c)' = Admitted(c) + 1
     /\ lastAcceptedAt'[c] = now'
     /\ lastAcceptedAt'[c] >= lastAcceptedAt[c] + MinimumInterval

\* The FPS cap: every admission is stamped with the present time and lies at
\* least one interval after the admission before it, wherever NTP stepped the
\* clock to in between (the first one: after the default 0).  Nothing else moves
\* the stamp: it outlives failed frames, disconnects and the new object of a
\* reconnect, so none of them opens the gate early.
AdmissionsApart == [][\A c \in Cameras : Apart(c)]_vars

\* The service implements the abstract gate.
Gate == INSTANCE FrameGate
  WITH busy <- {k.camera : k \in calls},
       received <- [c \in Cameras |-> Received(c)],
       refused <- [c \in Cameras |-> Dropped(c)],
       finished <- [c \in Cameras |-> ended[c].ok + ended[c].failed]

GateSpec == Gate!Spec

\* camera.types.ts:53 calls lastFrameAt the time of the last completed
\* processing.  A reconnect during the await detaches the object it is
\* written to.
LastFrameAtIsLastCompletion ==
  \A c \in Cameras : Known(c) => states[c].lastFrameAt = ended[c].at
=============================================================================
