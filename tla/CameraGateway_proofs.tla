------------------------- MODULE CameraGateway_proofs -------------------------
(***************************************************************************)
(* TLAPS proofs about CameraGateway, for any number of sockets, cameras    *)
(* and viewers.  What is proved about CameraService is used here as it     *)
(* stands; Promise names those definitions and lemmas.                     *)
(***************************************************************************)
EXTENDS CameraGateway, TLAPS

\* What is used of Promise does not mention what is behind the service.
Promise == INSTANCE Vision_proofs
  WITH requests <- {}, answers <- {}, previous_frames <- <<>>, shown <- <<>>,
       failed <- <<>>

-----------------------------------------------------------------------------
(* The service below the gateway *)

\* Service and Promise are instances of the same module.
LEMMA SameReadings ==
  /\ Service!CameraState = Promise!CameraState
  /\ Service!TypeOK <=> Promise!TypeOK
  /\ Service!Init <=> Promise!Init
  /\ \A c : Service!Received(c) = Promise!Received(c)
  /\ \A c : Service!Known(c) <=> Promise!Known(c)
<1>1. Service!CameraState = Promise!CameraState
  BY DEF Service!CameraState, Promise!CameraState
<1>2. Service!TypeOK <=> Promise!TypeOK
  BY <1>1 DEF Service!TypeOK, Promise!TypeOK, Service!Call, Promise!Call,
     Service!Outcomes, Promise!Outcomes
<1>3. Service!Init <=> Promise!Init
  BY DEF Service!Init, Promise!Init
<1>4. \A c : Service!Received(c) = Promise!Received(c)
  BY DEF Service!Received, Promise!Received, Service!Known, Promise!Known
<1>5. \A c : Service!Known(c) <=> Promise!Known(c)
  BY DEF Service!Known, Promise!Known
<1> QED
  BY <1>1, <1>2, <1>3, <1>4, <1>5

\* The handlers of the service, as Promise names them.
LEMMA SameHandlers ==
  ASSUME NEW c
  PROVE  /\ Service!Connect(c) <=> Promise!Connect(c)
         /\ Service!Disconnect(c) <=> Promise!Disconnect(c)
         /\ Service!DropFrame(c) <=> Promise!DropFrame(c)
         /\ Service!StartFrame(c) <=> Promise!StartFrame(c)
         /\ Service!Resolve(c) <=> Promise!Resolve(c)
         /\ Service!Reject(c) <=> Promise!Reject(c)
         /\ Service!ClockMoves <=> Promise!ClockMoves
<1>1. Service!Received(c) = Promise!Received(c) /\ Service!Dropped(c) = Promise!Dropped(c)
  BY DEF Service!Received, Promise!Received, Service!Dropped, Promise!Dropped,
     Service!Known, Promise!Known
<1>2. Service!Connected(c) = Promise!Connected(c) /\ Service!Current(c) = Promise!Current(c)
  BY <1>1 DEF Service!Connected, Promise!Connected, Service!Current, Promise!Current,
     Service!Known, Promise!Known
<1>3. Service!Connect(c) <=> Promise!Connect(c)
  BY <1>2 DEF Service!Connect, Promise!Connect, Service!MayConnect, Promise!MayConnect,
     Service!Known, Promise!Known
<1>4. Service!Disconnect(c) <=> Promise!Disconnect(c)
  BY DEF Service!Disconnect, Promise!Disconnect, Service!Known, Promise!Known
<1>5. Service!DropFrame(c) <=> Promise!DropFrame(c)
  BY <1>1, <1>2 DEF Service!DropFrame, Promise!DropFrame, Service!TooFast, Promise!TooFast
<1>6. Service!StartFrame(c) <=> Promise!StartFrame(c)
  BY <1>1, <1>2 DEF Service!StartFrame, Promise!StartFrame, Service!Start, Promise!Start,
     Service!TooFast, Promise!TooFast
<1>7. Service!Resolve(c) <=> Promise!Resolve(c)
  BY DEF Service!Resolve, Promise!Resolve
<1>8. Service!Reject(c) <=> Promise!Reject(c)
  BY DEF Service!Reject, Promise!Reject
<1>9. Service!ClockMoves <=> Promise!ClockMoves
  BY DEF Service!ClockMoves, Promise!ClockMoves
<1> QED
  BY <1>3, <1>4, <1>5, <1>6, <1>7, <1>8, <1>9

\* The assumptions under which the lemmas of Promise hold.
LEMMA PromiseHolds ==
  /\ /\ MinimumInterval \in Nat
     /\ StartTime \in Nat /\ StartTime >= MinimumInterval
     /\ MaxNow \in Nat /\ MaxNow >= StartTime
     /\ MaxFrames \in Nat
     /\ MaxConnects \in Nat
     /\ Null \notin Nat
  /\ Undefined \notin Promise!CameraState
  BY GatewayAssumption, UndefinedAssumption, SameReadings

\* What the Map shows of a stored object.
LEMMA StoredObject ==
  ASSUME Promise!TypeOK, NEW c \in Cameras, NEW r \in Service!CameraState,
         states' = [states EXCEPT ![c] = r]
  PROVE  \A d \in Cameras :
           /\ PresenceOf(d)' = IF d = c THEN (IF r.connected THEN "online" ELSE "offline")
                               ELSE PresenceOf(d)
           /\ Service!Received(d)' = IF d = c THEN r.receivedFrames ELSE Service!Received(d)
           /\ Service!Known(d)' <=> d = c \/ Service!Known(d)
<1>1. \A d \in Cameras : states'[d] = IF d = c THEN r ELSE states[d]
  BY DEF Promise!TypeOK
<1>2. r # Undefined
  BY UndefinedAssumption
<1> QED
  BY <1>1, <1>2 DEF PresenceOf, Service!Received, Service!Known

\* A Map that stays shows the same.
LEMMA SameMap ==
  ASSUME states' = states
  PROVE  \A d : /\ PresenceOf(d)' = PresenceOf(d)
                /\ Service!Received(d)' = Service!Received(d)
                /\ Service!Known(d)' <=> Service!Known(d)
  BY DEF PresenceOf, Service!Received, Service!Known

\* What is known of a camera before a handler runs.
LEMMA CameraFacts ==
  ASSUME Promise!TypeOK, NEW c \in Cameras
  PROVE  /\ Service!Received(c) \in Nat
         /\ Service!Known(c) => states[c] \in Service!CameraState
         /\ Service!Current(c) \in Service!CameraState
         /\ Service!Current(c).receivedFrames = Service!Received(c)
         /\ Service!Known(c) => Service!Current(c) = states[c]
         /\ ~Service!Known(c) => Service!Current(c).connected
<1>1. /\ Promise!Received(c) \in Nat
      /\ Promise!Known(c) => states[c] \in Promise!CameraState
  BY PromiseHolds, Promise!RecordTypes
<1>2. /\ Promise!Current(c) \in Promise!CameraState
      /\ Promise!Current(c).receivedFrames = Promise!Received(c)
  BY PromiseHolds, Promise!CurrentType
<1>3. Service!Current(c) = Promise!Current(c)
  BY DEF Service!Current, Promise!Current, Service!Connected, Promise!Connected,
     Service!Dropped, Promise!Dropped, Service!Received, Promise!Received,
     Service!Known, Promise!Known
<1>4. Service!Known(c) => Service!Current(c) = states[c]
  BY DEF Service!Current
<1>5. ~Service!Known(c) => Service!Current(c).connected
  BY DEF Service!Current, Service!Connected
<1> QED
  BY <1>1, <1>2, <1>3, <1>4, <1>5, SameReadings

\* Every step of the service is a step of Promise's service.
LEMMA ServiceIsPromised ==
  ASSUME Promise!IInv,
         \/ \E c \in Cameras : \/ Service!Connect(c) \/ Service!Disconnect(c)
                               \/ Service!DropFrame(c) \/ Service!StartFrame(c)
         \/ \E k \in calls : Service!Resolve(k) \/ Service!Reject(k)
         \/ Service!ClockMoves
         \/ UNCHANGED service
  PROVE  [Promise!Next]_(Promise!vars)
<1>1. ASSUME NEW c \in Cameras,
             \/ Service!Connect(c) \/ Service!Disconnect(c)
             \/ Service!DropFrame(c) \/ Service!StartFrame(c)
      PROVE  Promise!Next
  BY <1>1, SameHandlers DEF Promise!Next, Promise!AcceptFrame
<1>2. ASSUME NEW k \in calls, Service!Resolve(k) \/ Service!Reject(k)
      PROVE  Promise!Next
  <2>1. k.camera \in Cameras
    BY DEF Promise!IInv, Promise!TypeOK, Promise!Call
  <2>2. Promise!Resolve(k) \/ Promise!Reject(k)
    BY <1>2, SameHandlers
  <2>3. Promise!Settle(k.camera)
    BY <2>2 DEF Promise!Settle
  <2> QED
    BY <2>1, <2>3 DEF Promise!Next
<1>3. ASSUME Service!ClockMoves PROVE Promise!Next
  BY <1>3, SameHandlers DEF Promise!Next
<1>4. ASSUME UNCHANGED service PROVE UNCHANGED Promise!vars
  BY <1>4 DEF service, Promise!vars
<1> QED
  BY <1>1, <1>2, <1>3, <1>4

\* Every step of the service keeps what is proved about it.
LEMMA ServiceKeeps ==
  ASSUME Promise!IInv,
         \/ \E c \in Cameras : \/ Service!Connect(c) \/ Service!Disconnect(c)
                               \/ Service!DropFrame(c) \/ Service!StartFrame(c)
         \/ \E k \in calls : Service!Resolve(k) \/ Service!Reject(k)
         \/ Service!ClockMoves
         \/ UNCHANGED service
  PROVE  Promise!IInv' /\ Promise!TypeOK'
<1>1. [Promise!Next]_(Promise!vars)
  BY ServiceIsPromised
<1>2. Promise!IInv'
  BY <1>1, PromiseHolds, Promise!NextStep
<1> QED
  BY <1>2 DEF Promise!IInv

\* connect() shows its camera online.
LEMMA ConnectShows ==
  ASSUME Promise!IInv, NEW c \in Cameras, Service!Connect(c)
  PROVE  \A d \in Cameras :
           /\ PresenceOf(d)' = IF d = c THEN "online" ELSE PresenceOf(d)
           /\ Service!Received(d)' = Service!Received(d)
           /\ Service!Known(d)' <=> d = c \/ Service!Known(d)
<1> DEFINE r == Service!Connected(c)
<1>1. Promise!TypeOK
  BY DEF Promise!IInv
<1>2. Promise!Connected(c) \in Promise!CameraState
  <2>1. Promise!MayConnect(c)
    BY DEF Service!Connect, Service!MayConnect, Promise!MayConnect, Service!Known, Promise!Known
  <2> QED
    BY <1>1, <2>1, PromiseHolds, Promise!ConnectedType
<1>3. r = Promise!Connected(c)
  BY DEF Service!Connected, Promise!Connected,
     Service!Dropped, Promise!Dropped, Service!Received, Promise!Received,
     Service!Known, Promise!Known
<1>4. r \in Service!CameraState
  BY <1>2, <1>3, SameReadings
<1>5. r.connected /\ r.receivedFrames = Service!Received(c)
  BY DEF Service!Connected
<1>6. states' = [states EXCEPT ![c] = r]
  BY DEF Service!Connect
<1> HIDE DEF r
<1> QED
  BY <1>1, <1>4, <1>5, <1>6, StoredObject

\* disconnect() shows it offline, if it was ever known.
LEMMA DisconnectShows ==
  ASSUME Promise!IInv, NEW c \in Cameras, Service!Disconnect(c), Service!Known(c)
  PROVE  \A d \in Cameras :
           /\ PresenceOf(d)' = IF d = c THEN "offline" ELSE PresenceOf(d)
           /\ Service!Received(d)' = Service!Received(d)
           /\ Service!Known(d)' <=> Service!Known(d)
<1> DEFINE r == [states[c] EXCEPT !.connected = FALSE]
<1>1. Promise!TypeOK
  BY DEF Promise!IInv
<1>2. states[c] \in Service!CameraState
  BY <1>1, CameraFacts
<1>3. r \in Service!CameraState /\ ~r.connected /\ r.receivedFrames = Service!Received(c)
  BY <1>2 DEF Service!CameraState, Service!Received
<1>4. states' = [states EXCEPT ![c] = r]
  BY DEF Service!Disconnect
<1> HIDE DEF r
<1> QED
  BY <1>1, <1>3, <1>4, StoredObject

\* A frame of a known camera, dropped or admitted, is counted and shows nothing else.
LEMMA FrameShows ==
  ASSUME Promise!IInv, NEW c \in Cameras, Service!Known(c),
         Service!DropFrame(c) \/ Service!StartFrame(c)
  PROVE  \A d \in Cameras :
           /\ PresenceOf(d)' = PresenceOf(d)
           /\ Service!Received(d)' = IF d = c THEN Service!Received(c) + 1
                                     ELSE Service!Received(d)
           /\ Service!Known(d)' <=> Service!Known(d)
<1>1. Promise!TypeOK
  BY DEF Promise!IInv
<1>2. states[c] \in Service!CameraState /\ Service!Current(c) = states[c]
  BY <1>1, CameraFacts
<1>3. PICK r \in Service!CameraState :
        /\ states' = [states EXCEPT ![c] = r]
        /\ r.connected = states[c].connected
        /\ r.receivedFrames = states[c].receivedFrames + 1
  <2> DEFINE one == [states[c] EXCEPT !.receivedFrames = @ + 1]
             two == [one EXCEPT !.droppedFrames = @ + 1]
  <2>1. /\ one \in Service!CameraState
        /\ one.connected = states[c].connected
        /\ one.receivedFrames = states[c].receivedFrames + 1
    BY <1>2 DEF Service!CameraState
  <2>2. Service!StartFrame(c) => states' = [states EXCEPT ![c] = one]
    BY <1>2 DEF Service!StartFrame, Service!Start
  <2>3. Service!DropFrame(c) => states' = [states EXCEPT ![c] = two]
    <3>1. [states[c] EXCEPT !.receivedFrames = @ + 1, !.droppedFrames = @ + 1] = two
      BY <1>2 DEF Service!CameraState
    <3> QED
      BY <1>2, <3>1 DEF Service!DropFrame
  <2> HIDE DEF one
  <2>4. /\ two \in Service!CameraState
        /\ two.connected = one.connected
        /\ two.receivedFrames = one.receivedFrames
    BY <2>1 DEF Service!CameraState
  <2> QED
    BY <2>1, <2>2, <2>3, <2>4
<1>4. /\ PresenceOf(c) = IF r.connected THEN "online" ELSE "offline"
      /\ r.receivedFrames = Service!Received(c) + 1
  BY <1>3 DEF PresenceOf, Service!Received, Service!Known
<1> QED
  BY <1>1, <1>3, <1>4, StoredObject

\* The end of a vision call shows nothing.
LEMMA EndShows ==
  ASSUME Promise!IInv, NEW k \in calls, Service!Resolve(k) \/ Service!Reject(k)
  PROVE  \A d \in Cameras :
           /\ PresenceOf(d)' = PresenceOf(d)
           /\ Service!Received(d)' = Service!Received(d)
           /\ Service!Known(d)' <=> Service!Known(d)
<1>1. Promise!TypeOK /\ k.camera \in Cameras
  BY DEF Promise!IInv, Promise!TypeOK, Promise!Call
<1>2. CASE states' = states
  BY <1>2, SameMap
<1>3. CASE states' # states
  <2> DEFINE c == k.camera
             r == [states[c] EXCEPT !.lastFrameAt = now]
  <2>1. Service!Known(c) /\ states[c] \in Service!CameraState
    BY <1>1, CameraFacts, SameReadings DEF Promise!IInv, Promise!CallsKnown
  <2>2. now \in Nat
    BY <1>1, GatewayAssumption DEF Promise!TypeOK
  <2>3. /\ r \in Service!CameraState
        /\ r.connected = states[c].connected
        /\ r.receivedFrames = states[c].receivedFrames
    BY <2>1, <2>2 DEF Service!CameraState
  <2>4. states' = [states EXCEPT ![c] = r]
    BY <1>3 DEF Service!Resolve, Service!Reject
  <2> HIDE DEF r
  <2>5. /\ PresenceOf(c) = IF r.connected THEN "online" ELSE "offline"
        /\ r.receivedFrames = Service!Received(c)
    BY <2>1, <2>3 DEF PresenceOf, Service!Received, Service!Known
  <2> HIDE DEF c
  <2>6. c \in Cameras
    BY <1>1 DEF c
  <2> QED
    BY <1>1, <2>1, <2>3, <2>4, <2>5, <2>6, StoredObject
<1> QED
  BY <1>2, <1>3

-----------------------------------------------------------------------------
(* The inductive invariant *)

GatewayTypes ==
  /\ sockets \in [Sockets -> Socket]
  /\ asked \in SUBSET [socket : Sockets, camera : Cameras, frame : Nat]
  /\ told \in [Sockets -> [Cameras -> Presence]]
  /\ shown \in [Sockets -> [Cameras -> Nat]]

\* A camera's socket has an id, and the service knows it: no frame makes a
\* camera appear of which the viewers were told nothing.
SocketsKnown ==
  \A s \in Sockets : IsOpen(s, "camera") =>
    sockets[s].cameraId \in Cameras /\ Service!Known(sockets[s].cameraId)

\* What viewers saw was received, and frames at the vision service are newer.
FramesAhead ==
  /\ \A s \in Sockets, c \in Cameras : shown[s][c] <= Service!Received(c)
  /\ \A k \in calls : /\ k.frame \in Nat /\ k.frame <= Service!Received(k.camera)
                      /\ \A s \in Sockets : shown[s][k.camera] < k.frame

Presented == SocketsKnown /\ OnlineHasSocket /\ ViewersAreCurrent

GInv == Promise!IInv /\ GatewayTypes /\ Presented /\ FramesAhead

\* Viewers see newer frames only: the step of ViewerFrameOrder.
Newer ==
  \A s \in Sockets, c \in Cameras :
    shown'[s][c] # shown[s][c] => shown'[s][c] > shown[s][c]

\* No socket, no camera, no frame.
LEMMA GatewayInitial == Init => GInv
<1> SUFFICES ASSUME Init PROVE GInv
  OBVIOUS
<1>1. Promise!IInv
  BY PromiseHolds, SameReadings, Promise!InitIInv DEF Init
<1>2. GatewayTypes
  BY DEF Init, GatewayTypes, Socket, Presence
<1>3. \A s \in Sockets : ~IsOpen(s, "camera") /\ ~IsOpen(s, "viewer")
  BY DEF Init, IsOpen
<1>4. \A c \in Cameras : ~Service!Known(c) /\ PresenceOf(c) # "online" /\ Service!Received(c) = 0
  BY DEF Init, Service!Init, PresenceOf, Service!Known, Service!Received
<1>5. Presented
  BY <1>3, <1>4 DEF Presented, SocketsKnown, OnlineHasSocket, ViewersAreCurrent
<1>6. FramesAhead
  BY <1>4 DEF FramesAhead, Init, Service!Init
<1> QED
  BY <1>1, <1>2, <1>5, <1>6 DEF GInv

\* Frames stay ahead while no call starts or ends and nothing is shown.
LEMMA FramesStayAhead ==
  ASSUME Promise!TypeOK, FramesAhead, shown' = shown, calls' = calls,
         \A c \in Cameras : Service!Received(c)' = Service!Received(c)
  PROVE  FramesAhead'
<1>1. \A k \in calls : k.camera \in Cameras
  BY DEF Promise!TypeOK, Promise!Call
<1> QED
  BY <1>1 DEF FramesAhead

\* Presence stays true while sockets, presence and what viewers know stay.
LEMMA PresentedStays ==
  ASSUME Presented, GatewayTypes, UNCHANGED <<sockets, told>>,
         \A c \in Cameras : /\ PresenceOf(c)' = PresenceOf(c)
                            /\ Service!Known(c) => Service!Known(c)'
  PROVE  Presented'
<1>1. \A s, role : IsOpen(s, role)' <=> IsOpen(s, role)
  BY DEF IsOpen
<1>2. SocketsKnown'
  BY <1>1 DEF Presented, SocketsKnown
<1>3. OnlineHasSocket'
  BY <1>1 DEF Presented, OnlineHasSocket
<1>4. ViewersAreCurrent'
  BY <1>1 DEF Presented, ViewersAreCurrent
<1> QED
  BY <1>2, <1>3, <1>4 DEF Presented

-----------------------------------------------------------------------------
(* Connections *)

\* What handleConnection's and handleDisconnect's write to sockets means.
LEMMA SocketSet ==
  ASSUME GatewayTypes, NEW s \in Sockets, NEW v \in Socket, sockets' = [sockets EXCEPT ![s] = v]
  PROVE  /\ sockets' \in [Sockets -> Socket]
         /\ \A t \in Sockets : sockets'[t] = IF t = s THEN v ELSE sockets[t]
         /\ \A t \in Sockets : \A role :
              IsOpen(t, role)' <=> IF t = s THEN v.state = "open" /\ v.role = role
                                   ELSE IsOpen(t, role)
<1>1. sockets' \in [Sockets -> Socket]
  BY DEF GatewayTypes
<1>2. \A t \in Sockets : sockets'[t] = IF t = s THEN v ELSE sockets[t]
  BY DEF GatewayTypes
<1> QED
  BY <1>1, <1>2 DEF IsOpen

\* What server.emit does to what viewers know.
LEMMA EmitTells ==
  ASSUME GatewayTypes, NEW c \in Cameras, NEW presence \in Presence, EmitStatus(c, presence)
  PROVE  /\ told' \in [Sockets -> [Cameras -> Presence]]
         /\ \A t \in Sockets, d \in Cameras :
              told'[t][d] = IF IsOpen(t, "viewer")' /\ d = c THEN presence ELSE told[t][d]
<1>1. \A t \in Sockets : told[t] \in [Cameras -> Presence]
  BY DEF GatewayTypes
<1>2. told' = [t \in Sockets |-> IF IsOpen(t, "viewer")'
                                 THEN [told[t] EXCEPT ![c] = presence] ELSE told[t]]
  BY DEF EmitStatus, Emit
<1>3. \A t \in Sockets : told'[t] = IF IsOpen(t, "viewer")'
                                    THEN [told[t] EXCEPT ![c] = presence] ELSE told[t]
  BY <1>2, Zenon
<1>4. \A t \in Sockets : told'[t] \in [Cameras -> Presence]
  BY <1>1, <1>3
<1>5. told' \in [Sockets -> [Cameras -> Presence]]
  BY <1>2, <1>4
<1> QED
  BY <1>1, <1>3, <1>5

\* A camera comes: its socket is the one that shows it online.
LEMMA CameraConnectsStep ==
  ASSUME GInv, NEW s \in Sockets, NEW auth \in Auth, CameraConnects(s, auth)
  PROVE  GInv' /\ shown' = shown
<1> USE DEF GInv
<1> DEFINE c == auth.cameraId
           v == [state |-> "open", role |-> "camera", cameraId |-> c]
<1>1. c \in Cameras
  BY DEF CameraConnects, IsCamera, Auth
<1>2. v \in Socket /\ v.state = "open" /\ v.role = "camera" /\ v.cameraId = c
  BY <1>1 DEF Socket
<1>3. /\ sockets' = [sockets EXCEPT ![s] = v]
      /\ Service!Connect(c) /\ EmitStatus(c, "online")
      /\ UNCHANGED <<asked, shown, calls>> /\ sockets[s].state = "fresh"
  BY DEF CameraConnects, Accepted, Service!Connect
<1> HIDE DEF c, v
<1>4. Promise!IInv' /\ Promise!TypeOK
  BY <1>1, <1>3, ServiceKeeps DEF Promise!IInv
<1>5. \A d \in Cameras :
        /\ PresenceOf(d)' = IF d = c THEN "online" ELSE PresenceOf(d)
        /\ Service!Received(d)' = Service!Received(d)
        /\ Service!Known(d)' <=> d = c \/ Service!Known(d)
  BY <1>1, <1>3, ConnectShows
<1>6. /\ sockets' \in [Sockets -> Socket]
      /\ \A t \in Sockets : sockets'[t] = IF t = s THEN v ELSE sockets[t]
      /\ \A t \in Sockets : \A role :
           IsOpen(t, role)' <=> IF t = s THEN v.state = "open" /\ v.role = role
                                ELSE IsOpen(t, role)
  BY <1>2, <1>3, SocketSet
<1>7. /\ told' \in [Sockets -> [Cameras -> Presence]]
      /\ \A t \in Sockets, d \in Cameras :
           told'[t][d] = IF IsOpen(t, "viewer")' /\ d = c THEN "online" ELSE told[t][d]
  <2>1. "online" \in Presence
    BY DEF Presence
  <2> QED
    BY <1>1, <1>3, <2>1, EmitTells
<1>8. GatewayTypes'
  BY <1>3, <1>6, <1>7 DEF GatewayTypes
<1>9. SocketsKnown'
  BY <1>1, <1>2, <1>5, <1>6 DEF Presented, SocketsKnown
<1>10. OnlineHasSocket'
  <2> SUFFICES ASSUME NEW d \in Cameras, PresenceOf(d)' = "online"
               PROVE  \E t \in Sockets : IsOpen(t, "camera")' /\ sockets'[t].cameraId = d
    BY DEF OnlineHasSocket
  <2>1. CASE d = c
    BY <2>1, <1>2, <1>6
  <2>2. CASE d # c
    <3>1. PICK t \in Sockets : IsOpen(t, "camera") /\ sockets[t].cameraId = d
      BY <2>2, <1>5 DEF Presented, OnlineHasSocket
    <3>2. t # s
      BY <3>1, <1>3 DEF IsOpen
    <3> QED
      BY <3>1, <3>2, <1>6
  <2> QED
    BY <2>1, <2>2
<1>11. ViewersAreCurrent'
  <2> SUFFICES ASSUME NEW t \in Sockets, IsOpen(t, "viewer")', NEW d \in Cameras
               PROVE  told'[t][d] = PresenceOf(d)'
    BY DEF ViewersAreCurrent
  <2>1. IsOpen(t, "viewer")
    BY <1>2, <1>6
  <2>2. told[t][d] = PresenceOf(d)
    BY <2>1 DEF Presented, ViewersAreCurrent
  <2> QED
    BY <2>2, <1>5, <1>7
<1>12. FramesAhead'
  BY <1>3, <1>4, <1>5, FramesStayAhead
<1> QED
  BY <1>3, <1>4, <1>8, <1>9, <1>10, <1>11, <1>12 DEF Presented

\* A camera's socket ends: the camera is shown offline and so told.
LEMMA CameraDisconnectsStep ==
  ASSUME GInv, NEW s \in Sockets, CameraDisconnects(s)
  PROVE  GInv' /\ shown' = shown
<1> USE DEF GInv
<1> DEFINE c == sockets[s].cameraId
           v == [sockets[s] EXCEPT !.state = "closed"]
<1>1. c \in Cameras /\ Service!Known(c)
  BY DEF CameraDisconnects, Presented, SocketsKnown
<1>2. v \in Socket /\ v.state = "closed"
  BY DEF GatewayTypes, Socket
<1>3. /\ sockets' = [sockets EXCEPT ![s] = v]
      /\ Service!Disconnect(c) /\ EmitStatus(c, "offline")
      /\ UNCHANGED <<asked, shown, calls>>
  BY DEF CameraDisconnects, Service!Disconnect
<1>4. \A t \in Sockets : sockets[t].cameraId # c => t # s
  OBVIOUS
<1> HIDE DEF c, v
<1>5. Promise!IInv' /\ Promise!TypeOK
  BY <1>1, <1>3, ServiceKeeps DEF Promise!IInv
<1>6. \A d \in Cameras :
        /\ PresenceOf(d)' = IF d = c THEN "offline" ELSE PresenceOf(d)
        /\ Service!Received(d)' = Service!Received(d)
        /\ Service!Known(d)' <=> Service!Known(d)
  BY <1>1, <1>3, DisconnectShows
<1>7. /\ sockets' \in [Sockets -> Socket]
      /\ \A t \in Sockets : sockets'[t] = IF t = s THEN v ELSE sockets[t]
      /\ \A t \in Sockets : \A role :
           IsOpen(t, role)' <=> IF t = s THEN v.state = "open" /\ v.role = role
                                ELSE IsOpen(t, role)
  BY <1>2, <1>3, SocketSet
<1>8. /\ told' \in [Sockets -> [Cameras -> Presence]]
      /\ \A t \in Sockets, d \in Cameras :
           told'[t][d] = IF IsOpen(t, "viewer")' /\ d = c THEN "offline" ELSE told[t][d]
  <2>1. "offline" \in Presence
    BY DEF Presence
  <2> QED
    BY <1>1, <1>3, <2>1, EmitTells
<1>9. GatewayTypes'
  BY <1>3, <1>7, <1>8 DEF GatewayTypes
<1>10. SocketsKnown'
  BY <1>2, <1>6, <1>7 DEF Presented, SocketsKnown
<1>11. OnlineHasSocket'
  <2> SUFFICES ASSUME NEW d \in Cameras, PresenceOf(d)' = "online"
               PROVE  \E t \in Sockets : IsOpen(t, "camera")' /\ sockets'[t].cameraId = d
    BY DEF OnlineHasSocket
  <2>1. d # c /\ PresenceOf(d) = "online"
    BY <1>6
  <2>2. PICK t \in Sockets : IsOpen(t, "camera") /\ sockets[t].cameraId = d
    BY <2>1 DEF Presented, OnlineHasSocket
  <2> QED
    BY <2>1, <2>2, <1>4, <1>7
<1>12. ViewersAreCurrent'
  <2> SUFFICES ASSUME NEW t \in Sockets, IsOpen(t, "viewer")', NEW d \in Cameras
               PROVE  told'[t][d] = PresenceOf(d)'
    BY DEF ViewersAreCurrent
  <2>1. IsOpen(t, "viewer")
    BY <1>2, <1>7
  <2>2. told[t][d] = PresenceOf(d)
    BY <2>1 DEF Presented, ViewersAreCurrent
  <2> QED
    BY <2>2, <1>6, <1>8
<1>13. FramesAhead'
  BY <1>3, <1>5, <1>6, FramesStayAhead
<1> QED
  BY <1>3, <1>5, <1>9, <1>10, <1>11, <1>12, <1>13 DEF Presented

\* A viewer comes, or a socket that is no camera's goes: the service is not told.
LEMMA ViewerStep ==
  ASSUME GInv, NEW s \in Sockets,
         \/ \E auth \in Auth : ViewerConnects(s, auth) \/ ConnectionRefused(s, auth)
         \/ ViewerDisconnects(s)
  PROVE  GInv' /\ shown' = shown
<1> USE DEF GInv
<1>1. UNCHANGED <<service, asked, shown>> /\ ~IsOpen(s, "camera")
  BY DEF ViewerConnects, ConnectionRefused, ViewerDisconnects, IsOpen
<1>2. PICK v \in Socket :
        /\ sockets' = [sockets EXCEPT ![s] = v]
        /\ ~(v.state = "open" /\ v.role = "camera")
        /\ \/ told' = [told EXCEPT ![s] = [c \in Cameras |-> PresenceOf(c)]]
           \/ told' = told /\ v.state = "closed"
  <2>1. ASSUME NEW auth \in Auth, ViewerConnects(s, auth)
        PROVE  /\ [state |-> "open", role |-> "viewer", cameraId |-> Null] \in Socket
               /\ sockets' = [sockets EXCEPT ![s] =
                    [state |-> "open", role |-> "viewer", cameraId |-> Null]]
               /\ told' = [told EXCEPT ![s] = [c \in Cameras |-> PresenceOf(c)]]
    BY <2>1 DEF ViewerConnects, Accepted, Socket
  <2>2. /\ [sockets[s] EXCEPT !.state = "closed"] \in Socket
        /\ [sockets[s] EXCEPT !.state = "closed"].state = "closed"
    BY DEF GatewayTypes, Socket
  <2>3. ASSUME NEW auth \in Auth, ConnectionRefused(s, auth)
        PROVE  /\ sockets' = [sockets EXCEPT ![s] = [sockets[s] EXCEPT !.state = "closed"]]
               /\ told' = told
    BY <2>3 DEF ConnectionRefused
  <2>4. ASSUME ViewerDisconnects(s)
        PROVE  /\ sockets' = [sockets EXCEPT ![s] = [sockets[s] EXCEPT !.state = "closed"]]
               /\ told' = told
    BY <2>4 DEF ViewerDisconnects
  <2>5. CASE \E auth \in Auth : ViewerConnects(s, auth)
    BY <2>1, <2>5
  <2>6. CASE (\E auth \in Auth : ConnectionRefused(s, auth)) \/ ViewerDisconnects(s)
    <3>1. /\ sockets' = [sockets EXCEPT ![s] = [sockets[s] EXCEPT !.state = "closed"]]
          /\ told' = told
      BY <2>3, <2>4, <2>6
    <3> QED
      BY <2>2, <3>1
  <2> QED
    BY <2>5, <2>6
<1>3. Promise!IInv' /\ Promise!TypeOK
  BY <1>1, ServiceKeeps DEF Promise!IInv
<1>4. states' = states /\ calls' = calls
  BY <1>1 DEF service
<1>5. \A d : /\ PresenceOf(d)' = PresenceOf(d)
             /\ Service!Received(d)' = Service!Received(d)
             /\ Service!Known(d)' <=> Service!Known(d)
  BY <1>4, SameMap
<1>6. /\ sockets' \in [Sockets -> Socket]
      /\ \A t \in Sockets : sockets'[t] = IF t = s THEN v ELSE sockets[t]
      /\ \A t \in Sockets : \A role :
           IsOpen(t, role)' <=> IF t = s THEN v.state = "open" /\ v.role = role
                                ELSE IsOpen(t, role)
  BY <1>2, SocketSet
<1>7. \A d \in Cameras : PresenceOf(d) \in Presence
  BY DEF PresenceOf, Presence
<1>8. GatewayTypes'
  BY <1>1, <1>2, <1>6, <1>7 DEF GatewayTypes
<1>9. SocketsKnown'
  BY <1>2, <1>5, <1>6 DEF Presented, SocketsKnown
<1>10. OnlineHasSocket'
  <2> SUFFICES ASSUME NEW d \in Cameras, PresenceOf(d) = "online"
               PROVE  \E t \in Sockets : IsOpen(t, "camera")' /\ sockets'[t].cameraId = d
    BY <1>5 DEF OnlineHasSocket
  <2>1. PICK t \in Sockets : IsOpen(t, "camera") /\ sockets[t].cameraId = d
    BY DEF Presented, OnlineHasSocket
  <2> QED
    BY <2>1, <1>1, <1>6
<1>11. ViewersAreCurrent'
  <2> SUFFICES ASSUME NEW t \in Sockets, IsOpen(t, "viewer")', NEW d \in Cameras
               PROVE  told'[t][d] = PresenceOf(d)
    BY <1>5 DEF ViewersAreCurrent
  <2>1. CASE t = s
    BY <2>1, <1>2, <1>6 DEF GatewayTypes
  <2>2. CASE t # s
    BY <2>2, <1>2, <1>6 DEF GatewayTypes, Presented, ViewersAreCurrent
  <2> QED
    BY <2>1, <2>2
<1>12. FramesAhead'
  BY <1>1, <1>3, <1>4, <1>5, FramesStayAhead
<1> QED
  BY <1>1, <1>3, <1>8, <1>9, <1>10, <1>11, <1>12 DEF Presented

-----------------------------------------------------------------------------
(* Frames *)

\* A dropped frame is counted, and nobody but its camera hears of it.
LEMMA FrameDroppedStep ==
  ASSUME GInv, NEW s \in Sockets, FrameDropped(s)
  PROVE  GInv' /\ shown' = shown
<1> USE DEF GInv
<1> DEFINE c == sockets[s].cameraId
<1>1. c \in Cameras /\ Service!Known(c)
  BY DEF FrameDropped, Presented, SocketsKnown
<1>2. /\ Service!DropFrame(c)
      /\ UNCHANGED <<sockets, asked, told, shown, calls>>
  BY DEF FrameDropped, Service!DropFrame
<1> HIDE DEF c
<1>3. Promise!IInv' /\ Promise!TypeOK
  BY <1>1, <1>2, ServiceKeeps DEF Promise!IInv
<1>4. \A d \in Cameras :
        /\ PresenceOf(d)' = PresenceOf(d)
        /\ Service!Received(d)' = IF d = c THEN Service!Received(c) + 1
                                  ELSE Service!Received(d)
        /\ Service!Known(d)' <=> Service!Known(d)
  BY <1>1, <1>2, FrameShows
<1>5. \A d \in Cameras : Service!Received(d) \in Nat
  BY <1>3, CameraFacts
<1>6. GatewayTypes' /\ Presented'
  BY <1>2, <1>4, PresentedStays DEF GatewayTypes
<1>7. FramesAhead'
  <2>1. \A k \in calls : k.camera \in Cameras
    BY <1>3 DEF Promise!TypeOK, Promise!Call
  <2>2. \A d \in Cameras, n \in Nat : n <= Service!Received(d) => n <= Service!Received(d)'
    BY <1>4, <1>5
  <2> QED
    BY <1>2, <2>1, <2>2 DEF FramesAhead, GatewayTypes
<1> QED
  BY <1>2, <1>3, <1>6, <1>7

\* An admitted frame is newer than all that was received before.
LEMMA FrameStartedStep ==
  ASSUME GInv, NEW s \in Sockets, FrameStarted(s)
  PROVE  GInv' /\ shown' = shown
<1> USE DEF GInv
<1> DEFINE c == sockets[s].cameraId
           n == Service!Received(c) + 1
           k == [camera |-> c, object |-> Service!Current(c).object, frame |-> n]
           a == [socket |-> s, camera |-> c, frame |-> n]
<1>1. c \in Cameras /\ Service!Known(c)
  BY DEF FrameStarted, Presented, SocketsKnown
<1>2. /\ Service!StartFrame(c)
      /\ calls' = calls \cup {k} /\ asked' = asked \cup {a}
      /\ UNCHANGED <<sockets, told, shown>>
  BY DEF FrameStarted, Service!StartFrame, Service!Start
<1>3. k.camera = c /\ k.frame = n
  OBVIOUS
<1>4. Promise!IInv' /\ Promise!TypeOK
  BY <1>1, <1>2, ServiceKeeps DEF Promise!IInv
<1>5. \A d \in Cameras : Service!Received(d) \in Nat
  BY <1>4, CameraFacts
<1>6. a \in [socket : Sockets, camera : Cameras, frame : Nat] /\ n \in Nat
  BY <1>1, <1>5
<1>7. \A d \in Cameras :
        /\ PresenceOf(d)' = PresenceOf(d)
        /\ Service!Received(d)' = IF d = c THEN n ELSE Service!Received(d)
        /\ Service!Known(d)' <=> Service!Known(d)
  BY <1>1, <1>2, FrameShows
<1>8. n = Service!Received(c) + 1
  OBVIOUS
<1> HIDE DEF c, n, k, a
<1>9. GatewayTypes' /\ Presented'
  BY <1>2, <1>6, <1>7, PresentedStays DEF GatewayTypes
<1>10. FramesAhead'
  <2>1. \A j \in calls : j.camera \in Cameras
    BY <1>4 DEF Promise!TypeOK, Promise!Call
  <2>2. \A d \in Cameras, m \in Nat : m <= Service!Received(d) => m <= Service!Received(d)'
    BY <1>5, <1>7, <1>8
  <2>3. \A t \in Sockets, d \in Cameras : shown[t][d] \in Nat
    BY DEF GatewayTypes
  <2>4. \A t \in Sockets, d \in Cameras : shown[t][d] <= Service!Received(d)'
    BY <2>2, <2>3 DEF FramesAhead
  <2>5. \A j \in calls : /\ j.frame \in Nat /\ j.frame <= Service!Received(j.camera)'
                         /\ \A t \in Sockets : shown[t][j.camera] < j.frame
    BY <2>1, <2>2 DEF FramesAhead
  <2>6. PICK e : e = k
    OBVIOUS
  <2>7. /\ e.frame \in Nat /\ e.frame <= Service!Received(e.camera)'
        /\ \A t \in Sockets : shown[t][e.camera] < e.frame
    <3>1. \A t \in Sockets : shown[t][c] <= Service!Received(c)
      BY <1>1 DEF FramesAhead
    <3>2. \A t \in Sockets : shown[t][c] < n
      BY <1>1, <1>5, <1>8, <2>3, <3>1
    <3>3. e.camera \in Cameras /\ e.camera = c /\ e.frame = n
      BY <1>1, <1>3, <2>6
    <3>4. Service!Received(e.camera)' = n
      BY <1>7, <3>3
    <3> QED
      BY <1>6, <3>2, <3>3, <3>4
  <2> QED
    BY <1>2, <2>4, <2>5, <2>6, <2>7 DEF FramesAhead
<1> QED
  BY <1>2, <1>4, <1>9, <1>10

\* A settled call answers its frame; a result that is shown is the newest.
LEMMA FrameSettlesStep ==
  ASSUME GInv, NEW k \in calls, FrameProcessed(k) \/ FrameFailed(k)
  PROVE  GInv' /\ Newer
<1> USE DEF GInv
<1> DEFINE c == k.camera
<1>1. /\ Service!Resolve(k) \/ Service!Reject(k)
      /\ asked' \in SUBSET asked /\ UNCHANGED <<sockets, told>>
      /\ calls' = calls \ {k}
  BY DEF FrameProcessed, FrameFailed, Answered, Service!Resolve, Service!Reject
<1>2. Promise!IInv' /\ Promise!TypeOK
  BY <1>1, ServiceKeeps DEF Promise!IInv
<1>3. c \in Cameras /\ k.frame \in Nat
  BY <1>2 DEF Promise!TypeOK, Promise!Call
<1>4. \A d \in Cameras :
        /\ PresenceOf(d)' = PresenceOf(d)
        /\ Service!Received(d)' = Service!Received(d)
        /\ Service!Known(d)' <=> Service!Known(d)
  BY <1>1, EndShows
<1>5. \A j \in calls : j.camera = c => j = k
  BY DEF Promise!IInv, Promise!OneInFlight
<1>6. \A t \in Sockets : shown[t] \in [Cameras -> Nat]
  BY DEF GatewayTypes
<1>7. /\ shown' \in [Sockets -> [Cameras -> Nat]]
      /\ \A t \in Sockets, d \in Cameras :
           \/ shown'[t][d] = shown[t][d]
           \/ d = c /\ shown'[t][d] = k.frame
  <2>1. CASE FrameFailed(k)
    BY <2>1 DEF FrameFailed, GatewayTypes
  <2>2. CASE FrameProcessed(k)
    <3>1. shown' = [t \in Sockets |-> IF IsOpen(t, "viewer")'
                                      THEN [shown[t] EXCEPT ![c] = k.frame] ELSE shown[t]]
      BY <2>2 DEF FrameProcessed, Emit
    <3>2. \A t \in Sockets : \/ shown'[t] = shown[t]
                             \/ shown'[t] = [shown[t] EXCEPT ![c] = k.frame]
      BY <3>1
    <3>3. \A t \in Sockets : shown'[t] \in [Cameras -> Nat]
      <4>1. \A f \in [Cameras -> Nat] : [f EXCEPT ![c] = k.frame] \in [Cameras -> Nat]
        BY <1>3
      <4> SUFFICES ASSUME NEW t \in Sockets PROVE shown'[t] \in [Cameras -> Nat]
        OBVIOUS
      <4>2. shown[t] \in [Cameras -> Nat]
        BY <1>6
      <4>3. [shown[t] EXCEPT ![c] = k.frame] \in [Cameras -> Nat]
        BY <4>1, <4>2
      <4> QED
        BY <3>2, <4>2, <4>3, Zenon
    <3>4. shown' \in [Sockets -> [Cameras -> Nat]]
      BY <3>1, <3>3
    <3> QED
      BY <1>6, <3>2, <3>4
  <2> QED
    BY <2>1, <2>2
<1>8. /\ k.frame <= Service!Received(c)
      /\ \A t \in Sockets : shown[t][c] < k.frame
  BY DEF FramesAhead
<1> HIDE DEF c
<1>9. GatewayTypes' /\ Presented'
  BY <1>1, <1>4, <1>7, PresentedStays DEF GatewayTypes
<1>10. FramesAhead'
  <2>1. \A t \in Sockets, d \in Cameras : shown'[t][d] <= Service!Received(d)
    BY <1>7, <1>8 DEF FramesAhead
  <2>2. \A j \in calls' : j \in calls /\ j.camera \in Cameras /\ j.camera # c
    BY <1>1, <1>2, <1>5 DEF Promise!TypeOK, Promise!Call
  <2>3. \A j \in calls' : /\ j.frame \in Nat /\ j.frame <= Service!Received(j.camera)
                          /\ \A t \in Sockets : shown'[t][j.camera] < j.frame
    BY <1>7, <2>2 DEF FramesAhead
  <2> QED
    BY <1>4, <2>1, <2>2, <2>3 DEF FramesAhead
<1>11. Newer
  BY <1>3, <1>6, <1>7, <1>8 DEF Newer
<1> QED
  BY <1>2, <1>9, <1>10, <1>11

\* Time, and steps of somebody else.
LEMMA ElsewhereStep ==
  ASSUME GInv,
         \/ Service!ClockMoves /\ UNCHANGED <<sockets, asked, told, shown>>
         \/ UNCHANGED vars
  PROVE  GInv' /\ shown' = shown
<1> USE DEF GInv
<1>1. /\ Service!ClockMoves \/ UNCHANGED service
      /\ UNCHANGED <<sockets, asked, told, shown, states, calls>>
  BY DEF Service!ClockMoves, vars, service
<1>2. Promise!IInv' /\ Promise!TypeOK
  BY <1>1, ServiceKeeps DEF Promise!IInv
<1>3. \A d : /\ PresenceOf(d)' = PresenceOf(d)
             /\ Service!Received(d)' = Service!Received(d)
             /\ Service!Known(d)' <=> Service!Known(d)
  BY <1>1, SameMap
<1>4. GatewayTypes' /\ Presented'
  BY <1>1, <1>3, PresentedStays DEF GatewayTypes
<1>5. FramesAhead'
  BY <1>1, <1>2, <1>3, FramesStayAhead
<1> QED
  BY <1>1, <1>2, <1>4, <1>5

\* Every step keeps the inductive invariant and shows viewers newer frames only.
LEMMA GatewayStep ==
  ASSUME GInv, [Next]_vars
  PROVE  GInv' /\ Newer
<1>1. shown' = shown => Newer
  BY DEF Newer
<1>2. ASSUME NEW s \in Sockets, NEW auth \in Auth, CameraConnects(s, auth) PROVE GInv' /\ Newer
  BY <1>1, <1>2, CameraConnectsStep
<1>3. ASSUME NEW s \in Sockets, NEW auth \in Auth,
             ViewerConnects(s, auth) \/ ConnectionRefused(s, auth)
      PROVE  GInv' /\ Newer
  BY <1>1, <1>3, ViewerStep
<1>4. ASSUME NEW s \in Sockets, ViewerDisconnects(s) PROVE GInv' /\ Newer
  BY <1>1, <1>4, ViewerStep
<1>5. ASSUME NEW s \in Sockets, CameraDisconnects(s) PROVE GInv' /\ Newer
  BY <1>1, <1>5, CameraDisconnectsStep
<1>6. ASSUME NEW s \in Sockets, FrameDropped(s) PROVE GInv' /\ Newer
  BY <1>1, <1>6, FrameDroppedStep
<1>7. ASSUME NEW s \in Sockets, FrameStarted(s) PROVE GInv' /\ Newer
  BY <1>1, <1>7, FrameStartedStep
<1>8. ASSUME NEW c \in Cameras, FrameSettles(c) PROVE GInv' /\ Newer
  BY <1>8, FrameSettlesStep DEF FrameSettles
<1>9. CASE (Service!ClockMoves /\ UNCHANGED <<sockets, asked, told, shown>>) \/ UNCHANGED vars
  BY <1>1, <1>9, ElsewhereStep
<1> QED
  BY <1>2, <1>3, <1>4, <1>5, <1>6, <1>7, <1>8, <1>9 DEF Next

\* The inductive invariant holds in every reachable state.
LEMMA GatewayInvariance == Spec => []GInv
<1>1. GInv /\ [Next]_vars => GInv'
  BY GatewayStep
<1> QED
  BY GatewayInitial, <1>1, PTL DEF Spec

-----------------------------------------------------------------------------
\* Every variable of gateway and service keeps its type.
THEOREM TypeCorrect == Spec => []TypeOK
<1>1. GInv => TypeOK
  BY SameReadings DEF GInv, GatewayTypes, TypeOK, Promise!IInv
<1> QED
  BY <1>1, GatewayInvariance, PTL

\* A camera shown as connected has an open authenticated socket, however many
\* sockets came and went under its id.
THEOREM NoPhantomCameras == Spec => []OnlineHasSocket
<1>1. GInv => OnlineHasSocket
  BY DEF GInv, Presented
<1> QED
  BY <1>1, GatewayInvariance, PTL

\* The list and the events a viewer was sent add up to the present state.
THEOREM ViewersKnow == Spec => []ViewersAreCurrent
<1>1. GInv => ViewersAreCurrent
  BY DEF GInv, Presented
<1> QED
  BY <1>1, GatewayInvariance, PTL

\* Viewers see the frames of a camera in the order they were received, from
\* however many sockets of that camera they come.
THEOREM FramesInOrder == Spec => ViewerFrameOrder
<1>1. GInv /\ [Next]_vars => [Newer]_vars
  BY GatewayStep
<1> QED
  BY <1>1, GatewayInvariance, PTL DEF Spec, ViewerFrameOrder, Newer

-----------------------------------------------------------------------------
(* Events and vision calls *)

\* Every camera:frame event whose handler has not returned waits for a vision
\* call on that very frame, every vision call has an event that it will answer,
\* and no camera has two unanswered events, from however many sockets.
OneAnswerPending ==
  /\ \A r \in asked : \E k \in calls : k.camera = r.camera /\ k.frame = r.frame
  /\ \A k \in calls : \E r \in asked : r.camera = k.camera /\ r.frame = k.frame
  /\ \A q, r \in asked : q.camera = r.camera => q = r

\* An admitted frame is the only one of its camera, so its event is too.
LEMMA StartedIsPending ==
  ASSUME GInv, OneAnswerPending, NEW s \in Sockets, FrameStarted(s)
  PROVE  OneAnswerPending'
<1> DEFINE c == sockets[s].cameraId
           n == Service!Received(c) + 1
           k == [camera |-> c, object |-> Service!Current(c).object, frame |-> n]
           a == [socket |-> s, camera |-> c, frame |-> n]
<1>1. /\ calls' = calls \cup {k} /\ asked' = asked \cup {a}
      /\ c \notin processing
  BY DEF FrameStarted, Service!StartFrame, Service!Start
<1>2. /\ k.camera = c /\ k.frame = n
      /\ a.camera = c /\ a.frame = n
  OBVIOUS
<1> HIDE DEF c, n, k, a
<1>3. \A j \in calls : j.camera # c
  BY <1>1 DEF GInv, Promise!IInv, Promise!OneInFlight
<1>4. \A r \in asked : r.camera # c
  BY <1>3 DEF OneAnswerPending
<1> QED
  BY <1>1, <1>2, <1>4 DEF OneAnswerPending

\* A settled call takes its event with it and no other.
LEMMA SettledIsAnswered ==
  ASSUME GInv, OneAnswerPending, NEW k \in calls, FrameProcessed(k) \/ FrameFailed(k)
  PROVE  OneAnswerPending'
<1>1. /\ calls' = calls \ {k}
      /\ asked' = {r \in asked : r.camera # k.camera \/ r.frame # k.frame}
  BY DEF FrameProcessed, FrameFailed, Answered, Service!Resolve, Service!Reject
<1>2. \A j \in calls : j.camera = k.camera => j = k
  BY DEF GInv, Promise!IInv, Promise!OneInFlight
<1> QED
  BY <1>1, <1>2 DEF OneAnswerPending

\* Every step keeps events and vision calls in pairs.
LEMMA PendingStep ==
  ASSUME GInv, OneAnswerPending, [Next]_vars
  PROVE  OneAnswerPending'
<1>1. UNCHANGED <<asked, calls>> => OneAnswerPending'
  BY DEF OneAnswerPending
<1>2. ASSUME NEW s \in Sockets, NEW auth \in Auth,
             CameraConnects(s, auth) \/ ViewerConnects(s, auth) \/ ConnectionRefused(s, auth)
      PROVE  OneAnswerPending'
  BY <1>1, <1>2 DEF CameraConnects, ViewerConnects, ConnectionRefused, service, Service!Connect
<1>3. ASSUME NEW s \in Sockets,
             CameraDisconnects(s) \/ ViewerDisconnects(s) \/ FrameDropped(s)
      PROVE  OneAnswerPending'
  BY <1>1, <1>3 DEF CameraDisconnects, ViewerDisconnects, FrameDropped, service,
     Service!Disconnect, Service!DropFrame
<1>4. ASSUME NEW s \in Sockets, FrameStarted(s) PROVE OneAnswerPending'
  BY <1>4, StartedIsPending
<1>5. ASSUME NEW c \in Cameras, FrameSettles(c) PROVE OneAnswerPending'
  BY <1>5, SettledIsAnswered DEF FrameSettles
<1>6. CASE (Service!ClockMoves /\ UNCHANGED <<sockets, asked, told, shown>>) \/ UNCHANGED vars
  BY <1>1, <1>6 DEF vars, Service!ClockMoves
<1> QED
  BY <1>2, <1>3, <1>4, <1>5, <1>6 DEF Next

\* Every step of the gateway is a step of the service or none.
LEMMA ServiceMoves ==
  ASSUME GInv, [Next]_vars
  PROVE  [Service!Next]_(Service!vars)
<1>1. ASSUME NEW s \in Sockets, NEW auth \in Auth, CameraConnects(s, auth)
      PROVE  Service!Next
  <2>1. auth.cameraId \in Cameras
    BY <1>1 DEF CameraConnects, IsCamera, Auth
  <2> QED
    BY <1>1, <2>1 DEF CameraConnects, Service!Next
<1>2. ASSUME NEW s \in Sockets, NEW auth \in Auth,
             ViewerConnects(s, auth) \/ ConnectionRefused(s, auth)
      PROVE  UNCHANGED Service!vars
  BY <1>2 DEF ViewerConnects, ConnectionRefused, service, Service!vars
<1>3. ASSUME NEW s \in Sockets, ViewerDisconnects(s)
      PROVE  UNCHANGED Service!vars
  BY <1>3 DEF ViewerDisconnects, service, Service!vars
<1>4. ASSUME NEW s \in Sockets,
             CameraDisconnects(s) \/ FrameDropped(s) \/ FrameStarted(s)
      PROVE  Service!Next
  <2>1. sockets[s].cameraId \in Cameras
    BY <1>4 DEF CameraDisconnects, FrameDropped, FrameStarted, GInv, Presented, SocketsKnown
  <2> QED
    BY <1>4, <2>1 DEF CameraDisconnects, FrameDropped, FrameStarted, Service!Next,
       Service!AcceptFrame
<1>5. ASSUME NEW c \in Cameras, FrameSettles(c) PROVE Service!Next
  BY <1>5 DEF FrameSettles, FrameProcessed, FrameFailed, Service!Next, Service!Settle
<1>6. CASE Service!ClockMoves
  BY <1>6 DEF Service!Next
<1>7. CASE UNCHANGED vars
  BY <1>7 DEF vars, Service!vars
<1> QED
  BY <1>1, <1>2, <1>3, <1>4, <1>5, <1>6, <1>7 DEF Next

\* The safety half of EveryFrameAnswered: as long as an event is unanswered the
\* vision call that will answer it is pending, and it is the only one.
THEOREM AnswersPending == Spec => []OneAnswerPending
<1>1. Init => OneAnswerPending
  BY DEF Init, Service!Init, OneAnswerPending
<1>2. GInv /\ OneAnswerPending /\ [Next]_vars => OneAnswerPending'
  BY PendingStep
<1> QED
  BY <1>1, <1>2, GatewayInvariance, PTL DEF Spec

\* The gateway drives its CameraService only by that service's own handlers.
THEOREM ServiceInside == Spec => Service!Spec
<1>1. Init => Service!Init
  BY DEF Init
<1>2. GInv /\ [Next]_vars => [Service!Next]_(Service!vars)
  BY ServiceMoves
<1> QED
  BY <1>1, <1>2, GatewayInvariance, PTL DEF Spec, Service!Spec

\* Every step of the gateway keeps the service's admissions an interval apart.
LEMMA GatewayAdmissions ==
  ASSUME GInv, [Next]_vars
  PROVE  \A c \in Cameras : Service!Apart(c)
<1>1. [Promise!Next]_(Promise!vars)
  <2>1. CASE Service!Next
    BY <2>1, ServiceIsPromised DEF GInv, Service!Next, Service!AcceptFrame, Service!Settle
  <2>2. CASE UNCHANGED Service!vars
    BY <2>2 DEF Service!vars, Promise!vars
  <2> QED
    BY <2>1, <2>2, ServiceMoves
<1>2. \A c \in Cameras : Promise!Apart(c)
  BY <1>1, PromiseHolds, Promise!ApartStep DEF GInv
<1>3. \A c : /\ Service!Admitted(c) = Promise!Admitted(c)
             /\ Service!Admitted(c)' = Promise!Admitted(c)'
  BY DEF Service!Admitted, Promise!Admitted, Service!Received, Promise!Received,
     Service!Dropped, Promise!Dropped, Service!Known, Promise!Known
<1> QED
  BY <1>2, <1>3 DEF Promise!Apart, Service!Apart

\* Behind any number of sockets, several under one id included, the service
\* keeps one call per camera in flight and its admissions an interval apart.
THEOREM ServiceProtected == Spec => []Service!OneInFlight /\ Service!AdmissionsApart
<1>1. GInv => Service!OneInFlight
  BY DEF GInv, Promise!IInv, Promise!OneInFlight, Service!OneInFlight
<1>2. GInv /\ [Next]_vars
        => [\A c \in Cameras : Service!Apart(c)]_(Service!vars)
  BY GatewayAdmissions
<1> QED
  BY <1>1, <1>2, GatewayInvariance, PTL DEF Spec, Service!AdmissionsApart
=============================================================================
