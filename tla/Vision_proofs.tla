---------------------------- MODULE Vision_proofs ----------------------------
(***************************************************************************)
(* TLAPS proofs about CameraService and, on top of them, about Vision, for *)
(* any set of cameras, any FPS cap and any clock.                          *)
(*                                                                         *)
(* The first part is about the service alone and mentions nothing behind   *)
(* it; CameraGateway_proofs builds on that part.  The second part: the     *)
(* server with the vision service behind it is still a CameraService, and  *)
(* what a motion result looks back to, however requests are delayed,       *)
(* reordered and lost.                                                     *)
(***************************************************************************)
EXTENDS Vision, TLAPS

USE ServiceAssumption, UndefinedAssumption

-----------------------------------------------------------------------------
(* Part one: CameraService *)

\* The counts as the abstract gate sees them.
busy == {k.camera : k \in calls}
received == [c \in Cameras |-> Received(c)]
refused == [c \in Cameras |-> Dropped(c)]
finished == [c \in Cameras |-> ended[c].ok + ended[c].failed]

-----------------------------------------------------------------------------
(* The objects in the Map *)

\* What the Map holds for a camera, and the counts read from it.
LEMMA RecordTypes ==
  ASSUME TypeOK, NEW c \in Cameras
  PROVE  /\ Received(c) \in Nat
         /\ Dropped(c) \in Nat
         /\ Known(c) => states[c] \in CameraState
  BY DEF TypeOK, Received, Dropped, Known, CameraState

\* connect() stores a well-formed object.
LEMMA ConnectedType ==
  ASSUME TypeOK, NEW c \in Cameras, MayConnect(c)
  PROVE  Connected(c) \in CameraState
<1>1. Known(c) => states[c] \in CameraState
  BY RecordTypes
<1>2. Received(c) \in Nat /\ Dropped(c) \in Nat
  BY RecordTypes
<1>3. (IF Known(c) THEN states[c].object + 1 ELSE 0) \in 0 .. MaxConnects
  BY <1>1 DEF MayConnect, CameraState
<1>4. (IF Known(c) THEN states[c].lastFrameAt ELSE Null) \in Nat \cup {Null}
  BY <1>1 DEF CameraState
<1> QED
  BY <1>2, <1>3, <1>4 DEF Connected, CameraState

\* acceptFrame counts on a well-formed object, new or not.
LEMMA CurrentType ==
  ASSUME TypeOK, NEW c \in Cameras
  PROVE  /\ Current(c) \in CameraState
         /\ Current(c).receivedFrames = Received(c)
         /\ Current(c).droppedFrames = Dropped(c)
<1>1. CASE Known(c)
  BY <1>1, RecordTypes DEF Current, Received, Dropped
<1>2. CASE ~Known(c)
  <2>1. Connected(c) \in CameraState
    BY <1>2, ConnectedType DEF MayConnect
  <2> QED
    BY <1>2, <2>1 DEF Current, Connected
<1> QED
  BY <1>1, <1>2

\* Counting a dropped frame on an object.
LEMMA CountBoth ==
  ASSUME NEW s \in CameraState
  PROVE  /\ [s EXCEPT !.receivedFrames = @ + 1, !.droppedFrames = @ + 1] \in CameraState
         /\ [s EXCEPT !.receivedFrames = @ + 1, !.droppedFrames = @ + 1].receivedFrames
              = s.receivedFrames + 1
         /\ [s EXCEPT !.receivedFrames = @ + 1, !.droppedFrames = @ + 1].droppedFrames
              = s.droppedFrames + 1
<1> DEFINE once == [s EXCEPT !.receivedFrames = @ + 1]
           twice == [once EXCEPT !.droppedFrames = @ + 1]
<1>1. once \in CameraState /\ once.droppedFrames = s.droppedFrames
                          /\ once.receivedFrames = s.receivedFrames + 1
  BY DEF CameraState
<1>2. [s EXCEPT !.receivedFrames = @ + 1, !.droppedFrames = @ + 1] = twice
  BY DEF CameraState
<1> HIDE DEF once
<1>3. /\ twice \in CameraState
      /\ twice.receivedFrames = once.receivedFrames
      /\ twice.droppedFrames = once.droppedFrames + 1
  BY <1>1 DEF CameraState
<1> QED
  BY <1>1, <1>2, <1>3

\* Counting a processed frame in the history of its camera.
LEMMA CountProcessed ==
  ASSUME NEW o \in Outcomes, NEW t \in Nat
  PROVE  /\ [o EXCEPT !.ok = @ + 1, !.at = t] \in Outcomes
         /\ [o EXCEPT !.ok = @ + 1, !.at = t].ok + [o EXCEPT !.ok = @ + 1, !.at = t].failed
              = o.ok + o.failed + 1
<1> DEFINE once == [o EXCEPT !.ok = @ + 1]
           twice == [once EXCEPT !.at = t]
<1>1. once \in Outcomes /\ once.ok = o.ok + 1 /\ once.failed = o.failed
  BY DEF Outcomes
<1>2. [o EXCEPT !.ok = @ + 1, !.at = t] = twice
  BY DEF Outcomes
<1> HIDE DEF once
<1>3. twice \in Outcomes /\ twice.ok = once.ok /\ twice.failed = once.failed
  BY <1>1 DEF Outcomes
<1>4. o.ok \in Nat /\ o.failed \in Nat
  BY DEF Outcomes
<1> QED
  BY <1>1, <1>2, <1>3, <1>4

\* Storing an object changes the statistics of its camera only.
LEMMA StoreObject ==
  ASSUME TypeOK, NEW c \in Cameras, NEW r \in CameraState,
         states' = [states EXCEPT ![c] = r]
  PROVE  /\ states' \in [Cameras -> CameraState \cup {Undefined}]
         /\ received' = [received EXCEPT ![c] = r.receivedFrames]
         /\ refused' = [refused EXCEPT ![c] = r.droppedFrames]
         /\ \A d \in Cameras : Known(d) => Known(d)'
         /\ Known(c)'
<1>1. states' \in [Cameras -> CameraState \cup {Undefined}]
  BY DEF TypeOK
<1>2. \A d \in Cameras : states'[d] = IF d = c THEN r ELSE states[d]
  BY DEF TypeOK
<1>3. r # Undefined
  OBVIOUS
<1>4. received' = [received EXCEPT ![c] = r.receivedFrames]
  <2>1. \A d \in Cameras : Received(d)' = IF d = c THEN r.receivedFrames ELSE Received(d)
    BY <1>2, <1>3 DEF Received, Known
  <2> QED
    BY <2>1 DEF received
<1>5. refused' = [refused EXCEPT ![c] = r.droppedFrames]
  <2>1. \A d \in Cameras : Dropped(d)' = IF d = c THEN r.droppedFrames ELSE Dropped(d)
    BY <1>2, <1>3 DEF Dropped, Known
  <2> QED
    BY <2>1 DEF refused
<1>6. Known(c)' /\ \A d \in Cameras : Known(d) => Known(d)'
  BY <1>2, <1>3 DEF Known
<1> QED
  BY <1>1, <1>4, <1>5, <1>6

\* A handler that leaves the Map alone leaves the statistics alone.
LEMMA SameObjects ==
  ASSUME states' = states
  PROVE  /\ received' = received
         /\ refused' = refused
         /\ \A d \in Cameras : Known(d) => Known(d)'
  BY DEF received, Received, refused, Dropped, Known

\* connect(), disconnect() and the write of lastFrameAt keep both counts.
LEMMA SameCounts ==
  ASSUME TypeOK, NEW c \in Cameras, NEW r \in CameraState,
         states' = [states EXCEPT ![c] = r],
         r.receivedFrames = Received(c), r.droppedFrames = Dropped(c)
  PROVE  received' = received /\ refused' = refused
<1>1. /\ received' = [received EXCEPT ![c] = Received(c)]
      /\ refused' = [refused EXCEPT ![c] = Dropped(c)]
  BY StoreObject
<1> QED
  BY <1>1 DEF received, refused

-----------------------------------------------------------------------------
(* The inductive invariant *)

\* A pending call is for a camera the Map knows: the object it will write to
\* can be compared with the current one.
CallsKnown == \A k \in calls : Known(k.camera)

Conserved ==
  \A c \in Cameras :
    received[c] = refused[c] + finished[c] + (IF c \in processing THEN 1 ELSE 0)

IInv == TypeOK /\ CallsKnown /\ OneInFlight /\ Conserved

\* The initial state satisfies the inductive invariant.
LEMMA InitIInv == Init => IInv
<1> SUFFICES ASSUME Init PROVE IInv
  OBVIOUS
<1>1. TypeOK
  <2>1. ended \in [Cameras -> Outcomes]
    BY DEF Init, Outcomes
  <2>2. /\ states \in [Cameras -> CameraState \cup {Undefined}]
        /\ lastAcceptedAt \in [Cameras -> Nat]
    BY DEF Init
  <2>3. processing \in SUBSET Cameras /\ calls \in SUBSET Call /\ now \in StartTime .. MaxNow
    BY DEF Init
  <2> QED
    BY <2>1, <2>2, <2>3 DEF TypeOK
<1>2. CallsKnown /\ OneInFlight
  BY DEF Init, CallsKnown, OneInFlight
<1>3. \A c \in Cameras : Received(c) = 0 /\ Dropped(c) = 0
  BY DEF Init, Received, Dropped, Known
<1>4. Conserved
  BY <1>3 DEF Init, Conserved, received, refused, finished
<1> QED
  BY <1>1, <1>2, <1>4 DEF IInv

-----------------------------------------------------------------------------
(* What each operation does to the counts *)

\* Steps that leave the counts, the calls and the admission times alone.
LEMMA QuietStep ==
  ASSUME IInv, TypeOK',
         received' = received, refused' = refused,
         \A d \in Cameras : Known(d) => Known(d)',
         UNCHANGED <<processing, lastAcceptedAt, calls, ended>>
  PROVE  IInv'
<1> USE DEF IInv
<1>1. CallsKnown'
  BY DEF CallsKnown, TypeOK, Call
<1>2. OneInFlight'
  BY DEF OneInFlight
<1>3. Conserved'
  BY DEF Conserved, finished
<1> QED
  BY <1>1, <1>2, <1>3

\* connect() replaces the object and keeps the invariant.
LEMMA ConnectStep ==
  ASSUME TypeOK, NEW c \in Cameras, Connect(c)
  PROVE  /\ TypeOK'
         /\ received' = received /\ refused' = refused
         /\ \A d \in Cameras : Known(d) => Known(d)'
<1>1. Connected(c) \in CameraState /\ states' = [states EXCEPT ![c] = Connected(c)]
  BY ConnectedType DEF Connect
<1>2. Connected(c).receivedFrames = Received(c) /\ Connected(c).droppedFrames = Dropped(c)
  BY DEF Connected
<1>3. TypeOK'
  BY <1>1, StoreObject DEF Connect, TypeOK
<1> QED
  BY <1>1, <1>2, <1>3, StoreObject, SameCounts

\* disconnect() keeps it, known camera or not.
LEMMA DisconnectStep ==
  ASSUME TypeOK, NEW c \in Cameras, Disconnect(c)
  PROVE  /\ TypeOK'
         /\ received' = received /\ refused' = refused
         /\ \A d \in Cameras : Known(d) => Known(d)'
<1>1. CASE Known(c)
  <2> DEFINE r == [states[c] EXCEPT !.connected = FALSE]
  <2>1. states[c] \in CameraState
    BY <1>1, RecordTypes
  <2>2. r \in CameraState
    BY <2>1 DEF CameraState
  <2>3. r.receivedFrames = Received(c) /\ r.droppedFrames = Dropped(c)
    BY <1>1, <2>1 DEF CameraState, Received, Dropped
  <2>4. states' = [states EXCEPT ![c] = r]
    BY <1>1 DEF Disconnect
  <2>5. TypeOK'
    BY <2>2, <2>4, StoreObject DEF Disconnect, TypeOK
  <2> QED
    BY <2>2, <2>3, <2>4, <2>5, StoreObject, SameCounts
<1>2. CASE ~Known(c)
  <2>1. states' = states
    BY <1>2 DEF Disconnect
  <2>2. TypeOK'
    BY <2>1 DEF Disconnect, TypeOK
  <2> QED
    BY <2>1, <2>2, SameObjects
<1> QED
  BY <1>1, <1>2

\* A dropped frame raises both counts of its camera by one.
LEMMA DropStep ==
  ASSUME IInv, NEW c \in Cameras, DropFrame(c)
  PROVE  IInv' /\ Gate!Refuse(c)
<1> USE DEF IInv
<1> DEFINE r == [Current(c) EXCEPT !.receivedFrames = @ + 1, !.droppedFrames = @ + 1]
<1>1. /\ r \in CameraState
      /\ r.receivedFrames = received[c] + 1
      /\ r.droppedFrames = refused[c] + 1
  <2>1. /\ Current(c) \in CameraState
        /\ Current(c).receivedFrames = received[c]
        /\ Current(c).droppedFrames = refused[c]
    BY CurrentType DEF received, refused
  <2> QED
    BY <2>1, CountBoth
<1>2. states' = [states EXCEPT ![c] = r]
  BY DEF DropFrame
<1> HIDE DEF r
<1>3. /\ received' = [received EXCEPT ![c] = received[c] + 1]
      /\ refused' = [refused EXCEPT ![c] = refused[c] + 1]
      /\ states' \in [Cameras -> CameraState \cup {Undefined}]
      /\ \A d \in Cameras : Known(d) => Known(d)'
  BY <1>1, <1>2, StoreObject
<1>4. UNCHANGED <<processing, lastAcceptedAt, calls, now, ended>>
  BY DEF DropFrame
<1>5. TypeOK'
  BY <1>3, <1>4 DEF TypeOK
<1>6. CallsKnown' /\ OneInFlight'
  BY <1>3, <1>4 DEF CallsKnown, OneInFlight, TypeOK, Call
<1>7. \A d \in Cameras : /\ received[d] \in Nat /\ refused[d] \in Nat
                         /\ finished[d] \in Nat
  BY RecordTypes DEF received, refused, finished, TypeOK, Outcomes
<1>8. received \in [Cameras -> Nat] /\ refused \in [Cameras -> Nat] /\ finished' = finished
  BY <1>4, RecordTypes DEF received, refused, finished
<1>9. Conserved'
  BY <1>3, <1>4, <1>7, <1>8 DEF Conserved
<1>10. Gate!Refuse(c)
  <2>1. UNCHANGED <<{k.camera : k \in calls}, finished>>
    BY <1>4, <1>8
  <2> QED
    BY <1>3, <2>1, Zenon DEF Gate!Refuse, received, refused, finished
<1> QED
  BY <1>5, <1>6, <1>9, <1>10

\* An admitted frame raises the count of received frames, and its camera,
\* which had no call before, has one now.
LEMMA StartStep ==
  ASSUME IInv, NEW c \in Cameras, StartFrame(c)
  PROVE  IInv' /\ Gate!Admit(c)
<1> USE DEF IInv
<1> DEFINE r == [Current(c) EXCEPT !.receivedFrames = @ + 1]
           k == [camera |-> c, object |-> Current(c).object, frame |-> Received(c) + 1]
<1>1. /\ Current(c) \in CameraState
      /\ Current(c).receivedFrames = received[c]
      /\ Current(c).droppedFrames = refused[c]
      /\ received[c] = Received(c) /\ received[c] \in Nat
  BY CurrentType, RecordTypes DEF received, refused
<1>2. /\ r \in CameraState
      /\ r.receivedFrames = received[c] + 1
      /\ r.droppedFrames = refused[c]
  BY <1>1 DEF CameraState
<1>3. k \in Call /\ k.camera = c
  BY <1>1 DEF Call, CameraState
<1>4. /\ states' = [states EXCEPT ![c] = r]
      /\ calls' = calls \cup {k}
      /\ processing' = processing \cup {c}
      /\ lastAcceptedAt' = [lastAcceptedAt EXCEPT ![c] = now]
      /\ UNCHANGED <<now, ended>>
      /\ c \notin processing
      /\ now - lastAcceptedAt[c] >= MinimumInterval
  BY DEF StartFrame, Start, TooFast, TypeOK
<1> HIDE DEF r, k
<1>5. /\ received' = [received EXCEPT ![c] = received[c] + 1]
      /\ refused' = [refused EXCEPT ![c] = refused[c]]
      /\ states' \in [Cameras -> CameraState \cup {Undefined}]
      /\ \A d \in Cameras : Known(d) => Known(d)'
      /\ Known(c)'
  BY <1>2, <1>4, StoreObject
<1>6. \A d \in Cameras : /\ received[d] \in Nat /\ refused[d] \in Nat
                         /\ finished[d] \in Nat
  BY RecordTypes DEF received, refused, finished, TypeOK, Outcomes
<1>7. received \in [Cameras -> Nat] /\ refused \in [Cameras -> Nat] /\ finished' = finished
  BY <1>4, RecordTypes DEF received, refused, finished
<1>8. TypeOK'
  <2>1. now \in Nat
    BY DEF TypeOK
  <2> QED
    BY <1>3, <1>4, <1>5, <2>1 DEF TypeOK
<1>9. CallsKnown'
  BY <1>3, <1>4, <1>5 DEF CallsKnown, TypeOK, Call
<1>10. OneInFlight'
  BY <1>3, <1>4 DEF OneInFlight
<1>11. Conserved'
  BY <1>4, <1>5, <1>6, <1>7 DEF Conserved, TypeOK
<1>12. Gate!Admit(c)
  <2>1. c \notin {j.camera : j \in calls}
    BY <1>4 DEF OneInFlight
  <2>2. {j.camera : j \in calls}' = {j.camera : j \in calls} \cup {c}
    BY <1>3, <1>4
  <2>3. refused' = refused
    BY <1>5, <1>7
  <2> QED
    BY <1>5, <1>7, <2>1, <2>2, <2>3, Zenon DEF Gate!Admit, received, refused, finished
<1> QED
  BY <1>8, <1>9, <1>10, <1>11, <1>12

\* A settled call, fulfilled or rejected, leaves both counts alone, counts as
\* finished once, and frees its camera, which had no other call.
LEMMA SettleStep ==
  ASSUME IInv, NEW c \in Cameras, Settle(c)
  PROVE  IInv' /\ Gate!Finish(c)
<1> USE DEF IInv
<1>1. PICK k \in calls : k.camera = c /\ (Resolve(k) \/ Reject(k))
  BY DEF Settle
<1>2. k \in Call
  BY DEF TypeOK
<1>3. /\ processing' = processing \ {c}
      /\ calls' = calls \ {k}
      /\ UNCHANGED <<lastAcceptedAt, now>>
  BY <1>1 DEF Resolve, Reject
<1>4. Known(c) /\ states[c] \in CameraState
  BY <1>1, RecordTypes DEF CallsKnown
<1>5. /\ states' \in [Cameras -> CameraState \cup {Undefined}]
      /\ received' = received /\ refused' = refused
      /\ \A d \in Cameras : Known(d) => Known(d)'
  <2>1. CASE states' = states
    BY <2>1, SameObjects DEF TypeOK
  <2>2. CASE states' # states
    <3> DEFINE r == [states[c] EXCEPT !.lastFrameAt = now]
    <3>1. states' = [states EXCEPT ![c] = r]
      BY <1>1, <2>2 DEF Resolve, Reject
    <3>2. now \in Nat
      BY DEF TypeOK
    <3>3. r \in CameraState /\ r.receivedFrames = Received(c) /\ r.droppedFrames = Dropped(c)
      BY <1>4, <3>2 DEF CameraState, Received, Dropped
    <3> HIDE DEF r
    <3> QED
      BY <3>1, <3>3, StoreObject, SameCounts
  <2> QED
    BY <2>1, <2>2
<1>6. ended' \in [Cameras -> Outcomes] /\ finished' = [finished EXCEPT ![c] = @ + 1]
  <2>1. ended \in [Cameras -> Outcomes] /\ now \in Nat
    BY DEF TypeOK
  <2>2. PICK e \in Outcomes : /\ ended' = [ended EXCEPT ![c] = e]
                              /\ e.ok + e.failed = ended[c].ok + ended[c].failed + 1
    <3>1. ended[c] \in Outcomes
      BY <2>1
    <3>2. CASE Resolve(k)
      <4> DEFINE e == [ended[c] EXCEPT !.ok = @ + 1, !.at = now]
      <4>1. ended' = [ended EXCEPT ![c] = e]
        BY <1>1, <3>2 DEF Resolve
      <4>2. e \in Outcomes /\ e.ok + e.failed = ended[c].ok + ended[c].failed + 1
        BY <2>1, <3>1, CountProcessed
      <4> QED
        BY <4>1, <4>2
    <3>3. CASE Reject(k)
      <4> DEFINE e == [ended[c] EXCEPT !.failed = @ + 1]
      <4>1. ended' = [ended EXCEPT ![c] = e]
        BY <1>1, <3>3 DEF Reject
      <4>2. e \in Outcomes /\ e.ok + e.failed = ended[c].ok + ended[c].failed + 1
        BY <3>1 DEF Outcomes
      <4> QED
        BY <4>1, <4>2
    <3> QED
      BY <1>1, <3>2, <3>3
  <2>3. \A d \in Cameras : ended'[d] = IF d = c THEN e ELSE ended[d]
    BY <2>1, <2>2
  <2>4. \A d \in Cameras : ended'[d].ok + ended'[d].failed
                            = IF d = c THEN finished[c] + 1 ELSE finished[d]
    BY <2>2, <2>3 DEF finished
  <2>5. finished' = [finished EXCEPT ![c] = @ + 1]
    BY <2>4 DEF finished
  <2> QED
    BY <2>1, <2>2, <2>5
<1>7. TypeOK'
  BY <1>3, <1>5, <1>6 DEF TypeOK
<1>8. CallsKnown'
  BY <1>3, <1>5 DEF CallsKnown, TypeOK, Call
<1>9. c \in processing /\ \A j \in calls : j.camera = c => j = k
  BY <1>1 DEF OneInFlight
<1>10. OneInFlight'
  BY <1>1, <1>3, <1>9 DEF OneInFlight
<1>11. Conserved'
  <2>1. \A d \in Cameras : finished[d] \in Nat /\ received[d] \in Nat /\ refused[d] \in Nat
    BY RecordTypes DEF received, refused, finished, TypeOK, Outcomes
  <2>2. finished \in [Cameras -> Nat]
    BY <2>1 DEF finished
  <2> QED
    BY <1>3, <1>5, <1>6, <1>9, <2>1, <2>2 DEF Conserved
<1>12. Gate!Finish(c)
  <2>1. c \in {j.camera : j \in calls}
    BY <1>1
  <2>2. {j.camera : j \in calls}' = {j.camera : j \in calls} \ {c}
    BY <1>1, <1>3, <1>9
  <2> QED
    BY <1>5, <1>6, <2>1, <2>2, Zenon DEF Gate!Finish, received, refused, finished
<1> QED
  BY <1>7, <1>8, <1>10, <1>11, <1>12

\* Every step keeps the inductive invariant and is a step of the gate or
\* invisible to it.
LEMMA NextStep ==
  ASSUME IInv, [Next]_vars
  PROVE  IInv' /\ [Gate!Next]_(Gate!vars)
<1> DEFINE quiet == UNCHANGED <<received, refused, finished, calls>>
<1>1. quiet => UNCHANGED Gate!vars
  BY DEF Gate!vars, received, refused, finished
<1>2. ASSUME NEW c \in Cameras, Connect(c) \/ Disconnect(c)
      PROVE  IInv' /\ quiet
  <2>1. /\ TypeOK' /\ received' = received /\ refused' = refused
        /\ \A d \in Cameras : Known(d) => Known(d)'
    BY <1>2, ConnectStep, DisconnectStep DEF IInv
  <2>2. UNCHANGED <<processing, lastAcceptedAt, calls, ended>>
    BY <1>2 DEF Connect, Disconnect
  <2> QED
    BY <2>1, <2>2, QuietStep DEF finished
<1>3. ASSUME NEW c \in Cameras, AcceptFrame(c)
      PROVE  IInv' /\ Gate!Next
  BY <1>3, DropStep, StartStep DEF AcceptFrame, Gate!Next
<1>4. ASSUME NEW c \in Cameras, Settle(c)
      PROVE  IInv' /\ Gate!Next
  BY <1>4, SettleStep DEF Gate!Next
<1>5. CASE ClockMoves \/ UNCHANGED vars
  <2>1. UNCHANGED <<states, processing, lastAcceptedAt, calls, ended>>
        /\ now' \in StartTime .. MaxNow
    BY <1>5 DEF ClockMoves, vars, IInv, TypeOK
  <2>2. TypeOK'
    BY <2>1 DEF IInv, TypeOK
  <2>3. IInv' /\ quiet
    BY <2>1, <2>2, SameObjects, QuietStep DEF finished
  <2> QED
    BY <1>1, <2>3
<1> QED
  BY <1>1, <1>2, <1>3, <1>4, <1>5 DEF Next

\* The inductive invariant holds in every reachable state.
LEMMA Invariance == Spec => []IInv
<1>1. IInv /\ [Next]_vars => IInv'
  BY NextStep
<1> QED
  BY InitIInv, <1>1, PTL DEF Spec

-----------------------------------------------------------------------------
\* Every variable keeps its type.
THEOREM TypeCorrect == Spec => []TypeOK
<1>1. IInv => TypeOK
  BY DEF IInv
<1> QED
  BY <1>1, Invariance, PTL

\* At most one frame of a camera is at the vision service, and `processing`
\* says whose, for any interleaving of frames, reconnects and answers.
THEOREM Backpressure == Spec => []OneInFlight
<1>1. IInv => OneInFlight
  BY DEF IInv
<1> QED
  BY <1>1, Invariance, PTL

\* received = dropped + processed + failed + in flight, for every camera.
THEOREM Statistics == Spec => []StatsConserved
<1>1. IInv => StatsConserved
  <2> SUFFICES ASSUME IInv, NEW c \in Cameras
               PROVE  Received(c) = Dropped(c) + ended[c].ok + ended[c].failed
                                      + (IF c \in processing THEN 1 ELSE 0)
    BY DEF StatsConserved
  <2>1. ended[c] \in Outcomes /\ Dropped(c) \in Nat
    BY RecordTypes DEF IInv, TypeOK
  <2>2. received[c] = Received(c) /\ refused[c] = Dropped(c)
        /\ finished[c] = ended[c].ok + ended[c].failed
    BY DEF received, refused, finished
  <2>3. received[c] = refused[c] + finished[c] + (IF c \in processing THEN 1 ELSE 0)
    BY DEF IInv, Conserved
  <2> QED
    BY <2>1, <2>2, <2>3 DEF Outcomes
<1> QED
  BY <1>1, Invariance, PTL

(* The FPS cap *)

\* What a step does to the counts of the gate is what it does to Admitted.
LEMMA AdmittedCounts ==
  \A c \in Cameras : Admitted(c) = received[c] - refused[c]
  BY DEF Admitted, received, refused

\* A step that leaves counts and stamps alone.
LEMMA ApartAlone ==
  ASSUME received' = received, refused' = refused, lastAcceptedAt' = lastAcceptedAt
  PROVE  \A c \in Cameras : Apart(c)
  BY AdmittedCounts DEF Apart, Admitted, received, refused

\* A dropped frame is received and refused: nothing was admitted.
LEMMA ApartDrop ==
  ASSUME IInv, NEW c \in Cameras, DropFrame(c)
  PROVE  \A d \in Cameras : Apart(d)
<1>1. lastAcceptedAt' = lastAcceptedAt
  BY DEF DropFrame
<1>2. /\ received' = [received EXCEPT ![c] = @ + 1]
      /\ refused' = [refused EXCEPT ![c] = @ + 1]
  BY DropStep, Zenon DEF Gate!Refuse, received, refused
<1>3. \A d \in Cameras : received[d] \in Nat /\ refused[d] \in Nat
  BY RecordTypes DEF IInv, received, refused
<1>4. received \in [Cameras -> Nat] /\ refused \in [Cameras -> Nat]
  BY <1>3 DEF received, refused
<1>5. \A d \in Cameras : received'[d] - refused'[d] = received[d] - refused[d]
  BY <1>2, <1>3, <1>4
<1>6. \A d \in Cameras : Admitted(d)' = Admitted(d)
  BY <1>5 DEF Admitted, received, refused
<1> QED
  BY <1>1, <1>6 DEF Apart

\* An admission: the guard compared the time that becomes the stamp.
LEMMA ApartStart ==
  ASSUME IInv, NEW c \in Cameras, StartFrame(c)
  PROVE  \A d \in Cameras : Apart(d)
<1>1. /\ lastAcceptedAt' = [lastAcceptedAt EXCEPT ![c] = now]
      /\ now' = now
      /\ lastAcceptedAt \in [Cameras -> Nat]
      /\ now \in Nat
      /\ now >= lastAcceptedAt[c] + MinimumInterval
  BY DEF StartFrame, Start, TooFast, IInv, TypeOK
<1>2. received' = [received EXCEPT ![c] = @ + 1] /\ refused' = refused
  BY StartStep, Zenon DEF Gate!Admit, received, refused
<1>3. \A d \in Cameras : received[d] \in Nat /\ refused[d] \in Nat
  BY RecordTypes DEF IInv, received, refused
<1>4. received \in [Cameras -> Nat]
  BY <1>3 DEF received
<1>5. \A d \in Cameras : received'[d] - refused'[d]
                          = IF d = c THEN received[d] - refused[d] + 1
                                     ELSE received[d] - refused[d]
  BY <1>2, <1>3, <1>4
<1>6. \A d \in Cameras : Admitted(d)' = IF d = c THEN Admitted(d) + 1 ELSE Admitted(d)
  BY <1>5 DEF Admitted, received, refused
<1> QED
  BY <1>1, <1>6 DEF Apart

\* Every step keeps the admissions apart.
LEMMA ApartStep ==
  ASSUME IInv, [Next]_vars
  PROVE  \A c \in Cameras : Apart(c)
<1>1. ASSUME NEW c \in Cameras, Connect(c) \/ Disconnect(c)
      PROVE  \A d \in Cameras : Apart(d)
  <2>1. received' = received /\ refused' = refused
    BY <1>1, ConnectStep, DisconnectStep DEF IInv
  <2>2. lastAcceptedAt' = lastAcceptedAt
    BY <1>1 DEF Connect, Disconnect
  <2> QED
    BY <2>1, <2>2, ApartAlone
<1>2. ASSUME NEW c \in Cameras, AcceptFrame(c)
      PROVE  \A d \in Cameras : Apart(d)
  BY <1>2, ApartDrop, ApartStart DEF AcceptFrame
<1>3. ASSUME NEW c \in Cameras, Settle(c)
      PROVE  \A d \in Cameras : Apart(d)
  <2>1. received' = received /\ refused' = refused
    BY <1>3, SettleStep, Zenon DEF Gate!Finish, received, refused
  <2>2. lastAcceptedAt' = lastAcceptedAt
    BY <1>3 DEF Settle, Resolve, Reject
  <2> QED
    BY <2>1, <2>2, ApartAlone
<1>4. CASE ClockMoves \/ UNCHANGED vars
  <2>1. states' = states /\ lastAcceptedAt' = lastAcceptedAt
    BY <1>4 DEF ClockMoves, vars
  <2> QED
    BY <2>1, SameObjects, ApartAlone
<1> QED
  BY <1>1, <1>2, <1>3, <1>4 DEF Next

\* Every admission is stamped an interval or more after the one before, for
\* every FPS cap, every clock and every number of cameras.
THEOREM FrameRate == Spec => AdmissionsApart
<1>1. IInv /\ [Next]_vars => [\A c \in Cameras : Apart(c)]_vars
  BY ApartStep
<1> QED
  BY <1>1, Invariance, PTL DEF Spec, AdmissionsApart

\* The cap over any stretch of time: from whatever state the stretch begins in,
\* with n frames of a camera admitted and the last of them at t, each further
\* admission puts the last stamp at least one interval higher.  Two stamps with
\* m admissions from one to the other are m intervals apart.
THEOREM FrameRateOverTime ==
  ASSUME NEW c \in Cameras, NEW n \in Nat, NEW t \in Nat
  PROVE  Spec => []((Admitted(c) = n /\ lastAcceptedAt[c] = t) =>
                      [](/\ Admitted(c) >= n
                         /\ lastAcceptedAt[c] >= t + (Admitted(c) - n) * MinimumInterval))
<1> DEFINE begins == Admitted(c) = n /\ lastAcceptedAt[c] = t
           capped == /\ Admitted(c) \in Int /\ Admitted(c) >= n
                     /\ lastAcceptedAt[c] \in Int
                     /\ lastAcceptedAt[c] >= t + (Admitted(c) - n) * MinimumInterval
<1>1. begins => capped
  OBVIOUS
<1>2. IInv /\ [Next]_vars /\ capped => capped'
  <2> SUFFICES ASSUME IInv, [Next]_vars, capped
               PROVE  capped'
    OBVIOUS
  <2>1. Apart(c)
    BY ApartStep
  <2>2. CASE Admitted(c)' = Admitted(c) /\ lastAcceptedAt'[c] = lastAcceptedAt[c]
    BY <2>2
  <2>3. CASE /\ Admitted(c)' = Admitted(c) + 1
             /\ lastAcceptedAt'[c] >= lastAcceptedAt[c] + MinimumInterval
    <3> DEFINE m == Admitted(c) - n
    <3>1. m \in Int /\ m * MinimumInterval \in Int
      OBVIOUS
    <3>2. (Admitted(c) + 1 - n) * MinimumInterval = m * MinimumInterval + MinimumInterval
      OBVIOUS
    <3>3. lastAcceptedAt'[c] \in Int
      <4>1. IInv'
        BY NextStep
      <4> QED
        BY <4>1 DEF IInv, TypeOK
    <3>4. lastAcceptedAt'[c] >= t + (Admitted(c) + 1 - n) * MinimumInterval
      <4> HIDE DEF m
      <4>1. lastAcceptedAt[c] >= t + m * MinimumInterval
        BY DEF m
      <4> QED
        BY <2>3, <3>1, <3>2, <3>3, <4>1
    <3> QED
      BY <2>3, <3>3, <3>4
  <2> QED
    BY <2>1, <2>2, <2>3 DEF Apart
<1>3. capped => /\ Admitted(c) >= n
                /\ lastAcceptedAt[c] >= t + (Admitted(c) - n) * MinimumInterval
  OBVIOUS
<1> HIDE DEF begins, capped
<1>4. Spec => [](begins => []capped)
  BY <1>1, <1>2, Invariance, PTL DEF Spec
<1> QED
  BY <1>3, <1>4, PTL DEF begins

-----------------------------------------------------------------------------
\* The service implements the abstract gate: its initial states are the
\* gate's, and every step is a step of the gate or leaves it alone.
THEOREM Implementation == Spec => GateSpec
<1>1. Init => Gate!Init
  <2> SUFFICES ASSUME Init PROVE Gate!Init
    OBVIOUS
  <2>1. \A c \in Cameras : Received(c) = 0 /\ Dropped(c) = 0
                             /\ ended[c].ok + ended[c].failed = 0
    BY DEF Init, Received, Dropped, Known
  <2>2. {k.camera : k \in calls} = {}
    BY DEF Init
  <2> QED
    BY <2>1, <2>2 DEF Gate!Init
<1>2. IInv /\ [Next]_vars => [Gate!Next]_(Gate!vars)
  BY NextStep
<1> QED
  BY <1>1, <1>2, Invariance, PTL DEF Spec, GateSpec, Gate!Spec

-----------------------------------------------------------------------------
(* Part two: the vision service behind it.  The inductive invariant *)

\* What a result may be relative to.
Old(c) == {0, shown[c].frame} \cup failed[c]

\* A pending call is for a frame newer than all that is settled.
CallsAhead ==
  \A k \in calls :
    /\ k.frame \in 1 .. MaxFrames
    /\ k.frame <= received[k.camera]
    /\ \A f \in Old(k.camera) : f < k.frame

SettledReceived == \A c \in Cameras : \A f \in Old(c) : f <= received[c]

\* What the vision service still works on is awaited or was given up.
RequestsKept == \A r \in requests : Awaited(r) \/ r.frame \in failed[r.camera]

\* A response on its way is the only one for a call that waits for it.
AnswersAwaited ==
  \A a \in answers :
    /\ \E k \in calls : k.camera = a.camera /\ k.frame = a.frame
    /\ [camera |-> a.camera, frame |-> a.frame] \notin requests
    /\ \A b \in answers : b.camera = a.camera => a = b

\* It looks back to a settled frame, and has put that frame out of the way.
AnswersLookBack ==
  \A a \in answers : a.ok =>
    /\ a.against \in Old(a.camera)
    /\ previous_frames[a.camera] \in {0, a.frame} \cup failed[a.camera]

\* The baseline is a settled frame or that of a call that was just processed.
BaselineOld ==
  \A c \in Cameras :
    \/ previous_frames[c] \in Old(c)
    \/ \E k \in calls : /\ k.camera = c /\ k.frame = previous_frames[c]
                        /\ RequestOf(k) \notin requests

Behind ==
  /\ VisionTypeOK
  /\ CallsAhead /\ SettledReceived
  /\ RequestsKept /\ AnswersAwaited /\ AnswersLookBack /\ BaselineOld

VInv == IInv /\ Behind

\* Nothing has happened yet.
LEMMA VisionInitial == VisionInit => VInv
<1> SUFFICES ASSUME VisionInit PROVE VInv
  OBVIOUS
<1>1. IInv
  BY InitIInv DEF VisionInit
<1>2. VisionTypeOK
  <2>1. TypeOK
    BY <1>1 DEF IInv
  <2>2. 0 \in 0 .. MaxFrames
    OBVIOUS
  <2> QED
    BY <2>1, <2>2 DEF VisionInit, VisionTypeOK
<1>3. calls = {} /\ requests = {} /\ answers = {}
  BY DEF VisionInit, Init
<1>4. \A c \in Cameras : Old(c) = {0} /\ previous_frames[c] = 0 /\ received[c] = 0
  BY DEF VisionInit, Init, Old, received, Received, Known
<1> QED
  BY <1>1, <1>2, <1>3, <1>4 DEF VInv, Behind, CallsAhead, SettledReceived, RequestsKept,
     AnswersAwaited, AnswersLookBack, BaselineOld

-----------------------------------------------------------------------------
(* The server's half *)

\* Every step of the whole is a step of the service or leaves it alone.
LEMMA ServiceStep ==
  ASSUME TypeOK, [VisionNext]_<<vars, vision>>
  PROVE  [Next]_vars
<1>1. CASE ServiceAlone
  BY <1>1 DEF ServiceAlone, Next, AcceptFrame
<1>2. ASSUME NEW c \in Cameras, PostFrame(c) PROVE Next
  BY <1>2 DEF PostFrame, Next, AcceptFrame
<1>3. ASSUME NEW r \in requests, RefuseFrame(r) \/ ProcessFrame(r) PROVE UNCHANGED vars
  BY <1>3 DEF RefuseFrame, ProcessFrame, Respond
<1>4. ASSUME NEW k \in calls, HandOn(k) \/ FrameFails(k) \/ GiveUp(k) PROVE Next
  <2>1. k.camera \in Cameras
    BY DEF TypeOK, Call
  <2>2. Resolve(k) \/ Reject(k)
    BY <1>4 DEF HandOn, FrameFails, GiveUp, Abandon
  <2>3. Settle(k.camera)
    BY <2>2 DEF Settle
  <2> QED
    BY <2>1, <2>3 DEF Next
<1>5. CASE VisionRestarts
  BY <1>5 DEF VisionRestarts
<1>6. CASE UNCHANGED <<vars, vision>>
  BY <1>6
<1> QED
  BY <1>1, <1>2, <1>3, <1>4, <1>5, <1>6 DEF VisionNext

\* A service that changes no call and forgets no frame leaves the rest alone.
LEMMA QuietService ==
  ASSUME VInv, TypeOK', calls' = calls, UNCHANGED vision,
         \A c \in Cameras : received[c] \in Nat /\ received'[c] \in Nat /\ received[c] <= received'[c]
  PROVE  Behind'
<1> USE DEF VInv, Behind
<1>1. \A c : Old(c)' = Old(c)
  BY DEF Old, vision
<1>2. \A c \in Cameras : Old(c) \subseteq Int
  BY DEF VisionTypeOK, Old
<1>3. VisionTypeOK'
  BY DEF VisionTypeOK, vision
<1>4. CallsAhead'
  <2>1. \A k \in calls : k.camera \in Cameras /\ k.frame \in Nat
    BY DEF VisionTypeOK, TypeOK, Call
  <2> QED
    BY <1>1, <2>1 DEF CallsAhead
<1>5. SettledReceived'
  BY <1>1, <1>2 DEF SettledReceived
<1>6. RequestsKept'
  BY DEF RequestsKept, Awaited, RequestOf, vision
<1>7. AnswersAwaited'
  BY DEF AnswersAwaited, vision
<1>8. AnswersLookBack'
  BY <1>1 DEF AnswersLookBack, vision
<1>9. BaselineOld'
  BY <1>1 DEF BaselineOld, RequestOf, vision
<1> QED
  BY <1>3, <1>4, <1>5, <1>6, <1>7, <1>8, <1>9

\* The call that acceptFrame starts is the camera's only one, for a new frame.
LEMMA PostStep ==
  ASSUME VInv, TypeOK', NEW c \in Cameras, PostFrame(c)
  PROVE  Behind'
<1> USE DEF VInv, Behind
<1> DEFINE n == received[c] + 1
           k == [camera |-> c, object |-> Current(c).object, frame |-> n]
           r == [camera |-> c, frame |-> n]
<1>1. received[c] = Received(c) /\ \A d \in Cameras : received[d] \in Nat
  BY RecordTypes DEF received, VisionTypeOK
<1>2. /\ calls' = calls \cup {k}
      /\ requests' = requests \cup {r}
      /\ received[c] < MaxFrames
      /\ c \notin processing
      /\ UNCHANGED <<answers, previous_frames, shown, failed>>
  BY <1>1 DEF PostFrame, StartFrame, Start
<1>3. n \in 1 .. MaxFrames
  BY <1>1, <1>2
<1>4. received' = [received EXCEPT ![c] = n]
  BY StartStep DEF PostFrame, Gate!Admit, received, refused, finished
<1>5. k.camera = c /\ k.frame = n /\ r.camera = c /\ r.frame = n /\ RequestOf(k) = r
  BY DEF RequestOf
<1>6. \A d \in Cameras : received'[d] = IF d = c THEN n ELSE received[d]
  BY <1>4 DEF received
<1> HIDE DEF n, k, r
<1>7. \A j \in calls : j.camera \in Cameras /\ j.camera # c /\ j.frame \in Nat
  BY <1>2 DEF IInv, OneInFlight, VisionTypeOK, TypeOK, Call
<1>8. \A d : Old(d)' = Old(d)
  BY <1>2 DEF Old
<1>9. \A d \in Cameras : Old(d) \subseteq Int
  BY DEF VisionTypeOK, Old
<1>10. VisionTypeOK'
  <2>1. r \in Request
    BY <1>3 DEF r, Request
  <2> QED
    BY <1>2, <2>1 DEF VisionTypeOK
<1>11. CallsAhead'
  <2> SUFFICES ASSUME NEW j \in calls'
               PROVE  /\ j.frame \in 1 .. MaxFrames
                      /\ j.frame <= received'[j.camera]
                      /\ \A f \in Old(j.camera) : f < j.frame
    BY <1>8 DEF CallsAhead
  <2>1. CASE j \in calls
    BY <2>1, <1>6, <1>7 DEF CallsAhead
  <2>2. CASE j = k
    <3>1. \A f \in Old(c) : f <= received[c] /\ f \in Int
      BY <1>9 DEF SettledReceived
    <3>2. \A f \in Old(c) : f < n
      BY <1>1, <3>1 DEF n
    <3> QED
      BY <2>2, <3>2, <1>1, <1>3, <1>5, <1>6
  <2> QED
    BY <1>2, <2>1, <2>2
<1>12. SettledReceived'
  <2>1. \A d \in Cameras : received'[d] \in Nat /\ received[d] <= received'[d]
    BY <1>1, <1>6 DEF n
  <2> QED
    BY <1>1, <1>8, <1>9, <2>1 DEF SettledReceived
<1>13. RequestsKept'
  BY <1>2, <1>5 DEF RequestsKept, Awaited, RequestOf
<1>14. AnswersAwaited'
  <2>1. \A a \in answers : a.camera # c
    BY <1>7 DEF AnswersAwaited
  <2>2. \A a \in answers : [camera |-> a.camera, frame |-> a.frame] # r
    BY <2>1, <1>5
  <2> QED
    BY <1>2, <2>2 DEF AnswersAwaited
<1>15. AnswersLookBack'
  BY <1>2, <1>8 DEF AnswersLookBack
<1>16. BaselineOld'
  <2> SUFFICES ASSUME NEW d \in Cameras
               PROVE  \/ previous_frames[d] \in Old(d)
                      \/ \E j \in calls' : /\ j.camera = d /\ j.frame = previous_frames[d]
                                           /\ RequestOf(j) \notin requests'
    BY <1>2, <1>8 DEF BaselineOld, RequestOf
  <2>1. CASE previous_frames[d] \in Old(d)
    BY <2>1
  <2>2. ASSUME NEW j \in calls, j.camera = d, j.frame = previous_frames[d],
               RequestOf(j) \notin requests
        PROVE  j \in calls' /\ RequestOf(j) \notin requests'
    <3>1. RequestOf(j) # r
      BY <1>5, <1>7 DEF RequestOf
    <3> QED
      BY <1>2, <2>2, <3>1
  <2> QED
    BY <2>1, <2>2 DEF BaselineOld
<1> QED
  BY <1>10, <1>11, <1>12, <1>13, <1>14, <1>15, <1>16

-----------------------------------------------------------------------------
(* The vision service's half *)

\* What every response leaves as it was, and what it adds.
LEMMA RespondStep ==
  ASSUME VInv, NEW r \in requests, NEW good \in BOOLEAN,
         NEW baseline \in 0 .. MaxFrames, Respond(r, good, baseline)
  PROVE  /\ requests' \in SUBSET Request /\ answers' \in SUBSET Answer /\ TypeOK'
         /\ CallsAhead' /\ SettledReceived' /\ RequestsKept' /\ AnswersAwaited'
<1> USE DEF VInv, Behind
<1> DEFINE b == [camera |-> r.camera, frame |-> r.frame, ok |-> good, against |-> baseline]
<1>1. /\ requests' = requests \ {r}
      /\ answers' = IF Awaited(r) THEN answers \cup {b} ELSE answers
      /\ UNCHANGED <<vars, shown, failed>>
  BY DEF Respond
<1>2. r \in Request /\ r = [camera |-> r.camera, frame |-> r.frame]
  BY DEF VisionTypeOK, Request
<1>3. b \in Answer /\ b.camera = r.camera /\ b.frame = r.frame
  BY <1>2 DEF Answer, Request
<1> HIDE DEF b
<1>4. UNCHANGED <<states, calls, received>> /\ \A d : Old(d)' = Old(d)
  BY <1>1, SameObjects DEF vars, Old
<1>5. TypeOK'
  BY <1>1 DEF TypeOK, vars, VisionTypeOK
<1>6. requests' \in SUBSET Request /\ answers' \in SUBSET Answer
  BY <1>1, <1>3 DEF VisionTypeOK
<1>7. CallsAhead' /\ SettledReceived'
  BY <1>4 DEF CallsAhead, SettledReceived
<1>8. RequestsKept'
  BY <1>1, <1>4 DEF RequestsKept, Awaited, RequestOf
<1>9. AnswersAwaited'
  <2>1. CASE ~Awaited(r)
    BY <1>1, <1>4, <2>1 DEF AnswersAwaited
  <2>2. CASE Awaited(r)
    <3>1. PICK k \in calls : k.camera = r.camera /\ k.frame = r.frame
      BY <2>2, <1>2 DEF Awaited, RequestOf
    <3>2. \A a \in answers : a.camera # r.camera
      <4> SUFFICES ASSUME NEW a \in answers, a.camera = r.camera PROVE FALSE
        OBVIOUS
      <4>1. PICK j \in calls : j.camera = a.camera /\ j.frame = a.frame
        BY DEF AnswersAwaited
      <4>2. j = k
        BY <3>1, <4>1 DEF IInv, OneInFlight
      <4>3. [camera |-> a.camera, frame |-> a.frame] \notin requests
        BY DEF AnswersAwaited
      <4> QED
        BY <3>1, <4>1, <4>2, <4>3, <1>2
    <3> SUFFICES ASSUME NEW a \in answers'
                 PROVE  /\ \E j \in calls : j.camera = a.camera /\ j.frame = a.frame
                        /\ [camera |-> a.camera, frame |-> a.frame] \notin requests'
                        /\ \A e \in answers' : e.camera = a.camera => a = e
      BY <1>4 DEF AnswersAwaited
    <3>3. CASE a = b
      BY <3>1, <3>2, <3>3, <1>1, <1>2, <1>3
    <3>4. CASE a \in answers
      BY <3>2, <3>4, <1>1, <1>3 DEF AnswersAwaited
    <3> QED
      BY <1>1, <3>3, <3>4
  <2> QED
    BY <2>1, <2>2
<1> QED
  BY <1>5, <1>6, <1>7, <1>8, <1>9

\* A refused image leaves the baseline alone.
LEMMA RefuseStep ==
  ASSUME VInv, NEW r \in requests, RefuseFrame(r)
  PROVE  Behind'
<1> USE DEF VInv, Behind
<1> DEFINE b == [camera |-> r.camera, frame |-> r.frame, ok |-> FALSE, against |-> 0]
<1>1. Respond(r, FALSE, 0) /\ previous_frames' = previous_frames
  BY DEF RefuseFrame
<1>2. 0 \in 0 .. MaxFrames
  OBVIOUS
<1>3. /\ requests' \in SUBSET Request /\ answers' \in SUBSET Answer /\ TypeOK'
      /\ CallsAhead' /\ SettledReceived' /\ RequestsKept' /\ AnswersAwaited'
  BY <1>1, <1>2, RespondStep
<1>4. /\ requests' = requests \ {r}
      /\ answers' = answers \/ answers' = answers \cup {b}
      /\ UNCHANGED <<calls, shown, failed>>
  BY <1>1 DEF Respond, vars
<1>5. \A d : Old(d)' = Old(d)
  BY <1>4 DEF Old
<1>6. VisionTypeOK'
  BY <1>1, <1>3, <1>4 DEF VisionTypeOK
<1>7. AnswersLookBack'
  BY <1>1, <1>4, <1>5 DEF AnswersLookBack
<1>8. BaselineOld'
  BY <1>1, <1>4, <1>5 DEF BaselineOld, RequestOf
<1> QED
  BY <1>3, <1>6, <1>7, <1>8

\* A processed image becomes the baseline: the frame of the call that waits
\* for it, or one that was given up.
LEMMA ProcessStep ==
  ASSUME VInv, NEW r \in requests, ProcessFrame(r)
  PROVE  Behind'
<1> USE DEF VInv, Behind
<1> DEFINE c == r.camera
<1>1. PICK good \in BOOLEAN : Respond(r, good, previous_frames[c])
  BY DEF ProcessFrame
<1>2. previous_frames' = [previous_frames EXCEPT ![c] = r.frame]
  BY DEF ProcessFrame
<1>3. c \in Cameras /\ r.frame \in 1 .. MaxFrames /\ r = [camera |-> c, frame |-> r.frame]
  BY DEF VisionTypeOK, Request
<1>4. /\ previous_frames[c] \in 0 .. MaxFrames
      /\ \A d \in Cameras : previous_frames'[d]
                              = IF d = c THEN r.frame ELSE previous_frames[d]
  BY <1>2, <1>3 DEF VisionTypeOK
<1> DEFINE b == [camera |-> c, frame |-> r.frame, ok |-> good, against |-> previous_frames[c]]
<1>5. /\ requests' \in SUBSET Request /\ answers' \in SUBSET Answer /\ TypeOK'
      /\ CallsAhead' /\ SettledReceived' /\ RequestsKept' /\ AnswersAwaited'
  BY <1>1, <1>4, RespondStep
<1>6. /\ requests' = requests \ {r}
      /\ answers' = IF Awaited(r) THEN answers \cup {b} ELSE answers
      /\ UNCHANGED <<calls, shown, failed>>
  BY <1>1 DEF Respond, vars
<1>7. b.camera = c /\ b.frame = r.frame /\ b.against = previous_frames[c]
  OBVIOUS
<1> HIDE DEF b, c
<1>8. \A d : Old(d)' = Old(d)
  BY <1>6 DEF Old
<1>9. VisionTypeOK'
  BY <1>2, <1>3, <1>5, <1>6 DEF VisionTypeOK
<1>10. CASE Awaited(r)
  <2>1. PICK k \in calls : k.camera = c /\ k.frame = r.frame /\ RequestOf(k) = r
    BY <1>10, <1>3 DEF Awaited, RequestOf
  <2>2. \A j \in calls : j.camera = c => j = k
    BY <2>1 DEF IInv, OneInFlight
  <2>3. previous_frames[c] \in Old(c)
    BY <1>3, <2>1, <2>2 DEF BaselineOld
  <2>4. AnswersLookBack'
    <3> SUFFICES ASSUME NEW a \in answers', a.ok
                 PROVE  /\ a.against \in Old(a.camera)
                        /\ previous_frames'[a.camera] \in {0, a.frame} \cup failed[a.camera]
      BY <1>6, <1>8 DEF AnswersLookBack
    <3>1. CASE a = b
      BY <3>1, <2>3, <1>3, <1>4, <1>7
    <3>2. CASE a \in answers /\ a.camera = c
      <4>1. a.frame = r.frame
        <5>1. PICK j \in calls : j.camera = a.camera /\ j.frame = a.frame
          BY <3>2 DEF AnswersAwaited
        <5> QED
          BY <5>1, <3>2, <2>1, <2>2
      <4> QED
        BY <3>2, <4>1, <1>3, <1>4 DEF AnswersLookBack
    <3>3. CASE a \in answers /\ a.camera # c
      <4>1. a.camera \in Cameras
        BY <3>3 DEF VisionTypeOK, Answer
      <4> QED
        BY <3>3, <4>1, <1>4 DEF AnswersLookBack
    <3> QED
      BY <1>6, <1>10, <3>1, <3>2, <3>3
  <2>5. BaselineOld'
    <3> SUFFICES ASSUME NEW d \in Cameras
                 PROVE  \/ previous_frames'[d] \in Old(d)
                        \/ \E j \in calls : /\ j.camera = d /\ j.frame = previous_frames'[d]
                                            /\ RequestOf(j) \notin requests'
      BY <1>6, <1>8 DEF BaselineOld, RequestOf
    <3>1. CASE d = c
      BY <3>1, <2>1, <1>4, <1>6
    <3>2. CASE d # c
      BY <3>2, <1>4, <1>6 DEF BaselineOld
    <3> QED
      BY <3>1, <3>2
  <2> QED
    BY <1>5, <1>9, <2>4, <2>5
<1>11. CASE ~Awaited(r)
  <2>1. r.frame \in failed[c]
    BY <1>11 DEF RequestsKept, c
  <2>2. AnswersLookBack'
    <3> SUFFICES ASSUME NEW a \in answers, a.ok
                 PROVE  /\ a.against \in Old(a.camera)
                        /\ previous_frames'[a.camera] \in {0, a.frame} \cup failed[a.camera]
      BY <1>6, <1>8, <1>11 DEF AnswersLookBack
    <3>1. a.camera \in Cameras
      BY DEF VisionTypeOK, Answer
    <3> QED
      BY <3>1, <2>1, <1>4 DEF AnswersLookBack
  <2>3. BaselineOld'
    <3> SUFFICES ASSUME NEW d \in Cameras
                 PROVE  \/ previous_frames'[d] \in Old(d)
                        \/ \E j \in calls : /\ j.camera = d /\ j.frame = previous_frames'[d]
                                            /\ RequestOf(j) \notin requests'
      BY <1>6, <1>8 DEF BaselineOld, RequestOf
    <3>1. CASE d = c
      BY <3>1, <2>1, <1>4 DEF Old
    <3>2. CASE d # c
      BY <3>2, <1>4, <1>6 DEF BaselineOld
    <3> QED
      BY <3>1, <3>2
  <2> QED
    BY <1>5, <1>9, <2>2, <2>3
<1> QED
  BY <1>10, <1>11

\* A restart forgets the baselines and everything under way.
LEMMA RestartStep ==
  ASSUME VInv, VisionRestarts
  PROVE  Behind'
<1> USE DEF VInv, Behind
<1>1. /\ requests' = {} /\ answers' = {}
      /\ previous_frames' = [c \in Cameras |-> 0]
      /\ UNCHANGED <<vars, shown, failed>>
  BY DEF VisionRestarts
<1>2. UNCHANGED <<states, calls, received>> /\ \A d : Old(d)' = Old(d)
  BY <1>1, SameObjects DEF vars, Old
<1>3. VisionTypeOK'
  <2>1. TypeOK' /\ 0 \in 0 .. MaxFrames
    BY <1>1 DEF TypeOK, vars, VisionTypeOK
  <2> QED
    BY <1>1, <2>1 DEF VisionTypeOK
<1>4. CallsAhead' /\ SettledReceived'
  BY <1>2 DEF CallsAhead, SettledReceived
<1>5. RequestsKept' /\ AnswersAwaited' /\ AnswersLookBack'
  BY <1>1 DEF RequestsKept, AnswersAwaited, AnswersLookBack
<1>6. BaselineOld'
  BY <1>1, <1>2 DEF BaselineOld, Old
<1> QED
  BY <1>3, <1>4, <1>5, <1>6

-----------------------------------------------------------------------------
(* The end of a call *)

\* What a call leaves behind for the service, however it ends.
LEMMA CallEnds ==
  ASSUME VInv, NEW k \in calls, Resolve(k) \/ Reject(k)
  PROVE  /\ k.camera \in Cameras /\ k.frame \in 1 .. MaxFrames
         /\ calls' = calls \ {k} /\ received' = received /\ TypeOK'
         /\ \A j \in calls : j.camera = k.camera => j = k
<1> USE DEF VInv, Behind
<1>1. k.camera \in Cameras
  BY DEF VisionTypeOK, TypeOK, Call
<1>2. k.frame \in 1 .. MaxFrames
  BY DEF CallsAhead
<1>3. Settle(k.camera)
  BY DEF Settle
<1>4. IInv' /\ Gate!Finish(k.camera)
  BY <1>1, <1>3, SettleStep
<1>5. received' = received
  BY <1>4 DEF Gate!Finish, received
<1>6. calls' = calls \ {k}
  BY DEF Resolve, Reject
<1>7. \A j \in calls : j.camera = k.camera => j = k
  BY DEF IInv, OneInFlight
<1> QED
  BY <1>1, <1>2, <1>4, <1>5, <1>6, <1>7 DEF IInv

\* A result that is handed on looks back, and takes the place of the last one.
LEMMA HandOnStep ==
  ASSUME VInv, NEW k \in calls, HandOn(k)
  PROVE  /\ Behind'
         /\ \A c \in Cameras : shown'[c] # shown[c] =>
              /\ shown'[c].against < shown'[c].frame
              /\ shown'[c].against \in {0, shown[c].frame} \cup failed[c]
<1> USE DEF VInv, Behind
<1> DEFINE c == k.camera
<1>1. PICK a \in AnswersTo(k) :
        /\ a.ok
        /\ shown' = [shown EXCEPT ![c] = [frame |-> k.frame, against |-> a.against]]
        /\ answers' = answers \ {a}
  BY DEF HandOn
<1>2. a \in answers /\ a.camera = c /\ a.frame = k.frame /\ a.against \in 0 .. MaxFrames
  BY <1>1 DEF AnswersTo, VisionTypeOK, Answer
<1>3. UNCHANGED <<requests, previous_frames, failed>>
  BY DEF HandOn
<1>4. /\ c \in Cameras /\ k.frame \in 1 .. MaxFrames
      /\ calls' = calls \ {k} /\ received' = received /\ TypeOK'
      /\ \A j \in calls : j.camera = c => j = k
  BY CallEnds DEF HandOn
<1> DEFINE s == [frame |-> k.frame, against |-> a.against]
<1>5. s \in [frame : 0 .. MaxFrames, against : 0 .. MaxFrames]
      /\ s.frame = k.frame /\ s.against = a.against
  BY <1>2, <1>4
<1>6. shown' = [shown EXCEPT ![c] = s]
  BY <1>1
<1> HIDE DEF c, s
<1>7. \A d \in Cameras : shown'[d] = IF d = c THEN s ELSE shown[d]
  BY <1>4, <1>6 DEF VisionTypeOK
<1>8. /\ \A d \in Cameras : d # c => Old(d)' = Old(d)
      /\ Old(c)' = {0, k.frame} \cup failed[c]
  BY <1>3, <1>4, <1>5, <1>7 DEF Old
<1>9. VisionTypeOK'
  BY <1>1, <1>3, <1>4, <1>5, <1>6 DEF VisionTypeOK
<1>10. \A j \in calls' : j \in calls /\ j.camera \in Cameras /\ j.camera # c
  BY <1>4 DEF VisionTypeOK, TypeOK, Call
<1>11. CallsAhead'
  BY <1>4, <1>8, <1>10 DEF CallsAhead
<1>12. k.frame <= received[c] /\ \A f \in Old(c) : f < k.frame
  BY DEF CallsAhead, c
<1>13. SettledReceived'
  <2> SUFFICES ASSUME NEW d \in Cameras, NEW f \in Old(d)' PROVE f <= received[d]
    BY <1>4 DEF SettledReceived
  <2>1. CASE d = c
    BY <2>1, <1>8, <1>12 DEF SettledReceived, Old
  <2>2. CASE d # c
    BY <2>2, <1>8 DEF SettledReceived
  <2> QED
    BY <2>1, <2>2
<1>14. RequestsKept'
  <2> SUFFICES ASSUME NEW r \in requests, r.frame \notin failed[r.camera]
               PROVE  \E j \in calls' : RequestOf(j) = r
    BY <1>3 DEF RequestsKept, Awaited, RequestOf
  <2>1. PICK j \in calls : RequestOf(j) = r
    BY DEF RequestsKept, Awaited
  <2>2. [camera |-> a.camera, frame |-> a.frame] \notin requests
    BY <1>2 DEF AnswersAwaited
  <2>3. RequestOf(k) \notin requests
    BY <1>2, <2>2 DEF RequestOf, c
  <2> QED
    BY <2>1, <2>3, <1>4
<1>15. AnswersAwaited'
  <2> SUFFICES ASSUME NEW e \in answers'
               PROVE  /\ \E j \in calls' : j.camera = e.camera /\ j.frame = e.frame
                      /\ [camera |-> e.camera, frame |-> e.frame] \notin requests
                      /\ \A g \in answers' : g.camera = e.camera => e = g
    BY <1>3 DEF AnswersAwaited
  <2>1. e \in answers /\ e # a /\ \A g \in answers' : g \in answers
    BY <1>1
  <2>2. e.camera # c
    BY <2>1, <1>2 DEF AnswersAwaited
  <2>3. PICK j \in calls : j.camera = e.camera /\ j.frame = e.frame
    BY <2>1 DEF AnswersAwaited
  <2>4. j \in calls'
    BY <2>2, <2>3, <1>4 DEF c
  <2> QED
    BY <2>1, <2>3, <2>4 DEF AnswersAwaited
<1>16. \A e \in answers' : e \in answers /\ e.camera \in Cameras /\ e.camera # c
  BY <1>1, <1>2 DEF AnswersAwaited, VisionTypeOK, Answer
<1>17. AnswersLookBack'
  BY <1>3, <1>8, <1>16 DEF AnswersLookBack
<1>18. BaselineOld'
  <2> SUFFICES ASSUME NEW d \in Cameras
               PROVE  \/ previous_frames[d] \in Old(d)'
                      \/ \E j \in calls' : /\ j.camera = d /\ j.frame = previous_frames[d]
                                           /\ RequestOf(j) \notin requests
    BY <1>3 DEF BaselineOld, RequestOf
  <2>1. CASE d = c
    <3>1. previous_frames[c] \in {0, a.frame} \cup failed[c]
      BY <1>1, <1>2 DEF AnswersLookBack
    <3> QED
      BY <2>1, <3>1, <1>2, <1>8
  <2>2. CASE d # c
    <3>1. \A j \in calls : j.camera = d => j \in calls'
      BY <2>2, <1>4 DEF c
    <3> QED
      BY <2>2, <3>1, <1>8 DEF BaselineOld
  <2> QED
    BY <2>1, <2>2
<1>19. a.against < k.frame /\ a.against \in {0, shown[c].frame} \cup failed[c]
  <2>1. a.against \in Old(c)
    BY <1>1, <1>2 DEF AnswersLookBack
  <2> QED
    BY <2>1, <1>12 DEF Old
<1>20. ASSUME NEW d \in Cameras, shown'[d] # shown[d]
       PROVE  /\ shown'[d].against < shown'[d].frame
              /\ shown'[d].against \in {0, shown[d].frame} \cup failed[d]
  <2>1. d = c
    BY <1>7, <1>20
  <2> QED
    BY <2>1, <1>5, <1>7, <1>19
<1> QED
  BY <1>9, <1>11, <1>13, <1>14, <1>15, <1>17, <1>18, <1>20

\* A call that fails, for whatever reason, leaves a frame the baseline may be.
LEMMA AbandonStep ==
  ASSUME VInv, NEW k \in calls, FrameFails(k) \/ GiveUp(k)
  PROVE  Behind' /\ shown' = shown
<1> USE DEF VInv, Behind
<1> DEFINE c == k.camera
<1>1. Abandon(k) /\ requests' \in SUBSET requests
  BY DEF FrameFails, GiveUp
<1>2. /\ failed' = [failed EXCEPT ![c] = @ \cup {k.frame}]
      /\ answers' = answers \ AnswersTo(k)
      /\ UNCHANGED <<previous_frames, shown>>
  BY <1>1 DEF Abandon
<1>3. /\ c \in Cameras /\ k.frame \in 1 .. MaxFrames
      /\ calls' = calls \ {k} /\ received' = received /\ TypeOK'
      /\ \A j \in calls : j.camera = c => j = k
  BY <1>1, CallEnds DEF Abandon
<1>4. /\ \A d \in Cameras : failed'[d] = IF d = c THEN failed[c] \cup {k.frame} ELSE failed[d]
      /\ failed' \in [Cameras -> SUBSET (1 .. MaxFrames)]
  BY <1>2, <1>3 DEF VisionTypeOK
<1>5. k.frame <= received[c]
  BY DEF CallsAhead
<1> HIDE DEF c
<1>6. \A d \in Cameras : Old(d)' = IF d = c THEN Old(c) \cup {k.frame} ELSE Old(d)
  BY <1>2, <1>4 DEF Old
<1>7. \A j \in calls' : j \in calls /\ j.camera \in Cameras /\ j.camera # c
  BY <1>3 DEF VisionTypeOK, TypeOK, Call
<1>8. VisionTypeOK'
  BY <1>1, <1>2, <1>3, <1>4 DEF VisionTypeOK
<1>9. CallsAhead'
  BY <1>3, <1>6, <1>7 DEF CallsAhead
<1>10. SettledReceived'
  BY <1>3, <1>5, <1>6 DEF SettledReceived
<1>11. RequestsKept'
  <2> SUFFICES ASSUME NEW r \in requests'
               PROVE  (\E j \in calls' : RequestOf(j) = r) \/ r.frame \in failed'[r.camera]
    BY DEF RequestsKept, Awaited, RequestOf
  <2>1. r \in requests /\ r.camera \in Cameras
    BY <1>1 DEF VisionTypeOK, Request
  <2>2. CASE r.frame \in failed[r.camera]
    BY <2>1, <2>2, <1>4
  <2>3. CASE Awaited(r)
    <3>1. PICK j \in calls : RequestOf(j) = r
      BY <2>3 DEF Awaited
    <3>2. CASE j = k
      <4>1. r.camera = c /\ r.frame = k.frame
        BY <3>1, <3>2 DEF RequestOf, c
      <4> QED
        BY <4>1, <1>3, <1>4
    <3> QED
      BY <3>1, <3>2, <1>3
  <2> QED
    BY <2>1, <2>2, <2>3 DEF RequestsKept
<1>12. \A e \in answers' : e \in answers /\ e.camera \in Cameras /\ e.camera # c
  <2> SUFFICES ASSUME NEW e \in answers' PROVE e \in answers /\ e.camera \in Cameras /\ e.camera # c
    OBVIOUS
  <2>1. e \in answers /\ ~(e.camera = c /\ e.frame = k.frame)
    BY <1>2 DEF AnswersTo, c
  <2>2. PICK j \in calls : j.camera = e.camera /\ j.frame = e.frame
    BY <2>1 DEF AnswersAwaited
  <2> QED
    BY <2>1, <2>2, <1>3 DEF VisionTypeOK, Answer
<1>13. AnswersAwaited'
  <2> SUFFICES ASSUME NEW e \in answers'
               PROVE  /\ \E j \in calls' : j.camera = e.camera /\ j.frame = e.frame
                      /\ [camera |-> e.camera, frame |-> e.frame] \notin requests'
                      /\ \A g \in answers' : g.camera = e.camera => e = g
    BY DEF AnswersAwaited
  <2>1. PICK j \in calls : j.camera = e.camera /\ j.frame = e.frame
    BY <1>12 DEF AnswersAwaited
  <2>2. j \in calls'
    BY <2>1, <1>3, <1>12 DEF c
  <2> QED
    BY <2>1, <2>2, <1>1, <1>12 DEF AnswersAwaited
<1>14. AnswersLookBack'
  BY <1>2, <1>4, <1>6, <1>12 DEF AnswersLookBack
<1>15. BaselineOld'
  <2> SUFFICES ASSUME NEW d \in Cameras
               PROVE  \/ previous_frames[d] \in Old(d)'
                      \/ \E j \in calls' : /\ j.camera = d /\ j.frame = previous_frames[d]
                                           /\ RequestOf(j) \notin requests'
    BY <1>2 DEF BaselineOld, RequestOf
  <2>1. CASE previous_frames[d] \in Old(d)
    BY <2>1, <1>6
  <2>2. ASSUME NEW j \in calls, j.camera = d, j.frame = previous_frames[d],
               RequestOf(j) \notin requests
        PROVE  \/ previous_frames[d] \in Old(d)'
               \/ j \in calls' /\ RequestOf(j) \notin requests'
    <3>1. CASE j = k
      BY <2>2, <3>1, <1>6 DEF c
    <3>2. CASE j # k
      BY <2>2, <3>2, <1>1, <1>3
    <3> QED
      BY <3>1, <3>2
  <2> QED
    BY <2>1, <2>2 DEF BaselineOld
<1> QED
  BY <1>2, <1>8, <1>9, <1>10, <1>11, <1>13, <1>14, <1>15

-----------------------------------------------------------------------------
(* All steps *)

\* A result is only handed on by HandOn.
LEMMA ShownStays ==
  ASSUME ServiceAlone \/ (\E c \in Cameras : PostFrame(c))
         \/ (\E r \in requests : RefuseFrame(r) \/ ProcessFrame(r)) \/ VisionRestarts
         \/ UNCHANGED <<vars, vision>>
  PROVE  shown' = shown
  BY DEF ServiceAlone, vision, PostFrame, RefuseFrame, ProcessFrame, Respond, VisionRestarts

\* Every step keeps the inductive invariant, and every result looks back.
LEMMA VisionStep ==
  ASSUME VInv, [VisionNext]_<<vars, vision>>
  PROVE  /\ VInv'
         /\ \A c \in Cameras : shown'[c] # shown[c] =>
              /\ shown'[c].against < shown'[c].frame
              /\ shown'[c].against \in {0, shown[c].frame} \cup failed[c]
<1>1. IInv /\ TypeOK /\ [Next]_vars
  BY ServiceStep DEF VInv, IInv
<1>2. IInv' /\ TypeOK'
  BY <1>1, NextStep DEF IInv
<1>3. \A c \in Cameras : received[c] \in Nat
  BY <1>1, RecordTypes DEF received
<1>4. CASE ServiceAlone
  <2>1. \A c \in Cameras : received'[c] = received[c] \/ received'[c] = received[c] + 1
    <3>1. ASSUME NEW c \in Cameras, Connect(c) \/ Disconnect(c) PROVE received' = received
      BY <1>1, <3>1, ConnectStep, DisconnectStep
    <3>2. ASSUME NEW c \in Cameras, DropFrame(c)
          PROVE  received' = [received EXCEPT ![c] = received[c] + 1]
      BY <1>1, <3>2, DropStep DEF Gate!Refuse, received
    <3>3. CASE ClockMoves
      BY <3>3, SameObjects DEF ClockMoves
    <3>4. ASSUME NEW c \in Cameras, DropFrame(c)
          PROVE  \A d \in Cameras : received'[d] = received[d] \/ received'[d] = received[d] + 1
      <4>1. \A d \in Cameras : received'[d] = IF d = c THEN received[c] + 1 ELSE received[d]
        BY <3>4, <3>2 DEF received
      <4> QED
        BY <4>1
    <3> QED
      BY <1>4, <3>1, <3>3, <3>4 DEF ServiceAlone
  <2>2. calls' = calls /\ UNCHANGED vision
    BY <1>4 DEF ServiceAlone, Connect, Disconnect, DropFrame, ClockMoves
  <2>3. Behind'
    BY <1>2, <1>3, <2>1, <2>2, QuietService
  <2> QED
    BY <1>2, <1>4, <2>3, ShownStays DEF VInv
<1>5. CASE UNCHANGED <<vars, vision>>
  <2>1. calls' = calls /\ UNCHANGED vision /\ received' = received
    BY <1>5, SameObjects DEF vars
  <2>2. Behind'
    BY <1>2, <1>3, <2>1, QuietService
  <2> QED
    BY <1>2, <1>5, <2>2, ShownStays DEF VInv
<1>6. ASSUME NEW c \in Cameras, PostFrame(c) PROVE Behind' /\ shown' = shown
  BY <1>2, <1>6, PostStep, ShownStays
<1>7. ASSUME NEW r \in requests, RefuseFrame(r) \/ ProcessFrame(r)
      PROVE  Behind' /\ shown' = shown
  BY <1>7, RefuseStep, ProcessStep, ShownStays
<1>8. CASE VisionRestarts
  BY <1>2, <1>8, RestartStep, ShownStays DEF VInv
<1>9. ASSUME NEW k \in calls, FrameFails(k) \/ GiveUp(k)
      PROVE  Behind' /\ shown' = shown
  BY <1>9, AbandonStep
<1>10. ASSUME NEW k \in calls, HandOn(k)
       PROVE  /\ Behind'
              /\ \A c \in Cameras : shown'[c] # shown[c] =>
                   /\ shown'[c].against < shown'[c].frame
                   /\ shown'[c].against \in {0, shown[c].frame} \cup failed[c]
  BY <1>10, HandOnStep
<1> QED
  BY <1>2, <1>4, <1>5, <1>6, <1>7, <1>8, <1>9, <1>10 DEF VisionNext, VInv

\* The inductive invariant holds in every reachable state.
LEMMA VisionInvariance == VisionSpec => []VInv
<1>1. VInv /\ [VisionNext]_<<vars, vision>> => VInv'
  BY VisionStep
<1> QED
  BY VisionInitial, <1>1, PTL DEF VisionSpec

-----------------------------------------------------------------------------
\* Every variable of both services keeps its type.
THEOREM VisionTypeCorrect == VisionSpec => []VisionTypeOK
<1>1. VInv => VisionTypeOK
  BY DEF VInv, Behind
<1> QED
  BY <1>1, VisionInvariance, PTL

\* The server with the vision service behind it is a CameraService: what its
\* theorems say holds of the whole, whatever becomes of the requests.
THEOREM Composition == VisionSpec => Spec
<1>1. VisionInit => Init
  BY DEF VisionInit
<1>2. VInv /\ [VisionNext]_<<vars, vision>> => [Next]_vars
  BY ServiceStep DEF VInv, IInv
<1> QED
  BY <1>1, <1>2, VisionInvariance, PTL DEF VisionSpec, Spec

\* So frames of a camera are still admitted, refused and finished as FrameGate
\* says, with the requests and the vision service in between.
THEOREM GateBehindVision == VisionSpec => GateSpec
  BY Composition, Implementation, PTL

\* A result shows motion relative to the last frame shown, to one whose call
\* failed, or to none, in whatever order the vision service works off the
\* requests it was left with.
THEOREM BaselineOfResults == VisionSpec => MotionLooksBack
<1> DEFINE looksBack ==
      \A c \in Cameras : shown'[c] # shown[c] =>
        /\ shown'[c].against < shown'[c].frame
        /\ shown'[c].against \in {0, shown[c].frame} \cup failed[c]
<1>1. VInv /\ [VisionNext]_<<vars, vision>> => [looksBack]_<<vars, vision>>
  BY VisionStep
<1> QED
  BY <1>1, VisionInvariance, PTL DEF VisionSpec, MotionLooksBack
=============================================================================
