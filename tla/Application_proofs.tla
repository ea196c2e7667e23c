-------------------------- MODULE Application_proofs --------------------------
(***************************************************************************)
(* TLAPS proofs about Application, for any number of frames, any pipe and  *)
(* any longest backoff.                                                    *)
(*                                                                         *)
(* Every step of the client is a step of its queue or leaves it alone, and *)
(* the same holds of its camera: what is proved about LatestFrameQueue and *)
(* CameraProcess holds inside the client.  What remains is about the main  *)
(* thread: where it is tells what it has started, opened and sent.         *)
(***************************************************************************)
EXTENDS Application, WellFoundedInduction, TLAPS

QueueProofs == INSTANCE LatestFrameQueue_proofs WITH Consumers <- {Main}, pc <- popPc

CameraProofs == INSTANCE CameraProcess_proofs
  WITH MaxStarts <- 1, stop <- stopToken, pc <- capturePc

\* The assumptions under which the lemmas of the two hold.
LEMMA PartsHold ==
  /\ MaxFrames \in Nat /\ NoFrame \notin Nat
  /\ 1 \in Nat /\ PipeCapacity \in Nat \ {0} /\ ChunkFrames \in Nat
  BY ApplicationAssumption

-----------------------------------------------------------------------------
(* The doubled wait *)

NatLess == {ss \in Nat \X Nat : ss[1] < ss[2]}

\* Induction over a set of naturals: of those outside it there is no least one.
LEMMA SetInduction ==
  ASSUME NEW S, 0 \in S, \A n \in Nat : n \in S => n + 1 \in S
  PROVE  Nat \subseteq S
<1> DEFINE T == Nat \ S
<1> SUFFICES ASSUME T # {} PROVE FALSE
  OBVIOUS
<1>1. IsWellFoundedOn(NatLess, Nat)
  BY NatLessThanWellFounded, Zenon DEF OpToRel, NatLess
<1>2. PICK x \in T : \A y \in T : ~ (<<y, x>> \in NatLess)
  <2> HIDE DEF T
  <2>1. T \subseteq Nat
    BY DEF T
  <2> QED
    BY <1>1, <2>1, WFMin
<1>3. x \in Nat /\ x \notin S /\ x # 0
  BY <1>2
<1>4. x - 1 \in Nat /\ x = (x - 1) + 1
  BY <1>3
<1>5. x - 1 \in S
  <2> SUFFICES ASSUME x - 1 \in T PROVE FALSE
    BY <1>4
  <2>1. ~ (<<x - 1, x>> \in NatLess)
    BY <1>2
  <2> QED
    BY <1>3, <1>4, <2>1 DEF NatLess
<1> QED
  BY <1>3, <1>4, <1>5

\* The first waits, doubled from each to the next.
Table(g, n) == g \in [0 .. n -> Nat] /\ g[0] = 1 /\ \A i \in 1 .. n : g[i] = 2 * g[i - 1]

\* There is such a table of every length.
LEMMA TableExists == \A n \in Nat : \E g : Table(g, n)
<1> DEFINE S == {n \in Nat : \E g : Table(g, n)}
<1>1. 0 \in S
  <2>1. Table([i \in 0 .. 0 |-> 1], 0)
    BY DEF Table
  <2> QED
    BY <2>1
<1>2. ASSUME NEW n \in Nat, n \in S
      PROVE  n + 1 \in S
  <2>1. PICK g : Table(g, n)
    BY <1>2
  <2> DEFINE h == [i \in 0 .. n + 1 |-> IF i = n + 1 THEN 2 * g[n] ELSE g[i]]
  <2>2. \A i \in 0 .. n : g[i] \in Nat
    BY <2>1 DEF Table
  <2>3. \A i \in 0 .. n + 1 : h[i] \in Nat
    BY <2>2
  <2>4. h[0] = 1
    BY <2>1 DEF Table
  <2>5. \A i \in 1 .. n + 1 : h[i] = 2 * h[i - 1]
    BY <2>1 DEF Table
  <2>6. Table(h, n + 1)
    BY <2>3, <2>4, <2>5 DEF Table
  <2> QED
    BY <2>6
<1> HIDE DEF S
<1>3. Nat \subseteq S
  BY <1>1, <1>2, SetInduction
<1> QED
  BY <1>3 DEF S

\* Two tables agree where both are defined.
LEMMA TablesAgree ==
  ASSUME NEW n \in Nat, NEW m \in Nat, NEW g, NEW h, Table(g, n), Table(h, m)
  PROVE  \A i \in Nat : i <= n /\ i <= m => g[i] = h[i]
<1> DEFINE S == {i \in Nat : i <= n /\ i <= m => g[i] = h[i]}
<1>1. 0 \in S
  BY DEF Table
<1>2. ASSUME NEW i \in Nat, i \in S
      PROVE  i + 1 \in S
  <2> SUFFICES ASSUME i + 1 <= n, i + 1 <= m PROVE g[i + 1] = h[i + 1]
    OBVIOUS
  <2>1. g[i] = h[i]
    BY <1>2
  <2>2. g[i + 1] = 2 * g[(i + 1) - 1] /\ h[i + 1] = 2 * h[(i + 1) - 1]
    <3>1. i + 1 \in 1 .. n /\ i + 1 \in 1 .. m
      OBVIOUS
    <3> QED
      BY <3>1 DEF Table
  <2>3. (i + 1) - 1 = i
    OBVIOUS
  <2> QED
    BY <2>1, <2>2, <2>3
<1> HIDE DEF S
<1>3. Nat \subseteq S
  BY <1>1, <1>2, SetInduction
<1> QED
  BY <1>3 DEF S

\* Doubled is what its equation says.
LEMMA DoubledFacts ==
  /\ Doubled \in [Nat -> Nat]
  /\ Doubled[0] = 1
  /\ \A n \in Nat : Doubled[n + 1] = 2 * Doubled[n]
<1> DEFINE T(n) == CHOOSE g : Table(g, n)
           f == [n \in Nat |-> T(n)[n]]
<1>1. \A n \in Nat : Table(T(n), n)
  BY TableExists
<1> HIDE DEF T
<1>2. f \in [Nat -> Nat]
  BY <1>1 DEF Table
<1>3. f[0] = 1
  BY <1>1 DEF Table
<1>4. ASSUME NEW n \in Nat
      PROVE  f[n + 1] = 2 * f[n]
  <2>1. T(n + 1)[n] = T(n)[n]
    BY <1>1, TablesAgree
  <2>2. T(n + 1)[n + 1] = 2 * T(n + 1)[(n + 1) - 1]
    <3>1. Table(T(n + 1), n + 1) /\ n + 1 \in 1 .. n + 1
      BY <1>1
    <3> QED
      BY <3>1 DEF Table
  <2>3. (n + 1) - 1 = n
    OBVIOUS
  <2> QED
    BY <2>1, <2>2, <2>3
<1> HIDE DEF f
<1>5. f = [n \in Nat |-> IF n = 0 THEN 1 ELSE 2 * f[n - 1]]
  <2>1. ASSUME NEW n \in Nat, n # 0
        PROVE  f[n] = 2 * f[n - 1]
    <3>1. n - 1 \in Nat /\ (n - 1) + 1 = n
      BY <2>1
    <3>2. f[(n - 1) + 1] = 2 * f[n - 1]
      BY <1>4, <3>1
    <3> QED
      BY <3>1, <3>2
  <2> QED
    BY <1>2, <1>3, <2>1
<1>6. Doubled = [n \in Nat |-> IF n = 0 THEN 1 ELSE 2 * Doubled[n - 1]]
  BY <1>5, Zenon DEF Doubled
<1>7. \A n \in Nat : Doubled[n] = IF n = 0 THEN 1 ELSE 2 * Doubled[n - 1]
  BY <1>6, Zenon
<1>8. Doubled[0] = 1
  BY <1>7
<1>9. ASSUME NEW n \in Nat
      PROVE  Doubled[n + 1] = 2 * Doubled[n]
  <2>1. n + 1 \in Nat /\ n + 1 # 0 /\ (n + 1) - 1 = n
    OBVIOUS
  <2> QED
    BY <1>7, <2>1
<1>10. ASSUME NEW n \in Nat
       PROVE  Doubled[n] \in Nat
  <2> DEFINE S == {i \in Nat : Doubled[i] \in Nat}
  <2>1. 0 \in S
    BY <1>8
  <2>2. ASSUME NEW i \in Nat, i \in S PROVE i + 1 \in S
    BY <1>9, <2>2
  <2> HIDE DEF S
  <2>3. Nat \subseteq S
    BY <2>1, <2>2, SetInduction
  <2> QED
    BY <2>3 DEF S
<1>11. Doubled \in [Nat -> Nat]
  <2>1. Doubled = [n \in Nat |-> Doubled[n]]
    BY <1>6, Zenon
  <2> QED
    BY <1>10, <2>1
<1> QED
  BY <1>8, <1>9, <1>11

\* n doublings are more than n.
LEMMA DoubledGrows == \A n \in Nat : Doubled[n] > n
<1> DEFINE S == {n \in Nat : Doubled[n] > n}
<1>1. 0 \in S
  BY DoubledFacts
<1>2. ASSUME NEW n \in Nat, n \in S PROVE n + 1 \in S
  BY <1>2, DoubledFacts
<1> HIDE DEF S
<1>3. Nat \subseteq S
  BY <1>1, <1>2, SetInduction
<1> QED
  BY <1>3 DEF S

-----------------------------------------------------------------------------
(* The queue and the camera inside the client *)

\* Queue and QueueProofs are instances of the same module.
LEMMA SameQueue ==
  /\ Queue!TypeOK <=> QueueProofs!TypeOK
  /\ Queue!Init <=> QueueProofs!Init
  /\ Queue!Push <=> QueueProofs!Push
  /\ Queue!Close <=> QueueProofs!Close
  /\ Queue!PopFor(Main) <=> QueueProofs!PopFor(Main)
  /\ Queue!Recheck(Main) <=> QueueProofs!Recheck(Main)
  /\ Queue!TimedOutReturn(Main) <=> QueueProofs!TimedOutReturn(Main)
  /\ Queue!Timeout(Main) <=> QueueProofs!Timeout(Main)
<1>1. Queue!TypeOK <=> QueueProofs!TypeOK
  BY DEF Queue!TypeOK, QueueProofs!TypeOK, Queue!Frame, QueueProofs!Frame,
     Queue!PC, QueueProofs!PC, Queue!Fate, QueueProofs!Fate
<1>2. Queue!Init <=> QueueProofs!Init
  BY DEF Queue!Init, QueueProofs!Init, Queue!Fate, QueueProofs!Fate
<1>3. /\ \A fate : Queue!Count(fate) <=> QueueProofs!Count(fate)
      /\ Queue!Waiting = QueueProofs!Waiting
      /\ Queue!Ready <=> QueueProofs!Ready
  BY DEF Queue!Count, QueueProofs!Count, Queue!Waiting, QueueProofs!Waiting,
     Queue!Ready, QueueProofs!Ready
<1>4. Queue!PushRefused <=> QueueProofs!PushRefused
  BY <1>3 DEF Queue!PushRefused, QueueProofs!PushRefused
<1>5. Queue!PushStored <=> QueueProofs!PushStored
  BY <1>3 DEF Queue!PushStored, QueueProofs!PushStored, Queue!Store, QueueProofs!Store,
     Queue!NotifyOne, QueueProofs!NotifyOne
<1>6. Queue!Push <=> QueueProofs!Push
  BY <1>4, <1>5 DEF Queue!Push, QueueProofs!Push
<1>7. Queue!Close <=> QueueProofs!Close
  BY <1>3 DEF Queue!Close, QueueProofs!Close, Queue!Shut, QueueProofs!Shut,
     Queue!NotifyAll, QueueProofs!NotifyAll
<1>8. Queue!Return(Main) <=> QueueProofs!Return(Main)
  BY <1>3 DEF Queue!Return, QueueProofs!Return, Queue!Leave, QueueProofs!Leave
<1>9. \A place : Queue!Become(Main, place) <=> QueueProofs!Become(Main, place)
  BY DEF Queue!Become, QueueProofs!Become
<1>10. Queue!Look(Main) <=> QueueProofs!Look(Main)
  BY <1>3, <1>8, <1>9 DEF Queue!Look, QueueProofs!Look
<1>11. Queue!PopFor(Main) <=> QueueProofs!PopFor(Main)
  BY <1>10 DEF Queue!PopFor, QueueProofs!PopFor
<1>12. Queue!Recheck(Main) <=> QueueProofs!Recheck(Main)
  BY <1>10 DEF Queue!Recheck, QueueProofs!Recheck
<1>13. Queue!TimedOutReturn(Main) <=> QueueProofs!TimedOutReturn(Main)
  BY <1>8 DEF Queue!TimedOutReturn, QueueProofs!TimedOutReturn
<1>14. Queue!Timeout(Main) <=> QueueProofs!Timeout(Main)
  BY <1>9 DEF Queue!Timeout, QueueProofs!Timeout
<1> QED
  BY <1>1, <1>2, <1>6, <1>7, <1>11, <1>12, <1>13, <1>14

\* What a step of the client does with the queue.
QueueUse ==
  \/ pc = "pop" /\ Pop
  \/ OnFrame /\ Queue!Push
  \/ (CloseQueue \/ CaptureFails) /\ Queue!Close
  \/ UNCHANGED queue

\* A step of the client pushes, closes, takes part in pop_for, or leaves the
\* queue alone.
LEMMA QueueUsed == ASSUME [Next]_vars PROVE QueueUse
<1>1. CASE MainThread
  <2>1. CASE Pop \/ CloseQueue
    BY <2>1 DEF Pop, CloseQueue, QueueUse
  <2>2. CASE StartCamera \/ StartFails \/ TestLoop \/ Recover \/ Wake
    BY <2>2 DEF StartCamera, StartFails, TestLoop, ContinueUnless, Recover, Wake, WakeTo,
       QueueUse
  <2>3. CASE ConnectSucceeds \/ ConnectFails \/ SendAnswered \/ SendFails
    BY <2>3 DEF ConnectSucceeds, ConnectFails, SendAnswered, SendFails, QueueUse
  <2>4. CASE DisconnectSocket \/ StopCamera \/ Finish
    BY <2>4 DEF DisconnectSocket, StopCamera, Finish, ReturnWith, QueueUse
  <2> QED
    BY <1>1, <2>1, <2>2, <2>3, <2>4 DEF MainThread
<1>2. CASE Capture
  <2>1. CASE OnFrame
    BY <2>1 DEF OnFrame, QueueUse
  <2>2. CASE CaptureFails
    BY <2>2 DEF CaptureFails, OnError, QueueUse
  <2>3. CASE CaptureSteps
    BY <2>3 DEF CaptureSteps, QueueUse
  <2> QED
    BY <1>2, <2>1, <2>2, <2>3 DEF Capture
<1>3. CASE ChildSteps \/ SendSignal \/ HandleSignal
  BY <1>3 DEF ChildSteps, SendSignal, HandleSignal, QueueUse
<1>4. CASE UNCHANGED vars
  BY <1>4 DEF vars, queue, QueueUse
<1> QED
  BY <1>1, <1>2, <1>3, <1>4 DEF Next

\* Every step of the client is a step of its queue or leaves it alone.
LEMMA QueueStep ==
  [Next]_vars => /\ [Queue!Next]_(Queue!vars)
                 /\ [QueueProofs!Next]_(QueueProofs!vars)
<1> SUFFICES ASSUME [Next]_vars
             PROVE  /\ [Queue!Next]_(Queue!vars)
                    /\ [QueueProofs!Next]_(QueueProofs!vars)
  OBVIOUS
<1>1. CASE Pop
  BY <1>1, SameQueue DEF Pop, Queue!Next, QueueProofs!Next
<1>2. CASE Queue!Push \/ Queue!Close
  BY <1>2, SameQueue DEF Queue!Next, QueueProofs!Next
<1>3. CASE UNCHANGED queue
  BY <1>3 DEF queue, Queue!vars, QueueProofs!vars
<1> QED
  BY <1>1, <1>2, <1>3, QueueUsed DEF QueueUse

\* Camera and CameraProofs are instances of the same module.
LEMMA SameCamera ==
  /\ Camera!TypeOK <=> CameraProofs!TypeOK
  /\ Camera!Init <=> CameraProofs!Init
  /\ Camera!Start <=> CameraProofs!Start
  /\ Camera!RequestStop <=> CameraProofs!RequestStop
  /\ Camera!StopKill <=> CameraProofs!StopKill
  /\ Camera!Join <=> CameraProofs!Join
  /\ Camera!OpenPipe <=> CameraProofs!OpenPipe
  /\ Camera!PipeFails <=> CameraProofs!PipeFails
  /\ Camera!Fork <=> CameraProofs!Fork
  /\ Camera!ForkFails <=> CameraProofs!ForkFails
  /\ Camera!PublishPid <=> CameraProofs!PublishPid
  /\ Camera!TestStop <=> CameraProofs!TestStop
  /\ Camera!ReadChunk <=> CameraProofs!ReadChunk
  /\ Camera!ReadEof <=> CameraProofs!ReadEof
  /\ Camera!ReadInterrupted <=> CameraProofs!ReadInterrupted
  /\ Camera!ReadFails <=> CameraProofs!ReadFails
  /\ Camera!EmitFrame <=> CameraProofs!EmitFrame
  /\ Camera!ParseDone <=> CameraProofs!ParseDone
  /\ Camera!ParseOversized <=> CameraProofs!ParseOversized
  /\ Camera!CloseRead <=> CameraProofs!CloseRead
  /\ Camera!SelfKill <=> CameraProofs!SelfKill
  /\ Camera!WaitChild <=> CameraProofs!WaitChild
  /\ Camera!ClearPid <=> CameraProofs!ClearPid
  /\ Camera!ChildExecs(1) <=> CameraProofs!ChildExecs(1)
  /\ Camera!ChildWrites(1) <=> CameraProofs!ChildWrites(1)
  /\ Camera!ChildLosesReader(1) <=> CameraProofs!ChildLosesReader(1)
  /\ Camera!ChildTerminated(1) <=> CameraProofs!ChildTerminated(1)
  /\ Camera!ChildExits(1) <=> CameraProofs!ChildExits(1)
  /\ Camera!SignalGroup(1) <=> CameraProofs!SignalGroup(1)
<1>1. \A n : Camera!Lives(n) <=> CameraProofs!Lives(n)
  BY DEF Camera!Lives, CameraProofs!Lives
<1>2. \A n : Camera!Kill(n) <=> CameraProofs!Kill(n)
  BY DEF Camera!Kill, CameraProofs!Kill
<1>3. \A place : Camera!Goto(place) <=> CameraProofs!Goto(place)
  BY DEF Camera!Goto, CameraProofs!Goto
<1>4. Camera!kernel = CameraProofs!kernel
  BY DEF Camera!kernel, CameraProofs!kernel
<1>5. /\ Camera!Start <=> CameraProofs!Start
      /\ Camera!RequestStop <=> CameraProofs!RequestStop
      /\ Camera!StopKill <=> CameraProofs!StopKill
      /\ Camera!Join <=> CameraProofs!Join
  BY <1>2 DEF Camera!Start, CameraProofs!Start,
     Camera!RequestStop, CameraProofs!RequestStop,
     Camera!StopKill, CameraProofs!StopKill,
     Camera!Join, CameraProofs!Join,
     Camera!kernel, CameraProofs!kernel
<1>6. /\ Camera!OpenPipe <=> CameraProofs!OpenPipe
      /\ Camera!PipeFails <=> CameraProofs!PipeFails
      /\ Camera!Fork <=> CameraProofs!Fork
      /\ Camera!ForkFails <=> CameraProofs!ForkFails
      /\ Camera!PublishPid <=> CameraProofs!PublishPid
  BY DEF Camera!OpenPipe, CameraProofs!OpenPipe,
     Camera!PipeFails, CameraProofs!PipeFails,
     Camera!Fork, CameraProofs!Fork,
     Camera!ForkFails, CameraProofs!ForkFails,
     Camera!PublishPid, CameraProofs!PublishPid,
     Camera!kernel, CameraProofs!kernel
<1>7. /\ Camera!TestStop <=> CameraProofs!TestStop
      /\ Camera!ReadChunk <=> CameraProofs!ReadChunk
      /\ Camera!ReadInterrupted <=> CameraProofs!ReadInterrupted
      /\ Camera!ReadFails <=> CameraProofs!ReadFails
  BY <1>3 DEF Camera!TestStop, CameraProofs!TestStop,
     Camera!ReadChunk, CameraProofs!ReadChunk,
     Camera!ReadInterrupted, CameraProofs!ReadInterrupted,
     Camera!ReadFails, CameraProofs!ReadFails
<1>8. /\ Camera!ReadEof <=> CameraProofs!ReadEof
      /\ Camera!EmitFrame <=> CameraProofs!EmitFrame
      /\ Camera!ParseDone <=> CameraProofs!ParseDone
      /\ Camera!ParseOversized <=> CameraProofs!ParseOversized
  BY <1>3, <1>1 DEF Camera!ReadEof, CameraProofs!ReadEof,
     Camera!EmitFrame, CameraProofs!EmitFrame,
     Camera!ParseDone, CameraProofs!ParseDone,
     Camera!ParseOversized, CameraProofs!ParseOversized
<1>9. /\ Camera!CloseRead <=> CameraProofs!CloseRead
      /\ Camera!SelfKill <=> CameraProofs!SelfKill
      /\ Camera!WaitChild <=> CameraProofs!WaitChild
      /\ Camera!ClearPid <=> CameraProofs!ClearPid
  BY <1>2 DEF Camera!CloseRead, CameraProofs!CloseRead,
     Camera!SelfKill, CameraProofs!SelfKill,
     Camera!WaitChild, CameraProofs!WaitChild,
     Camera!ClearPid, CameraProofs!ClearPid,
     Camera!kernel, CameraProofs!kernel
<1>10. /\ Camera!ChildExecs(1) <=> CameraProofs!ChildExecs(1)
       /\ Camera!ChildWrites(1) <=> CameraProofs!ChildWrites(1)
       /\ Camera!ChildLosesReader(1) <=> CameraProofs!ChildLosesReader(1)
       /\ Camera!ChildTerminated(1) <=> CameraProofs!ChildTerminated(1)
       /\ Camera!ChildExits(1) <=> CameraProofs!ChildExits(1)
       /\ Camera!SignalGroup(1) <=> CameraProofs!SignalGroup(1)
  BY <1>1, <1>2 DEF Camera!ChildExecs, CameraProofs!ChildExecs,
     Camera!ChildWrites, CameraProofs!ChildWrites,
     Camera!ChildLosesReader, CameraProofs!ChildLosesReader,
     Camera!ChildTerminated, CameraProofs!ChildTerminated,
     Camera!ChildExits, CameraProofs!ChildExits,
     Camera!SignalGroup, CameraProofs!SignalGroup,
     Camera!SetProc, CameraProofs!SetProc
<1>11. Camera!Init <=> CameraProofs!Init
  BY DEF Camera!Init, CameraProofs!Init, Camera!Pid, CameraProofs!Pid
<1>12. Camera!TypeOK <=> CameraProofs!TypeOK
  BY DEF Camera!TypeOK, CameraProofs!TypeOK, Camera!Pid, CameraProofs!Pid,
     Camera!Reports, CameraProofs!Reports,
     Camera!Owner, CameraProofs!Owner, Camera!PC, CameraProofs!PC
<1> QED
  BY <1>5, <1>6, <1>7, <1>8, <1>9, <1>10, <1>11, <1>12

\* What a step of the client does with the camera.
CameraUse ==
  \/ StartCamera /\ Camera!Start
  \/ StopCamera /\ (Camera!RequestStop \/ Camera!StopKill)
  \/ Finish /\ Camera!Join
  \/ Capture /\ Camera!Capture
  \/ ChildSteps
  \/ SendSignal /\ Camera!SignalGroup(1)
  \/ UNCHANGED camera

\* A step of the client starts, stops or joins the capture, is a step of the
\* capture thread or of the child, or leaves the camera alone.
LEMMA CameraUsed == ASSUME [Next]_vars PROVE CameraUse
<1>1. CASE MainThread
  <2>1. CASE StartCamera \/ StopCamera \/ Finish
    BY <2>1 DEF StartCamera, StopCamera, Finish, CameraUse
  <2>2. CASE StartFails \/ TestLoop \/ Recover \/ Wake
    BY <2>2 DEF StartFails, TestLoop, ContinueUnless, Recover, Wake, WakeTo, Goto, CameraUse
  <2>3. CASE ConnectSucceeds \/ ConnectFails \/ SendAnswered \/ SendFails
    BY <2>3 DEF ConnectSucceeds, ConnectFails, SendAnswered, SendFails, Goto, CameraUse
  <2>4. CASE Pop \/ CloseQueue \/ DisconnectSocket
    BY <2>4 DEF Pop, CloseQueue, DisconnectSocket, Goto, CameraUse
  <2> QED
    BY <1>1, <2>1, <2>2, <2>3, <2>4 DEF MainThread
<1>2. CASE Capture
  BY <1>2 DEF Capture, OnFrame, CaptureFails, CaptureSteps, Camera!Capture, CameraUse
<1>3. CASE ChildSteps
  BY <1>3 DEF CameraUse
<1>4. CASE SendSignal \/ HandleSignal
  BY <1>4 DEF SendSignal, HandleSignal, CameraUse
<1>5. CASE UNCHANGED vars
  BY <1>5 DEF vars, camera, CameraUse
<1> QED
  BY <1>1, <1>2, <1>3, <1>4, <1>5 DEF Next

\* Every step of the client is a step of its camera or leaves it alone.
LEMMA CameraStep ==
  [Next]_vars => /\ [Camera!Next]_(Camera!vars)
                 /\ [CameraProofs!Next]_(CameraProofs!vars)
<1> SUFFICES ASSUME [Next]_vars
             PROVE  /\ [Camera!Next]_(Camera!vars)
                    /\ [CameraProofs!Next]_(CameraProofs!vars)
  OBVIOUS
<1>1. CASE Camera!Start \/ Camera!RequestStop \/ Camera!StopKill \/ Camera!Join
  BY <1>1, SameCamera DEF Camera!Next, CameraProofs!Next
<1>2. CASE Camera!Capture
  <2>1. CameraProofs!Capture
    BY <1>2, SameCamera DEF Camera!Capture, CameraProofs!Capture
  <2> QED
    BY <1>2, <2>1 DEF Camera!Next, CameraProofs!Next
<1>3. CASE ChildSteps \/ Camera!SignalGroup(1)
  <2>1. 1 \in Camera!Pid /\ 1 \in CameraProofs!Pid
    BY DEF Camera!Pid, CameraProofs!Pid
  <2> QED
    BY <1>3, <2>1, SameCamera DEF ChildSteps, Camera!Next, CameraProofs!Next
<1>4. CASE UNCHANGED camera
  BY <1>4 DEF camera, Camera!vars, CameraProofs!vars
<1> QED
  BY <1>1, <1>2, <1>3, <1>4, CameraUsed DEF CameraUse

\* What is proved about the queue alone holds of the client's queue.
LEMMA QueueInvariant == Spec => []QueueProofs!IInv
<1>1. Init => QueueProofs!IInv
  BY PartsHold, SameQueue, QueueProofs!InitIInv DEF Init
<1>2. QueueProofs!IInv /\ [Next]_vars => QueueProofs!IInv'
  BY PartsHold, QueueStep, QueueProofs!NextIInv
<1> QED
  BY <1>1, <1>2, PTL DEF Spec

\* What is proved about the capture alone holds of the client's camera.
LEMMA CameraInvariant == Spec => []CameraProofs!IInv
<1>1. Init => CameraProofs!IInv
  BY PartsHold, SameCamera, CameraProofs!InitIInv DEF Init
<1>2. CameraProofs!IInv /\ [Next]_vars => CameraProofs!IInv'
  BY PartsHold, CameraStep, CameraProofs!NextIInv
<1> QED
  BY <1>1, <1>2, PTL DEF Spec

-----------------------------------------------------------------------------
(* The inductive invariant of the main thread *)

\* TypeOK without the parts and without the flag, which the provers treat apart.
MainTypes ==
  /\ pc \in PC
  /\ signalled \in {"no", "sent", "set"}
  /\ socket \in {"none", "open", "refused"}
  /\ backoff \in 1 .. BackoffCap
  /\ lastSent \in 0 .. MaxFrames
  /\ outage \in 0 .. BackoffCap
  /\ futile \in 0 .. 2
  /\ exit \in {-1, 0, 2}

\* The camera is owned from its start to the end of camera.stop().
Ownership ==
  /\ pc = "start" => starts = 0
  /\ pc \in {"start", "returned"} => owner = "idle"
  /\ pc \in {"loop", "connect", "pop", "send", "recover", "sleep",
             "close", "disconnect"} => owner = "started"
  /\ pc = "stop" => owner # "idle"

\* The connection is opened after the start and closed before camera.stop().
Connection == pc \in {"start", "stop", "returned"} => socket = "none"

\* Whoever left the loop saw the signal flag or a failure, which stay.
Result ==
  /\ exit = 0 => signalled = "set" /\ ~cameraFailed
  /\ exit = 2 => cameraFailed \/ starts = 0

Reason ==
  /\ exit = -1 <=> pc # "returned"
  /\ pc \in {"close", "disconnect", "stop"} => signalled = "set" \/ cameraFailed
  /\ Result

\* A frame at hand has not been sent yet.
Sends ==
  /\ lastSent <= lastPopped
  /\ pc = "send" => lastSent < lastPopped

\* The next wait after so many failures; one of them is being waited for.
Waits ==
  backoff = IF pc \in {"recover", "sleep"}
              THEN Smaller(Doubled[outage - 1], BackoffCap)
              ELSE Smaller(Doubled[outage], BackoffCap)

Failing == pc \in {"recover", "sleep"} => outage > 0

Flag == cameraFailed \in BOOLEAN

MainInv ==
  Flag /\ MainTypes /\ Ownership /\ Connection /\ Reason /\ Sends /\ Waits /\ Failing

\* The initial state.
LEMMA MainInitial == Init => MainInv
<1> SUFFICES ASSUME Init PROVE MainInv
  OBVIOUS
<1> USE ApplicationAssumption DEF Init
<1>0. Flag
  BY Zenon DEF Flag
<1>1. MainTypes
  BY DEF MainTypes, PC
<1>2. Ownership /\ Connection
  BY DEF Ownership, Connection, Camera!Init
<1>3. Reason
  BY DEF Reason, Result
<1>4. Sends
  BY DEF Sends, Queue!Init
<1>5. Waits /\ Failing
  BY DoubledFacts DEF Waits, Failing, Smaller
<1> QED
  BY <1>0, <1>1, <1>2, <1>3, <1>4, <1>5 DEF MainInv

\* The number of the frame popped last only grows, and only in pop_for.
LEMMA PoppedGrows ==
  ASSUME QueueProofs!IInv, [Next]_vars
  PROVE  /\ lastPopped \in 0 .. MaxFrames /\ lastPopped' \in 0 .. MaxFrames
         /\ lastPopped' >= lastPopped
         /\ pc # "pop" => lastPopped' = lastPopped
<1> USE DEF QueueProofs!IInv
<1>1. QueueProofs!TypeOK'
  BY PartsHold, QueueStep, QueueProofs!NextIInv
<1>2. lastPopped \in 0 .. MaxFrames /\ lastPopped' \in 0 .. MaxFrames
  BY <1>1 DEF QueueProofs!TypeOK
<1>3. CASE Queue!Push \/ Queue!Close \/ UNCHANGED queue
  BY <1>2, <1>3 DEF Queue!Push, Queue!PushRefused, Queue!PushStored, Queue!Store,
     Queue!Close, Queue!Shut, queue
<1>4. CASE pc = "pop" /\ Pop
  <2>1. lastPopped' = lastPopped \/ (latest # NoFrame /\ lastPopped' = latest)
    <3>1. CASE Queue!Return(Main)
      BY <3>1 DEF Queue!Return, Queue!Leave
    <3>2. CASE \E place : Queue!Become(Main, place)
      BY <3>2 DEF Queue!Become
    <3> QED
      BY <1>4, <3>1, <3>2 DEF Pop, Queue!PopFor, Queue!Recheck, Queue!TimedOutReturn,
         Queue!Timeout, Queue!Look
  <2>2. latest # NoFrame => latest > lastPopped
    BY <1>2, PartsHold DEF QueueProofs!SlotInv, QueueProofs!TypeOK
  <2> QED
    BY <1>2, <1>4, <2>1, <2>2
<1> QED
  BY <1>2, <1>3, <1>4, QueueUsed DEF QueueUse

\* A capture failure is never forgotten.
LEMMA FlagStep ==
  ASSUME Flag, [Next]_vars
  PROVE  Flag' /\ (cameraFailed => cameraFailed')
<1>1. CASE UNCHANGED cameraFailed
  BY <1>1, Zenon DEF Flag
<1>2. CASE cameraFailed' = TRUE
  BY <1>2, Zenon DEF Flag
<1>3. CASE MainThread
  <2>1. CASE StartCamera \/ StartFails \/ TestLoop \/ Recover \/ Wake
    BY <1>1, <2>1, Zenon DEF StartCamera, StartFails, TestLoop, ContinueUnless, Recover,
       Wake, WakeTo, Goto
  <2>2. CASE ConnectSucceeds \/ ConnectFails \/ Pop \/ SendAnswered \/ SendFails
    BY <1>1, <2>2, Zenon DEF ConnectSucceeds, ConnectFails, Pop, SendAnswered, SendFails,
       Goto
  <2>3. CASE CloseQueue \/ DisconnectSocket \/ StopCamera \/ Finish
    BY <1>1, <2>3, Zenon DEF CloseQueue, DisconnectSocket, StopCamera, Finish, ReturnWith,
       Goto
  <2> QED
    BY <1>3, <2>1, <2>2, <2>3, Zenon DEF MainThread
<1>4. CASE Capture
  <2>1. CASE CaptureFails
    BY <1>1, <1>2, <2>1, Zenon DEF CaptureFails, OnError
  <2>2. CASE OnFrame \/ CaptureSteps
    BY <1>1, <2>2, Zenon DEF OnFrame, CaptureSteps
  <2> QED
    BY <1>4, <2>1, <2>2, Zenon DEF Capture
<1>5. CASE ChildSteps \/ SendSignal \/ HandleSignal
  BY <1>1, <1>5, Zenon DEF ChildSteps, SendSignal, HandleSignal, other
<1>6. CASE UNCHANGED vars
  BY <1>1, <1>6, Zenon DEF vars
<1> QED
  BY <1>3, <1>4, <1>5, <1>6, Zenon DEF Next

\* The capture thread, the child and a signal leave start and stop alone.
LEMMA OwnerKept ==
  ASSUME Camera!Capture \/ ChildSteps \/ Camera!SignalGroup(1) \/ UNCHANGED camera
  PROVE  UNCHANGED <<owner, starts>>
<1>1. CASE Camera!Capture
  BY <1>1 DEF Camera!Capture, Camera!OpenPipe, Camera!PipeFails, Camera!Fork,
     Camera!ForkFails, Camera!PublishPid, Camera!TestStop, Camera!ReadChunk,
     Camera!ReadEof, Camera!ReadInterrupted, Camera!ReadFails, Camera!EmitFrame,
     Camera!ParseDone, Camera!ParseOversized, Camera!CloseRead, Camera!SelfKill,
     Camera!WaitChild, Camera!ClearPid, Camera!Goto
<1>2. CASE ChildSteps \/ Camera!SignalGroup(1)
  BY <1>2 DEF ChildSteps, Camera!ChildExecs, Camera!ChildWrites, Camera!ChildLosesReader,
     Camera!ChildTerminated, Camera!ChildExits, Camera!SetProc, Camera!SignalGroup
<1>3. CASE UNCHANGED camera
  BY <1>3 DEF camera
<1> QED
  BY <1>1, <1>2, <1>3

\* A step that leaves the main thread where it is keeps its invariant, unless
\* it gives run's result or a failure comes after it.
LEMMA QuietStep ==
  ASSUME QueueProofs!IInv, MainInv, [Next]_vars,
         UNCHANGED <<pc, network, exit, owner, starts>>,
         signalled' \in {signalled, "sent", "set"},
         signalled = "set" => signalled' = "set",
         pc = "returned" => UNCHANGED cameraFailed
  PROVE  MainInv'
<1> USE DEF network
<1>1. Flag' /\ (cameraFailed => cameraFailed')
  BY FlagStep DEF MainInv
<1>2. MainTypes'
  BY DEF MainInv, MainTypes
<1>3. Ownership' /\ Connection' /\ Waits' /\ Failing'
  BY DEF MainInv, Ownership, Connection, Waits, Failing
<1>4. Reason'
  BY <1>1 DEF MainInv, Reason, Result
<1>5. Sends'
  BY PoppedGrows, PartsHold DEF MainInv, MainTypes, Sends
<1> QED
  BY <1>1, <1>2, <1>3, <1>4, <1>5 DEF MainInv

\* The capture thread fails only while its object is owned.
LEMMA NoLateFailure ==
  ASSUME CameraProofs!IInv, Ownership, CaptureFails
  PROVE  pc # "returned"
<1>1. capturePc \in {"pipe", "fork", "read", "parse"}
  BY DEF CaptureFails, Camera!PipeFails, Camera!ForkFails, Camera!ReadFails,
     Camera!ParseOversized, Camera!ReadEof
<1>2. owner # "idle"
  BY <1>1 DEF CameraProofs!IInv, CameraProofs!PlaceInv, CameraProofs!ThreadInv
<1> QED
  BY <1>2 DEF Ownership

\* The steps of the network: connect, send_frame, and the wait between two.
LEMMA NetworkStep ==
  ASSUME QueueProofs!IInv, MainInv, [Next]_vars,
         ConnectSucceeds \/ ConnectFails \/ SendAnswered \/ SendFails \/ Recover \/ Wake
  PROVE  MainInv'
<1> USE DEF Goto, camera
<1>1. Flag' /\ (cameraFailed => cameraFailed')
  BY FlagStep DEF MainInv
<1>2. /\ lastPopped \in 0 .. MaxFrames /\ lastPopped' = lastPopped
      /\ MaxFrames \in Nat /\ BackoffCap \in Nat \ {0}
  BY PoppedGrows, ApplicationAssumption DEF ConnectSucceeds, ConnectFails, SendAnswered,
     SendFails, Recover, Wake, WakeTo
<1>3. /\ pc \in {"connect", "send", "recover", "sleep"}
      /\ pc' \in {"pop", "loop", "recover", "sleep"}
      /\ UNCHANGED <<owner, starts, signalled, exit>> /\ (cameraFailed' <=> cameraFailed)
  BY DEF ConnectSucceeds, ConnectFails, SendAnswered, SendFails, Recover, Wake, WakeTo
<1>4. Ownership' /\ Connection'
  BY <1>3 DEF MainInv, Ownership, Connection
<1>5. Reason'
  BY <1>3 DEF MainInv, Reason, Result
<1>6. Sends'
  BY <1>2 DEF MainInv, MainTypes, Sends, ConnectSucceeds, ConnectFails, SendAnswered,
     SendFails, Recover, Wake, WakeTo
<1>7. MainTypes'
  BY <1>2 DEF MainInv, MainTypes, PC, ConnectSucceeds, ConnectFails, SendAnswered,
     SendFails, Recover, Wake, WakeTo, CountFailure, Smaller
<1>8. Waits' /\ Failing'
  <2>1. /\ outage \in 0 .. BackoffCap /\ (pc \in {"recover", "sleep"} => outage > 0)
        /\ Waits
    BY DEF MainInv, MainTypes, Failing
  <2>2. CASE ConnectSucceeds
    BY <1>2, <2>2, DoubledFacts DEF ConnectSucceeds, Waits, Failing, Smaller
  <2>3. CASE ConnectFails \/ SendFails
    <3>1. pc' = "recover" /\ pc \in {"connect", "send"} /\ backoff' = backoff
      BY <2>3 DEF ConnectFails, SendFails
    <3>2. outage' = Smaller(outage + 1, BackoffCap)
      BY <2>3 DEF ConnectFails, SendFails, CountFailure
    <3>3. CASE outage < BackoffCap
      <4>1. outage' = outage + 1 /\ (outage + 1) - 1 = outage
        BY <1>2, <2>1, <3>2, <3>3 DEF Smaller
      <4> QED
        BY <2>1, <3>1, <4>1 DEF Waits, Failing
    <3>4. CASE outage = BackoffCap
      <4>1. outage' = BackoffCap
        BY <1>2, <3>2, <3>4 DEF Smaller
      <4>2. BackoffCap - 1 \in Nat /\ (BackoffCap - 1) + 1 = BackoffCap
        BY <1>2
      <4>3. /\ Doubled[BackoffCap - 1] \in Nat /\ Doubled[BackoffCap - 1] >= BackoffCap
            /\ Doubled[BackoffCap] \in Nat /\ Doubled[BackoffCap] >= BackoffCap
        BY <1>2, <4>2, DoubledFacts, DoubledGrows
      <4>4. backoff = BackoffCap
        BY <1>2, <2>1, <3>1, <3>4, <4>3 DEF Waits, Smaller
      <4> QED
        BY <1>2, <3>1, <4>1, <4>3, <4>4 DEF Waits, Failing, Smaller
    <3> QED
      BY <1>2, <2>1, <3>3, <3>4
  <2>4. CASE SendAnswered \/ Recover
    BY <1>2, <2>1, <2>4 DEF SendAnswered, Recover, Waits, Failing
  <2>5. CASE Wake
    <3>1. /\ pc = "sleep" /\ pc' = "loop" /\ outage' = outage
          /\ backoff' = Smaller(backoff * 2, BackoffCap)
      BY <2>5 DEF Wake, WakeTo
    <3>2. outage - 1 \in Nat /\ (outage - 1) + 1 = outage
      BY <1>2, <2>1, <3>1
    <3>3. Doubled[outage - 1] \in Nat /\ Doubled[outage] = 2 * Doubled[outage - 1]
      BY <3>2, DoubledFacts
    <3>4. backoff = Smaller(Doubled[outage - 1], BackoffCap)
      BY <2>1, <3>1 DEF Waits
    <3>5. backoff' = Smaller(Doubled[outage], BackoffCap)
      BY <1>2, <3>1, <3>3, <3>4 DEF Smaller
    <3> QED
      BY <3>1, <3>5 DEF Waits, Failing
  <2> QED
    BY <2>2, <2>3, <2>4, <2>5
<1> QED
  BY <1>1, <1>4, <1>5, <1>6, <1>7, <1>8 DEF MainInv

\* The steps of the start, of the loop's condition and of pop_for.
LEMMA LoopStep ==
  ASSUME QueueProofs!IInv, MainInv, [Next]_vars,
         StartCamera \/ StartFails \/ TestLoop \/ Pop
  PROVE  MainInv'
<1> USE DEF MainInv
<1>1. Flag' /\ (cameraFailed => cameraFailed')
  BY FlagStep
<1>2. /\ lastPopped \in 0 .. MaxFrames /\ lastPopped' \in 0 .. MaxFrames
      /\ lastPopped' >= lastPopped /\ (pc # "pop" => lastPopped' = lastPopped)
  BY PoppedGrows
<1>3. UNCHANGED <<signalled, network>> /\ (cameraFailed' <=> cameraFailed)
  BY DEF StartCamera, StartFails, TestLoop, ContinueUnless, Goto, Pop
<1>4. CASE StartCamera
  <2>1. pc = "start" /\ pc' = "loop" /\ owner' = "started" /\ exit' = exit
    BY <1>4 DEF StartCamera, Camera!Start
  <2> QED
    BY <1>1, <1>2, <1>3, <2>1 DEF MainTypes, PC, Ownership, Connection, Reason,
       Result, Sends, Waits, Failing, network
<1>5. CASE StartFails
  <2>1. pc = "start" /\ pc' = "returned" /\ UNCHANGED <<owner, starts>> /\ exit' = 2
    BY <1>5 DEF StartFails, camera
  <2> QED
    BY <1>1, <1>2, <1>3, <2>1 DEF MainTypes, PC, Ownership, Connection, Reason,
       Result, Sends, Waits, Failing, network
<1>6. CASE TestLoop
  <2>1. /\ pc = "loop" /\ pc' \in {"close", "connect", "pop"}
        /\ pc' = "close" => signalled = "set" \/ cameraFailed
        /\ UNCHANGED <<owner, starts, exit>>
    BY <1>6 DEF TestLoop, ContinueUnless, Goto, camera
  <2> QED
    BY <1>1, <1>2, <1>3, <2>1 DEF MainTypes, PC, Ownership, Connection, Reason,
       Result, Sends, Waits, Failing, network
<1>7. CASE Pop
  <2>1. /\ pc = "pop" /\ pc' \in {"pop", "send", "loop"}
        /\ pc' = "send" => lastPopped' # lastPopped
        /\ UNCHANGED <<owner, starts, exit>>
    BY <1>7 DEF Pop, AfterPop, camera
  <2>2. pc' = "send" => lastPopped' > lastPopped
    BY <1>2, <2>1
  <2> QED
    BY <1>1, <1>2, <1>3, <2>1, <2>2 DEF MainTypes, PC, Ownership, Connection, Reason,
       Result, Sends, Waits, Failing, network
<1> QED
  BY <1>4, <1>5, <1>6, <1>7

\* The steps of the cleanup.
LEMMA CleanupStep ==
  ASSUME QueueProofs!IInv, MainInv, [Next]_vars,
         CloseQueue \/ DisconnectSocket \/ StopCamera \/ Finish
  PROVE  MainInv'
<1> USE DEF MainInv
<1>1. Flag' /\ (cameraFailed => cameraFailed')
  BY FlagStep
<1>2. lastPopped \in 0 .. MaxFrames /\ lastPopped' = lastPopped
  BY PoppedGrows DEF CloseQueue, DisconnectSocket, StopCamera, Finish, ReturnWith
<1>3. UNCHANGED <<signalled, backoff, lastSent, outage, futile>>
  BY DEF CloseQueue, DisconnectSocket, StopCamera, Finish, ReturnWith, Goto, network
<1>4. CASE CloseQueue
  <2>1. pc = "close" /\ pc' = "disconnect" /\ UNCHANGED <<owner, starts, exit, socket>>
    BY <1>4 DEF CloseQueue, Goto, camera, network
  <2> QED
    BY <1>1, <1>2, <1>3, <2>1 DEF MainTypes, PC, Ownership, Connection, Reason,
       Result, Sends, Waits, Failing
<1>5. CASE DisconnectSocket
  <2>1. /\ pc = "disconnect" /\ pc' = "stop" /\ socket' = "none"
        /\ UNCHANGED <<owner, starts, exit>>
    BY <1>5 DEF DisconnectSocket, Goto, camera
  <2> QED
    BY <1>1, <1>2, <1>3, <2>1 DEF MainTypes, PC, Ownership, Connection, Reason,
       Result, Sends, Waits, Failing
<1>6. CASE StopCamera
  <2>1. /\ pc = "stop" /\ UNCHANGED <<pc, starts, exit, socket>>
        /\ owner' \in {"stopping", "joining"}
    <3>1. Camera!RequestStop \/ Camera!StopKill
      BY <1>6 DEF StopCamera
    <3>2. owner' \in {"stopping", "joining"} /\ starts' = starts
      BY <3>1 DEF Camera!RequestStop, Camera!StopKill
    <3>3. owner \in {"started", "stopping"}
      BY <3>1 DEF Camera!RequestStop, Camera!StopKill
    <3> QED
      BY <1>6, <3>2, <3>3 DEF StopCamera, network
  <2> QED
    BY <1>1, <1>2, <1>3, <2>1 DEF MainTypes, PC, Ownership, Connection, Reason,
       Result, Sends, Waits, Failing
<1>7. CASE Finish
  <2>1. /\ pc = "stop" /\ pc' = "returned" /\ socket' = socket
        /\ exit' = (IF cameraFailed THEN 2 ELSE 0) /\ (cameraFailed' <=> cameraFailed)
        /\ owner' = "idle"
    BY <1>7 DEF Finish, ReturnWith, Camera!Join, network
  <2> QED
    BY <1>1, <1>2, <1>3, <2>1 DEF MainTypes, PC, Ownership, Connection, Reason,
       Result, Sends, Waits, Failing
<1> QED
  BY <1>4, <1>5, <1>6, <1>7

\* Every step keeps the main thread's invariant.
LEMMA MainStep ==
  QueueProofs!IInv /\ CameraProofs!IInv /\ MainInv /\ [Next]_vars => MainInv'
<1> SUFFICES ASSUME QueueProofs!IInv, CameraProofs!IInv, MainInv, [Next]_vars
             PROVE  MainInv'
  OBVIOUS
<1>1. CASE MainThread
  BY <1>1, LoopStep, NetworkStep, CleanupStep DEF MainThread
<1>2. CASE Capture
  <2>1. UNCHANGED <<pc, signalled, network, exit>>
    BY <1>2 DEF Capture, OnFrame, CaptureFails, CaptureSteps, main
  <2>2. UNCHANGED <<owner, starts>>
    <3>1. Camera!Capture
      BY <1>2 DEF Capture, OnFrame, CaptureFails, CaptureSteps, Camera!Capture
    <3> QED
      BY <3>1, OwnerKept
  <2>3. pc = "returned" => UNCHANGED cameraFailed
    <3>1. CASE CaptureFails
      BY <3>1, NoLateFailure DEF MainInv
    <3>2. CASE OnFrame \/ CaptureSteps
      BY <3>2 DEF OnFrame, CaptureSteps
    <3> QED
      BY <1>2, <3>1, <3>2 DEF Capture
  <2> QED
    BY <2>1, <2>2, <2>3, QuietStep
<1>3. CASE ChildSteps
  <2>1. UNCHANGED <<pc, signalled, network, exit, cameraFailed>>
    BY <1>3 DEF ChildSteps, main
  <2> QED
    BY <1>3, <2>1, OwnerKept, QuietStep
<1>4. CASE SendSignal \/ HandleSignal
  <2>1. UNCHANGED <<pc, network, exit, cameraFailed>>
    BY <1>4 DEF SendSignal, HandleSignal, other
  <2>2. signalled \in {"no", "sent"} /\ signalled' \in {"sent", "set"}
    BY <1>4 DEF SendSignal, HandleSignal
  <2>3. UNCHANGED <<owner, starts>>
    BY <1>4, OwnerKept DEF SendSignal, HandleSignal
  <2> QED
    BY <2>1, <2>2, <2>3, QuietStep
<1>5. CASE UNCHANGED vars
  <2>1. UNCHANGED <<pc, signalled, network, exit, cameraFailed, owner, starts>>
    BY <1>5 DEF vars, network
  <2> QED
    BY <2>1, QuietStep
<1> QED
  BY <1>1, <1>2, <1>3, <1>4, <1>5 DEF Next

\* The flag and what the capture has reported agree, until a signal makes
\* on_error look away; before the start there is neither.
Blame ==
  /\ cameraFailed => reported # "nothing"
  /\ reported # "nothing" /\ signalled # "set" => cameraFailed
  /\ starts = 0 => ~cameraFailed

\* A step that calls neither start nor on_error.
LEMMA BlameAlone ==
  ASSUME Blame, UNCHANGED <<cameraFailed, reported, starts>>,
         signalled = "set" => signalled' = "set"
  PROVE  Blame'
  BY Zenon DEF Blame

\* on_error, with what is known of the capture that calls it.
LEMMA BlameFails ==
  ASSUME CameraProofs!IInv, Blame, CaptureFails
  PROVE  Blame'
<1>1. reported' \in {"end", "overflow"}
  BY DEF CaptureFails, Camera!PipeFails, Camera!ForkFails, Camera!ReadFails,
     Camera!ParseOversized, Camera!ReadEof
<1>2. signalled' = signalled
  BY DEF CaptureFails, main
<1>3. starts' = starts /\ starts # 0
  <2>1. Camera!Capture
    BY DEF CaptureFails, Camera!Capture
  <2>2. capturePc # "none"
    BY DEF CaptureFails, Camera!PipeFails, Camera!ForkFails, Camera!ReadFails,
       Camera!ParseOversized, Camera!ReadEof
  <2>3. starts # 0
    BY <2>2 DEF CameraProofs!IInv, CameraProofs!PlaceInv, CameraProofs!ThreadInv
  <2> QED
    BY <2>1, <2>3, OwnerKept
<1>4. signalled # "set" => cameraFailed' = TRUE
  BY Zenon DEF CaptureFails, OnError
<1>5. reported' # "nothing"
  BY <1>1
<1> QED
  BY <1>2, <1>3, <1>4, <1>5, Zenon DEF Blame

\* Every step keeps flag and reports in agreement.
LEMMA BlameStep ==
  ASSUME CameraProofs!IInv, Blame, [Next]_vars
  PROVE  Blame'
<1>1. CASE MainThread
  <2>1. CASE StartCamera
    <3>1. starts = 0
      BY <2>1 DEF StartCamera, Camera!Start, CameraProofs!IInv, CameraProofs!PlaceInv,
         CameraProofs!Data
    <3>2. reported' = "nothing" /\ UNCHANGED <<signalled, cameraFailed>>
      BY <2>1, Zenon DEF StartCamera, Camera!Start
    <3> QED
      BY <3>1, <3>2, Zenon DEF Blame
  <2>2. CASE StartFails \/ TestLoop \/ Recover \/ Wake \/ ConnectSucceeds \/ ConnectFails
             \/ Pop \/ SendAnswered \/ SendFails \/ CloseQueue \/ DisconnectSocket
    <3>1. UNCHANGED <<cameraFailed, reported, starts, signalled>>
      BY <2>2, Zenon DEF StartFails, TestLoop, ContinueUnless, Recover, Wake, WakeTo,
         ConnectSucceeds, ConnectFails, Pop, SendAnswered, SendFails, CloseQueue,
         DisconnectSocket, Goto, camera
    <3> QED
      BY <3>1, BlameAlone
  <2>3. CASE StopCamera \/ Finish
    <3>1. UNCHANGED <<cameraFailed, reported, starts, signalled>>
      BY <2>3, Zenon DEF StopCamera, Finish, ReturnWith, Camera!RequestStop,
         Camera!StopKill, Camera!Join
    <3> QED
      BY <3>1, BlameAlone
  <2> QED
    BY <1>1, <2>1, <2>2, <2>3, Zenon DEF MainThread
<1>2. CASE Capture
  <2>1. CASE CaptureFails
    BY <2>1, BlameFails
  <2>2. CASE OnFrame \/ CaptureSteps
    <3>1. UNCHANGED <<cameraFailed, signalled>>
      BY <2>2, Zenon DEF OnFrame, CaptureSteps, main
    <3>2. Camera!Capture
      BY <2>2 DEF OnFrame, CaptureSteps, Camera!Capture
    <3>3. reported' = reported
      BY <2>2, Zenon DEF OnFrame, CaptureSteps, Camera!OpenPipe, Camera!Fork, Camera!PublishPid,
         Camera!TestStop, Camera!ReadChunk, Camera!ReadEof, Camera!ReadInterrupted,
         Camera!EmitFrame, Camera!ParseDone, Camera!CloseRead, Camera!SelfKill,
         Camera!WaitChild, Camera!ClearPid
    <3> QED
      BY <3>1, <3>2, <3>3, OwnerKept, BlameAlone
  <2> QED
    BY <1>2, <2>1, <2>2 DEF Capture
<1>3. CASE ChildSteps
  <2>1. UNCHANGED <<cameraFailed, signalled, reported>>
    BY <1>3, Zenon DEF ChildSteps, main, Camera!ChildExecs, Camera!ChildWrites,
       Camera!ChildLosesReader, Camera!ChildTerminated, Camera!ChildExits, Camera!SetProc
  <2> QED
    BY <1>3, <2>1, OwnerKept, BlameAlone
<1>4. CASE SendSignal \/ HandleSignal
  <2>1. UNCHANGED <<cameraFailed, reported>>
    BY <1>4, Zenon DEF SendSignal, HandleSignal, other, camera, Camera!SignalGroup
  <2>2. UNCHANGED starts
    BY <1>4, OwnerKept DEF SendSignal, HandleSignal
  <2>3. signalled # "set"
    BY <1>4 DEF SendSignal, HandleSignal
  <2> QED
    BY <2>1, <2>2, <2>3, BlameAlone
<1>5. CASE UNCHANGED vars
  <2>1. UNCHANGED <<cameraFailed, reported, starts, signalled>>
    BY <1>5, Zenon DEF vars
  <2> QED
    BY <2>1, BlameAlone
<1> QED
  BY <1>1, <1>2, <1>3, <1>4, <1>5, Zenon DEF Next

\* What the flag stands for, in every reachable state.
LEMMA BlameInvariant == Spec => []Blame
<1>1. Init => Blame
  <2> SUFFICES ASSUME Init PROVE Blame
    OBVIOUS
  <2>1. cameraFailed = FALSE /\ reported = "nothing"
    BY Zenon DEF Init, Camera!Init
  <2> QED
    BY <2>1, Zenon DEF Blame
<1>2. CameraProofs!IInv /\ Blame /\ [Next]_vars => Blame'
  BY BlameStep
<1> QED
  BY <1>1, <1>2, CameraInvariant, PTL DEF Spec

\* The three invariants hold together in every reachable state.
LEMMA Invariance == Spec => [](QueueProofs!IInv /\ CameraProofs!IInv /\ MainInv)
<1>1. Spec => []MainInv
  BY MainInitial, MainStep, QueueInvariant, CameraInvariant, PTL DEF Spec
<1> QED
  BY <1>1, QueueInvariant, CameraInvariant, PTL

-----------------------------------------------------------------------------
(* The theorems *)

\* Inside the client the queue is used as its module allows: a behaviour of
\* the client is one of LatestFrameQueue, so that what holds of the queue alone
\* holds of the client's (application.cpp:81, 97, 126 and 165 are its callers).
THEOREM QueueInside == Spec => Queue!Spec
<1>1. Init => Queue!Init
  BY DEF Init
<1> QED
  BY <1>1, QueueStep, PTL DEF Spec, Queue!Spec

\* And a behaviour of the client is one of CameraProcess, started once.
THEOREM CaptureInside == Spec => Camera!Spec
<1>1. Init => Camera!Init
  BY DEF Init
<1> QED
  BY <1>1, CameraStep, PTL DEF Spec, Camera!Spec

\* Every frame the capture thread completed is stored, was handed to the main
\* thread, or is counted as replaced, thrown away or refused: the client's
\* captured and replaced counters add up.
THEOREM FramesAccounted == Spec => []Queue!Conservation
<1>1. QueueProofs!IInv => Queue!Conservation
  BY DEF QueueProofs!IInv, QueueProofs!Conservation, Queue!Conservation
<1> QED
  BY <1>1, QueueInvariant, PTL

\* Every variable of the client keeps its type.
THEOREM TypeCorrect == Spec => []TypeOK
<1>1. QueueProofs!IInv => Queue!TypeOK
  BY SameQueue DEF QueueProofs!IInv
<1>2. CameraProofs!IInv => Camera!TypeOK
  <2>1. CameraProofs!IInv => CameraProofs!TypeOK
    BY Zenon DEF CameraProofs!IInv, CameraProofs!PlaceInv, CameraProofs!Data,
       CameraProofs!Flags, CameraProofs!TypeOK
  <2> QED
    BY <2>1, SameCamera
<1>3. QueueProofs!IInv /\ CameraProofs!IInv /\ MainInv => TypeOK
  BY <1>1, <1>2, Zenon DEF MainInv, MainTypes, Flag, TypeOK
<1> QED
  BY <1>3, Invariance, PTL

\* When run has returned, the capture thread is over, its child reaped, the pipe
\* and the connection closed.
THEOREM CleanReturn == Spec => []ReturnLeavesNothing
<1>1. CameraProofs!IInv /\ MainInv => ReturnLeavesNothing
  <2> SUFFICES ASSUME CameraProofs!IInv, MainInv, pc = "returned"
               PROVE  /\ capturePc \in {"none", "done"}
                      /\ proc[1] \in {"none", "reaped"}
                      /\ fds = {}
                      /\ socket = "none"
    BY DEF ReturnLeavesNothing, Camera!Lives
  <2> USE DEF CameraProofs!IInv, CameraProofs!PlaceInv
  <2>1. owner = "idle" /\ socket = "none"
    BY DEF MainInv, Ownership, Connection
  <2>2. capturePc \in {"none", "done"}
    BY <2>1 DEF CameraProofs!ThreadInv
  <2>3. proc[1] \in {"none", "reaped"}
    BY <2>2 DEF CameraProofs!ChildInv, CameraProofs!ThreadInv, CameraProofs!Data,
       CameraProofs!Pid
  <2>4. fds = {}
    BY <2>2 DEF CameraProofs!PipeInv
  <2> QED
    BY <2>1, <2>2, <2>3, <2>4
<1> QED
  BY <1>1, Invariance, PTL

\* run returns 0 only after a signal and without a capture failure, and 2 only
\* after the capture reported one, which it never overlooks before the flag is
\* set: the network never ends the client.
THEOREM ReasonedExit == Spec => []ExitHasReason
<1>1. MainInv /\ Blame => ExitHasReason
  BY Zenon DEF MainInv, Reason, Result, Blame, ExitHasReason
<1> QED
  BY <1>1, Invariance, BlameInvariant, PTL

\* The wait before a reconnect doubles with every failed connect of an outage,
\* up to the cap, however the outages follow on each other.
THEOREM BackoffLaw == Spec => []BackoffFollowsOutage
<1>1. MainInv => BackoffFollowsOutage
  BY DEF MainInv, Waits, BackoffFollowsOutage
<1> QED
  BY <1>1, Invariance, PTL

\* Frames reach send_frame in capture order and each once, whatever became of
\* the connection in between.
THEOREM FreshSends == Spec => SendsAreFresh
<1>1. QueueProofs!IInv /\ MainInv /\ [Next]_vars
        => [pc = "send" /\ pc' # "send" => lastSent' > lastSent]_vars
  <2> SUFFICES ASSUME QueueProofs!IInv, MainInv, [Next]_vars, pc = "send", pc' # "send"
               PROVE  lastSent' > lastSent
    OBVIOUS
  <2>1. SendAnswered \/ SendFails
    <3>1. CASE MainThread
      BY <3>1 DEF MainThread, StartCamera, StartFails, TestLoop, ContinueUnless,
         ConnectSucceeds, ConnectFails, Pop, Recover, Wake, WakeTo, CloseQueue,
         DisconnectSocket, StopCamera, Finish, ReturnWith
    <3>2. CASE Capture \/ ChildSteps \/ SendSignal \/ HandleSignal
      BY <3>2 DEF Capture, OnFrame, CaptureFails, CaptureSteps, ChildSteps, main,
         SendSignal, HandleSignal, other
    <3>3. CASE UNCHANGED vars
      BY <3>3 DEF vars
    <3> QED
      BY <3>1, <3>2, <3>3 DEF Next
  <2>2. lastSent' = lastPopped
    BY <2>1 DEF SendAnswered, SendFails
  <2>3. lastPopped > lastSent
    BY PoppedGrows, PartsHold DEF MainInv, MainTypes, Sends
  <2> QED
    BY <2>2, <2>3
<1> QED
  BY <1>1, Invariance, PTL DEF Spec, SendsAreFresh
=============================================================================
