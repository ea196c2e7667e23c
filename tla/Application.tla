----------------------------- MODULE Application -----------------------------
(***************************************************************************)
(* Application::run of client/src/application.cpp: the main thread's loop  *)
(* over the one-slot queue, the capture thread and the server connection,  *)
(* with the signal flag of main.cpp.  LatestFrameQueue and CameraProcess   *)
(* are the queue and the capture; each of their callbacks is one step with *)
(* the code it calls.  The connection's operations are atomic here, with   *)
(* every outcome they have, and a peer that never answers is an operation  *)
(* that never returns.                                                     *)
(***************************************************************************)
EXTENDS Integers

CONSTANTS
  NoFrame, MaxFrames,        \* as in LatestFrameQueue
  PipeCapacity, ChunkFrames, \* as in CameraProcess
  BackoffCap,     \* the longest backoff in seconds (30 in the code)
  TokenIsRight    \* the server accepts the configured token

ASSUME ApplicationAssumption ==
  /\ MaxFrames \in Nat
  /\ NoFrame \notin Nat
  /\ PipeCapacity \in Nat \ {0}
  /\ ChunkFrames \in Nat
  /\ BackoffCap \in Nat \ {0}
  /\ TokenIsRight \in BOOLEAN

VARIABLES
  latest, closed, popPc, pushed, accepted, lastPopped, tally,  \* the queue
  owner, starts, stopToken, capturePc, childPid, proc, term, pipe, fds,
  chunk, reported,                                             \* the camera
  pc,           \* where the main thread is in run
  signalled,    \* "no": no signal yet, "sent": not handled yet, "set": flag set
  cameraFailed, \* camera_failed
  socket,       \* "none", "open", or "refused": the server will drop it
  backoff,      \* seconds
  lastSent,     \* history: number of the last frame handed to send_frame
  outage,       \* history: failures since the last connect that succeeded
  futile,       \* history: connections that broke since the last answered frame
  exit          \* run's result, or -1 while it runs

queue == <<latest, closed, popPc, pushed, accepted, lastPopped, tally>>
camera == <<owner, starts, stopToken, capturePc, childPid, proc, term, pipe, fds,
            chunk, reported>>
network == <<socket, backoff, lastSent, outage, futile>>
vars == <<latest, closed, popPc, pushed, accepted, lastPopped, tally,
          owner, starts, stopToken, capturePc, childPid, proc, term, pipe, fds,
          chunk, reported, pc, signalled, cameraFailed, socket, backoff,
          lastSent, outage, futile, exit>>

Main == "main"

Queue == INSTANCE LatestFrameQueue WITH Consumers <- {Main}, pc <- popPc

Camera == INSTANCE CameraProcess
  WITH MaxStarts <- 1, stop <- stopToken, pc <- capturePc

PC == {"start", "loop", "connect", "pop", "send", "recover", "sleep",
       "close", "disconnect", "stop", "returned"}

TypeOK ==
  /\ Queue!TypeOK
  /\ Camera!TypeOK
  /\ pc \in PC
  /\ signalled \in {"no", "sent", "set"}
  /\ cameraFailed \in BOOLEAN
  /\ socket \in {"none", "open", "refused"}
  /\ backoff \in 1 .. BackoffCap
  /\ lastSent \in 0 .. MaxFrames
  /\ outage \in 0 .. BackoffCap
  /\ futile \in 0 .. 2
  /\ exit \in {-1, 0, 2}

Init ==
  /\ Queue!Init
  /\ Camera!Init
  /\ pc = "start"
  /\ signalled = "no"
  /\ cameraFailed = FALSE
  /\ socket = "none"
  /\ backoff = 1
  /\ lastSent = 0
  /\ outage = 0
  /\ futile = 0
  /\ exit = -1

Smaller(a, b) == IF a < b THEN a ELSE b

\* The histories stop counting where nothing depends on them any more; after
\* BackoffCap failures the wait has reached its cap.
CountFailure == outage' = Smaller(outage + 1, BackoffCap)

-----------------------------------------------------------------------------
(* Start and loop condition *)

StartCamera ==
  /\ pc = "start"
  /\ Camera!Start
  /\ pc' = "loop"
  /\ UNCHANGED <<queue, signalled, cameraFailed, network, exit>>

\* No thread could be created.
StartFails ==
  /\ pc = "start"
  /\ pc' = "returned"
  /\ exit' = 2
  /\ UNCHANGED <<queue, camera, signalled, cameraFailed, network>>

Goto(place) ==
  /\ pc' = place
  /\ UNCHANGED <<camera, signalled, cameraFailed, exit>>

ContinueUnless(ending) ==
  /\ pc = "loop"
  /\ Goto(IF ending THEN "close" ELSE IF socket = "none" THEN "connect" ELSE "pop")
  /\ UNCHANGED <<queue, network>>

\* Faults: the loop condition forgets the camera; it forgets the signal.
TestLoopIgnoringCamera == ContinueUnless(signalled = "set")
TestLoopIgnoringSignal == ContinueUnless(cameraFailed)

TestLoop == ContinueUnless(signalled = "set" \/ cameraFailed)

-----------------------------------------------------------------------------
(* connect: the server confirms the namespace before it looks at the token, *)
(* so connect succeeds with a wrong one as well.                            *)

ConnectSucceeds ==
  /\ pc = "connect"
  /\ socket' = IF TokenIsRight THEN "open" ELSE "refused"
  /\ backoff' = 1
  /\ outage' = 0
  /\ Goto("pop")
  /\ UNCHANGED <<queue, lastSent, futile>>

ConnectFails ==
  /\ pc = "connect"
  /\ CountFailure
  /\ Goto("recover")
  /\ UNCHANGED <<queue, socket, backoff, lastSent, futile>>

-----------------------------------------------------------------------------
(* pop_for(500 ms): a frame goes to send_frame, nullopt back to the loop *)

AfterPop ==
  pc' = IF popPc'[Main] # "idle" THEN "pop"
        ELSE IF lastPopped' # lastPopped THEN "send" ELSE "loop"

Pop ==
  /\ pc = "pop"
  /\ \/ Queue!PopFor(Main) \/ Queue!Recheck(Main) \/ Queue!TimedOutReturn(Main)
     \/ Queue!Timeout(Main)
  /\ AfterPop
  /\ UNCHANGED <<camera, signalled, cameraFailed, network, exit>>

\* send_frame returned the server's answer, accepted or not.
SendAnswered ==
  /\ pc = "send"
  /\ socket = "open"
  /\ lastSent' = lastPopped
  /\ futile' = 0
  /\ Goto("loop")
  /\ UNCHANGED <<queue, socket, backoff, outage>>

\* send_frame threw; the frame may or may not have reached the server.
SendFails ==
  /\ pc = "send"
  /\ lastSent' = lastPopped
  /\ CountFailure
  /\ futile' = Smaller(futile + 1, 2)
  /\ Goto("recover")
  /\ UNCHANGED <<queue, socket, backoff>>

-----------------------------------------------------------------------------
(* catch: disconnect, wait, double the backoff *)

Recover ==
  /\ pc = "recover"
  /\ socket' = "none"
  /\ Goto("sleep")
  /\ UNCHANGED <<queue, backoff, lastSent, outage, futile>>

WakeTo(place, wait) ==
  /\ pc = "sleep"
  /\ backoff' = wait
  /\ Goto(place)
  /\ UNCHANGED <<queue, socket, lastSent, outage, futile>>

\* Faults: the wait stays the same; it is doubled without a cap; the frame at
\* hand is sent again.
WakeWithoutDoubling == WakeTo("loop", backoff)
WakeUncapped == WakeTo("loop", backoff * 2)
WakeResending == WakeTo("send", Smaller(backoff * 2, BackoffCap))

\* interruptible_sleep ends by time or by the signal flag.
Wake == WakeTo("loop", Smaller(backoff * 2, BackoffCap))

-----------------------------------------------------------------------------
(* Cleanup: queue, socket, camera *)

CloseQueue ==
  /\ pc = "close"
  /\ Queue!Close
  /\ Goto("disconnect")
  /\ UNCHANGED network

DisconnectSocket ==
  /\ pc = "disconnect"
  /\ socket' = "none"
  /\ Goto("stop")
  /\ UNCHANGED <<queue, backoff, lastSent, outage, futile>>

\* camera.stop(), then the result.
StopCamera ==
  /\ pc = "stop"
  /\ Camera!RequestStop \/ Camera!StopKill
  /\ UNCHANGED <<queue, pc, signalled, cameraFailed, network, exit>>

ReturnWith(result) ==
  /\ pc = "stop"
  /\ pc' = "returned"
  /\ exit' = result
  /\ UNCHANGED <<queue, signalled, cameraFailed, network>>

\* Faults: run returns as soon as the child was signalled; the result is
\* taken from the signal flag.
FinishUnjoined ==
  owner = "joining" /\ UNCHANGED camera /\ ReturnWith(IF cameraFailed THEN 2 ELSE 0)
FinishBySignal == Camera!Join /\ ReturnWith(IF signalled = "set" THEN 0 ELSE 2)

Finish == Camera!Join /\ ReturnWith(IF cameraFailed THEN 2 ELSE 0)

-----------------------------------------------------------------------------
(* The capture thread and its callbacks *)

main == <<pc, signalled, network, exit>>

\* on_frame: push, and the counters, which Queue's pushed and tally stand for.
\* A chunk completes no more frames than the bound MaxFrames leaves.
OnFrame == Camera!EmitFrame /\ Queue!Push /\ UNCHANGED <<main, cameraFailed>>

\* on_error: ignored once the signal flag is set.
OnError ==
  IF signalled = "set"
    THEN UNCHANGED <<queue, cameraFailed>>
    ELSE cameraFailed' = TRUE /\ Queue!Close

CaptureFails ==
  /\ \/ Camera!PipeFails \/ Camera!ForkFails \/ Camera!ReadFails
     \/ Camera!ParseOversized
     \/ ~stopToken /\ Camera!ReadEof
  /\ OnError
  /\ UNCHANGED main

CaptureSteps ==
  /\ \/ Camera!OpenPipe \/ Camera!Fork \/ Camera!PublishPid \/ Camera!TestStop
     \/ Camera!ReadChunk /\ chunk' <= MaxFrames - pushed
     \/ stopToken /\ Camera!ReadEof
     \/ Camera!ReadInterrupted \/ Camera!ParseDone
     \/ Camera!CloseRead \/ Camera!SelfKill \/ Camera!WaitChild \/ Camera!ClearPid
  /\ UNCHANGED <<queue, main, cameraFailed>>

Capture == OnFrame \/ CaptureFails \/ CaptureSteps

CaptureProgress == Capture /\ Camera!Progress

ChildSteps ==
  /\ \/ Camera!ChildExecs(1) \/ Camera!ChildWrites(1) \/ Camera!ChildLosesReader(1)
     \/ Camera!ChildTerminated(1) \/ Camera!ChildExits(1)
  /\ UNCHANGED <<queue, main, cameraFailed>>

-----------------------------------------------------------------------------
(* Signals *)

other == <<pc, cameraFailed, network, exit>>

\* SIGINT or SIGTERM is sent, to this process or (Ctrl-C, systemd) to the whole
\* process group, which includes the child.
SendSignal ==
  /\ signalled = "no"
  /\ pc # "returned"
  /\ signalled' = "sent"
  /\ UNCHANGED camera \/ Camera!SignalGroup(1)
  /\ UNCHANGED <<queue, other>>

\* handle_signal
HandleSignal ==
  /\ signalled = "sent"
  /\ pc # "returned"
  /\ signalled' = "set"
  /\ UNCHANGED <<queue, camera, other>>

-----------------------------------------------------------------------------
MainThread ==
  \/ StartCamera \/ StartFails \/ TestLoop
  \/ ConnectSucceeds \/ ConnectFails \/ Pop \/ SendAnswered \/ SendFails
  \/ Recover \/ Wake
  \/ CloseQueue \/ DisconnectSocket \/ StopCamera \/ Finish

Next == MainThread \/ Capture \/ ChildSteps \/ SendSignal \/ HandleSignal

Spec == Init /\ [][Next]_vars

\* The main thread outside the network, the capture thread, the signal and the
\* child run; a read that could return is not interrupted for ever.  Without a
\* connection disconnect() returns at once.
Fairness ==
  /\ WF_vars(StartCamera \/ TestLoop \/ Pop \/ Wake \/ CloseQueue \/ StopCamera \/ Finish)
  /\ WF_vars(socket = "none" /\ (Recover \/ DisconnectSocket))
  /\ WF_vars(CaptureProgress)
  /\ SF_vars(Capture /\ (Camera!ReadChunk \/ Camera!ReadEof))
  /\ WF_vars(HandleSignal)
  /\ WF_vars(Camera!ChildExecs(1) /\ ChildSteps)
  /\ WF_vars(Camera!ChildTerminated(1) /\ ChildSteps)
  /\ WF_vars(Camera!ChildWrites(1) /\ ChildSteps)
  /\ WF_vars(Camera!ChildLosesReader(1) /\ ChildSteps)

FairSpec == Spec /\ Fairness

\* Every network operation returns or throws in the end.
NetworkFairness ==
  WF_vars(ConnectSucceeds \/ ConnectFails \/ SendAnswered \/ SendFails
          \/ Recover \/ DisconnectSocket)

RespondingSpec == FairSpec /\ NetworkFairness

-----------------------------------------------------------------------------
(* Properties *)

\* When run has returned, its locals are gone: nothing may call back into them
\* and nothing it opened is left.
ReturnLeavesNothing ==
  pc = "returned" =>
    /\ capturePc \in {"none", "done"}
    /\ ~Camera!Lives(1) /\ proc[1] # "zombie"
    /\ fds = {}
    /\ socket = "none"

\* The client ends only for a reason, never because of the network: with 0 after
\* a signal, with 2 after the capture called on_error.  An error the capture
\* reported before the flag was set is not forgotten: the result is 2.
ExitHasReason ==
  /\ exit = 0 => signalled = "set" /\ ~cameraFailed
  /\ exit = 2 => reported # "nothing" \/ starts = 0
  /\ reported # "nothing" /\ signalled # "set" => cameraFailed

\* The server gets frames in capture order, and a frame whose sending failed
\* is not sent again after the reconnect.
SendsAreFresh == [][pc = "send" /\ pc' # "send" => lastSent' > lastSent]_vars

\* While the network keeps answering, a signal ends the program, and so does
\* any error of the capture, one that does not end the capture included, and
\* the end of the capture, whatever the connection was doing.
RunEnds ==
  signalled = "sent" \/ reported # "nothing" \/ capturePc = "done" ~> pc = "returned"

\* 2 ^ n
Doubled[n \in Nat] == IF n = 0 THEN 1 ELSE 2 * Doubled[n - 1]

\* The wait before a reconnect is 1 s after the failure that ends a working
\* connection and doubles with every connect that fails after it, up to the
\* cap.
BackoffFollowsOutage ==
  pc = "sleep" => backoff = Smaller(Doubled[outage - 1], BackoffCap)

\* The client's guide wants no fast endless reconnecting after a refused token
\* (server/raspberry-pi/AI_CPP_DEVELOPMENT_GUIDE.md:166).
RefusedTokenBacksOff ==
  pc = "sleep" /\ ~TokenIsRight /\ futile = 2 => backoff > 1 \/ BackoffCap = 1
=============================================================================
