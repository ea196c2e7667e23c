------------------------------- MODULE Vision -------------------------------
(***************************************************************************)
(* CameraService with the vision service of server/vision/app.py behind    *)
(* it.  A call of OpenCvService.process is an HTTP request; the server     *)
(* gives it up after 5 s, but the vision service does not learn of it and  *)
(* still processes what it has received, later than a newer request if it  *)
(* happens so.  What a motion result shows depends on previous_frames, the *)
(* one piece of state there, which a restart empties.                      *)
(*                                                                         *)
(* Images are frame numbers, 0 stands for no previous image.  The default  *)
(* mode "motion" is modelled; the other modes touch no state.              *)
(***************************************************************************)
EXTENDS CameraService

VARIABLES
  requests,        \* POST /process requests the vision service has not answered
  answers,         \* responses on their way to the call that waits for them
  previous_frames, \* the image the next one of each camera is compared with
  shown,           \* history per camera: the last processed frame the server
                   \* handed on, and the image its motion was relative to
  failed           \* history per camera: frames whose call was rejected

vision == <<requests, answers, previous_frames, shown, failed>>

Request == [camera : Cameras, frame : 1 .. MaxFrames]

Answer == [camera : Cameras, frame : 1 .. MaxFrames, ok : BOOLEAN, against : 0 .. MaxFrames]

VisionTypeOK ==
  /\ TypeOK
  /\ requests \in SUBSET Request
  /\ answers \in SUBSET Answer
  /\ previous_frames \in [Cameras -> 0 .. MaxFrames]
  /\ shown \in [Cameras -> [frame : 0 .. MaxFrames, against : 0 .. MaxFrames]]
  /\ failed \in [Cameras -> SUBSET (1 .. MaxFrames)]

VisionInit ==
  /\ Init
  /\ requests = {}
  /\ answers = {}
  /\ previous_frames = [c \in Cameras |-> 0]
  /\ shown = [c \in Cameras |-> [frame |-> 0, against |-> 0]]
  /\ failed = [c \in Cameras |-> {}]

RequestOf(k) == [camera |-> k.camera, frame |-> k.frame]

Awaited(r) == \E k \in calls : RequestOf(k) = r

\* fetch POSTs the frame of the call that acceptFrame starts.
PostFrame(c) ==
  /\ StartFrame(c)
  /\ requests' = requests \cup {[camera |-> c, frame |-> Received(c) + 1]}
  /\ UNCHANGED <<answers, previous_frames, shown, failed>>

-----------------------------------------------------------------------------
(* process, on the event loop of the vision service: from the end of         *)
(* frame.read() to the response there is no await.                           *)

\* A response to a request the server has given up is read by nobody.
Respond(r, good, baseline) ==
  /\ requests' = requests \ {r}
  /\ answers' = IF Awaited(r)
                  THEN answers \cup {[camera |-> r.camera, frame |-> r.frame,
                                      ok |-> good, against |-> baseline]}
                  ELSE answers
  /\ UNCHANGED <<vars, shown, failed>>

\* 400: imdecode finds no image (or the mode is unknown).
RefuseFrame(r) ==
  /\ Respond(r, FALSE, 0)
  /\ UNCHANGED previous_frames

\* detect_motion stores the image before imencode may fail with 500.
ProcessFrame(r) ==
  /\ \E good \in BOOLEAN : Respond(r, good, previous_frames[r.camera])
  /\ previous_frames' = [previous_frames EXCEPT ![r.camera] = r.frame]

\* The process ends and starts again: what it was working on is gone.
VisionRestarts ==
  /\ requests' = {}
  /\ answers' = {}
  /\ previous_frames' = [c \in Cameras |-> 0]
  /\ UNCHANGED <<vars, shown, failed>>

-----------------------------------------------------------------------------
(* The server's side of the request *)

AnswersTo(k) == {a \in answers : a.camera = k.camera /\ a.frame = k.frame}

\* 200: the result is mapped and handed to the gateway.
HandOn(k) ==
  \E a \in AnswersTo(k) :
    /\ a.ok
    /\ Resolve(k)
    /\ shown' = [shown EXCEPT ![k.camera] = [frame |-> k.frame, against |-> a.against]]
    /\ answers' = answers \ {a}
    /\ UNCHANGED <<requests, previous_frames, failed>>

Abandon(k) ==
  /\ Reject(k)
  /\ failed' = [failed EXCEPT ![k.camera] = @ \cup {k.frame}]
  /\ answers' = answers \ AnswersTo(k)
  /\ UNCHANGED <<previous_frames, shown>>

\* A response that is not ok is thrown as an error.
FrameFails(k) ==
  /\ \E a \in AnswersTo(k) : ~a.ok
  /\ Abandon(k)
  /\ UNCHANGED requests

\* AbortSignal.timeout(5_000), or the connection breaks: the request stays with
\* the vision service, or is lost if its body has not arrived.
GiveUp(k) ==
  /\ Abandon(k)
  /\ requests' = requests \/ requests' = requests \ {RequestOf(k)}

-----------------------------------------------------------------------------
ServiceAlone ==
  /\ \/ \E c \in Cameras : Connect(c) \/ Disconnect(c) \/ DropFrame(c)
     \/ ClockMoves
  /\ UNCHANGED vision

VisionNext ==
  \/ ServiceAlone
  \/ \E c \in Cameras : PostFrame(c)
  \/ \E r \in requests : RefuseFrame(r) \/ ProcessFrame(r)
  \/ \E k \in calls : HandOn(k) \/ FrameFails(k) \/ GiveUp(k)
  \/ VisionRestarts

VisionSpec == VisionInit /\ [][VisionNext]_<<vars, vision>>

-----------------------------------------------------------------------------
(* Properties *)

\* A result that viewers see shows motion relative to an older frame of its
\* camera: to the last one they saw, to one whose call failed (however old it
\* is, because a request that was given up may be processed at any later time),
\* or to none (after a start of the vision service).  It is never relative to a
\* newer frame, nor to a frame that was shown before the last one.
MotionLooksBack ==
  [][\A c \in Cameras : shown'[c] # shown[c] =>
       /\ shown'[c].against < shown'[c].frame
       /\ shown'[c].against \in {0, shown[c].frame} \cup failed[c]]_<<vars, vision>>
=============================================================================
