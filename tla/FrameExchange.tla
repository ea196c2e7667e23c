---------------------------- MODULE FrameExchange ----------------------------
(***************************************************************************)
(* What SocketIoClient promises its caller: frames go out one at a time,   *)
(* the server handles each at most once, and a call returns the server's   *)
(* verdict on that very frame or fails.  After a failure the caller knows  *)
(* nothing: the server may have handled the frame, or may still do so.     *)
(***************************************************************************)
EXTENDS Naturals

CONSTANTS MaxFrames, Verdict, NoVerdict

VARIABLES
  calling,  \* the frame of the call in progress, or 0
  calls,    \* frames handed to send_frame so far
  handled,  \* the server's verdict on each frame
  result    \* what the call for each frame returned

vars == <<calling, calls, handled, result>>

Frames == 1 .. MaxFrames

Init ==
  /\ calling = 0
  /\ calls = 0
  /\ handled = [f \in Frames |-> NoVerdict]
  /\ result = [f \in Frames |-> NoVerdict]

Call ==
  /\ calling = 0
  /\ calls < MaxFrames
  /\ calls' = calls + 1
  /\ calling' = calls'
  /\ UNCHANGED <<handled, result>>

Handle(f) ==
  /\ f <= calls
  /\ handled[f] = NoVerdict
  /\ \E v \in Verdict : handled' = [handled EXCEPT ![f] = v]
  /\ UNCHANGED <<calling, calls, result>>

Return ==
  /\ calling # 0
  /\ handled[calling] # NoVerdict
  /\ result' = [result EXCEPT ![calling] = handled[calling]]
  /\ calling' = 0
  /\ UNCHANGED <<calls, handled>>

Fail ==
  /\ calling # 0
  /\ calling' = 0
  /\ UNCHANGED <<calls, handled, result>>

Next == Call \/ Return \/ Fail \/ \E f \in Frames : Handle(f)

Spec == Init /\ [][Next]_vars
=============================================================================
