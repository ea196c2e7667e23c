----------------------------- MODULE FrameGate -----------------------------
(***************************************************************************)
(* What the server promises about the frames of each camera: every frame   *)
(* is counted when it arrives, it is either refused on the spot or         *)
(* admitted, at most one admitted frame per camera is being worked on, and *)
(* an admitted frame is finished exactly once.  Coming and going of the    *)
(* camera's connection is invisible here: it may not touch the counts.     *)
(***************************************************************************)
EXTENDS Naturals

CONSTANT Cameras

VARIABLES busy, received, refused, finished

vars == <<busy, received, refused, finished>>

Init ==
  /\ busy = {}
  /\ received = [c \in Cameras |-> 0]
  /\ refused = [c \in Cameras |-> 0]
  /\ finished = [c \in Cameras |-> 0]

Admit(c) ==
  /\ c \notin busy
  /\ busy' = busy \cup {c}
  /\ received' = [received EXCEPT ![c] = @ + 1]
  /\ UNCHANGED <<refused, finished>>

Refuse(c) ==
  /\ received' = [received EXCEPT ![c] = @ + 1]
  /\ refused' = [refused EXCEPT ![c] = @ + 1]
  /\ UNCHANGED <<busy, finished>>

Finish(c) ==
  /\ c \in busy
  /\ busy' = busy \ {c}
  /\ finished' = [finished EXCEPT ![c] = @ + 1]
  /\ UNCHANGED <<received, refused>>

Next == \E c \in Cameras : Admit(c) \/ Refuse(c) \/ Finish(c)

Spec == Init /\ [][Next]_vars
=============================================================================
