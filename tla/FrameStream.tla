---------------------------- MODULE FrameStream ----------------------------
(***************************************************************************)
(* What the one-slot queue between the capture thread and the network      *)
(* thread promises its two users, with no thread, lock or slot in sight:   *)
(* frames are numbered in capture order, a delivery hands over the newest  *)
(* frame offered so far, no frame is handed over twice, and nothing is     *)
(* offered or delivered once the stream is shut.  Frames that were         *)
(* superseded before a delivery are skipped: latency over completeness.    *)
(***************************************************************************)
EXTENDS Naturals

VARIABLES
  offered,    \* number of the newest frame offered while the stream was open
  delivered,  \* number of the last frame delivered (0: none yet)
  open        \* FALSE once the stream has been shut

vars == <<offered, delivered, open>>

Init ==
  /\ offered = 0
  /\ delivered = 0
  /\ open = TRUE

Offer ==
  /\ open
  /\ offered' = offered + 1
  /\ UNCHANGED <<delivered, open>>

Deliver ==
  /\ open
  /\ delivered < offered
  /\ delivered' = offered
  /\ UNCHANGED <<offered, open>>

Shut ==
  /\ open' = FALSE
  /\ UNCHANGED <<offered, delivered>>

Next == Offer \/ Deliver \/ Shut

Spec == Init /\ [][Next]_vars
=============================================================================
