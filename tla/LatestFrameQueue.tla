-------------------------- MODULE LatestFrameQueue --------------------------
(***************************************************************************)
(* The one-slot queue of client/include/camera_client/latest_frame_queue.  *)
(* hpp.  The capture thread pushes, network threads wait in pop_for and    *)
(* either side may close.  Every public method is one critical section of  *)
(* mutex_, so a method is one step, except pop_for, which gives the mutex  *)
(* up inside condition_variable::wait_for: a call is one step up to the    *)
(* wait, and one step from each wake-up (a notification, a spurious        *)
(* wake-up or the timeout) to the next wait or to the return.              *)
(***************************************************************************)
EXTENDS Naturals, FiniteSets

CONSTANTS
  Consumers,  \* threads that call pop_for (the application has one)
  NoFrame,    \* the empty std::optional<Frame>
  MaxFrames   \* bound: frames the capture thread produces

ASSUME QueueAssumption ==
  /\ MaxFrames \in Nat
  /\ NoFrame \notin Nat

VARIABLES
  latest,      \* latest_: the stored frame's number, or NoFrame
  closed,      \* closed_
  pc,          \* where each consumer is inside pop_for
  pushed,      \* frames handed to push so far; frame n is the n-th of them
  accepted,    \* number of the newest frame push did not refuse
  lastPopped,  \* number of the frame the last successful pop_for returned
  tally        \* how the frames that left the queue's hands ended

vars == <<latest, closed, pc, pushed, accepted, lastPopped, tally>>

Frame == 1 .. MaxFrames

\* popped: returned by pop_for; replaced: push returned true and overwrote it;
\* discarded: reset by close; refused: pushed after close.
Fate == {"popped", "replaced", "discarded", "refused"}

\* A consumer is outside pop_for, asleep in wait_for, or awake again and on its
\* way to re-acquire mutex_ after a wake-up or after its deadline.
PC == {"idle", "waiting", "notified", "timedout"}

TypeOK ==
  /\ latest \in Frame \cup {NoFrame}
  /\ closed \in BOOLEAN
  /\ pc \in [Consumers -> PC]
  /\ pushed \in 0 .. MaxFrames
  /\ accepted \in 0 .. MaxFrames
  /\ lastPopped \in 0 .. MaxFrames
  /\ tally \in [Fate -> Nat]

Init ==
  /\ latest = NoFrame
  /\ closed = FALSE
  /\ pc = [c \in Consumers |-> "idle"]
  /\ pushed = 0
  /\ accepted = 0
  /\ lastPopped = 0
  /\ tally = [f \in Fate |-> 0]

-----------------------------------------------------------------------------
(* The condition variable ready_. *)

Waiting == {c \in Consumers : pc[c] = "waiting"}

NotifyOne ==
  IF Waiting = {}
    THEN UNCHANGED pc
    ELSE \E c \in Waiting : pc' = [pc EXCEPT ![c] = "notified"]

NotifyAll ==
  pc' = [c \in Consumers |-> IF pc[c] = "waiting" THEN "notified" ELSE pc[c]]

\* The predicate wait_for evaluates with mutex_ held.
Ready == closed \/ latest # NoFrame

Count(fate) == tally' = [tally EXCEPT ![fate] = @ + 1]

-----------------------------------------------------------------------------
(* push *)

\* push's critical section once closed_ allows it: the slot's new content and
\* the result (an unconsumed frame was replaced).
Store(frame, replaced) ==
  /\ pushed < MaxFrames
  /\ pushed' = pushed + 1
  /\ accepted' = pushed + 1
  /\ latest' = frame
  /\ IF replaced THEN Count("replaced") ELSE UNCHANGED tally
  /\ UNCHANGED <<closed, lastPopped>>

\* Faults: closed_ is ignored; nobody is notified; has_value() is read after
\* the assignment; a full slot keeps its old frame as a bounded FIFO would.
PushRefusedStores == closed /\ Store(pushed + 1, latest # NoFrame) /\ UNCHANGED pc
PushStoredSilently == ~closed /\ Store(pushed + 1, latest # NoFrame) /\ UNCHANGED pc
PushStoredMiscounts == ~closed /\ Store(pushed + 1, TRUE) /\ NotifyOne
PushStoredKeepsOldest ==
  /\ ~closed
  /\ Store(IF latest = NoFrame THEN pushed + 1 ELSE latest, latest # NoFrame)
  /\ NotifyOne

PushRefused ==
  /\ pushed < MaxFrames
  /\ closed
  /\ pushed' = pushed + 1
  /\ Count("refused")
  /\ UNCHANGED <<latest, closed, pc, accepted, lastPopped>>

PushStored ==
  /\ ~closed
  /\ Store(pushed + 1, latest # NoFrame)
  /\ NotifyOne

Push == PushRefused \/ PushStored

-----------------------------------------------------------------------------
(* pop_for *)

\* Leaving pop_for with the stored frame or with nullopt.
Leave(c, taken, slot) ==
  /\ pc' = [pc EXCEPT ![c] = "idle"]
  /\ latest' = slot
  /\ IF taken
       THEN lastPopped' = latest /\ Count("popped")
       ELSE UNCHANGED <<lastPopped, tally>>
  /\ UNCHANGED <<closed, pushed, accepted>>

\* Faults: the slot is not reset after the move; the optional is not tested.
ReturnWithoutReset(c) == Leave(c, latest # NoFrame, latest)
ReturnUntested(c) == Leave(c, TRUE, NoFrame)

\* The code after wait_for: nullopt when there is no frame, otherwise the frame
\* is moved out and the slot reset, all before the mutex is released.
Return(c) == Leave(c, latest # NoFrame, NoFrame)

Become(c, place) ==
  /\ pc' = [pc EXCEPT ![c] = place]
  /\ UNCHANGED <<latest, closed, pushed, accepted, lastPopped, tally>>

\* wait_for's loop with the mutex held: return, or sleep and release the mutex.
Look(c) == (Ready /\ Return(c)) \/ (~Ready /\ Become(c, "waiting"))

PopFor(c) == pc[c] = "idle" /\ Look(c)

Recheck(c) == pc[c] = "notified" /\ Look(c)

SpuriousWakeup(c) == pc[c] = "waiting" /\ Become(c, "notified")

Timeout(c) == pc[c] = "waiting" /\ Become(c, "timedout")

\* After its deadline wait_for evaluates the predicate once more and returns
\* it, so a frame stored between the deadline and the lock is still taken.
TimedOutReturn(c) == pc[c] = "timedout" /\ Return(c)

-----------------------------------------------------------------------------
(* close *)

Shut ==
  /\ closed' = TRUE
  /\ latest' = NoFrame
  /\ IF latest # NoFrame THEN Count("discarded") ELSE UNCHANGED tally
  /\ UNCHANGED <<pushed, accepted, lastPopped>>

\* Fault: close notifies like push does.
CloseNotifiesOne == Shut /\ NotifyOne

Close == Shut /\ NotifyAll

-----------------------------------------------------------------------------
Next ==
  \/ Push
  \/ Close
  \/ \E c \in Consumers :
       \/ PopFor(c)
       \/ Recheck(c)
       \/ SpuriousWakeup(c)
       \/ Timeout(c)
       \/ TimedOutReturn(c)

\* A thread that is awake gets the mutex sooner or later.  No fairness for the
\* timer: what a notification promises must not depend on it.
Fairness ==
  \A c \in Consumers : WF_vars(Recheck(c)) /\ WF_vars(TimedOutReturn(c))

Spec == Init /\ [][Next]_vars

FairSpec == Spec /\ Fairness

-----------------------------------------------------------------------------
(* Properties *)

\* No lost wake-up: a thread asleep in pop_for while a frame is stored is
\* covered by another one that was notified and has yet to look, and after
\* close nobody is asleep.  (push notifies one, close must notify all.)
NoLostWakeup ==
  /\ closed => Waiting = {}
  /\ latest # NoFrame /\ Waiting # {} => \E c \in Consumers : pc[c] = "notified"

\* Every captured frame has exactly one fate: still stored, returned by
\* pop_for, reported as replaced by push's result, thrown away by close or
\* refused after it.  The client's captured and replaced counters rely on it.
Conservation ==
  pushed = tally["popped"] + tally["replaced"] + tally["discarded"]
           + tally["refused"] + (IF latest = NoFrame THEN 0 ELSE 1)

\* Frames come out in capture order and none comes out twice, whichever
\* wake-up path the consumers took.
FreshOrder ==
  [][tally'["popped"] # tally["popped"] => lastPopped' > lastPopped]_vars

\* Once closed, pop_for returns no frame any more: neither one that was stored
\* before close nor one pushed after it by the still running capture thread.
NothingAfterClose ==
  [][closed => closed' /\ tally'["popped"] = tally["popped"]]_vars

\* close() ends every pending pop_for by itself, without the timeout's help.
CloseReleasesWaiters ==
  \A c \in Consumers : closed ~> pc[c] = "idle"

\* The queue implements the abstract stream: a delivery always hands over the
\* newest frame accepted so far.
Stream == INSTANCE FrameStream
  WITH offered <- accepted, delivered <- lastPopped, open <- ~closed

StreamSpec == Stream!Spec
=============================================================================
