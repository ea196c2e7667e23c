----------------------- MODULE LatestFrameQueue_proofs -----------------------
(***************************************************************************)
(* TLAPS proofs about LatestFrameQueue, for any set of consumers and any   *)
(* number of frames.                                                       *)
(***************************************************************************)
EXTENDS LatestFrameQueue, TLAPS

\* The stored frame is the newest accepted one and has not been returned yet;
\* a closed queue stores nothing, an open one has refused nothing.
SlotInv ==
  /\ closed => latest = NoFrame
  /\ latest # NoFrame => latest = accepted /\ lastPopped < accepted
  /\ lastPopped <= accepted
  /\ ~closed => accepted = pushed

\* The inductive invariant.  NoLostWakeup and Conservation are inductive only
\* together with the types and with SlotInv (that close leaves the slot empty).
IInv == TypeOK /\ SlotInv /\ NoLostWakeup /\ Conservation

USE QueueAssumption

\* The initial state satisfies the inductive invariant.
LEMMA InitIInv == Init => IInv
<1> SUFFICES ASSUME Init PROVE IInv
  OBVIOUS
<1>1. TypeOK
  <2>1. pc \in [Consumers -> PC]
    BY DEF Init, PC
  <2>2. tally \in [Fate -> Nat]
    BY DEF Init
  <2>3. closed \in BOOLEAN
    BY Zenon DEF Init
  <2>4. /\ latest \in Frame \cup {NoFrame}
        /\ pushed \in 0 .. MaxFrames
        /\ accepted \in 0 .. MaxFrames
        /\ lastPopped \in 0 .. MaxFrames
    BY DEF Init
  <2> QED BY <2>1, <2>2, <2>3, <2>4, Zenon DEF TypeOK
<1>4. Conservation
  BY DEF Init, Conservation, Fate
<1>2. SlotInv
  BY DEF Init, SlotInv
<1>3. NoLostWakeup
  BY DEF Init, NoLostWakeup, Waiting
<1> QED BY <1>1, <1>2, <1>3, <1>4 DEF IInv

\* The steps shared by the ways out of pop_for: whichever wake-up led to it,
\* returning keeps the inductive invariant.  A frame still stored afterwards
\* is impossible, so no sleeper is left uncovered.
LEMMA ReturnIInv ==
  ASSUME IInv, NEW c \in Consumers, pc[c] # "waiting", Return(c)
  PROVE  IInv'
<1> USE DEF IInv
<1>1. TypeOK'
  BY DEF TypeOK, Return, Leave, Frame, PC, Fate, Count, SlotInv
<1>2. SlotInv'
  BY DEF TypeOK, Return, Leave, Frame, SlotInv
<1>3. NoLostWakeup'
  BY DEF TypeOK, Return, Leave, Frame, SlotInv, NoLostWakeup, Waiting
<1>4. Conservation'
  BY DEF TypeOK, Return, Leave, Frame, SlotInv, Conservation, Count, Fate
<1> QED BY <1>1, <1>2, <1>3, <1>4

\* Going to sleep keeps it too, because the predicate was just seen to be
\* false under the mutex: there is no frame to miss and no close to miss.
LEMMA SleepIInv ==
  ASSUME IInv, NEW c \in Consumers, ~Ready, Become(c, "waiting")
  PROVE  IInv'
  BY DEF IInv, Ready, Become, TypeOK, SlotInv, NoLostWakeup, Conservation,
         Waiting, Frame, PC, Fate

\* Every step keeps the inductive invariant.
LEMMA NextIInv == IInv /\ [Next]_vars => IInv'
<1> SUFFICES ASSUME IInv, [Next]_vars PROVE IInv'
  OBVIOUS
<1>1. CASE PushRefused
  BY <1>1 DEF PushRefused, IInv, TypeOK, SlotInv, NoLostWakeup, Conservation,
              Waiting, Frame, PC, Fate, Count
<1>2. CASE PushStored
  <2> USE <1>2 DEF IInv, PushStored, Store
  <2>1. TypeOK'
    BY DEF TypeOK, NotifyOne, Waiting, Frame, PC, Fate, Count
  <2>2. SlotInv'
    BY DEF TypeOK, SlotInv, Frame
  <2>3. NoLostWakeup'
    BY DEF TypeOK, NoLostWakeup, NotifyOne, Waiting
  <2>4. Conservation'
    BY DEF TypeOK, Conservation, Frame, Fate, Count
  <2> QED BY <2>1, <2>2, <2>3, <2>4
<1>3. CASE Close
  <2> USE <1>3 DEF IInv, Close, Shut
  <2>1. TypeOK'
    BY DEF TypeOK, NotifyAll, Frame, PC, Fate, Count
  <2>2. SlotInv'
    BY DEF TypeOK, SlotInv, Frame
  <2>3. NoLostWakeup'
    BY DEF TypeOK, NoLostWakeup, NotifyAll, Waiting
  <2>4. Conservation'
    BY DEF TypeOK, Conservation, Frame, Fate, Count
  <2> QED BY <2>1, <2>2, <2>3, <2>4
<1>4. ASSUME NEW c \in Consumers, PopFor(c) PROVE IInv'
  BY <1>4, ReturnIInv, SleepIInv DEF PopFor, Look
<1>5. ASSUME NEW c \in Consumers, Recheck(c) PROVE IInv'
  BY <1>5, ReturnIInv, SleepIInv DEF Recheck, Look
<1>6. ASSUME NEW c \in Consumers, SpuriousWakeup(c) PROVE IInv'
  BY <1>6 DEF SpuriousWakeup, Become, IInv, TypeOK, SlotInv, NoLostWakeup,
              Conservation, Waiting, Frame, PC, Fate
<1>7. ASSUME NEW c \in Consumers, Timeout(c) PROVE IInv'
  BY <1>7 DEF Timeout, Become, IInv, TypeOK, SlotInv, NoLostWakeup, Conservation,
              Waiting, Frame, PC, Fate
<1>8. ASSUME NEW c \in Consumers, TimedOutReturn(c) PROVE IInv'
  BY <1>8, ReturnIInv DEF TimedOutReturn
<1>9. CASE UNCHANGED vars
  BY <1>9 DEF vars, IInv, TypeOK, SlotInv, NoLostWakeup, Conservation,
              Waiting, Frame, PC, Fate
<1> QED BY <1>1, <1>2, <1>3, <1>4, <1>5, <1>6, <1>7, <1>8, <1>9 DEF Next, Push

\* The inductive invariant holds in every reachable state.
LEMMA Invariance == Spec => []IInv
  BY InitIInv, NextIInv, PTL DEF Spec

\* Every variable keeps its type.
THEOREM TypeCorrect == Spec => []TypeOK
  BY Invariance, PTL DEF IInv

\* A stored frame never leaves every consumer asleep, and close leaves none
\* asleep: the condition variable protocol loses no wake-up.
THEOREM WakeupSafety == Spec => []NoLostWakeup
  BY Invariance, PTL DEF IInv

\* Every frame handed to push has exactly one fate.
THEOREM FrameConservation == Spec => []Conservation
  BY Invariance, PTL DEF IInv

\* The only steps that return a frame are pop_for's ways out.
LEMMA PoppedOnlyByReturn ==
  ASSUME IInv, [Next]_vars, tally'["popped"] # tally["popped"]
  PROVE  latest # NoFrame /\ lastPopped' = latest /\ \E c \in Consumers : Return(c)
<1>1. ~PushRefused /\ ~PushStored /\ ~Close
  BY DEF PushRefused, PushStored, Store, Close, Shut, Count, IInv, TypeOK, Fate
<1>2. ASSUME NEW c \in Consumers
      PROVE  \A place : ~Become(c, place)
  BY DEF Become
<1>3. \E c \in Consumers : Return(c)
  BY <1>1, <1>2 DEF Next, Push, PopFor, Recheck, Look,
                          SpuriousWakeup, Timeout, TimedOutReturn, vars
<1> QED BY <1>3 DEF Return, Leave

\* Frames leave the queue in capture order, each at most once.
THEOREM OrderTheorem == Spec => FreshOrder
<1>1. IInv /\ [Next]_vars
        => [tally'["popped"] # tally["popped"] => lastPopped' > lastPopped]_vars
  BY PoppedOnlyByReturn DEF IInv, TypeOK, SlotInv, Frame
<1> QED BY <1>1, Invariance, PTL DEF Spec, FreshOrder

\* No frame comes out of a closed queue, and it stays closed.
THEOREM ClosedTheorem == Spec => NothingAfterClose
<1>1. closed /\ [Next]_vars => closed'
  BY DEF Next, Push, PushRefused, PushStored, Store, Close, Shut, PopFor,
         Recheck, Look, Return, Leave, Become, SpuriousWakeup, Timeout, TimedOutReturn, vars
<1>2. IInv /\ [Next]_vars
        => [closed => closed' /\ tally'["popped"] = tally["popped"]]_vars
  BY <1>1, PoppedOnlyByReturn DEF IInv, SlotInv
<1> QED BY <1>2, Invariance, PTL DEF Spec, NothingAfterClose

\* The queue implements FrameStream: each step offers, delivers the newest
\* accepted frame, shuts the stream, or is invisible to its users.
THEOREM Implementation == Spec => StreamSpec
<1>1. Init => Stream!Init
  BY DEF Init, Stream!Init
<1>2. IInv /\ [Next]_vars => [Stream!Next]_(Stream!vars)
  <2> SUFFICES ASSUME IInv, [Next]_vars
               PROVE  Stream!Next \/ UNCHANGED Stream!vars
    OBVIOUS
  <2> USE DEF Stream!Next, Stream!vars, IInv, TypeOK, SlotInv, Frame
  <2>1. CASE PushRefused
    BY <2>1 DEF PushRefused
  <2>2. CASE PushStored
    BY <2>2 DEF PushStored, Store, Stream!Offer
  <2>3. CASE Close
    BY <2>3 DEF Close, Shut, Stream!Shut
  <2>4. ASSUME NEW c \in Consumers, Return(c)
        PROVE  Stream!Next \/ UNCHANGED Stream!vars
    BY <2>4 DEF Return, Leave, Stream!Deliver
  <2>5. ASSUME NEW c \in Consumers, NEW place, Become(c, place)
        PROVE  UNCHANGED Stream!vars
    BY <2>5 DEF Become
  <2>6. CASE UNCHANGED vars
    BY <2>6 DEF vars
  <2> QED BY <2>1, <2>2, <2>3, <2>4, <2>5, <2>6
          DEF Next, Push, PopFor, Recheck, Look, SpuriousWakeup, Timeout,
              TimedOutReturn
<1> QED BY <1>1, <1>2, Invariance, PTL DEF Spec, StreamSpec, Stream!Spec
=============================================================================
