------------------------ MODULE CameraProcess_proofs ------------------------
(***************************************************************************)
(* TLAPS proofs about CameraProcess, for any number of starts, any pipe    *)
(* and any size of a chunk.                                                *)
(*                                                                         *)
(* The three safety invariants follow from one inductive invariant: the    *)
(* place of the capture thread determines what the kernel knows of the     *)
(* child, which pipe ends are open and what child_pid_ holds, and the      *)
(* children of earlier starts are reaped or never existed.                 *)
(***************************************************************************)
EXTENDS CameraProcess, TLAPS

USE ProcessAssumption

\* TypeOK without the two flags, which the provers treat apart.
Data ==
  /\ owner \in Owner
  /\ starts \in 0 .. MaxStarts
  /\ pc \in PC
  /\ childPid \in Pid \cup {-1}
  /\ proc \in [Pid -> {"none", "forked", "running", "zombie", "reaped"}]
  /\ term \in SUBSET Pid
  /\ pipe \in 0 .. PipeCapacity
  /\ fds \in SUBSET {"read", "write"}
  /\ chunk \in 0 .. ChunkFrames

Flags == stop \in BOOLEAN /\ reported \in Reports

\* Without a start there is no capture thread, and outside start and stop it
\* runs only between the two.
ThreadInv ==
  /\ starts = 0 <=> pc = "none"
  /\ owner = "idle" => pc \in {"none", "done"}

\* Where the capture thread is tells what became of the current child.
ChildInv ==
  /\ \A n \in Pid : n > starts => proc[n] = "none"
  /\ \A n \in Pid : n < starts => proc[n] \in {"none", "reaped"}
  /\ pc \in {"pipe", "fork"} => proc[starts] = "none"
  /\ pc \in {"publish", "loop", "read", "parse", "close", "kill", "wait"}
       => proc[starts] \in {"forked", "running", "zombie"}
  /\ pc = "clear" => proc[starts] = "reaped"
  /\ pc = "done" => proc[starts] \in {"none", "reaped"}

PidInv ==
  childPid = IF pc \in {"loop", "read", "parse", "close", "kill", "wait", "clear"}
               THEN starts ELSE -1

PipeInv ==
  /\ pc = "fork" => fds = {"read", "write"}
  /\ pc \in {"publish", "loop", "read", "parse", "close"} => fds = {"read"}
  /\ pc \in {"none", "pipe", "kill", "wait", "clear", "done"} => fds = {}

PlaceInv == Data /\ ThreadInv /\ ChildInv /\ PidInv /\ PipeInv

\* Whoever leaves the read loop was asked to stop or has reported why.
ReportInv ==
  pc \in {"close", "kill", "wait", "clear", "done"} => stop \/ reported = "end"

\* The inductive invariant.
IInv == PlaceInv /\ Flags /\ ReportInv

-----------------------------------------------------------------------------
\* The initial state satisfies the inductive invariant.
LEMMA InitIInv == Init => IInv
<1> SUFFICES ASSUME Init PROVE IInv
  OBVIOUS
<1>1. Flags
  BY Zenon DEF Init, Flags, Reports
<1>2. proc \in [Pid -> {"none", "forked", "running", "zombie", "reaped"}]
  BY DEF Init
<1>3. Data
  BY <1>2 DEF Init, Data, Owner, PC
<1>4. ThreadInv /\ PidInv /\ PipeInv /\ ReportInv
  BY DEF Init, ThreadInv, PidInv, PipeInv, ReportInv
<1>5. ChildInv
  BY DEF Init, ChildInv, Pid
<1> QED
  BY <1>1, <1>3, <1>4, <1>5, Zenon DEF IInv, PlaceInv

\* Every step keeps what the place of the capture thread determines.
LEMMA PlaceStep == PlaceInv /\ Next => PlaceInv'
<1> SUFFICES ASSUME PlaceInv, Next PROVE PlaceInv'
  OBVIOUS
<1> USE DEF PlaceInv, Data, ThreadInv, ChildInv, PidInv, PipeInv, PC, Owner, Pid
<1>1. CASE Start
  BY <1>1 DEF Start, kernel
<1>2. CASE RequestStop
  BY <1>2 DEF RequestStop, kernel
<1>3. CASE StopKill
  BY <1>3 DEF StopKill, Kill
<1>4. CASE Join
  BY <1>4 DEF Join, kernel
<1>5. CASE Capture
  <2>1. CASE OpenPipe
    BY <2>1 DEF OpenPipe
  <2>2. CASE PipeFails
    BY <2>2 DEF PipeFails, kernel
  <2>3. CASE Fork
    BY <2>3 DEF Fork
  <2>4. CASE ForkFails
    BY <2>4 DEF ForkFails, kernel
  <2>5. CASE PublishPid
    BY <2>5 DEF PublishPid, kernel
  <2>6. CASE TestStop
    BY <2>6 DEF TestStop, Goto
  <2>7. CASE ReadChunk
    BY <2>7 DEF ReadChunk, Goto
  <2>8. CASE ReadEof
    BY <2>8 DEF ReadEof, Goto, Lives
  <2>9. CASE ReadInterrupted
    BY <2>9 DEF ReadInterrupted, Goto
  <2>10. CASE ReadFails
    BY <2>10 DEF ReadFails, Goto
  <2>11. CASE EmitFrame
    BY <2>11 DEF EmitFrame, Goto
  <2>12. CASE ParseDone
    BY <2>12 DEF ParseDone, Goto
  <2>13. CASE ParseOversized
    BY <2>13 DEF ParseOversized, Goto
  <2>14. CASE CloseRead
    BY <2>14 DEF CloseRead, kernel
  <2>15. CASE SelfKill
    BY <2>15 DEF SelfKill, Kill
  <2>16. CASE WaitChild
    BY <2>16 DEF WaitChild
  <2>17. CASE ClearPid
    BY <2>17 DEF ClearPid, kernel
  <2> QED
    BY <1>5, <2>1, <2>2, <2>3, <2>4, <2>5, <2>6, <2>7, <2>8, <2>9, <2>10, <2>11,
       <2>12, <2>13, <2>14, <2>15, <2>16, <2>17
       DEF Capture
<1>6. ASSUME NEW n \in Pid,
             \/ ChildExecs(n) \/ ChildWrites(n) \/ ChildLosesReader(n)
             \/ ChildTerminated(n) \/ ChildExits(n) \/ SignalGroup(n)
      PROVE  PlaceInv'
  <2>1. CASE ChildExecs(n)
    BY <2>1 DEF ChildExecs, SetProc
  <2>2. CASE ChildWrites(n)
    BY <2>2 DEF ChildWrites
  <2>3. CASE ChildLosesReader(n)
    BY <2>3 DEF ChildLosesReader, SetProc
  <2>4. CASE ChildTerminated(n)
    BY <2>4 DEF ChildTerminated, SetProc
  <2>5. CASE ChildExits(n)
    BY <2>5 DEF ChildExits, Lives, SetProc
  <2>6. CASE SignalGroup(n)
    BY <2>6 DEF SignalGroup, Kill
  <2> QED
    BY <1>6, <2>1, <2>2, <2>3, <2>4, <2>5, <2>6
<1> QED
  BY <1>1, <1>2, <1>3, <1>4, <1>5, <1>6 DEF Next

\* The two flags stay flags.
LEMMA FlagsStep == Flags /\ Next => Flags'
<1> SUFFICES ASSUME Flags, Next PROVE Flags'
  OBVIOUS
<1>1. CASE Start \/ RequestStop \/ StopKill \/ Join
  BY <1>1, Zenon DEF Flags, Reports, Start, RequestStop, StopKill, Join
<1>2. CASE Capture
  <2>1. CASE OpenPipe \/ PipeFails \/ Fork \/ ForkFails \/ PublishPid
    BY <2>1, Zenon DEF Flags, Reports, OpenPipe, PipeFails, Fork, ForkFails, PublishPid
  <2>2. CASE TestStop \/ ReadChunk \/ ReadInterrupted \/ ReadFails
    BY <2>2, Zenon DEF Flags, Reports, TestStop, ReadChunk, ReadInterrupted, ReadFails, Goto
  <2>3. CASE ReadEof
    BY <2>3, Zenon DEF Flags, Reports, ReadEof, Goto
  <2>4. CASE EmitFrame \/ ParseDone \/ ParseOversized
    BY <2>4, Zenon DEF Flags, Reports, EmitFrame, ParseDone, ParseOversized, Goto
  <2>5. CASE CloseRead \/ SelfKill \/ WaitChild \/ ClearPid
    BY <2>5, Zenon DEF Flags, Reports, CloseRead, SelfKill, WaitChild, ClearPid
  <2> QED
    BY <1>2, <2>1, <2>2, <2>3, <2>4, <2>5, Zenon DEF Capture
<1>3. ASSUME NEW n \in Pid,
             \/ ChildExecs(n) \/ ChildWrites(n) \/ ChildLosesReader(n)
             \/ ChildTerminated(n) \/ ChildExits(n) \/ SignalGroup(n)
      PROVE  Flags'
  BY <1>3, Zenon DEF Flags, Reports, ChildExecs, ChildWrites, ChildLosesReader,
                     ChildTerminated, ChildExits, SetProc, SignalGroup
<1> QED
  BY <1>1, <1>2, <1>3, Zenon DEF Next

\* Nobody leaves the read loop, or fails before it, without a reason.
LEMMA ReportStep == ReportInv /\ Next => ReportInv'
<1> SUFFICES ASSUME ReportInv, Next PROVE ReportInv'
  OBVIOUS
<1> USE DEF ReportInv
<1>1. CASE Start
  BY <1>1 DEF Start
<1>2. CASE RequestStop
  BY <1>2 DEF RequestStop
<1>3. CASE StopKill
  BY <1>3 DEF StopKill
<1>4. CASE Join
  BY <1>4 DEF Join
<1>5. CASE Capture
  <2>1. CASE OpenPipe
    BY <2>1 DEF OpenPipe
  <2>2. CASE PipeFails
    BY <2>2 DEF PipeFails
  <2>3. CASE Fork
    BY <2>3 DEF Fork
  <2>4. CASE ForkFails
    BY <2>4 DEF ForkFails
  <2>5. CASE PublishPid
    BY <2>5 DEF PublishPid
  <2>6. CASE TestStop
    BY <2>6 DEF TestStop, Goto
  <2>7. CASE ReadChunk
    BY <2>7 DEF ReadChunk, Goto
  <2>8. CASE ReadEof
    <3>1. stop' = stop /\ (stop \/ reported' = "end")
      BY <2>8, Zenon DEF ReadEof, Goto
    <3> QED
      BY <3>1, Zenon
  <2>9. CASE ReadInterrupted
    BY <2>9 DEF ReadInterrupted, Goto
  <2>10. CASE ReadFails
    BY <2>10 DEF ReadFails, Goto
  <2>11. CASE EmitFrame
    BY <2>11 DEF EmitFrame, Goto
  <2>12. CASE ParseDone
    BY <2>12 DEF ParseDone, Goto
  <2>13. CASE ParseOversized
    BY <2>13 DEF ParseOversized, Goto
  <2>14. CASE CloseRead
    BY <2>14 DEF CloseRead
  <2>15. CASE SelfKill
    BY <2>15 DEF SelfKill
  <2>16. CASE WaitChild
    BY <2>16 DEF WaitChild
  <2>17. CASE ClearPid
    BY <2>17 DEF ClearPid
  <2> QED
    BY <1>5, <2>1, <2>2, <2>3, <2>4, <2>5, <2>6, <2>7, <2>8, <2>9, <2>10, <2>11,
       <2>12, <2>13, <2>14, <2>15, <2>16, <2>17,
       Zenon DEF Capture
<1>6. ASSUME NEW n \in Pid,
             \/ ChildExecs(n) \/ ChildWrites(n) \/ ChildLosesReader(n)
             \/ ChildTerminated(n) \/ ChildExits(n) \/ SignalGroup(n)
      PROVE  ReportInv'
  <2>1. UNCHANGED <<pc, stop, reported>>
    BY <1>6 DEF ChildExecs, ChildWrites, ChildLosesReader, ChildTerminated,
                ChildExits, SetProc, SignalGroup
  <2> QED
    BY <2>1
<1> QED
  BY <1>1, <1>2, <1>3, <1>4, <1>5, <1>6, Zenon DEF Next

\* Every step, and every stutter, keeps the inductive invariant.
LEMMA NextIInv == IInv /\ [Next]_vars => IInv'
<1> SUFFICES ASSUME IInv, [Next]_vars PROVE IInv'
  OBVIOUS
<1>1. CASE Next
  BY <1>1, PlaceStep, FlagsStep, ReportStep DEF IInv
<1>2. CASE UNCHANGED vars
  <2> USE <1>2 DEF IInv, vars
  <2>1. PlaceInv'
    BY DEF PlaceInv, Data, ThreadInv, ChildInv, PidInv, PipeInv
  <2>2. Flags' /\ ReportInv'
    BY Zenon DEF Flags, ReportInv
  <2> QED
    BY <2>1, <2>2
<1> QED
  BY <1>1, <1>2

\* The inductive invariant holds in every reachable state.
LEMMA Invariance == Spec => []IInv
  BY InitIInv, NextIInv, PTL DEF Spec

-----------------------------------------------------------------------------
\* Every variable keeps its type.
THEOREM TypeCorrect == Spec => []TypeOK
<1>1. IInv => TypeOK
  BY Zenon DEF IInv, PlaceInv, Data, Flags, TypeOK
<1> QED
  BY <1>1, Invariance, PTL

\* After stop() no capture thread, child, descriptor or process id is left,
\* however often the object was started and whichever call failed.
THEOREM CleanStop == Spec => []StopLeavesNothing
<1>1. IInv => StopLeavesNothing
  <2> SUFFICES ASSUME IInv, owner = "idle" PROVE
        /\ pc \in {"none", "done"}
        /\ \A n \in Pid : proc[n] \in {"none", "reaped"}
        /\ fds = {}
        /\ childPid = -1
    BY Zenon DEF StopLeavesNothing
  <2> USE DEF IInv, PlaceInv
  <2>1. pc \in {"none", "done"}
    BY DEF ThreadInv
  <2>2. \A n \in Pid : proc[n] \in {"none", "reaped"}
    BY <2>1 DEF ChildInv, ThreadInv, Data, Pid
  <2>3. fds = {} /\ childPid = -1
    BY <2>1 DEF PipeInv, PidInv
  <2> QED
    BY <2>1, <2>2, <2>3
<1> QED
  BY <1>1, Invariance, PTL

\* A capture that ends unasked has told on_error of its end.
THEOREM ReportedEnd == Spec => []EndIsReported
<1>1. IInv => EndIsReported
  BY DEF IInv, ReportInv, EndIsReported
<1> QED
  BY <1>1, Invariance, PTL

\* child_pid_ names the kernel's child until the child is reaped, and stop()
\* can find it as long as the capture thread reads.
THEOREM PidCorrect == Spec => []PidIsChild
<1>1. IInv => PidIsChild
  <2> SUFFICES ASSUME IInv PROVE PidIsChild
    OBVIOUS
  <2>1. childPid # -1 => Lives(childPid) \/ proc[childPid] = "zombie" \/ pc = "clear"
    BY DEF IInv, PlaceInv, Data, PidInv, ChildInv, Lives, Pid
  <2>2. pc \in {"loop", "read", "parse", "close", "kill", "wait"} => childPid = starts
    BY DEF IInv, PlaceInv, PidInv
  <2> QED
    BY <2>1, <2>2 DEF PidIsChild
<1> QED
  BY <1>1, Invariance, PTL
=============================================================================
