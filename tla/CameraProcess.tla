---------------------------- MODULE CameraProcess ----------------------------
(***************************************************************************)
(* CameraProcess of client/src/camera_process.cpp: the owner thread calls  *)
(* start and stop, the capture thread it creates forks rpicam-vid, reads   *)
(* its MJPEG output from a pipe, hands frames and errors to callbacks and  *)
(* reaps the child.  The owner and the capture thread share the stop token *)
(* and, under child_mutex_, child_pid_; the kernel's view of the child is  *)
(* modelled next to it, because the two can disagree.                      *)
(*                                                                         *)
(* Process ids are numbered by start; the n-th start's child is process n. *)
(***************************************************************************)
EXTENDS Integers

CONSTANTS
  MaxStarts,     \* bound: how often the object is started
  PipeCapacity,  \* chunks the pipe holds before rpicam-vid blocks
  ChunkFrames    \* bound: JPEG frames one read may complete

ASSUME ProcessAssumption ==
  /\ MaxStarts \in Nat
  /\ PipeCapacity \in Nat \ {0}
  /\ ChunkFrames \in Nat

VARIABLES
  owner,     \* where the owning thread is in start/stop
  starts,    \* starts so far; the current child, if any, is this process
  stop,      \* the jthread's stop token
  pc,        \* where the capture thread is in capture_loop
  childPid,  \* child_pid_
  proc,      \* the kernel's state of each process id
  term,      \* processes with a SIGTERM on its way
  pipe,      \* unread chunks
  fds,       \* pipe ends the parent holds open
  chunk,     \* complete frames left in the chunk being parsed
  reported   \* history: the gravest on_error since the last start

vars == <<owner, starts, stop, pc, childPid, proc, term, pipe, fds, chunk, reported>>

Pid == 1 .. MaxStarts

\* "idle": no joinable thread; "stopping": request_stop done, kill not yet;
\* "joining": inside thread_.join().
Owner == {"idle", "started", "stopping", "joining"}

\* The capture thread between two of its system calls or critical sections.
PC == {"none", "pipe", "fork", "publish", "loop", "read", "parse",
       "close", "kill", "wait", "clear", "done"}

\* on_error was not called; only for frames that were too large; or for what
\* ends the capture.
Reports == {"nothing", "overflow", "end"}

TypeOK ==
  /\ owner \in Owner
  /\ starts \in 0 .. MaxStarts
  /\ stop \in BOOLEAN
  /\ pc \in PC
  /\ childPid \in Pid \cup {-1}
  /\ proc \in [Pid -> {"none", "forked", "running", "zombie", "reaped"}]
  /\ term \in SUBSET Pid
  /\ pipe \in 0 .. PipeCapacity
  /\ fds \in SUBSET {"read", "write"}
  /\ chunk \in 0 .. ChunkFrames
  /\ reported \in Reports

Init ==
  /\ owner = "idle"
  /\ starts = 0
  /\ stop = FALSE
  /\ pc = "none"
  /\ childPid = -1
  /\ proc = [n \in Pid |-> "none"]
  /\ term = {}
  /\ pipe = 0
  /\ fds = {}
  /\ chunk = 0
  /\ reported = "nothing"

kernel == <<proc, term, pipe>>

Lives(n) == proc[n] \in {"forked", "running"}

\* kill(n, SIGTERM).  Until exec the child has the parent's handler, which only
\* sets the child's copy of a flag: a signal that arrives before exec is lost,
\* unless it is still pending when exec restores the default action.
Kill(n) ==
  term' \in CASE proc[n] = "running" -> {term \cup {n}}
              [] proc[n] = "forked" -> {term, term \cup {n}}
              [] OTHER -> {term}

-----------------------------------------------------------------------------
(* The owner: start and stop.  A second start without stop throws and a stop *)
(* without start returns; neither changes anything.                          *)

Start ==
  /\ owner = "idle"
  /\ starts < MaxStarts
  /\ owner' = "started"
  /\ starts' = starts + 1
  /\ stop' = FALSE
  /\ pc' = "pipe"
  /\ reported' = "nothing"
  /\ UNCHANGED <<childPid, kernel, fds, chunk>>

RequestStop ==
  /\ owner = "started"
  /\ owner' = "stopping"
  /\ stop' = TRUE
  /\ UNCHANGED <<starts, pc, childPid, kernel, fds, chunk, reported>>

\* The critical section of stop().
StopKill ==
  /\ owner = "stopping"
  /\ owner' = "joining"
  /\ IF childPid > 0 THEN Kill(childPid) ELSE UNCHANGED term
  /\ UNCHANGED <<starts, stop, pc, childPid, proc, pipe, fds, chunk, reported>>

Join ==
  /\ owner = "joining"
  /\ pc = "done"
  /\ owner' = "idle"
  /\ UNCHANGED <<starts, stop, pc, childPid, kernel, fds, chunk, reported>>

-----------------------------------------------------------------------------
(* capture_loop: pipe, fork and the publication of the child's id *)

OpenPipe ==
  /\ pc = "pipe"
  /\ pc' = "fork"
  /\ fds' = {"read", "write"}
  /\ pipe' = 0
  /\ UNCHANGED <<owner, starts, stop, childPid, proc, term, chunk, reported>>

PipeFails ==
  /\ pc = "pipe"
  /\ pc' = "done"
  /\ reported' = "end"
  /\ UNCHANGED <<owner, starts, stop, childPid, kernel, fds, chunk>>

Fork ==
  /\ pc = "fork"
  /\ pc' = "publish"
  /\ proc' = [proc EXCEPT ![starts] = "forked"]
  /\ fds' = {"read"}
  /\ UNCHANGED <<owner, starts, stop, childPid, term, pipe, chunk, reported>>

\* Faults: the error path forgets the pipe; it returns without telling anyone.
ForkFailsLeaking ==
  /\ pc = "fork"
  /\ pc' = "done"
  /\ reported' = "end"
  /\ UNCHANGED <<owner, starts, stop, childPid, kernel, fds, chunk>>

ForkFailsSilently ==
  /\ pc = "fork"
  /\ pc' = "done"
  /\ fds' = {}
  /\ UNCHANGED <<owner, starts, stop, childPid, kernel, chunk, reported>>

ForkFails ==
  /\ pc = "fork"
  /\ pc' = "done"
  /\ fds' = {}
  /\ reported' = "end"
  /\ UNCHANGED <<owner, starts, stop, childPid, kernel, chunk>>

PublishPid ==
  /\ pc = "publish"
  /\ pc' = "loop"
  /\ childPid' = starts
  /\ UNCHANGED <<owner, starts, stop, kernel, fds, chunk, reported>>

-----------------------------------------------------------------------------
(* capture_loop: the read loop *)

Goto(place) ==
  /\ pc' = place
  /\ UNCHANGED <<owner, starts, stop, childPid, proc, term, fds>>

\* Fault: the loop reads on until the end of the stream.
TestStopNever ==
  /\ pc = "loop"
  /\ Goto("read")
  /\ UNCHANGED <<pipe, chunk, reported>>

TestStop ==
  /\ pc = "loop"
  /\ Goto(IF stop THEN "close" ELSE "read")
  /\ UNCHANGED <<pipe, chunk, reported>>

\* read returned bytes that complete some number of frames.
ReadChunk ==
  /\ pc = "read"
  /\ pipe > 0
  /\ pipe' = pipe - 1
  /\ chunk' \in 0 .. ChunkFrames
  /\ Goto("parse")
  /\ UNCHANGED reported

\* read returned 0: no writer is left.  A stop under way is no error.
ReadEof ==
  /\ pc = "read"
  /\ pipe = 0
  /\ ~Lives(starts)
  /\ reported' = IF stop THEN reported ELSE "end"
  /\ Goto("close")
  /\ UNCHANGED <<pipe, chunk>>

ReadInterrupted ==
  /\ pc = "read"
  /\ Goto("loop")
  /\ UNCHANGED <<pipe, chunk, reported>>

ReadFails ==
  /\ pc = "read"
  /\ reported' = "end"
  /\ Goto("close")
  /\ UNCHANGED <<pipe, chunk>>

\* Fault: on_frame is called before an EOI marker was found.
EmitFrameUnchecked ==
  /\ pc = "parse"
  /\ chunk' = chunk - 1
  /\ Goto("parse")
  /\ UNCHANGED <<pipe, reported>>

\* on_frame
EmitFrame ==
  /\ pc = "parse"
  /\ chunk > 0
  /\ chunk' = chunk - 1
  /\ Goto("parse")
  /\ UNCHANGED <<pipe, reported>>

ParseDone ==
  /\ pc = "parse"
  /\ chunk = 0
  /\ Goto("loop")
  /\ UNCHANGED <<pipe, chunk, reported>>

\* More than kMaximumBufferedBytes are left over: they are dropped and on_error
\* is called, but the loop goes on.
ParseOversized ==
  /\ pc = "parse"
  /\ chunk = 0
  /\ reported' = "overflow"
  /\ Goto("loop")
  /\ UNCHANGED <<pipe, chunk>>

-----------------------------------------------------------------------------
(* capture_loop: cleanup *)

CloseRead ==
  /\ pc = "close"
  /\ pc' = "kill"
  /\ fds' = fds \ {"read"}
  /\ UNCHANGED <<owner, starts, stop, childPid, kernel, chunk, reported>>

SelfKill ==
  /\ pc = "kill"
  /\ pc' = "wait"
  /\ IF stop THEN UNCHANGED term ELSE Kill(starts)
  /\ UNCHANGED <<owner, starts, stop, childPid, proc, pipe, fds, chunk, reported>>

\* Fault: the exited child is never waited for.
WaitNever ==
  /\ pc = "wait"
  /\ Goto("clear")
  /\ UNCHANGED <<pipe, chunk, reported>>

\* waitpid returns: from here the kernel may give the id to another process.
WaitChild ==
  /\ pc = "wait"
  /\ proc[starts] = "zombie"
  /\ pc' = "clear"
  /\ proc' = [proc EXCEPT ![starts] = "reaped"]
  /\ UNCHANGED <<owner, starts, stop, childPid, term, pipe, fds, chunk, reported>>

\* Fault: child_pid_ is not reset.
ClearPidNever ==
  /\ pc = "clear"
  /\ Goto("done")
  /\ UNCHANGED <<pipe, chunk, reported>>

ClearPid ==
  /\ pc = "clear"
  /\ pc' = "done"
  /\ childPid' = -1
  /\ UNCHANGED <<owner, starts, stop, kernel, fds, chunk, reported>>

Capture ==
  \/ OpenPipe \/ PipeFails \/ Fork \/ ForkFails \/ PublishPid
  \/ TestStop \/ ReadChunk \/ ReadEof \/ ReadInterrupted \/ ReadFails
  \/ EmitFrame \/ ParseDone \/ ParseOversized
  \/ CloseRead \/ SelfKill \/ WaitChild \/ ClearPid

-----------------------------------------------------------------------------
(* rpicam-vid and the kernel *)

SetProc(n, state) ==
  /\ proc' = [proc EXCEPT ![n] = state]
  /\ UNCHANGED <<owner, starts, stop, pc, childPid, term, pipe, fds, chunk, reported>>

ChildExecs(n) == proc[n] = "forked" /\ SetProc(n, "running")

ChildWrites(n) ==
  /\ proc[n] = "running"
  /\ "read" \in fds
  /\ pipe < PipeCapacity
  /\ pipe' = pipe + 1
  /\ UNCHANGED <<owner, starts, stop, pc, childPid, proc, term, fds, chunk, reported>>

\* Writing to a pipe nobody reads ends it (SIGPIPE or a write error).
ChildLosesReader(n) ==
  proc[n] = "running" /\ "read" \notin fds /\ SetProc(n, "zombie")

ChildTerminated(n) ==
  proc[n] = "running" /\ n \in term /\ SetProc(n, "zombie")

\* exec fails, the camera is unplugged, somebody else kills it, ...
ChildExits(n) == Lives(n) /\ SetProc(n, "zombie")

\* A signal to the whole process group (Ctrl-C, systemd) reaches the child, too.
SignalGroup(n) ==
  /\ Lives(n)
  /\ Kill(n)
  /\ UNCHANGED <<owner, starts, stop, pc, childPid, proc, pipe, fds, chunk, reported>>

-----------------------------------------------------------------------------
Next ==
  \/ Start \/ RequestStop \/ StopKill \/ Join
  \/ Capture
  \/ \E n \in Pid :
       \/ ChildExecs(n) \/ ChildWrites(n)
       \/ ChildLosesReader(n) \/ ChildTerminated(n) \/ ChildExits(n)
       \/ SignalGroup(n)

Spec == Init /\ [][Next]_vars

\* What the capture thread does when nothing fails; a read without data blocks.
Progress ==
  \/ OpenPipe \/ Fork \/ PublishPid
  \/ TestStop \/ ReadChunk \/ ReadEof \/ EmitFrame \/ ParseDone
  \/ CloseRead \/ SelfKill \/ WaitChild \/ ClearPid

\* Threads run, SIGTERM ends rpicam-vid, and EINTR does not come before every
\* read that could return something.  Nothing makes a silent child write.
Fairness ==
  /\ WF_vars(StopKill) /\ WF_vars(Join)
  /\ WF_vars(Progress) /\ SF_vars(ReadChunk \/ ReadEof)
  /\ \A n \in Pid : WF_vars(ChildExecs(n)) /\ WF_vars(ChildTerminated(n))

FairSpec == Spec /\ Fairness

\* A camera that delivers frames: it writes while it can, and notices that
\* nobody reads any more.
StreamingSpec ==
  FairSpec /\ \A n \in Pid : WF_vars(ChildWrites(n)) /\ WF_vars(ChildLosesReader(n))

-----------------------------------------------------------------------------
(* Properties *)

\* Once stop() has returned nothing of the capture is left: the thread that
\* calls back into the owner's locals is over, the child is reaped, the pipe
\* is closed and no process id is remembered.
StopLeavesNothing ==
  owner = "idle" =>
    /\ pc \in {"none", "done"}
    /\ \A n \in Pid : proc[n] \in {"none", "reaped"}
    /\ fds = {}
    /\ childPid = -1

\* A capture that ended without being asked to has told its owner about this
\* end, whichever call failed, and not only of an oversized frame before it; a
\* stopped one need not.
EndIsReported == pc = "done" /\ ~stop => reported = "end"

\* The id under child_mutex_ is the kernel's child whenever it is set, except
\* between waitpid and its reset (where a stop() would signal a reaped id,
\* against the comment at camera_process.cpp:266), and the child is known to
\* stop() for as long as the capture thread reads from it.
PidIsChild ==
  /\ childPid # -1 => Lives(childPid) \/ proc[childPid] = "zombie" \/ pc = "clear"
  /\ pc \in {"loop", "read", "parse", "close", "kill", "wait"} => childPid = starts

\* stop() comes back, whenever it is called.
StopReturns == owner = "stopping" ~> owner = "idle"

\* A child that ended on its own is reaped without waiting for stop().
DeadChildReaped == \A n \in Pid : proc[n] = "zombie" ~> proc[n] = "reaped"
=============================================================================
