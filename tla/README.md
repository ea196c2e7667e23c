# Verification of the Raspberry Pi camera relay

This directory holds TLA+ models of the program in `src/`, the TLC
configurations that check them on small instances, and proofs, checked by the
TLA+ proof system, that hold for every value of the constants.  Line numbers
are those of the sources this project was written against.

Contents: [the system](#the-system), [inventory](#inventory),
[modules and code](#modules-and-code), [runs](#runs), [fairness](#fairness),
[proofs](#proofs), [findings](#findings),
[abstractions](#abstractions), [what is not modelled](#what-is-not-modelled),
[plan](#plan).

## The system

A Raspberry Pi runs the C++ client (`client/`).  It starts `rpicam-vid`, cuts
its MJPEG output into JPEG frames and sends them, one at a time, over
Socket.IO to a NestJS server (`server/src`).  The server passes each frame to a
vision service (`server/vision`, FastAPI and OpenCV) and broadcasts the result
to browsers (`server/public`).

```
 rpicam-vid --pipe--> capture thread --push--> one-slot queue --pop_for--> main thread
 (child)              CameraProcess            LatestFrameQueue            Application
                      + MJPEG parser                                          |
                          ^ SIGTERM, waitpid       signal flag (main.cpp) --->|
                                                                              | send_frame
                                                                       SocketIoClient
                                                                              | WebSocket, one frame
                                                                              v and its ACK
 browser <--viewer:frame, camera:status-- CameraGateway --acceptFrame--> CameraService
                                                                              | POST, 5 s limit
                                                                              v
                                                                       vision service
```

The design choice behind it all is latency over completeness: the client keeps
one frame and overwrites it, the server refuses a frame while another one of
the same camera is being processed, and nothing is retransmitted.

## Inventory

**LatestFrameQueue** (`latest_frame_queue.hpp`).  State: the optional frame
`latest_` and `closed_` under one mutex, a condition variable.  Operations:
`push`, `pop_for`, `close`.  The capture thread pushes, the main thread pops,
either may close.  Hard: wake-ups, timeouts and `close` cross each other.
Correct when no wake-up is lost, every frame has one fate, deliveries are the
newest frame, and nothing comes out after `close`.

**CameraProcess** (`camera_process.cpp`).  State: the `jthread` with its stop
token, `child_pid_` under `child_mutex_`, and in the capture thread the pipe
and the parse buffer; behind it the kernel's state of the child.  Operations:
`start`, `stop`, and the steps of `capture_loop` (pipe, fork, read, parse,
kill, waitpid).  Talks to its owner by two callbacks.  Hard: `stop` runs
concurrently with every one of these steps, each of which may fail, and the
child lives its own life.  Correct when `stop` returns and leaves neither
thread nor child nor descriptor, an unrequested end is reported, and a signal
goes to nobody but the child.

**MJPEG parser** (the inner loop of `capture_loop`).  State: `pending`.  Hard:
`read` splits the stream anywhere, markers included, and an oversized buffer is
dropped in the middle of a frame.  Correct when the frames do not depend on the
splitting and memory is bounded.

**Application** (`application.cpp`).  State:
the queue, the camera, the connection, `camera_failed`, the backoff.  One
operation, `run`, and two callbacks that run on the capture thread.  Hard:
signals, capture failures and network failures in every combination and at
every point, and shutdown in the right order, because the callbacks refer to
`run`'s locals.  Correct when it ends for the right reasons with the right
code, always ends when it should, leaves nothing behind and never sends a frame
twice.

**SocketIoClient** (`socket_io_client.cpp`).  State: the WebSocket,
`authenticated_`, `next_ack_id_`.  Operations: `connect`, `send_frame`,
`disconnect`, all blocking.  Hard: pings and broadcasts arrive between request
and answer, the connection may break after any message, and answers to frames
of a former connection are still on their way.  Correct when a returned verdict
belongs to that very frame.

**CameraService** (`camera.service.ts`).  State: the Map of `CameraState`
objects, the set `processing`, the Map `lastAcceptedAt`.  Operations: `connect`,
`disconnect`, `acceptFrame` (asynchronous, one `await`), `list`.  Hard: every
other handler may run during the `await`, `connect` replaces the object that a
pending call holds, and the wall clock may step.  Correct when at most one
frame per camera is in flight, the statistics add up and the rate is capped.

**CameraGateway** (`camera.gateway.ts`).  State: the sockets and the identity
stored on them.  Operations: `handleConnection`, `handleDisconnect`, `onFrame`.
Hard: an old socket of a camera may close long after its successor connected,
and results arrive when the sender is gone.  Correct when presence follows the
sockets, viewers know what the server knows, frames reach them in order and
every frame is answered.

**OpenCvService** (`opencv.service.ts`).  No state; one request with a limit of
5 s.  Hard: after the limit the request goes on without the server.

**Vision service** (`vision/app.py`).  State: `previous_frames`, the previous
grey image per camera.  Operation: `process`, on the event loop of one process.
Hard: a request the server has given up is still processed, perhaps after a newer
one, and its image becomes the baseline of the next motion detection.  Correct
when a result shows motion relative to the image its camera showed last, or to one
whose call failed, however old, or to none; never to a newer one, nor to one shown
earlier than the last.

**Config** (`config.cpp`, `config.hpp`).  Pure: environment and arguments to one
validated value, or an exception.  Hard: three sources with an order of
precedence, values that look like options, numbers with a tail, and a URL that
is validated by its first characters but read by another module.  Correct when
the result is the documented merge, and an exception means there is none.

**main** (`main.cpp`).  State: the signal flag and the installed handlers.  Help,
handlers, configuration, `run`, and the exit code that systemd decides by.
Hard: signals before, between and after the two handlers.  Correct when 0 means
help or a requested end, 1 that no server was dialled, and 2 a started client.

**Browser viewer** (`public/app.js`), **bootstrap and health**
(`app.module.ts`, `main.ts`, `health.controller.ts`), **Python sender**
(`raspberry-pi/sender.py`), **tests**, **packaging**: see
[what is not modelled](#what-is-not-modelled).

The hazards of this code, each at its line and with the properties that would
catch it, are listed in `PROJECT.json`.

## Modules and code

| Module | Models | Kind |
|---|---|---|
| `FrameStream` | what the queue promises: a delivery is the newest frame offered | abstract |
| `LatestFrameQueue` | `push`, `pop_for`, `close`, the condition variable | detailed, implements `FrameStream` |
| `CameraProcess` | `start`, `stop`, `capture_loop`, child and kernel | detailed |
| `MjpegParser` | the inner loop of `capture_loop` on bytes | algorithm |
| `Application` | `run`, callbacks, signals, over `LatestFrameQueue` and `CameraProcess` | composition |
| `FrameExchange` | what the connection promises: a verdict on that very frame, or nothing | abstract |
| `SocketIoClient` | `connect`, `send_frame`, `disconnect` against the server's half of the protocol | detailed, implements `FrameExchange` |
| `FrameGate` | what the server promises about counting and admitting frames | abstract |
| `CameraService` | `connect`, `disconnect`, `acceptFrame` | detailed, implements `FrameGate` |
| `Vision` | `process` of `opencv.service.ts` and of `app.py` behind `CameraService` | composition |
| `CameraGateway` | the three gateway handlers over `CameraService` | composition |
| `Config` | `parse_config` with environment, arguments and `validate` | detailed |
| `ClientMain` | `main` around `Config`, and `parse_server_url`, which reads the result | composition |
| `MCClientMain` | words, environments and command lines for checking `ClientMain` | instance |
| `*_proofs` | theorems about the module they are named after | proofs |

How state and actions correspond to the code, module by module:

- **LatestFrameQueue.**  `latest`, `closed` are the members; frames are numbered
  in capture order.  A public method is one critical section and so one step;
  `pop_for` is one step up to its wait and one from each wake-up (notified,
  spurious, timed out) to the next wait or the return, because that is where
  the mutex is released.  After its deadline `wait_for` evaluates the predicate
  once more, which `TimedOutReturn` does.
- **CameraProcess.**  `pc` is the place of the capture thread between two system
  calls or critical sections, `owner` that of the thread in `start`/`stop`;
  `stop` splits where other threads can come between: `request_stop`, the
  critical section with `kill`, `join`.  `childPid` is `child_pid_`, and `proc`
  is what the kernel knows; they are separate variables because they disagree
  after `waitpid`.  `Kill` loses a signal that meets a child before `exec`,
  whose handler (inherited from the parent) only sets a flag of the child.
  `SignalGroup` is a signal that reaches the child without this program, because the
  terminal or systemd sent it to the whole group.
- **MjpegParser.**  `pending` is the buffer.  A step is a `read` with its insert,
  one pass of the parse loop, or the limit check.  `frames` records where in the
  stream each frame handed to `on_frame` lies.
- **Application.**  `Queue` and `Camera` are instances of the two modules, with
  the main thread as the only consumer and as the owner.  `OnFrame` is the step
  of the capture thread joined with `push`; `OnError` is the lambda that tests
  the flag, stores `camera_failed` and closes the queue.  `CaptureFails` and
  `CaptureSteps` divide the capture's steps into those that call `on_error` and
  those that do not.  `SendSignal` sets the flag and may at once reach the child
  (`SignalGroup`).
- **SocketIoClient.**  `up` and `down` are the two directions of the WebSocket,
  `pc` the next blocking read or write of the call in progress.  Each branch of
  the two receive loops is an action.  The server's half (`ServerOpens`,
  `ServerReceives`, `ServerNoise`) is external; `ServerAnswers` is `onFrame`.
- **CameraService.**  An object in the Map has an identity, the number `object`.
  `acceptFrame` is a step that drops the frame or starts the vision call, and a
  later `Resolve` or `Reject`; a write through the kept reference reaches the
  Map only if the identity is still the current one.
- **CameraGateway.**  A socket is fresh, open or closed, and never reopened.
  What a viewer was sent is represented by what it knows after reading all of
  it (`told`, `shown`), which a WebSocket's order justifies.
- **Vision.**  Extends `CameraService` by what is outside the server: the requests
  the vision service has not answered, the answers on their way, and
  `previous_frames`.  `PostFrame` is `StartFrame` with the POST it causes;
  `ProcessFrame` is one step, because `process` does not await between reading the
  image and its response; `GiveUp` rejects the call and leaves the request where
  it is.  `shown` and `failed` are histories for `MotionLooksBack`.
- **Config.**  A word stands for itself, and what the code asks of its characters
  is given by sets of words.  A number is represented by the word it was read from,
  so that a `Config` is a function from fields to words.  A step is the reading of
  the whole environment, of one pair of arguments, or `validate`; the exceptions
  are steps to `thrown`.
- **ClientMain.**  `pc` is the place of `main`; a signal may arrive at every place.
  What `run` does is in `Application`; here it reads the URL (each `connect` does so
  anew), returns or throws.  A URL is the sequence of characters behind `http://`.

Operators introduced by a comment that begins with "Fault" are not part of any
specification: each is a plausible mistake in the action below it, and shows
that the property listed with it in `PROJECT.json` would notice.

## Runs

Passing runs.  Every property also fails when the fault named for it in
`PROJECT.json` is put in place of the action it mutates.

| Run | Question | Bounds, and why they are enough | States |
|---|---|---|---|
| `queue` | Is a wake-up ever lost, a frame lost or delivered twice? | 2 consumers: the least for a notification to go to the wrong one; 4 frames: one each to deliver, replace, discard and refuse | 766 |
| `service` | Do backpressure and cap survive reconnects, failures and a clock that steps, and what do motion results look back to? | `Vision` with 1 camera (neither service has state across cameras), 3 frames (one given up, one processed before it and one after), 1 reconnect, any number of restarts of the vision service, a clock from 2 to 7 and an interval of 2: three admissions with time to step back in between | 210,366 |
| `gateway` | Do presence, viewers' knowledge, order and answers stay right? | 3 sockets that take any role, 2 ids: two cameras and a viewer, two sockets of one camera and a viewer, two viewers and a camera; 2 frames per camera, no rate cap | 92,014 |
| `camera` | Does `stop` always return and leave nothing? | 2 starts (what an earlier child could leave for a later one), a pipe of 2, 2 frames per read | 3,205 |
| `client` | Does the client end for the right reasons, and always when it should? | 2 frames, a backoff cap of 4 s (two doublings and the cap), any number of reconnects and failures | 162,748 |
| `config` | Is the configuration the documented merge, does the client dial what it says, and what does the exit code let conclude? | every field with values on both sides of each bound and with malformed ones, alone in the environment and as an argument, and pairs of options: the same twice, a text and a number, a bad one behind a good one; help words in every place; twelve URLs with each placement of slash and colon; 3,040 initial states | 57,176 |
| `socket_io` | Does each verdict belong to its frame? | 3 frames, 2 connections, 2 pings or broadcasts per connection: one frame each answered, broken off and sent over the next connection, with an answer of the first connection still to come | 67,976 |
| `mjpeg` | Do the frames depend on the chunks? | streams of up to 10 bytes over the three marker bytes, chunks of 1 to 3, a limit of 4: two frames, a marker across each boundary, and an overflow inside a frame | 551,905 |

What they check, beyond one type invariant each:

- `queue`: `NoLostWakeup`, `Conservation`, `CloseReleasesWaiters` (without help
  of the timeout), and `StreamSpec`, that the queue implements `FrameStream`: what
  comes out is in capture order and newest first, and nothing comes out after
  `close`.
- `service`: `OneInFlight`, `AdmissionsApart` (each admission is stamped an interval
  after the one before, and no failure, reconnect or refused frame moves the stamp),
  `GateSpec`, that the service implements `FrameGate` including its statistics, and
  `MotionLooksBack`.
- `gateway`: `OnlineHasSocket`, `ViewersAreCurrent`, `ViewerFrameOrder` (also with
  two sockets under one camera id) and `EveryFrameAnswered`.
- `camera`: `StopLeavesNothing`, `EndIsReported` (that very end, not an oversized
  frame reported before it), `PidIsChild`, `StopReturns` and `DeadChildReaped`.
- `client`: `ReturnLeavesNothing`, `ExitHasReason` (also that an error reported before
  the signal flag is set is never overlooked), `BackoffFollowsOutage`,
  `SendsAreFresh`, `RunEnds` (after a signal, the end of the capture, or an error the
  capture reports and survives).
- `config`: `ParsedAsDocumented` (against a definition that does not read the
  arguments one after the other), `EndpointIsConfigured` (against the set of
  spellings of a host and port) and `ExitTellsWhy` (for each code what it rules out; 1
  that anything was dialled).
- `socket_io`: `ConnectedIsConfirmed`, `ReadPingsAreAnswered`,
  `AcksAreNotAhead` (what makes the prefix comparison of the ACK sound),
  `CallsReturn`, and `ExchangeSpec`, that the client implements
  `FrameExchange`.
- `mjpeg`: `FramesAreTheStreams`, `BufferBounded`.

`CHECK_DEADLOCK FALSE` stands where the system may stop: after the last start
of the camera, when the client has returned or the program has ended, when frames
or connections of the bound are used up, and at the end of the stream.  In the service and the
gateway, where TLC checks for deadlock, a clock reading that does not change is
always possible, so what must eventually happen is stated as a liveness property
(`EveryFrameAnswered`) instead.

Four further runs expect a violation and stand for the
[findings](#findings): `service_last_frame`, `gateway_presence`,
`camera_silent`, `client_refused_token`.

Bounds in guards: `MaxFrames` (frames produced or counted), `MaxStarts`,
`MaxConnects` (reconnections, by object numbers), `MaxNow` (clock),
`MaxLinks`, `MaxNoise` (per connection), `MaxStream` (bytes), `Sockets` (the
connections ever made).  `Environments` and `CommandLines` are the inputs of
`parse_config` that a run considers.  In `Application` the history `outage` stops
counting at `BackoffCap` (a capped delay stays capped) and `futile` at 2, where no
property distinguishes further values.

## Fairness

Safety properties need none.  Liveness is checked under what the code's
scheduling gives:

- **Threads run.**  A thread that is awake gets its mutex and takes its next
  step (`WF` on `Recheck` and `TimedOutReturn` in the queue; on `StopKill`,
  `Join` and the capture thread's progress; on the main thread outside the
  network).  There is no fairness for `pop_for`'s timer in the queue module: what a
  notification promises must not depend on it.
- **Interrupted reads.**  `EINTR` does not arrive before every read that could
  return (`SF` on `ReadChunk \/ ReadEof`).  A read without data just blocks, and
  no fairness makes failures happen.
- **The child.**  After fork it reaches `exec`, and SIGTERM ends it once it has
  its default action.  `FairSpec` does not make it write; `StreamingSpec` adds a
  camera that delivers while the pipe has room and notices that its reader is
  gone.  The liveness of `stop` holds only under `StreamingSpec`; the run
  `camera_silent` shows why.
- **The network of the client.**  `RespondingSpec` lets each network operation of the
  main thread return or throw in the end; the synchronous WebSocket has no
  timeout of its own, so without it a silent peer blocks the client, also after
  a signal.  In `SocketIoClient` the server works as long as the connection
  holds, and nothing forces the connection to hold or to break.
- **The program around `run`** (`ClientMain`) and the service with the vision
  service behind it (`Vision`) are checked for safety only, without fairness.
- **The vision call** settles: `AbortSignal.timeout(5_000)` in
  `opencv.service.ts` bounds it (`WF` on `FrameSettles`).

## Proofs

Eight modules hold theorems, 48 of them listed in `PROJECT.json`.  They hold for
every value of the constants that satisfies the named assumptions, which only
give the constants their types (and, for `CameraService`, that the earliest
reading of the clock is not less than one frame interval, as the epoch is long past).

**`LatestFrameQueue_proofs`.**  Types, `NoLostWakeup`, `Conservation`,
`FreshOrder`, `NothingAfterClose`, and that the queue implements `FrameStream`,
for any set of consumers.  `NoLostWakeup` is not inductive alone: a consumer
going to sleep must know that there is neither a frame nor a close to miss, and
a consumer that leaves must leave an empty slot behind.  `SlotInv` adds that the
stored frame is the newest accepted one and that a closed queue stores none.

**`CameraProcess_proofs`.**  Types, `StopLeavesNothing`, `EndIsReported`,
`PidIsChild`, for any number of starts and any pipe.  The inductive invariant
says that the place of the capture thread determines everything else: what the
kernel knows of the child (`ChildInv`), which pipe ends are open (`PipeInv`),
what `child_pid_` holds (`PidInv`), and that whoever left the read loop was
asked to or has reported this end (`ReportInv`).

**`Application_proofs`.**  The client as a whole, for any backoff cap, any number of
frames, outages and signals.  `QueueInside` and `CaptureInside` say that under the
main loop, the two callbacks and the signal handler the queue takes only steps of
`LatestFrameQueue` and the capture only steps of `CameraProcess`; so the theorems
above hold inside the client, and their invariants are available here.  On them rest
types, `FramesAccounted` (`Conservation` with the real producer and consumer),
`ReturnLeavesNothing`, `ExitHasReason`, `BackoffFollowsOutage` and `SendsAreFresh`.
`MainInv` relates the place of the main thread to both: between `start` and `stop` it
owns the capture (`Ownership`), a connection lives only in between (`Connection`), and
whoever left the loop saw the signal flag or a failure, both of which stay (`Reason`);
`camera_failed` and the capture's reports agree until a signal makes `on_error` look away
(`Blame`); a
frame in the main thread's hand is newer than the last one sent (`Sends`, kept because
the queue's next delivery is newer than any before).  `Waits` and
`Failing` tie the delay to the length of the outage: `Doubled[n]`, the delay of the
n-th failure, is a recursive function, whose table exists by `SetInduction`, an
induction over a set of numbers that follows from the well-foundedness of the naturals
(`MjpegParser_proofs` and `ClientMain_proofs` find least and greatest places the same way).

**`Vision_proofs`, part one.**  Of `CameraService` alone: types, `OneInFlight`,
`StatsConserved`, `AdmissionsApart`, and that the service implements `FrameGate`, for any set
of cameras and any cap.  `StatsConserved` needs `OneInFlight`, because
`processing` stands for the calls in it; and comparing objects needs that a pending
call's camera is known.  `AdmissionsApart` is a property of each step: an admission
moves `lastAcceptedAt` by at least an interval whatever the clock did meanwhile, and
nothing else moves it.  `FrameRateOverTime` draws from it what holds over any stretch of
time: from any state on, m more admissions put the last stamp m intervals higher.

**`Vision_proofs`, part two.**  That the server with the vision service
behind it implements `CameraService` (so all of the above holds of the whole, and
`GateSpec` in particular), types, and `MotionLooksBack`, for any number of cameras
and frames and any order in which requests are processed.  `VInv` adds to the
invariant of the service: a pending call is for a frame newer than all that is
settled (`CallsAhead`), what the vision service works on is awaited or was given up
(`RequestsKept`), there is one answer per call and its request is gone
(`AnswersAwaited`), and the baseline is a settled frame or that of the call just
processed (`BaselineOld`, `AnswersLookBack`).  The last one needs the second: a
request processed late must be known to be a failed frame.

**`CameraGateway_proofs`.**  Types, `OnlineHasSocket`, `ViewersAreCurrent`,
`ViewerFrameOrder`, for any number of sockets.  The module instantiates
`Vision_proofs`, so that the invariant and the lemmas of the service are
cited, not repeated; `GInv` adds what ties the sockets to the service: an id on an
open camera socket is known, a camera shown as online has one, what each viewer was
told is the presence, and nothing shown is newer than a pending call
(`FramesAhead`), which is where `OneInFlight` gives the order of frames.
`ServiceInside` says that the gateway drives the service only by its own handlers, and
`ServiceProtected` what follows for backpressure and cap with several sockets under one
id.  `OneAnswerPending` (proved on top of `GInv`) pairs unanswered events with vision
calls one to one: it is what makes settling the calls enough for `EveryFrameAnswered`.

**`SocketIoClient_proofs`.**  Types, `ConnectedIsConfirmed`,
`ReadPingsAreAnswered`, `AcksAreNotAhead`, and that the client implements
`FrameExchange`, for any number of frames, connections, pings and broadcasts.  The
invariant says that the current frame is in one place at a time: being written, on
its way (`Outgoing`), with the handler (`Jobs`) or answered (`Acks`); each excludes
the others (`Unsettled`).  What an earlier connection left behind is a job of an
earlier link.  `Handshake` says that the open packet comes first, which is why a
ping cannot be read where connect does not answer it; `PingCount` counts by
cardinality of places.  `NoVainWait` is the safety half of `CallsReturn`: whoever reads
waits for something that is still to come over this connection, be it on the wire, owed
by the server, or behind what the server has yet to receive (`AnswerIsComing`).  The ACK
needs `DescriptorFirst`: an attachment never arrives without its event.

**`ClientMain_proofs`.**  Types, `ParsedAsDocumented`, `ExitTellsWhy` and
`EndpointIsConfigured`, for any environments, command lines and words, and any
reading of numbers and URLs.  `PInv` says that `config` is the merge of the
environment with exactly the arguments in front of `index`, which stands on an odd
place; `MainInv` that handlers and configuration are ready before `run`, and that no
URL is read before `run` dials.  About
URLs: `FoundIsSpelled` and `SpelledIsFound`, from the first slash and the last colon
(whose existence comes from the well-foundedness of the naturals).

**`MjpegParser_proofs`.**  Types, `FramesAreTheStreams`, `BufferBounded`, for
any stream, any chunking, any read size and any limit of at least two bytes.  The
inductive invariant says where `pending` lies in the stream: it is its end
(`Suffix`), it begins behind the last frame (`Placed`), and the bytes dropped in
between hold no start marker (`Gap`).  `Placed` also says that an empty buffer
begins right behind a frame or a `clear()`; without it a start marker could
arrive whose first byte lies in the gap.  That the first marker exists at all
is `LeastIsLeast`, from the well-foundedness of the naturals.

Only model-checked: liveness (`CloseReleasesWaiters`, `StopReturns`,
`DeadChildReaped`, `RunEnds`, `CallsReturn`, `EveryFrameAnswered`), which this
prover does not reach under fairness.  Every safety property that a passing run checks
is also a theorem.  No module declares a RECURSIVE operator; `Doubled` of
`Application` is a recursive function.

## Findings

Each is the single property of a run that TLC finds violated by what the code
does.

1. **`lastFrameAt` misses frames** (`service_last_frame`).  `connect` replaces
   the object a pending `acceptFrame` writes to (`camera.service.ts:32`, `:114`),
   while `camera.types.ts:53` calls the field the time of the last completed
   processing.
2. **A connected camera is listed offline** (`gateway_presence`).
   `handleDisconnect` does not ask whether the closing socket is the camera's
   current one (`camera.gateway.ts:119`); `src/README.md:96` calls the list that
   of the connected cameras.
3. **`stop()` may not come back** (`camera_silent`).  It signals the child at
   most once, and not at all before the id is published
   (`camera_process.cpp:99`); a camera that writes nothing then keeps the
   capture thread in `read` or `waitpid`.  `camera_process.hpp:49` promises
   termination and join.
4. **A refused token is retried every second** (`client_refused_token`).  The
   namespace is confirmed before the token is looked at, so `connect` succeeds
   and resets the backoff (`application.cpp:123`), against
   `AI_CPP_DEVELOPMENT_GUIDE.md:166`.

Observed while modelling, without a run of their own:

- A signal sent to the whole process group may end the child before the main
  thread's handler has set the flag; the capture then reports a failure and the
  program exits with 2 after Ctrl-C.  `ExitHasReason` allows it.
- A silent server blocks the main thread, and with it the end after a signal.
- `camera_failed` is looked at only after the backoff sleep has ended.
- `stop()` may signal an id that has been reaped, in the window between `waitpid`
  and the critical section that resets `child_pid_` (`camera_process.cpp:102` and
  `:266`); `PidIsChild` allows this window and no other.
- A request that timed out keeps the vision service busy while the camera's next
  frame joins it there: `OneInFlight` counts calls, not requests.
- `validate` looks at the first seven characters of the URL; one that
  `parse_server_url` refuses in every `connect` (`http://a/b`) is taken for a lost
  connection and retried for ever.  `EndpointIsConfigured` says exactly which URLs
  these are.
- A malformed integer in the environment ends the program although an argument
  overrides it (`config.cpp:61`); `ParsedAsDocumented` allows it.
- What `run` throws (`random_device`, `application.cpp:109`) is reported as a
  configuration error and exits with 1, which `main.cpp:84` describes as a
  configuration error or a failure to install the handlers.  `ExitTellsWhy` allows it,
  and says only that nothing was dialled before.
- The frame of a request that timed out becomes the baseline of the next motion
  detection although no viewer saw it, at whatever time it is processed;
  `MotionLooksBack` allows it.

## Abstractions

- **Bytes** exist only in `MjpegParser`.  `CameraProcess` lets a read complete
  any number of frames up to a bound and overflow at will, which covers what
  `MjpegParser` does between two reads.  A byte is one of the three that form
  markers; a byte out of place is data.
- **Process ids** are numbered by start.  That the kernel may give a reaped id
  to another process is represented by `proc[n] = "reaped"`.
- **Connection in `Application`.**  `connect`, `send_frame` and `disconnect` are
  atomic there with every outcome they have; their inside is `SocketIoClient`.  A
  peer that never answers is an operation that never returns.
- **`on_error`** tests the flag, stores `camera_failed` and closes the queue in
  one step; the main thread reads each of the three once per loop and acts on
  none of them in a way that depends on their order.
- **Spurious wake-ups** are in the queue module but not in `Application`, where
  the timeout already allows the main thread to wake at any moment.
- **Waiting** takes no modelled time: `interruptible_sleep` and the 500 ms of
  `pop_for` may end at any moment.
- **The clock** of the server moves by at most one tick forward and any distance
  back.  In the gateway it stands still and the cap is off, because `CameraService`
  covers both.
- **Tokens and ids** are represented by the outcome of their checks.  The answers
  `unauthorized` and `invalid_jpeg` leave every variable alone and are left out.
- **The socket.io server** in `SocketIoClient` is liberal: it may broadcast to a
  client before it confirms its namespace, refuse the namespace, and break the
  connection at any moment with any part of what it sent still readable.  It never
  sends a malformed ACK, as `onFrame` answers with one JSON object; the two exceptions
  for that (`socket_io_client.cpp:236-243`) are left out.
- **Images** are frame numbers in `Vision`, all of one shape, and the mode is
  `motion`, the default: the other modes touch no state.  A frame is motion
  relative to a number, 0 for none.
- **Words** of `Config` have no characters; `HttpUrls`, `CameraIds` and
  `IntegerOf` say which pass each test.  Characters exist only behind `http://` in
  `ClientMain`, because `parse_server_url` cuts there.
- **Log counters** are represented by the queue's `pushed` and `tally`.

## What is not modelled

- **Browser viewer**: state of one page, in a language runtime of its own; what
  the server tells it is in `CameraGateway`.  In the plan below.
- **Bootstrap, health, metrics**: wiring and read-only handlers.  What
  `GET /api/cameras` returns is `PresenceOf` and the statistics of
  `CameraService`.
- **Python sender**: its connection is managed by python-socketio.  That it
  does not wait for ACKs is covered, because `CameraGateway` lets a socket send at
  any time.
- **Memory exhaustion**: `std::bad_alloc` out of a callback ends the process.  The
  one exception of `run` that the code can meet otherwise is `RunThrows` of
  `ClientMain`.
- **Configured limits that are not numbers** (`MAX_CAMERA_FPS`,
  `MAX_FRAME_BYTES`): with `NaN` there is no limit to state a property of.
- **Which clock notices first** that nothing is read from the socket while the
  client waits for a frame: the server's drop is `LinkLost`, whenever it comes.
- **TLS, HTTP upgrade, JSON, URL formatting, image contents**: data no property
  tells apart.
- **Tests and packaging**: read as documentation of what is promised.

## Plan

Done: the client's queue, capture, parser, connection, main loop, configuration
and `main`; the server's service and gateway, and the vision service; proofs for
all of them, and that the client's queue and capture and the server's service behave
inside the compositions as they do alone.

Next, in this order:

1. **Browser viewer**: selection of a camera and its frame counter against the
   events of `CameraGateway`.
2. **End to end**: `Application` over `FrameExchange`, and the exchange over
   `FrameGate`, so that what the viewer sees is what the capture produced, in
   order.

Where a new module covers a question that a run already asks, the run is
replaced by the stronger one, as `Vision` did with the run of `CameraService`
alone.  Order and closing of the queue, and the statistics of the service, are
parts of the refinements `StreamSpec` and `GateSpec` in the runs, and theorems of
their own in the proofs.
