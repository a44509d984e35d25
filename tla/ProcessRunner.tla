---------------------------- MODULE ProcessRunner ----------------------------
(***************************************************************************)
(* internal/engine: CodexRunner, PipeRunner and PtyRunner, which start one *)
(* process and keep it.  The manager's Start runs Start, other connections *)
(* call Write and, once, Close as soon as the manager has the runner, each *)
(* call by a connection of its own; beside them run a readLoop per stream, *)
(* the waitLoop, codex's initialize and the manager's forward.             *)
(*                                                                         *)
(* Chunks of output are counted, and not told apart.  The 200 ms           *)
(* which the waitLoop of a PtyRunner sleeps are enough for its readLoop,   *)
(* which never waits.  Abort changes nothing: two have an empty body, and  *)
(* CodexRunner's asks for a threadID that nothing assigns.  The model goes *)
(* no further than a panic, which ends the server.                         *)
(***************************************************************************)
EXTENDS Naturals

CONSTANTS
  Kinds,       \* the runners considered, of {"codex", "pipe", "pty"}
  LongLines,   \* whether codex prints lines beyond the scanner's buffer
  EventCap, ErrorCap,    \* of the channels
  StdinCap, StdoutCap,   \* of the pipes, in frames and chunks
  MaxWrites, MaxOutput   \* bounds: calls of Write, chunks of output

ASSUME RunnerAssumption ==
  /\ Kinds \subseteq {"codex", "pipe", "pty"}
  /\ LongLines \in BOOLEAN
  /\ {EventCap, ErrorCap, StdinCap, StdoutCap} \subseteq Nat \ {0}
  /\ {MaxWrites, MaxOutput} \subseteq Nat

VARIABLES
  kind,
  start,       \* where Start is
  proc,        \* "none", "running", or how the process has ended
  stdin,       \* frames in the stdin pipe or terminal
  stdinOpen, stdoutOpen,   \* the parent's ends of the pipes
  printed, unread,  \* how much was printed, and waits in each stream
  mu, closed,       \* r.mu: "free", or by what it is held; r.closed
  writes, waiting,  \* calls of Write so far, and those that wait for r.mu
  greeting,         \* frames that initialize has still to write
  close,            \* where the call of Close is
  reader, waiter,   \* readLoop of each stream, and waitLoop
  events, errors,   \* how much is in the channels
  open,             \* the channels that are not closed
  forward,      \* the manager's loop: "none", "reading" or "done"
  panicked

process == <<proc, stdin, printed, unread>>
pipes == <<stdinOpen, stdoutOpen>>
lock == <<mu, closed>>
calls == <<writes, waiting, greeting, close>>
channels == <<events, errors, open>>
vars == <<kind, start, process, pipes, lock, calls, reader, waiter,
          channels, forward, panicked>>

Streams == {"stdout", "stderr"}
Used == IF kind = "pipe" THEN Streams ELSE {"stdout"}
Ended == proc \in {"exited", "failed"}
Known == start \in {"published", "launched"}

Init ==
  /\ kind \in Kinds /\ start = "new"
  /\ proc = "none" /\ stdin = 0 /\ printed = 0
  /\ stdinOpen = FALSE /\ stdoutOpen = FALSE
  /\ mu = "free" /\ closed = FALSE
  /\ writes = 0 /\ waiting = 0 /\ greeting = 0 /\ close = "none"
  /\ reader = [s \in Streams |-> "none"] /\ waiter = "none"
  /\ unread = [s \in Streams |-> 0]
  /\ events = 0 /\ errors = 0 /\ open = {"events", "errors", "done"}
  /\ forward = "none" /\ panicked = FALSE

Reader(s, label) == reader' = [reader EXCEPT ![s] = label]

(***************************************************************************)
(* Start                                                                   *)
(***************************************************************************)
Spawn ==
  /\ start = "new"
  /\ \/ /\ start' = "spawned" /\ proc' = "running"
        /\ stdinOpen' = TRUE /\ stdoutOpen' = TRUE
     \/ /\ start' = "failed"
        /\ UNCHANGED <<proc, pipes>>
  /\ UNCHANGED <<kind, stdin, printed, unread, lock, calls, reader, waiter,
                 channels, forward, panicked>>

\* r.cmd and r.stdin, under the lock.
Publish ==
  /\ start = "spawned" /\ mu = "free"
  /\ start' = "published"
  /\ UNCHANGED <<kind, process, pipes, lock, calls, reader, waiter, channels,
                 forward, panicked>>

\* The event "started" fits into the empty channel; then the loops, and the
\* manager's forward once Start has returned.
Launch ==
  /\ start = "published"
  /\ start' = "launched"
  /\ events' = events + 1
  /\ reader' = [s \in Streams |-> IF s \in Used THEN "reading" ELSE "none"]
  /\ waiter' = "waiting" /\ forward' = "reading"
  /\ greeting' = IF kind = "codex" THEN 2 ELSE 0
  /\ UNCHANGED <<kind, process, pipes, lock, writes, waiting, close, errors,
                 open, panicked>>

(***************************************************************************)
(* Write and Close                                                         *)
(***************************************************************************)
\* The manager finds the runner in m.active; Stop and Restart take it out.
Calls ==
  /\ start # "failed" /\ close = "none"
  /\ \/ /\ writes < MaxWrites
        /\ writes' = writes + 1 /\ waiting' = waiting + 1
        /\ UNCHANGED close
     \/ close' = "waits" /\ UNCHANGED <<writes, waiting>>
  /\ UNCHANGED <<kind, start, process, pipes, lock, greeting, reader, waiter,
                 channels, forward, panicked>>

\* Write takes the lock; a closed runner, or one that has no stdin yet,
\* refuses.  initialize does not ask whether the runner is closed.
WriteLocks ==
  /\ mu = "free"
  /\ \/ /\ waiting > 0 /\ waiting' = waiting - 1
        /\ mu' = IF closed \/ ~ Known THEN "free" ELSE "Write"
     \/ /\ greeting > 0 /\ mu' = "initialize"
        /\ UNCHANGED waiting
  /\ UNCHANGED <<kind, start, process, pipes, closed, writes, greeting, close,
                 reader, waiter, channels, forward, panicked>>

PipeBroken == Ended \/ ~ stdinOpen

\* Mutant: the lock is kept when the pipe is broken.
WriteEndsLocked ==
  /\ mu # "free"
  /\ greeting' = IF mu = "initialize" THEN greeting - 1 ELSE greeting
  /\ \/ ~ PipeBroken /\ stdin < StdinCap /\ stdin' = stdin + 1 /\ mu' = "free"
     \/ PipeBroken /\ UNCHANGED <<stdin, mu>>
  /\ UNCHANGED <<kind, start, proc, printed, unread, pipes, closed, writes,
                 waiting, close, reader, waiter, channels, forward, panicked>>

\* The frame is in the pipe, or the pipe is broken.
WriteEnds ==
  /\ mu # "free"
  /\ greeting' = IF mu = "initialize" THEN greeting - 1 ELSE greeting
  /\ \/ ~ PipeBroken /\ stdin < StdinCap /\ stdin' = stdin + 1
     \/ PipeBroken /\ UNCHANGED stdin
  /\ mu' = "free"
  /\ UNCHANGED <<kind, start, proc, printed, unread, pipes, closed, writes,
                 waiting, close, reader, waiter, channels, forward, panicked>>

\* Close of a runner that is closed returns; r.cmd is read under the lock.
CloseLocks ==
  /\ close = "waits" /\ mu = "free"
  /\ closed' = TRUE
  /\ stdinOpen' = (stdinOpen /\ (closed \/ kind = "pty" \/ ~ Known))
  /\ close' = IF ~ closed /\ Known THEN "kills" ELSE "returned"
  /\ UNCHANGED <<kind, start, process, stdoutOpen, mu, writes, waiting,
                 greeting, reader, waiter, channels, forward, panicked>>

\* The terminal is closed, and the process killed.
CloseKills ==
  /\ close = "kills"
  /\ IF proc = "running" THEN proc' = "failed" /\ stdin' = 0
     ELSE UNCHANGED <<proc, stdin>>
  /\ stdoutOpen' = (stdoutOpen /\ kind # "pty")
  /\ stdinOpen' = (stdinOpen /\ kind # "pty")
  /\ close' = "returned"
  /\ UNCHANGED <<kind, start, printed, unread, lock, writes, waiting,
                 greeting, reader, waiter, channels, forward, panicked>>

(***************************************************************************)
(* The process                                                             *)
(***************************************************************************)
Prints(s) ==
  /\ proc = "running" /\ s \in Used /\ stdoutOpen
  /\ printed < MaxOutput /\ unread[s] < StdoutCap
  /\ printed' = printed + 1 /\ unread' = [unread EXCEPT ![s] = @ + 1]
  /\ UNCHANGED <<kind, start, proc, stdin, pipes, lock, calls, reader, waiter,
                 channels, forward, panicked>>

Reads ==
  /\ proc = "running" /\ stdin > 0 /\ stdin' = stdin - 1
  /\ UNCHANGED <<kind, start, proc, printed, unread, pipes, lock, calls,
                 reader, waiter, channels, forward, panicked>>

\* By itself, or killed since the context is done.
Ends ==
  /\ proc = "running" /\ proc' \in {"exited", "failed"} /\ stdin' = 0
  /\ UNCHANGED <<kind, start, printed, unread, pipes, lock, calls, reader,
                 waiter, channels, forward, panicked>>

(***************************************************************************)
(* readLoop                                                                *)
(***************************************************************************)
\* A chunk is read; codex refuses a line that is no JSON, and its scanner
\* ends at one that is too long.
ReadChunk(s) ==
  /\ reader[s] = "reading" /\ stdoutOpen /\ unread[s] > 0
  /\ unread' = [unread EXCEPT ![s] = @ - 1]
  /\ \/ Reader(s, "sending")
     \/ kind = "codex" /\ Reader(s, "refusing")
     \/ kind = "codex" /\ LongLines /\ Reader(s, "ended")
  /\ UNCHANGED <<kind, start, proc, stdin, printed, pipes, lock, calls,
                 waiter, channels, forward, panicked>>

\* The end of what was printed, or the pipe was closed under the read.
ReadEnds(s) ==
  /\ reader[s] = "reading"
  /\ ~ stdoutOpen \/ (Ended /\ unread[s] = 0)
  /\ Reader(s, "ended")
  /\ UNCHANGED <<kind, start, process, pipes, lock, calls, waiter, channels,
                 forward, panicked>>

\* The chunk is put into the channel if there is room.
SendChunk(s) ==
  /\ reader[s] = "sending"
  /\ panicked' = ("events" \notin open)
  /\ IF events < EventCap /\ "events" \in open
     THEN /\ events' = events + 1
          /\ Reader(s, "reading")
     ELSE Reader(s, "dropping") /\ UNCHANGED events
  /\ UNCHANGED <<kind, start, process, pipes, lock, calls, waiter, errors,
                 open, forward>>

\* There is none: that is reported if there is room for it.
DropChunk(s) ==
  /\ reader[s] = "dropping"
  /\ panicked' = ("errors" \notin open)
  /\ errors' =
       IF errors < ErrorCap /\ "errors" \in open THEN errors + 1 ELSE errors
  /\ Reader(s, "reading")
  /\ UNCHANGED <<kind, start, process, pipes, lock, calls, waiter, events,
                 open, forward>>

\* A line that is refused is reported, however long that takes.
RefuseLine(s) ==
  /\ reader[s] = "refusing"
  /\ panicked' = ("errors" \notin open)
  /\ \/ "errors" \notin open /\ UNCHANGED errors
     \/ "errors" \in open /\ errors < ErrorCap /\ errors' = errors + 1
  /\ Reader(s, "reading")
  /\ UNCHANGED <<kind, start, process, pipes, lock, calls, waiter, events,
                 open, forward>>

(***************************************************************************)
(* waitLoop                                                                *)
(***************************************************************************)
\* Wait returns, and has closed the parent's ends of the pipes, read or not.
Waited ==
  /\ waiter = "waiting" /\ Ended
  /\ stdinOpen' = (stdinOpen /\ kind = "pty")
  /\ stdoutOpen' = (stdoutOpen /\ kind = "pty")
  /\ waiter' = IF kind = "pty" THEN "failure" ELSE "marks"
  /\ UNCHANGED <<kind, start, process, lock, calls, reader, channels, forward,
                 panicked>>

Marks ==
  /\ waiter = "marks" /\ mu = "free"
  /\ closed' = TRUE /\ waiter' = "failure"
  /\ UNCHANGED <<kind, start, process, pipes, mu, calls, reader, channels,
                 forward, panicked>>

\* The error of Wait: a terminal's is dropped when there is no room.
ReportsFailure ==
  /\ waiter = "failure"
  /\ \/ proc = "exited" /\ UNCHANGED errors
     \/ proc = "failed" /\ errors < ErrorCap /\ errors' = errors + 1
     \/ proc = "failed" /\ errors = ErrorCap /\ kind = "pty" /\ UNCHANGED errors
  /\ waiter' = "end"
  /\ UNCHANGED <<kind, start, process, pipes, lock, calls, reader, events,
                 open, forward, panicked>>

\* The event "exited", in the same way.
ReportsEnd ==
  /\ waiter = "end"
  /\ \/ /\ events < EventCap
        /\ events' = events + 1
        /\ UNCHANGED errors
     \/ /\ events = EventCap /\ kind = "pty"
        /\ errors' = IF errors < ErrorCap THEN errors + 1 ELSE errors
        /\ UNCHANGED events
  /\ waiter' = "closes"
  /\ UNCHANGED <<kind, start, process, pipes, lock, calls, reader, open,
                 forward, panicked>>

\* events, then errors, then done are closed; a PtyRunner lets its readLoop
\* come to the end first.
ClosesChannels ==
  /\ waiter = "closes"
  /\ kind = "pty" => reader["stdout"] = "ended"
  /\ open' = CASE "events" \in open -> {"errors", "done"}
               [] "errors" \in open /\ "events" \notin open -> {"done"}
               [] OTHER -> {}
  /\ waiter' = IF open = {"done"} THEN "done" ELSE "closes"
  /\ UNCHANGED <<kind, start, process, pipes, lock, calls, reader, events,
                 errors, forward, panicked>>

(***************************************************************************)
(* The manager's forward                                                   *)
(***************************************************************************)
ForwardEvent ==
  /\ forward = "reading"
  /\ \/ events > 0 /\ events' = events - 1 /\ UNCHANGED forward
     \/ events = 0 /\ "events" \notin open /\ forward' = "done" /\ UNCHANGED events
  /\ UNCHANGED <<kind, start, process, pipes, lock, calls, reader, waiter,
                 errors, open, panicked>>

\* Mutant: the errors are not read.
ForwardErrorNot == FALSE /\ UNCHANGED vars

ForwardError ==
  /\ forward = "reading" /\ errors > 0
  /\ errors' = errors - 1
  /\ UNCHANGED <<kind, start, process, pipes, lock, calls, reader, waiter,
                 events, open, forward, panicked>>

ReadLoop(s) ==
  ReadChunk(s) \/ ReadEnds(s) \/ SendChunk(s) \/ DropChunk(s) \/ RefuseLine(s)
WaitLoop == Waited \/ Marks \/ ReportsFailure \/ ReportsEnd \/ ClosesChannels
StartSteps == Spawn \/ Publish \/ Launch
CallSteps == WriteLocks \/ WriteEnds \/ CloseLocks \/ CloseKills

Next ==
  /\ ~ panicked
  /\ \/ StartSteps \/ Calls \/ CallSteps
     \/ WaitLoop \/ ForwardEvent \/ ForwardError
     \/ Reads \/ Ends
     \/ \E s \in Streams : Prints(s) \/ ReadLoop(s)

\* Goroutines go on.  Nothing makes the process read, print or end.
Fairness ==
  /\ WF_vars(~ panicked /\ StartSteps) /\ WF_vars(~ panicked /\ WaitLoop)
  /\ WF_vars(~ panicked /\ (ForwardEvent \/ ForwardError))
  /\ \A s \in Streams : WF_vars(~ panicked /\ ReadLoop(s))
  /\ WF_vars(~ panicked /\ CallSteps)

Spec == Init /\ [][Next]_vars
FairSpec == Spec /\ Fairness

(***************************************************************************)
(* Properties                                                              *)
(***************************************************************************)

\* The end of the process reaches the manager, and the session becomes
\* inactive: the loops, the lock that a blocked Write holds, full channels
\* and a Close in between do not keep it.
EndIsReported == Ended ~> (forward = "done" \/ panicked)

\* The process is not cooperative: it could read, and does not wait for its
\* output to be read.
Ignores ==
  /\ proc = "running" /\ stdin = StdinCap
  /\ \A s \in Used : unread[s] < StdoutCap

\* Every Write and Close returns if the process reads its input whenever it
\* is not kept from it by its own output: the lock, the pipes, the channels
\* and the manager do not wait for each other in a circle.
CallsReturn ==
  []<>~ Ignores =>
    []<>(panicked \/ (waiting = 0 /\ mu = "free" /\ close \in {"none", "returned"}))

\* No loop sends on a closed channel: "wait until readLoop has read all
\* output, then close the channels" (pty_runner.go:149).  Does not hold of the
\* other two, which do not wait.
NoSendAfterClose == ~ panicked

\* What was printed before the end is forwarded or reported as dropped.  Does
\* not hold: Wait closes the pipe before it is read.
OutputIsTaken ==
  waiter = "done" /\ close = "none" => \A s \in Used : unread[s] = 0
=============================================================================
