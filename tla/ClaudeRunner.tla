---------------------------- MODULE ClaudeRunner ----------------------------
(***************************************************************************)
(* internal/engine/claude_runner.go: the runner that starts one claude     *)
(* process per user message and keeps the conversation together with       *)
(* --resume.  Write, Abort and Close come from the read loops of the       *)
(* connections (through session.Manager, which finds the runner in         *)
(* m.active and calls Close at most once, after it has taken it out);      *)
(* a readLoop and a waitLoop per process run beside them.                  *)
(*                                                                         *)
(* r.mu protects single reads and assignments only: each of them, each     *)
(* call on a process and each use of the events channel is an action.      *)
(* killProcess is one: nobody but the victim can tell when, after r.cmd    *)
(* was read, the signal comes.  Processes are numbered in the order in     *)
(* which their commands are built; 0 is nil, or the resume id the session  *)
(* was started with.  Each process prints its own session_id on its lines. *)
(* The flag started, which nothing reads on the way, and currentStdin,     *)
(* which SendToStdin uses, are left out.  The manager's forward drains the *)
(* events and the errors channels: a send on the first does not block, nor *)
(* time out, and what is sent on the second changes nothing here, but both *)
(* panic on a closed channel.  The model goes no further than a panic.     *)
(***************************************************************************)
EXTENDS Naturals

CONSTANTS
  Callers,       \* read loops that call Write, Abort and Close
  MaxProcesses   \* bound on the user messages

ASSUME ClaudeAssumption == MaxProcesses \in Nat

Processes == 1..MaxProcesses
MaybeProcess == 0..MaxProcesses
Streams == {"stdout", "stderr"}

VARIABLES
  detached,  \* the manager has taken the runner out of m.active
  closed,    \* r.closed
  cmd,       \* r.cmd, and r.stdin, which is assigned with it
  resume,    \* r.resumeSessionID: the process that printed it
  chans,     \* whether events, errors and done are open
  pc,        \* where each caller is
  mine,      \* the process that a Write of each caller has built
  built,     \* how many commands were built
  life,      \* what became of each process
  resumed,   \* the resume id each process was started with
  input,     \* how many messages each process was sent (up to 2)
  unread,    \* whether a line of a process waits in its stdout pipe
  reading,   \* the pipes that readLoop and readStderr of each process read
  waiter,    \* waitLoop of each process
  awaited,   \* the process that each waitLoop waits for
  reaped,    \* the processes that were waited for: their pipes are closed
  last,      \* the last lifecycle event sent
  panicked   \* a loop or a Write sent on a closed channel

runner == <<detached, closed, cmd, resume, chans>>
caller == <<pc, mine>>
process == <<built, life, resumed, input, unread>>
loops == <<reading, waiter, awaited, reaped>>
output == <<last, panicked>>
vars == <<runner, caller, process, loops, output>>

PCs == {"idle", "write", "kill", "build", "spawn", "publish", "announce",
        "launch", "input", "abort",
        "close", "closeKill", "closeWait", "closeChans"}

TypeOK ==
  /\ detached \in BOOLEAN /\ closed \in BOOLEAN
  /\ cmd \in MaybeProcess /\ resume \in MaybeProcess
  /\ chans \in {"open", "closed"}
  /\ pc \in [Callers -> PCs]
  /\ mine \in [Callers -> MaybeProcess]
  /\ built \in MaybeProcess
  /\ life \in [Processes -> {"none", "built", "failed", "running", "dead"}]
  /\ resumed \in [Processes -> MaybeProcess]
  /\ input \in [Processes -> 0..2]
  /\ unread \in [Processes -> BOOLEAN]
  /\ reading \in [Processes -> SUBSET Streams]
  /\ waiter \in [Processes -> {"none", "starting", "waiting", "reporting", "done"}]
  /\ awaited \in [Processes -> MaybeProcess]
  /\ reaped \in SUBSET Processes
  /\ last \in {"none", "started", "turn_end"}
  /\ panicked \in BOOLEAN

Init ==
  /\ detached = FALSE /\ closed = FALSE
  /\ cmd = 0 /\ resume = 0
  /\ chans = "open"
  /\ pc = [c \in Callers |-> "idle"]
  /\ mine = [c \in Callers |-> 0]
  /\ built = 0
  /\ life = [p \in Processes |-> "none"]
  /\ resumed = [p \in Processes |-> 0]
  /\ input = [p \in Processes |-> 0]
  /\ unread = [p \in Processes |-> FALSE]
  /\ reading = [p \in Processes |-> {}]
  /\ waiter = [p \in Processes |-> "none"]
  /\ awaited = [p \in Processes |-> 0]
  /\ reaped = {}
  /\ last = "none"
  /\ panicked = FALSE

At(c, label) == ~ panicked /\ pc[c] = label
GoTo(c, label) == pc' = [pc EXCEPT ![c] = label]

\* A send on the events channel: of a lifecycle event, or of a line's.
Emit(event) ==
  /\ panicked' = (chans = "closed")
  /\ last' = IF chans = "closed" THEN last ELSE event

\* killProcess: it does nothing to a process that has ended.
KillProcess ==
  life' = [p \in Processes |->
             IF p = cmd /\ life[p] = "running" THEN "dead" ELSE life[p]]

(***************************************************************************)
(* Write.                                                                  *)
(***************************************************************************)
\* Manager.Write, Abort or Stop finds the runner in m.active; Stop and
\* Restart take it out.
Call(c, op) ==
  /\ At(c, "idle")
  /\ ~ detached
  /\ op = "write" => built < MaxProcesses
  /\ GoTo(c, op)
  /\ detached' = (op = "close")
  /\ UNCHANGED <<closed, cmd, resume, chans, mine, process, loops, output>>

WriteChecks(c) ==
  /\ At(c, "write")
  /\ GoTo(c, IF closed THEN "idle" ELSE "kill")
  /\ UNCHANGED <<runner, mine, process, loops, output>>

WriteKills(c) ==
  /\ At(c, "kill")
  /\ KillProcess
  /\ GoTo(c, "build")
  /\ UNCHANGED <<runner, mine, built, resumed, input, unread, loops, output>>

\* runClaude reads r.resumeSessionID and makes the command.
BuildCommand(c) ==
  /\ At(c, "build")
  /\ IF built < MaxProcesses
       THEN /\ built' = built + 1
            /\ mine' = [mine EXCEPT ![c] = built + 1]
            /\ life' = [life EXCEPT ![built + 1] = "built"]
            /\ resumed' = [resumed EXCEPT ![built + 1] = resume]
            /\ GoTo(c, "spawn")
       ELSE /\ GoTo(c, "idle")              \* the bound on the messages
            /\ UNCHANGED <<mine, built, life, resumed>>
  /\ UNCHANGED <<runner, input, unread, loops, output>>

Spawn(c) ==
  /\ At(c, "spawn")
  /\ \/ /\ life' = [life EXCEPT ![mine[c]] = "running"]
        /\ GoTo(c, "publish")
     \/ /\ life' = [life EXCEPT ![mine[c]] = "failed"]
        /\ GoTo(c, "idle")
  /\ UNCHANGED <<runner, mine, built, resumed, input, unread, loops, output>>

Publish(c) ==
  /\ At(c, "publish")
  /\ cmd' = mine[c]
  /\ GoTo(c, "announce")
  /\ UNCHANGED <<detached, closed, resume, chans, mine, process, loops, output>>

Announce(c) ==
  /\ At(c, "announce")
  /\ Emit("started")
  /\ GoTo(c, "launch")
  /\ UNCHANGED <<runner, mine, process, loops>>

\* Mutant: the waitLoop is not started.
LaunchReader(c) ==
  /\ At(c, "launch")
  /\ reading' = [reading EXCEPT ![mine[c]] = Streams]
  /\ GoTo(c, "input")
  /\ UNCHANGED <<runner, mine, process, waiter, awaited, reaped, output>>

Launch(c) ==
  /\ At(c, "launch")
  /\ reading' = [reading EXCEPT ![mine[c]] = Streams]
  /\ waiter' = [waiter EXCEPT ![mine[c]] = "starting"]
  /\ GoTo(c, "input")
  /\ UNCHANGED <<runner, mine, process, awaited, reaped, output>>

\* The message goes to r.stdin, whichever process that is now.
WriteInput(c) ==
  /\ At(c, "input")
  /\ input' = IF cmd = 0 THEN input
              ELSE [input EXCEPT ![cmd] = IF @ < 2 THEN @ + 1 ELSE @]
  /\ GoTo(c, "idle")
  /\ UNCHANGED <<runner, mine, built, life, resumed, unread, loops, output>>

(***************************************************************************)
(* Abort and Close.                                                        *)
(***************************************************************************)
Abort(c) ==
  /\ At(c, "abort")
  /\ KillProcess
  /\ GoTo(c, "idle")
  /\ UNCHANGED <<runner, mine, built, resumed, input, unread, loops, output>>

CloseMarks(c) ==
  /\ At(c, "close")
  /\ closed' = TRUE
  /\ GoTo(c, "closeKill")
  /\ UNCHANGED <<detached, cmd, resume, chans, mine, process, loops, output>>

\* Mutant: Close does not kill the process.
CloseSpares(c) ==
  /\ At(c, "closeKill")
  /\ GoTo(c, "closeWait")
  /\ UNCHANGED <<runner, mine, process, loops, output>>

CloseKills(c) ==
  /\ At(c, "closeKill")
  /\ KillProcess
  /\ GoTo(c, "closeWait")
  /\ UNCHANGED <<runner, mine, built, resumed, input, unread, loops, output>>

LoopsDone == \A p \in Processes :
  reading[p] = {} /\ waiter[p] \in {"none", "done"}

\* Mutant: the channels are closed without waiting for the loops.
CloseWaitsNot(c) ==
  /\ At(c, "closeWait")
  /\ GoTo(c, "closeChans")
  /\ UNCHANGED <<runner, mine, process, loops, output>>

\* r.wg.Wait
CloseWaits(c) ==
  /\ At(c, "closeWait")
  /\ LoopsDone
  /\ GoTo(c, "closeChans")
  /\ UNCHANGED <<runner, mine, process, loops, output>>

CloseChans(c) ==
  /\ At(c, "closeChans")
  /\ chans' = "closed"
  /\ GoTo(c, "idle")
  /\ UNCHANGED <<detached, closed, cmd, resume, mine, process, loops, output>>

(***************************************************************************)
(* The processes and their loops.                                          *)
(***************************************************************************)
Produce(p) ==
  /\ ~ panicked
  /\ life[p] = "running" /\ ~ unread[p]
  /\ unread' = [unread EXCEPT ![p] = TRUE]
  /\ UNCHANGED <<runner, caller, built, life, resumed, input, loops, output>>

Exit(p) ==
  /\ ~ panicked
  /\ life[p] = "running"
  /\ life' = [life EXCEPT ![p] = "dead"]
  /\ UNCHANGED <<runner, caller, built, resumed, input, unread, loops, output>>

\* captureResumeID, then the event of the line is sent.
ReadLine(p) ==
  /\ ~ panicked
  /\ "stdout" \in reading[p] /\ unread[p]
  /\ unread' = [unread EXCEPT ![p] = FALSE]
  /\ resume' = p
  /\ Emit(last)
  /\ UNCHANGED <<detached, closed, cmd, chans, caller, built, life, resumed,
                 input, loops>>

StopReading(p, stream) ==
  /\ ~ panicked
  /\ stream \in reading[p]
  /\ reading' = [reading EXCEPT ![p] = @ \ {stream}]
  /\ UNCHANGED <<runner, caller, process, waiter, awaited, reaped, output>>

\* The pipe has ended, or was closed by Wait with what was in it.
PipeEnds(p) == p \in reaped \/ life[p] = "dead"

\* Or the next line is longer than the scanner's buffer.
ReadEnd(p) == (PipeEnds(p) \/ unread[p]) /\ StopReading(p, "stdout")

\* readStderr: a line, whenever there is one, is sent as an error, if there
\* is room.
ReadComplaint(p) ==
  /\ ~ panicked
  /\ "stderr" \in reading[p]
  /\ Emit(last)
  /\ UNCHANGED <<runner, caller, process, loops>>

ComplaintsEnd(p) == PipeEnds(p) /\ StopReading(p, "stderr")
LongComplaint(p) == StopReading(p, "stderr")

\* The waitLoop of p reads r.cmd, without the lock, to call its Wait.
WaitBegin(p) ==
  /\ ~ panicked
  /\ waiter[p] = "starting"
  /\ waiter' = [waiter EXCEPT ![p] = "waiting"]
  /\ awaited' = [awaited EXCEPT ![p] = cmd]
  /\ UNCHANGED <<runner, caller, process, reading, reaped, output>>

\* Wait returns: the process ended, or was waited for already.
WaitEnd(p) ==
  /\ ~ panicked
  /\ waiter[p] = "waiting"
  /\ awaited[p] # 0 /\ life[awaited[p]] = "dead"
  /\ waiter' = [waiter EXCEPT ![p] = "reporting"]
  /\ reaped' = reaped \cup {awaited[p]}
  /\ UNCHANGED <<runner, caller, process, reading, awaited, output>>

Report(p) ==
  /\ ~ panicked
  /\ waiter[p] = "reporting"
  /\ Emit("turn_end")
  /\ waiter' = [waiter EXCEPT ![p] = "done"]
  /\ UNCHANGED <<runner, caller, process, reading, awaited, reaped>>

CallerStep(c) ==
  \/ WriteChecks(c) \/ WriteKills(c) \/ BuildCommand(c) \/ Spawn(c)
  \/ Publish(c) \/ Announce(c) \/ Launch(c) \/ WriteInput(c)
  \/ Abort(c)
  \/ CloseMarks(c) \/ CloseKills(c) \/ CloseWaits(c) \/ CloseChans(c)

Reader(p) == ReadLine(p) \/ ReadEnd(p)
ErrReader(p) == ReadComplaint(p) \/ ComplaintsEnd(p) \/ LongComplaint(p)
Waiter(p) == WaitBegin(p) \/ WaitEnd(p) \/ Report(p)

Next ==
  \/ \E c \in Callers :
       \/ \E op \in {"write", "abort", "close"} : Call(c, op)
       \/ CallerStep(c)
  \/ \E p \in Processes :
       \/ Produce(p) \/ Exit(p)
       \/ Reader(p) \/ ErrReader(p) \/ Waiter(p)

\* The goroutines are scheduled.  Nothing makes a process print or exit: it
\* waits for more on its stdin, which is not closed.
Fairness ==
  /\ \A c \in Callers : WF_vars(CallerStep(c))
  /\ \A p \in Processes :
       WF_vars(Reader(p)) /\ WF_vars(ComplaintsEnd(p)) /\ WF_vars(Waiter(p))

Spec == Init /\ [][Next]_vars
FairSpec == Spec /\ Fairness

-----------------------------------------------------------------------------
(***************************************************************************)
(* Properties.  With one caller at a time, TurnEndMeansIdle and            *)
(* EveryTurnEndReported fail and the others hold.                          *)
(***************************************************************************)
Quiet == \A c \in Callers : pc[c] = "idle"

\* claude_runner.go:170, "if the old process is still running, kill it
\* first": between two calls, no process runs but the one Abort and Close
\* would kill, and the session is not worked on by two at once.
OneProcess == Quiet => \A p \in Processes : life[p] = "running" => p = cmd

\* claude_runner.go:308, "so that it does not panic after Close() has closed
\* the channels": no line, "started" or "turn_end" is sent then.
NeverPanics == ~ panicked

\* When Close has returned nothing is left of the runner: no process runs
\* and no loop waits.
NothingLeft ==
  chans = "closed" =>
    LoopsDone /\ \A p \in Processes : life[p] # "running"

\* If the process of the current turn ends, killed or failed, "turn_end" is
\* sent for it, unless another turn begins first.
CurrentTurnEndReported ==
  \A p \in Processes :
    (cmd = p /\ life[p] = "dead") ~> (cmd # p \/ waiter[p] = "done")

\* claude_runner.go:309, "turn_end is sent even if the Claude process exited
\* abnormally", whatever turn begins after that.
EveryTurnEndReported ==
  \A p \in Processes :
    (life[p] = "dead") ~> (waiter[p] = "done")

\* Close returns, once it has killed the process.
CloseReturns ==
  \A c \in Callers : (pc[c] = "closeKill") ~> (chans = "closed")

\* claude_runner.go:309, turn_end "lets the frontend switch its button back":
\* it is not the last that was said of a session whose process runs.
TurnEndMeansIdle ==
  Quiet /\ cmd # 0 /\ life[cmd] = "running" => last # "turn_end"
=============================================================================
