------------------------- MODULE ClaudeRunnerProofs -------------------------
(***************************************************************************)
(* Proofs about ClaudeRunner, for any number of callers and of processes.  *)
(***************************************************************************)
EXTENDS ClaudeRunner, TLAPS

\* The requests of the connections come one after the other.
Alone == \A c, d \in Callers : pc[c] # "idle" /\ pc[d] # "idle" => c = d

(***************************************************************************)
(* The inductive invariant, as long as requests come one after the other.  *)
(***************************************************************************)
Closing == {"close", "closeKill", "closeWait", "closeChans"}

\* The caller of Close has taken the runner out of m.active; nobody else
\* finds it there after that.
CloserIsLast ==
  /\ \A c \in Callers : pc[c] \in Closing => detached
  /\ detached => \A c \in Callers : pc[c] \in Closing \cup {"idle"}

\* The channels are closed after everything that sends on them is over.
ClosedAfterLoops ==
  /\ chans = "closed" => detached /\ \A c \in Callers : pc[c] = "idle"
  /\ chans = "closed" \/ (\E c \in Callers : pc[c] = "closeChans") => LoopsDone

NoneRuns == \A p \in Processes : life[p] # "running"

\* The one process that runs is r.cmd, or is about to be: a message kills
\* the one before first, and Close kills the last.
RunsKnown ==
  /\ \A c \in Callers : pc[c] \in {"build", "spawn", "closeWait", "closeChans"} => NoneRuns
  /\ chans = "closed" => NoneRuns
  /\ \A c \in Callers : pc[c] = "publish" =>
       \A p \in Processes : life[p] = "running" => p = mine[c]
  /\ \A p \in Processes : life[p] = "running" =>
       p = cmd \/ \E c \in Callers : pc[c] = "publish" /\ mine[c] = p

RunnerInv ==
  /\ TypeOK
  /\ CloserIsLast /\ ClosedAfterLoops /\ RunsKnown
  /\ NeverPanics

(***************************************************************************)
(* Type correctness.                                                       *)
(***************************************************************************)
LEMMA CallerTypes ==
  ASSUME TypeOK, NEW c \in Callers, CallerStep(c)
  PROVE  TypeOK'
<1>0. MaxProcesses \in Nat /\ Processes \subseteq MaybeProcess /\ 0 \in MaybeProcess
  BY ClaudeAssumption DEF Processes, MaybeProcess
<1> USE DEF TypeOK, At, GoTo, runner, caller, process, loops, output, PCs
<1>1. CASE WriteChecks(c) BY <1>1 DEF WriteChecks
<1>2. CASE WriteKills(c) BY <1>2 DEF WriteKills, KillProcess
<1>3. CASE BuildCommand(c)
  <2>1. built < MaxProcesses => built + 1 \in Processes
    BY <1>0 DEF Processes, MaybeProcess
  <2>2. /\ built' \in MaybeProcess /\ mine' \in [Callers -> MaybeProcess]
        /\ life' \in [Processes -> {"none", "built", "failed", "running", "dead"}]
        /\ resumed' \in [Processes -> MaybeProcess]
    BY <1>0, <1>3, <2>1 DEF BuildCommand
  <2> QED BY <1>3, <2>2 DEF BuildCommand
<1>4. CASE Spawn(c) BY <1>4 DEF Spawn
<1>5. CASE Publish(c) BY <1>5 DEF Publish
<1>6. CASE Announce(c)
  <2>1. panicked' \in BOOLEAN
    BY <1>6, Zenon DEF Announce, Emit
  <2> QED BY <1>6, <2>1 DEF Announce, Emit
<1>7. CASE Launch(c) BY <1>7 DEF Launch
<1>8. CASE WriteInput(c)
  <2>1. input' \in [Processes -> 0..2]
    <3>1. CASE cmd = 0
      BY <1>8, <3>1 DEF WriteInput
    <3>2. CASE cmd # 0
      <4>1. cmd \in Processes
        BY <3>2, ClaudeAssumption DEF Processes, MaybeProcess
      <4>2. PICK n \in 0..2 : input' = [input EXCEPT ![cmd] = n]
        <5>1. input[cmd] \in 0..2
          BY <4>1
        <5>2. (IF input[cmd] < 2 THEN input[cmd] + 1 ELSE input[cmd]) \in 0..2
          BY <5>1
        <5> QED
          BY <1>8, <3>2, <5>2 DEF WriteInput
      <4> QED
        BY <4>1, <4>2
    <3> QED BY <3>1, <3>2
  <2> QED BY <1>8, <2>1 DEF WriteInput
<1>9. CASE Abort(c) BY <1>9 DEF Abort, KillProcess
<1>10. CASE CloseMarks(c) BY <1>10 DEF CloseMarks
<1>11. CASE CloseKills(c) BY <1>11 DEF CloseKills, KillProcess
<1>12. CASE CloseWaits(c) BY <1>12 DEF CloseWaits
<1>13. CASE CloseChans(c) BY <1>13 DEF CloseChans
<1> QED
  BY <1>1, <1>2, <1>3, <1>4, <1>5, <1>6, <1>7, <1>8, <1>9, <1>10, <1>11, <1>12, <1>13
  DEF CallerStep

LEMMA ProcessTypes ==
  ASSUME TypeOK, NEW p \in Processes, Produce(p) \/ Exit(p) \/ Reader(p) \/ ErrReader(p) \/ Waiter(p)
  PROVE  TypeOK'
<1>0. Processes \subseteq MaybeProcess
  BY ClaudeAssumption DEF Processes, MaybeProcess
<1> USE DEF TypeOK, runner, caller, process, loops, output
<1>1. CASE Produce(p) BY <1>1 DEF Produce
<1>2. CASE Exit(p) BY <1>2 DEF Exit
<1>3. CASE ReadLine(p)
  <2>1. panicked' \in BOOLEAN
    BY <1>3, Zenon DEF ReadLine, Emit
  <2> QED BY <1>0, <1>3, <2>1 DEF ReadLine, Emit
<1>4. ASSUME NEW stream \in Streams, StopReading(p, stream) PROVE TypeOK'
  BY <1>4 DEF StopReading
<1>5. CASE ReadComplaint(p)
  <2>1. panicked' \in BOOLEAN
    BY <1>5, Zenon DEF ReadComplaint, Emit
  <2> QED BY <1>5, <2>1 DEF ReadComplaint, Emit
<1>6. CASE WaitBegin(p) BY <1>6 DEF WaitBegin
<1>7. CASE WaitEnd(p)
  <2>1. awaited[p] \in Processes
    BY <1>7, ClaudeAssumption DEF WaitEnd, Processes, MaybeProcess
  <2> QED BY <1>7, <2>1 DEF WaitEnd
<1>8. CASE Report(p)
  <2>1. panicked' \in BOOLEAN
    BY <1>8, Zenon DEF Report, Emit
  <2> QED BY <1>8, <2>1 DEF Report, Emit
<1>9. CASE ReadEnd(p) \/ ComplaintsEnd(p) \/ LongComplaint(p)
  BY <1>4, <1>9 DEF ReadEnd, ComplaintsEnd, LongComplaint, Streams
<1> QED
  BY <1>1, <1>2, <1>3, <1>5, <1>6, <1>7, <1>8, <1>9 DEF Reader, ErrReader, Waiter

LEMMA TypeStep == TypeOK /\ [Next]_vars => TypeOK'
<1> SUFFICES ASSUME TypeOK, [Next]_vars PROVE TypeOK'
  OBVIOUS
<1>1. ASSUME NEW c \in Callers, NEW op \in {"write", "abort", "close"}, Call(c, op)
      PROVE  TypeOK'
  <2>1. detached' \in BOOLEAN
    BY <1>1, Zenon DEF Call
  <2> QED
    BY <1>1, <2>1 DEF Call, TypeOK, At, GoTo, PCs, process, loops, output
<1>2. CASE UNCHANGED vars
  BY <1>2 DEF vars, TypeOK, runner, caller, process, loops, output
<1> QED
  BY <1>1, <1>2, CallerTypes, ProcessTypes DEF Next

\* Every variable keeps its type, whatever overlaps.
THEOREM TypeCorrect == Spec => []TypeOK
<1>1. Init => TypeOK
  <2> SUFFICES ASSUME Init PROVE TypeOK
    OBVIOUS
  <2>1. 0 \in MaybeProcess
    BY ClaudeAssumption DEF MaybeProcess
  <2>2. detached \in BOOLEAN /\ closed \in BOOLEAN /\ panicked \in BOOLEAN
        /\ unread \in [Processes -> BOOLEAN]
    BY Zenon DEF Init
  <2> QED
    BY <2>1, <2>2 DEF Init, TypeOK, PCs
<1> QED
  BY <1>1, TypeStep, PTL DEF Spec

(***************************************************************************)
(* Safety, as long as requests come one after the other.                   *)
(***************************************************************************)

\* A killed process does not run, and no other process is disturbed.
LEMMA Killed ==
  ASSUME TypeOK, KillProcess
  PROVE  /\ \A p \in Processes : life'[p] = "running" => life[p] = "running" /\ p # cmd
  BY DEF KillProcess, TypeOK

\* What the caller that takes a step changes; the others are idle.
LEMMA OthersIdle ==
  ASSUME TypeOK, Alone, Alone', NEW c \in Callers,
         CallerStep(c) \/ \E op \in {"write", "abort", "close"} : Call(c, op)
  PROVE  \A d \in Callers : d # c =>
           pc[d] = "idle" /\ pc'[d] = "idle" /\ mine'[d] = mine[d]
<1> USE DEF TypeOK, At, GoTo, caller
<1>1. pc[c] # "idle" \/ pc'[c] # "idle"
  BY DEF CallerStep, Call, WriteChecks, WriteKills, BuildCommand, Spawn, Publish,
     Announce, Launch, WriteInput, Abort, CloseMarks, CloseKills, CloseWaits, CloseChans
<1>2. \A d \in Callers : d # c => pc'[d] = pc[d]
  BY DEF CallerStep, Call, WriteChecks, WriteKills, BuildCommand, Spawn, Publish,
     Announce, Launch, WriteInput, Abort, CloseMarks, CloseKills, CloseWaits, CloseChans
<1>3. \A d \in Callers : d # c => mine'[d] = mine[d]
  BY DEF CallerStep, Call, WriteChecks, WriteKills, BuildCommand, Spawn, Publish,
     Announce, Launch, WriteInput, Abort, CloseMarks, CloseKills, CloseWaits, CloseChans
<1> QED
  BY <1>1, <1>2, <1>3 DEF Alone

\* A call, and each step of the caller that it moves.
LEMMA CallerKeeps ==
  ASSUME RunnerInv, TypeOK', Alone, Alone', NEW c \in Callers,
         CallerStep(c) \/ \E op \in {"write", "abort", "close"} : Call(c, op)
  PROVE  RunnerInv'
<1>1. TypeOK /\ \A d \in Callers : d # c =>
           pc[d] = "idle" /\ pc'[d] = "idle" /\ mine'[d] = mine[d]
  BY OthersIdle DEF RunnerInv
<1> USE DEF At, GoTo, runner, caller, process, loops, output
<1>2. CASE \E op \in {"write", "abort", "close"} : Call(c, op)
  <2>1. PICK op \in {"write", "abort", "close"} : Call(c, op)
    BY <1>2
  <2>2. /\ pc[c] = "idle" /\ pc'[c] = op /\ ~ detached /\ (detached' <=> op = "close")
        /\ mine' = mine /\ UNCHANGED <<chans, cmd, life, reading, waiter, panicked>>
    BY <1>1, <2>1 DEF Call, TypeOK
  <2>3. CloserIsLast'
    BY <1>1, <2>2 DEF RunnerInv, CloserIsLast, Closing
  <2>4. ClosedAfterLoops'
    BY <1>1, <2>2 DEF RunnerInv, ClosedAfterLoops, LoopsDone
  <2>5. RunsKnown' /\ NeverPanics'
    BY <1>1, <2>2 DEF RunnerInv, RunsKnown, NoneRuns, NeverPanics
  <2> QED
    BY <2>3, <2>4, <2>5 DEF RunnerInv
<1>3. CASE CallerStep(c)
  <2>1. CASE WriteChecks(c)
    <3> USE <1>1, <2>1 DEF WriteChecks, TypeOK
    <3>1. CloserIsLast' BY DEF RunnerInv, CloserIsLast, Closing
    <3>2. ClosedAfterLoops' BY DEF RunnerInv, ClosedAfterLoops, LoopsDone
    <3>3. RunsKnown' /\ NeverPanics' BY DEF RunnerInv, RunsKnown, NoneRuns, NeverPanics
    <3> QED BY <3>1, <3>2, <3>3 DEF RunnerInv
  <2>2. CASE WriteKills(c)
    <3> USE <1>1, <2>2 DEF WriteKills, TypeOK
    <3>1. CloserIsLast' BY DEF RunnerInv, CloserIsLast, Closing
    <3>2. ClosedAfterLoops' BY DEF RunnerInv, ClosedAfterLoops, LoopsDone
    <3>3. NoneRuns' BY Killed DEF RunnerInv, RunsKnown, NoneRuns
    <3>4. RunsKnown' /\ NeverPanics' BY <3>3 DEF RunnerInv, RunsKnown, NoneRuns, NeverPanics
    <3> QED BY <3>1, <3>2, <3>4 DEF RunnerInv
  <2>3. CASE BuildCommand(c)
    <3> USE <1>1, <2>3 DEF BuildCommand, TypeOK
    <3>1. CloserIsLast' BY DEF RunnerInv, CloserIsLast, Closing
    <3>2. ClosedAfterLoops' BY DEF RunnerInv, ClosedAfterLoops, LoopsDone
    <3>3. NoneRuns' BY DEF RunnerInv, RunsKnown, NoneRuns
    <3>4. RunsKnown' /\ NeverPanics' BY <3>3 DEF RunnerInv, RunsKnown, NoneRuns, NeverPanics
    <3> QED BY <3>1, <3>2, <3>4 DEF RunnerInv
  <2>4. CASE Spawn(c)
    <3> USE <1>1, <2>4 DEF Spawn, TypeOK
    <3>1. CloserIsLast' BY DEF RunnerInv, CloserIsLast, Closing
    <3>2. ClosedAfterLoops' BY DEF RunnerInv, ClosedAfterLoops, LoopsDone
    <3>3. RunsKnown' /\ NeverPanics'
      BY DEF RunnerInv, RunsKnown, NoneRuns, NeverPanics, ClosedAfterLoops
    <3> QED BY <3>1, <3>2, <3>3 DEF RunnerInv
  <2>5. CASE Publish(c)
    <3> USE <1>1, <2>5 DEF Publish, TypeOK
    <3>1. CloserIsLast' BY DEF RunnerInv, CloserIsLast, Closing
    <3>2. ClosedAfterLoops' BY DEF RunnerInv, ClosedAfterLoops, LoopsDone
    <3>3. RunsKnown' /\ NeverPanics' BY DEF RunnerInv, RunsKnown, NoneRuns, NeverPanics
    <3> QED BY <3>1, <3>2, <3>3 DEF RunnerInv
  <2>6. CASE Announce(c)
    <3> USE <1>1, <2>6 DEF Announce, Emit, TypeOK
    <3>1. CloserIsLast' BY DEF RunnerInv, CloserIsLast, Closing
    <3>2. ClosedAfterLoops' BY DEF RunnerInv, ClosedAfterLoops, LoopsDone
    <3>3. RunsKnown' BY DEF RunnerInv, RunsKnown, NoneRuns
    <3>4. NeverPanics' BY DEF RunnerInv, ClosedAfterLoops, NeverPanics
    <3> QED BY <3>1, <3>2, <3>3, <3>4 DEF RunnerInv
  <2>7. CASE Launch(c)
    <3> USE <1>1, <2>7 DEF Launch, TypeOK
    <3>1. CloserIsLast' BY DEF RunnerInv, CloserIsLast, Closing
    <3>2. ClosedAfterLoops' BY DEF RunnerInv, ClosedAfterLoops, LoopsDone
    <3>3. RunsKnown' /\ NeverPanics' BY DEF RunnerInv, RunsKnown, NoneRuns, NeverPanics
    <3> QED BY <3>1, <3>2, <3>3 DEF RunnerInv
  <2>8. CASE WriteInput(c)
    <3> USE <1>1, <2>8 DEF WriteInput, TypeOK
    <3>1. CloserIsLast' BY DEF RunnerInv, CloserIsLast, Closing
    <3>2. ClosedAfterLoops' BY DEF RunnerInv, ClosedAfterLoops, LoopsDone
    <3>3. RunsKnown' /\ NeverPanics' BY DEF RunnerInv, RunsKnown, NoneRuns, NeverPanics
    <3> QED BY <3>1, <3>2, <3>3 DEF RunnerInv
  <2>9. CASE Abort(c)
    <3> USE <1>1, <2>9 DEF Abort, TypeOK
    <3>1. CloserIsLast' BY DEF RunnerInv, CloserIsLast, Closing
    <3>2. ClosedAfterLoops' BY DEF RunnerInv, ClosedAfterLoops, LoopsDone
    <3>3. RunsKnown' /\ NeverPanics' BY Killed DEF RunnerInv, RunsKnown, NoneRuns, NeverPanics
    <3> QED BY <3>1, <3>2, <3>3 DEF RunnerInv
  <2>10. CASE CloseMarks(c)
    <3> USE <1>1, <2>10 DEF CloseMarks, TypeOK
    <3>1. CloserIsLast' BY DEF RunnerInv, CloserIsLast, Closing
    <3>2. ClosedAfterLoops' BY DEF RunnerInv, ClosedAfterLoops, LoopsDone
    <3>3. RunsKnown' /\ NeverPanics' BY DEF RunnerInv, RunsKnown, NoneRuns, NeverPanics
    <3> QED BY <3>1, <3>2, <3>3 DEF RunnerInv
  <2>11. CASE CloseKills(c)
    <3> USE <1>1, <2>11 DEF CloseKills, TypeOK
    <3>1. CloserIsLast' BY DEF RunnerInv, CloserIsLast, Closing
    <3>2. ClosedAfterLoops' BY DEF RunnerInv, ClosedAfterLoops, LoopsDone
    <3>3. NoneRuns' BY Killed DEF RunnerInv, RunsKnown, NoneRuns
    <3>4. RunsKnown' /\ NeverPanics' BY <3>3 DEF RunnerInv, RunsKnown, NoneRuns, NeverPanics
    <3> QED BY <3>1, <3>2, <3>4 DEF RunnerInv
  <2>12. CASE CloseWaits(c)
    <3> USE <1>1, <2>12 DEF CloseWaits, TypeOK
    <3>1. CloserIsLast' BY DEF RunnerInv, CloserIsLast, Closing
    <3>2. ClosedAfterLoops' BY DEF RunnerInv, ClosedAfterLoops, LoopsDone
    <3>3. RunsKnown' /\ NeverPanics' BY DEF RunnerInv, RunsKnown, NoneRuns, NeverPanics
    <3> QED BY <3>1, <3>2, <3>3 DEF RunnerInv
  <2>13. CASE CloseChans(c)
    <3> USE <1>1, <2>13 DEF CloseChans, TypeOK
    <3>1. CloserIsLast' BY DEF RunnerInv, CloserIsLast, Closing
    <3>2. ClosedAfterLoops'
      BY DEF RunnerInv, ClosedAfterLoops, CloserIsLast, Closing, LoopsDone
    <3>3. RunsKnown' /\ NeverPanics' BY DEF RunnerInv, RunsKnown, NoneRuns, NeverPanics
    <3> QED BY <3>1, <3>2, <3>3 DEF RunnerInv
  <2> QED
    BY <1>3, <2>1, <2>2, <2>3, <2>4, <2>5, <2>6, <2>7, <2>8, <2>9, <2>10, <2>11,
       <2>12, <2>13 DEF CallerStep
<1> QED
  BY <1>2, <1>3

\* A process and its loops: once the channels are closed they are over, and
\* send nothing.
LEMMA ProcessKeeps ==
  ASSUME RunnerInv, TypeOK', NEW p \in Processes,
         Produce(p) \/ Exit(p) \/ Reader(p) \/ ErrReader(p) \/ Waiter(p)
  PROVE  RunnerInv'
<1>1. TypeOK /\ UNCHANGED <<detached, chans, cmd, pc, mine>>
  BY DEF RunnerInv, Produce, Exit, Reader, ReadLine, ReadEnd, ErrReader,
     ReadComplaint, ComplaintsEnd, LongComplaint, StopReading, Waiter, WaitBegin,
     WaitEnd, Report, runner, caller
<1>2. \A q \in Processes : life'[q] = "running" => life[q] = "running"
  BY <1>1 DEF TypeOK, Produce, Exit, Reader, ReadLine, ReadEnd, ErrReader,
     ReadComplaint, ComplaintsEnd, LongComplaint, StopReading, Waiter, WaitBegin,
     WaitEnd, Report, process
<1>3. CloserIsLast'
  BY <1>1 DEF RunnerInv, CloserIsLast
<1>4. LoopsDone => LoopsDone'
  BY <1>1 DEF LoopsDone, TypeOK, Produce, Exit, Reader, ReadLine, ReadEnd, ErrReader,
     ReadComplaint, ComplaintsEnd, LongComplaint, StopReading, Waiter,
     WaitBegin, WaitEnd, Report, loops
<1>5. ClosedAfterLoops'
  BY <1>1, <1>4 DEF RunnerInv, ClosedAfterLoops
<1>6. RunsKnown'
  BY <1>1, <1>2 DEF RunnerInv, RunsKnown, NoneRuns
<1>7. NeverPanics'
  <2>1. ReadLine(p) \/ ReadComplaint(p) \/ Report(p) => ~ LoopsDone
    BY DEF ReadLine, ReadComplaint, Report, LoopsDone
  <2>2. chans = "closed" => LoopsDone
    BY DEF RunnerInv, ClosedAfterLoops
  <2> QED
    BY <2>1, <2>2 DEF RunnerInv, NeverPanics, Produce, Exit, Reader, ReadLine, ReadEnd,
       ErrReader, ReadComplaint, ComplaintsEnd, LongComplaint, StopReading, Waiter, WaitBegin, WaitEnd, Report, Emit, output
<1> QED
  BY <1>3, <1>5, <1>6, <1>7 DEF RunnerInv

LEMMA InvStep == RunnerInv /\ Alone /\ Alone' /\ [Next]_vars => RunnerInv'
<1> SUFFICES ASSUME RunnerInv, Alone, Alone', [Next]_vars PROVE RunnerInv'
  OBVIOUS
<1>1. TypeOK'
  BY TypeStep DEF RunnerInv
<1>2. CASE UNCHANGED vars
  BY <1>1, <1>2 DEF vars, runner, caller, process, loops, output, RunnerInv, CloserIsLast,
     ClosedAfterLoops, LoopsDone, RunsKnown, NoneRuns, NeverPanics
<1> QED
  BY <1>1, <1>2, CallerKeeps, ProcessKeeps DEF Next

LEMMA Invariance == Spec /\ []Alone => []RunnerInv
<1>1. Init => RunnerInv
  <2> SUFFICES ASSUME Init PROVE RunnerInv
    OBVIOUS
  <2>1. TypeOK
    <3>1. 0 \in MaybeProcess
      BY ClaudeAssumption DEF MaybeProcess
    <3>2. /\ detached \in BOOLEAN /\ closed \in BOOLEAN /\ panicked \in BOOLEAN
          /\ unread \in [Processes -> BOOLEAN]
      BY Zenon DEF Init
    <3> QED
      BY <3>1, <3>2 DEF Init, TypeOK, PCs
  <2> QED
    BY <2>1 DEF Init, RunnerInv, CloserIsLast, Closing, ClosedAfterLoops, LoopsDone,
       RunsKnown, NoneRuns, NeverPanics
<1> QED
  BY <1>1, InvStep, PTL DEF Spec

\* claude_runner.go:308: as long as no two requests overlap, no line, no
\* "started" and no "turn_end" is sent after Close has closed the channels.
THEOREM NoSendAfterClose == Spec /\ []Alone => []NeverPanics
<1>1. RunnerInv => NeverPanics
  BY DEF RunnerInv
<1> QED
  BY <1>1, Invariance, PTL

\* claude_runner.go, Close: as long as no two requests overlap, no process
\* runs and no loop waits once it has closed the channels.
THEOREM CloseIsComplete == Spec /\ []Alone => []NothingLeft
<1>1. RunnerInv => NothingLeft
  BY DEF RunnerInv, ClosedAfterLoops, RunsKnown, NoneRuns, NothingLeft
<1> QED
  BY <1>1, Invariance, PTL

\* claude_runner.go:170: as long as no two requests overlap, no process runs
\* between them but the one that Abort and Close would kill.
THEOREM OneProcessInTurn == Spec /\ []Alone => []OneProcess
<1>1. RunnerInv => OneProcess
  BY DEF RunnerInv, RunsKnown, OneProcess, Quiet
<1> QED
  BY <1>1, Invariance, PTL
=============================================================================
