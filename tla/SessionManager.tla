--------------------------- MODULE SessionManager ---------------------------
(***************************************************************************)
(* internal/session/manager.go: the Manager that owns "the active runner"  *)
(* of the server, used concurrently by every caller that holds it: one     *)
(* ServeConn read loop per WebSocket connection (session.start, with or    *)
(* without restart, session.stop) and the POST handler that resumes a      *)
(* session (Stop).  A caller handles one request at a time.                *)
(*                                                                         *)
(* Start, Restart and Stop hold m.mu only for parts of their body: each    *)
(* critical section, and each call made on a runner or on the store        *)
(* between two sections, is an action of its own here, so that the         *)
(* interleavings of the callers, of the forward goroutines and of the      *)
(* runners' processes are those of the code.                               *)
(*                                                                         *)
(* A runner object is used for one Start or Restart only (handleStart      *)
(* makes a new one per request), and a session id is a fresh uuid drawn in *)
(* Start: the session whose id was drawn for runner r is named r.          *)
(* m.metadata is always the store's entry of m.sid: the two are assigned   *)
(* and cleared together, so it needs no variable.  The events a runner     *)
(* produces, and the statistics kept about them, are left out.             *)
(***************************************************************************)
EXTENDS Naturals, FiniteSets

CONSTANTS
  Callers,        \* goroutines that call the manager
  Runners,        \* runner objects, and the sessions started with them
  ClaudeRunners,  \* those of type ClaudeRunner; the others run one process
  None            \* nil, and the empty session id

ASSUME ConstantsAssumption ==
  /\ None \notin Runners
  /\ ClaudeRunners \subseteq Runners

VARIABLES
  active,    \* m.active
  sid,       \* m.sid
  status,    \* Status of each session's entry in the store
  pc,        \* where each caller is
  run,       \* local variable run of Start, Restart and Stop
  old,       \* local variable old of Restart
  lsid,      \* local variable sid of Restart and Stop
  proc,      \* the life of each runner
  closes,    \* how many times Close was called on each runner (at most 2)
  ctx,       \* the caller whose context the runner was started with
  panicked   \* a caller sent on, or closed, a closed channel of a runner

local == <<pc, run, old, lsid>>
runners == <<proc, closes, ctx, panicked>>
vars == <<active, sid, status, pc, run, old, lsid, proc, closes, ctx, panicked>>

(***************************************************************************)
(* "made": constructed; "live": Start succeeded, its forward goroutine     *)
(* runs and its Events channel is open; "failed": Start returned an error; *)
(* "exited", "closed", "killed": it ended by itself, by Close, or because  *)
(* the context it was started with was cancelled, and its Events channel   *)
(* is being closed; "gone": the forward goroutine has seen that.           *)
(***************************************************************************)
Ended == {"exited", "closed", "killed"}
Life == {"unmade", "made", "live", "failed", "gone"} \cup Ended

PCs == {"idle", "start", "starting", "startFailed", "started",
        "restart", "closingOld", "install", "restarting", "restartFailed",
        "stopUpdate", "stopClose"}

MaybeRunner == Runners \cup {None}

TypeOK ==
  /\ active \in MaybeRunner
  /\ sid \in MaybeRunner
  /\ status \in [Runners -> {"none", "active", "inactive"}]
  /\ pc \in [Callers -> PCs]
  /\ run \in [Callers -> MaybeRunner]
  /\ old \in [Callers -> MaybeRunner]
  /\ lsid \in [Callers -> MaybeRunner]
  /\ proc \in [Runners -> Life]
  /\ closes \in [Runners -> 0..2]
  /\ ctx \in [Runners -> Callers \cup {None}]
  /\ panicked \in BOOLEAN

Init ==
  /\ active = None
  /\ sid = None
  /\ status = [r \in Runners |-> "none"]
  /\ pc = [c \in Callers |-> "idle"]
  /\ run = [c \in Callers |-> None]
  /\ old = [c \in Callers |-> None]
  /\ lsid = [c \in Callers |-> None]
  /\ proc = [r \in Runners |-> "unmade"]
  /\ closes = [r \in Runners |-> 0]
  /\ ctx = [r \in Runners |-> None]
  /\ panicked = FALSE

At(c, label) == pc[c] = label
GoTo(c, label) == pc' = [pc EXCEPT ![c] = label]

\* The caller returns to its read loop; its local variables are dead.
Return(c) ==
  /\ GoTo(c, "idle")
  /\ run' = [run EXCEPT ![c] = None]
  /\ old' = [old EXCEPT ![c] = None]
  /\ lsid' = [lsid EXCEPT ![c] = None]

\* ServeConn's deferred cancel: the connection of c is over.
CancelContext(c) ==
  ctx' = [r \in Runners |-> IF ctx[r] = c THEN None ELSE ctx[r]]

\* A caller runs in the goroutine of an HTTP handler: net/http recovers its
\* panic, which ends that connection only.
Panic(c) == Return(c) /\ CancelContext(c) /\ panicked' = TRUE

SetStatus(s, value) ==
  status' = IF s = None THEN status ELSE [status EXCEPT ![s] = value]

(***************************************************************************)
(* The runners, as the manager uses them.                                  *)
(*                                                                         *)
(* Close ends what a process runner has started so far.  Close of a        *)
(* ClaudeRunner closes its channels, without asking whether they are.      *)
(* No Close returns an error.                                              *)
(***************************************************************************)
ChannelsClosed(r) == r \in ClaudeRunners /\ closes[r] > 0

CloseRunner(r) ==
  /\ closes' = [closes EXCEPT ![r] = IF @ < 2 THEN @ + 1 ELSE @]
  /\ proc' = [proc EXCEPT ![r] = IF @ = "live" THEN "closed" ELSE @]

\* Start of a ClaudeRunner only puts "ready" in the events channel; Start of
\* the others spawns a process, whether or not Close was called before.
StartSucceeds(r) ==
  /\ ~ ChannelsClosed(r)
  /\ proc' = [proc EXCEPT ![r] = "live"]
  /\ UNCHANGED <<closes, ctx, panicked>>

\* "ready" is sent although a Close that came first has closed the channel.
StartPanics(c) ==
  /\ ChannelsClosed(run[c])
  /\ Panic(c)
  /\ UNCHANGED <<proc, closes>>

\* Start of a ClaudeRunner fails only without a command, and NewRunner has
\* refused an empty one.
StartFails(r) ==
  /\ r \notin ClaudeRunners
  /\ proc' = [proc EXCEPT ![r] = "failed"]
  /\ UNCHANGED <<closes, ctx, panicked>>

\* The process of a runner ends by itself.  A ClaudeRunner has a process
\* per message, whose end does not end the runner.
Exit(r) ==
  /\ proc[r] = "live"
  /\ r \notin ClaudeRunners
  /\ proc' = [proc EXCEPT ![r] = "exited"]
  /\ UNCHANGED <<active, sid, status, local, closes, ctx, panicked>>

\* exec.CommandContext kills the process once the context it was given is
\* cancelled.
CtxKill(r) ==
  /\ proc[r] = "live"
  /\ r \notin ClaudeRunners
  /\ ctx[r] = None
  /\ proc' = [proc EXCEPT ![r] = "killed"]
  /\ UNCHANGED <<active, sid, status, local, closes, ctx, panicked>>

(***************************************************************************)
(* handleStart, then Start or Restart.                                     *)
(***************************************************************************)
NewRunner(c, r, op) ==
  /\ At(c, "idle")
  /\ proc[r] = "unmade"
  /\ proc' = [proc EXCEPT ![r] = "made"]
  /\ ctx' = [ctx EXCEPT ![r] = c]
  /\ run' = [run EXCEPT ![c] = r]
  /\ GoTo(c, op)
  /\ UNCHANGED <<active, sid, status, old, lsid, closes, panicked>>

\* First critical section of Start.
StartRejected(c) ==
  /\ At(c, "start")
  /\ active # None
  /\ Return(c)
  /\ UNCHANGED <<active, sid, status, runners>>

\* Mutant: the check that no runner is active is dropped.
StartAcceptedUnchecked(c) ==
  /\ At(c, "start")
  /\ active' = run[c]
  /\ sid' = run[c]
  /\ SetStatus(run[c], "active")
  /\ GoTo(c, "starting")
  /\ UNCHANGED <<run, old, lsid, runners>>

StartAccepted(c) ==
  /\ At(c, "start")
  /\ active = None
  /\ active' = run[c]
  /\ sid' = run[c]
  /\ SetStatus(run[c], "active")
  /\ GoTo(c, "starting")
  /\ UNCHANGED <<run, old, lsid, runners>>

\* run.Start, outside the lock, and go m.forward(run) when it succeeds.
RunStart(c) ==
  /\ At(c, "starting")
  /\ \/ /\ StartSucceeds(run[c])
        /\ GoTo(c, "started")
        /\ UNCHANGED <<run, old, lsid>>
     \/ /\ StartFails(run[c])
        /\ GoTo(c, "startFailed")
        /\ UNCHANGED <<run, old, lsid>>
     \/ StartPanics(c)
  /\ UNCHANGED <<active, sid, status>>

StartFailed(c) ==
  /\ At(c, "startFailed")
  /\ active' = None
  /\ sid' = None
  /\ Return(c)
  /\ UNCHANGED <<status, runners>>

\* return m.sid, read without the lock: the id given to the caller is the
\* one current now.
StartReturn(c) ==
  /\ At(c, "started")
  /\ Return(c)
  /\ UNCHANGED <<active, sid, status, runners>>

\* First critical section of Restart.
RestartAsStart(c) ==
  /\ At(c, "restart")
  /\ active = None
  /\ GoTo(c, "start")
  /\ UNCHANGED <<active, sid, status, run, old, lsid, runners>>

\* Mutant: the old runner stays active while it is closed.
RestartLeavesOld(c) ==
  /\ At(c, "restart")
  /\ active # None
  /\ old' = [old EXCEPT ![c] = active]
  /\ lsid' = [lsid EXCEPT ![c] = sid]
  /\ GoTo(c, "closingOld")
  /\ UNCHANGED <<active, sid, status, run, runners>>

RestartTakesOld(c) ==
  /\ At(c, "restart")
  /\ active # None
  /\ old' = [old EXCEPT ![c] = active]
  /\ lsid' = [lsid EXCEPT ![c] = sid]
  /\ active' = None
  /\ GoTo(c, "closingOld")
  /\ UNCHANGED <<sid, status, run, runners>>

RestartClosesOld(c) ==
  /\ At(c, "closingOld")
  /\ CloseRunner(old[c])
  /\ IF ChannelsClosed(old[c])
       THEN Panic(c)
       ELSE GoTo(c, "install") /\ UNCHANGED <<run, old, lsid, ctx, panicked>>
  /\ UNCHANGED <<active, sid, status>>

\* Second critical section of Restart: the new runner is installed whatever
\* m.active has become, m.metadata (the entry of m.sid) and the entry of
\* the session being restarted are both marked active.
RestartInstall(c) ==
  /\ At(c, "install")
  /\ active' = run[c]
  /\ status' = [s \in Runners |->
                  IF s \in {sid, lsid[c]} THEN "active" ELSE status[s]]
  /\ GoTo(c, "restarting")
  /\ UNCHANGED <<sid, run, old, lsid, runners>>

RunRestart(c) ==
  /\ At(c, "restarting")
  /\ \/ StartSucceeds(run[c]) /\ Return(c)
     \/ /\ StartFails(run[c])
        /\ GoTo(c, "restartFailed")
        /\ UNCHANGED <<run, old, lsid>>
     \/ StartPanics(c)
  /\ UNCHANGED <<active, sid, status>>

RestartFailed(c) ==
  /\ At(c, "restartFailed")
  /\ active' = IF active = run[c] THEN None ELSE active
  /\ Return(c)
  /\ UNCHANGED <<sid, status, runners>>

(***************************************************************************)
(* Stop.                                                                   *)
(***************************************************************************)
\* Mutant: Stop does not take the runner out of m.active.
StopLeavesActive(c) ==
  /\ At(c, "idle")
  /\ active # None
  /\ sid' = None
  /\ run' = [run EXCEPT ![c] = active]
  /\ lsid' = [lsid EXCEPT ![c] = sid]
  /\ GoTo(c, "stopUpdate")
  /\ UNCHANGED <<active, status, old, runners>>

StopTakes(c) ==
  /\ At(c, "idle")
  /\ active' = None
  /\ sid' = None
  /\ IF active = None
       THEN UNCHANGED local
       ELSE /\ run' = [run EXCEPT ![c] = active]
            /\ lsid' = [lsid EXCEPT ![c] = sid]
            /\ GoTo(c, "stopUpdate")
            /\ UNCHANGED old
  /\ UNCHANGED <<status, runners>>

StopUpdates(c) ==
  /\ At(c, "stopUpdate")
  /\ SetStatus(lsid[c], "inactive")
  /\ GoTo(c, "stopClose")
  /\ UNCHANGED <<active, sid, run, old, lsid, runners>>

StopCloses(c) ==
  /\ At(c, "stopClose")
  /\ CloseRunner(run[c])
  /\ IF ChannelsClosed(run[c])
       THEN Panic(c)
       ELSE Return(c) /\ UNCHANGED <<ctx, panicked>>
  /\ UNCHANGED <<active, sid, status>>

(***************************************************************************)
(* forward(run) sees the runner's Events channel closed.                   *)
(***************************************************************************)
\* Mutant: any runner's end ends the current session.
ForwardEndsAny(r) ==
  /\ proc[r] \in Ended
  /\ proc' = [proc EXCEPT ![r] = "gone"]
  /\ active' = None
  /\ SetStatus(sid, "inactive")
  /\ sid' = None
  /\ UNCHANGED <<local, closes, ctx, panicked>>

\* Mutant: any runner's end marks the current session inactive.
ForwardEndsMarks(r) ==
  /\ proc[r] \in Ended
  /\ proc' = [proc EXCEPT ![r] = "gone"]
  /\ active' = IF active = r THEN None ELSE active
  /\ sid' = IF active = r THEN None ELSE sid
  /\ SetStatus(sid, "inactive")
  /\ UNCHANGED <<local, closes, ctx, panicked>>

ForwardEnds(r) ==
  /\ proc[r] \in Ended
  /\ proc' = [proc EXCEPT ![r] = "gone"]
  /\ IF active = r
       THEN /\ active' = None
            /\ SetStatus(sid, "inactive")
            /\ sid' = None
       ELSE UNCHANGED <<active, sid, status>>
  /\ UNCHANGED <<local, closes, ctx, panicked>>

\* ServeConn returns when its connection breaks, which it only notices
\* between two requests: the context of the connection is cancelled.
Disconnect(c) ==
  /\ At(c, "idle")
  /\ \E r \in Runners : ctx[r] = c
  /\ CancelContext(c)
  /\ UNCHANGED <<active, sid, status, local, proc, closes, panicked>>

CallerStep(c) ==
  \/ StartRejected(c) \/ StartAccepted(c) \/ RunStart(c)
  \/ StartFailed(c) \/ StartReturn(c)
  \/ RestartAsStart(c) \/ RestartTakesOld(c) \/ RestartClosesOld(c)
  \/ RestartInstall(c) \/ RunRestart(c) \/ RestartFailed(c)
  \/ StopUpdates(c) \/ StopCloses(c)

Request(c) ==
  \/ \E r \in Runners, op \in {"start", "restart"} : NewRunner(c, r, op)
  \/ StopTakes(c)

Next ==
  \/ \E c \in Callers : Request(c) \/ CallerStep(c) \/ Disconnect(c)
  \/ \E r \in Runners : Exit(r) \/ CtxKill(r) \/ ForwardEnds(r)

Spec == Init /\ [][Next]_vars

-----------------------------------------------------------------------------
(***************************************************************************)
(* Properties.                                                             *)
(***************************************************************************)

\* However Stop, Restart and exits interleave, the manager calls Close at
\* most once on a runner: every closer has first taken the runner out of
\* m.active under the lock.  (ClaudeRunner.Close panics the second time.)
ClosedAtMostOnce == \A r \in Runners : closes[r] <= 1

\* The runner that Write, Abort and SendToStdin would use has not been
\* closed, whatever callers are in the middle of Start, Restart or Stop.
ActiveNotClosed == active # None => closes[active] = 0

\* The current session is recorded as active in the store: no late exit of
\* an earlier runner, and no Stop still on its way to the store, marks it
\* inactive.
CurrentRecordedActive == sid # None => status[sid] = "active"

Quiet == \A c \in Callers : pc[c] = "idle"

\* manager.go:62, "requires that there is no active runner": two runners
\* are never running at the same time.
SingleLiveRunner ==
  Cardinality({r \in Runners : proc[r] = "live"}) <= 1

\* When no request is in progress, a running runner is the active one, so
\* that it can be written to, and stopped.
LiveRunnerReachable ==
  Quiet => \A r \in Runners : proc[r] = "live" => active = r

\* No legal sequence of requests makes the manager start, or close, a
\* ClaudeRunner whose channels are closed, and so lose the connection.
NeverPanics == ~ panicked

\* manager.go:119, Restart "replaces the current runner but keeps the
\* session id": once the new runner is installed, the current id is the one
\* that Restart is about to return.
RestartKeepsSessionId ==
  \A c \in Callers :
    pc[c] = "restarting" /\ active = run[c] => sid = lsid[c]

\* manager.go:202, "a session ends only when the user stops it or its
\* process exits; it is never disconnected by a timeout": no process is
\* killed because a connection went away.
SessionSurvivesDisconnect == \A r \in Runners : proc[r] # "killed"
=============================================================================
