# MobileCoding: specifications

TLA+ models of MobileCoding, the server and the clients with which a phone drives
Claude Code, Codex and other command-line agents that run on a computer. The
models are translated from the Go server (`src/internal`, `src/cmd/server`), the web
client (`src/web/src`) and the mobile client (`src/mobile/src`); TLC checks them on
small instances and TLAPS proves the theorems below for any size. Paths below are
relative to `src/`.

## The system

A phone holds a WebSocket to the server. Its requests start, restart, feed, abort and
stop one *session* at a time; a session is run by a *runner*, which starts a process
and turns its output into events. Events go through one channel to one goroutine,
which numbers and saves them, projects them to what clients understand, and hands
them to a hub that broadcasts to every connection and replays the latest to new ones.
The web client merges what it receives, what is replayed and what it fetches after a
reconnect into one list of cards, keeps what the user types while it is disconnected,
and shows Claude's questions. Claude's permission hook is an HTTP request that the
server holds until a phone answers or a timeout decides. A relay pairs an agent with a
page that cannot reach the server directly. The mobile client has a store, a screen and
a connection of its own.

| Part | State it keeps | Operations | Talks to | Hard because | Correct when |
|---|---|---|---|---|---|
| Session manager `internal/session` | active runner, current id, store of sessions | Start, Restart, Stop, Write, Abort, forward | runners, handler, server assembly | unlocks between publishing, closing and starting a runner; late ends of old runners; cancelled contexts | one reachable live runner; none closed twice; ids and statuses match it |
| Permission hook `internal/hook/handler.go` | pending questions and their channels | ServeHTTP, Register, Respond, Abort | Claude, phones, hub | answers race each other and the timeout | one answer acknowledged; every question decided once, "allow" only if somebody said so |
| Hook settings `internal/hook/settings.go` | Claude's settings file and its backup | Install, RemoveInstalledHook, Uninstall | file system | the user edits the same file | other settings survive |
| Claude runner `internal/engine/claude_runner.go` | current process, resume id, two channels | Write, Abort, Close, readLoop, readStderr, waitLoop | Claude, manager | one process per message; loops of old processes overlap with new ones | one process works on a session; ends are reported; no send on a closed channel |
| Other runners `internal/engine` | process, pipes or terminal | Start, Write, Abort, Close, loops | process, manager | closing channels while a loop sends; a full pipe | as above |
| Hub, connections `internal/ws` | subscribers, replay buffer, queues per connection | Subscribe, Unsubscribe, Broadcast, bridge, read and write loops | server assembly, phones | slow and broken clients, full queues | in order, once, losses counted, what is queued is shown |
| Server assembly `cmd/server/main.go` | event in hand, queue of saves | forwardSessionEvents, writer | manager, store, hub | save and broadcast race on one struct; restart | one order; numbers true; nothing silently unsaved |
| Message store `internal/store` | numbered rows of each session | SaveMessage, GetMessagesAfter/Before, cleanup | assembly, gateway | pages, numbers | a client can catch up |
| Projection `internal/projection` | open tools, thinking | Project, PhaseTracker | assembly | pairs over a stream | starts and ends pair |
| Gateway `internal/gateway` | none | HTTP endpoints | store, hub, manager | | |
| Relay `internal/relay`, its agent `cmd/server/relay_cmd.go`, its page `web/src/core/ws/relay-client.ts` | agents, clients, sessions, slots | register, pair, forward, disconnect, reconnect | agents, pages | agents that register again, pages that reconnect, late ends | paired peers, and only they, hear each other; slots come back |
| Web connection `web/src/core/ws` | socket, timers, requests under way and queued | connect, send, close, reconnect, flush | server | drops, timeouts, late answers, old sockets | each request is in one place and settled once, written in order |
| Web chat state `web/src/core/state` | cards, session id, last number, turn, prompt, queue of texts | reducer, catch-up, flush, automatic answers | web connection, gateway | three sources of events overlap; effects run on what was rendered | each event once, in order, in its session; each text sent once; nothing allowed that nobody allowed |
| Web interface `web/src/features` | sidebar, choice of settings, box, drafts, history | what is pressed, fetched and typed | chat state, gateway | answers to fetches come in any order | what is shown belongs together; no spinner without an end |
| Mobile client `mobile/src` | store, turn, requests, history | events, text, abort, answer, leave | server | history and events overlap; no second connection | nothing lost in merging; answers go to what was seen |
| Authentication, configuration, logging, files, scripts | | | | | not modelled: I/O, cryptography |

## The modules

| Module | Models | State and actions |
|---|---|---|
| `SessionManager` | `session/manager.go` with `ws/handler.go` as its caller | `active`, `sid` are `m.active`, `m.sid`; `status` is the store; `proc`, `ctx`, `closes` describe each runner. A caller's `pc` stands where its goroutine is between two critical sections: `StartAccepted`, `RunStart` with `StartSucceeds`, `StartFails` or `StartPanics` (`net/http` recovers the panic, and the connection is over); `RestartTakesOld`, `RestartClosesOld`, `RestartInstall`, `RunRestart`; `StopTakes`, `StopCloses`, `StopUpdates`. `Exit`, `CtxKill`, `ForwardEnds` are the runner's own end. |
| `PermissionHook` | `hook/handler.go` | `pending` and `buffer`, `closed` are the registry and its channels; `stage` is where `ServeHTTP` is, `pc` where a phone's `Respond` is between removing the entry and sending. |
| `PermissionDecision` | what the hook promises | a question is open, the users may have said something, and one verdict is given. |
| `ClaudeRunner` | `engine/claude_runner.go` | `cmd`, `chans`, `resume` are the fields; each process has a `life` and unread output, `reading` says which of its two pipes readLoop and readStderr still read, `waiter` where waitLoop is; `pc` is where Write, Abort or Close is. What claude complains of on stderr may come at any time (`ReadComplaint`), and only that it is sent on `errors` matters. |
| `ProcessRunner` | `engine/codex_runner.go`, `piped_runner.go`, `pty_runner.go`, read by `forward` of `session/manager.go` | `mu`, `closed`, the two channels and `open` are the fields; `stdin`, `unread` are how full the pipes are. A call of Write, or codex's `initialize`, holds `mu` while the pipe is full (`WriteLocks`, `WriteEnds`); `CloseLocks`, `CloseKills` are Close; each stream has a reader (`ReadChunk`, `SendChunk`, `DropChunk`, `RefuseLine`, `ReadEnds`), the process a waiter (`Waited` ... `ClosesChannels`). |
| `EventHub` | `ws/hub.go`, `ws/conn.go`, `ServeConn` of `ws/handler.go` | per connection: the hub's channel `subCh`, the connection's queue `send`, and the states of bridge, writer and reader; `socket` is what the network does. |
| `EventPipeline` | `forward`, `forwardSessionEvents`, `startAsyncWriter`, `SaveMessage` | `out`, `saveCh` are the channels, `held`, `saving` the event each goroutine has, `stored` the rows, `published` what was broadcast. `msgStore` says whether the database could be opened at start-up: if not, `saveCh` is nil and events go on unsaved (`GoesUnsaved`). `Reboot` ends the server, keeps the rows and opens the database, or fails to, again. |
| `ChatTimeline` | the list of messages and the catch-up of `ChatContext.tsx`, with the hub's replay and the store's pages | `cards`, `sessionId`, `stoppedSessionId`, `lastSeq` are the state; `wire` is the subscriber's channel and what follows it; `due` says that the effect will run, `fetches` are the pages asked for. |
| `WSClient` | the class of `web/src/core/ws/ws-client.ts` | one action per method and handler: `Connect`, `Close`, `Send`, `Reconnect` (the timer), `Opened` with the flush, `Dropped`, `Response`, `Timeout`. `readyState` is of every socket ever made, since handlers of an old one still run. |
| `WebInput` | what is typed: `handleSend` of `InputBar.tsx`, `sendInput` and the flush of `ChatContext.tsx` | `pendingQueue`, `flushing` are the state and the ref; `senders` are the calls of `sendInput` that await a promise, each with the queue it goes through; `Type`, `Asked`, `Resume`, `Render`, and `Connection`, the steps of `WSClient`. |
| `WebTurn` | the flags of the turn and the session, the permission banner, and the controls of `SessionBar.tsx`, `InputBar.tsx`, `PermissionBanner.tsx` | `st` is the reducer's state, `view` what was last rendered: a control is offered, and its handler and the effects read, by the view. The server is a session that announces events and answers requests. `Reload` loads the page again: what `localStorage` has (session, allowed tools, what was shown) is kept, the rest begins anew. `granted` remembers the user's allowances: a tool's from the press on, the turn's until the client handles a `turn_end`, the user aborts, or the page is loaded again. |
| `WebPage` | `GitFilesSidebar.tsx`, the choices of `SessionBar.tsx`, the box of `InputBar.tsx`, `TerminalPage.tsx` | `sidebar`, `picker`, `bar` are the components' states, `storage` what the browser keeps over a reload, `asked` the fetches under way. |
| `Relay` | `internal/relay/server.go`, `relay_cmd.go`, `relay-client.ts` and `connectRelay` | `session`, `agentConns`, `clientConns` are the server's; `agents` and `loop` say where each agentLoop and forwardLoop is; `page` is the web client. |
| `MobileStore` | `stores/useMessageStore.ts`, `groupMessages.ts` | operators on the store's state: `handleEvent` and its cases, `groupMessages`. A card has the ids of the events whose text it shows and that of the delta whose thinking it shows, and says whether an `undefined` was joined to it: what a merge or a text drops is gone from the card. |
| `Mobile` | `screens/TerminalScreen.tsx` over `MobileStore` | `client` is the connection, `requests` with how each was settled, `screen` the React state, `fetches` the histories under way, `handled` the ids the store was given since it was reset (0 is a text of the user). `screen.leaving` are the ways out that await their abort: the dialog is closed by then and the screen can be used meanwhile. |
| `MCSessionManager` | | symmetry, and `overlapped`, which remembers whether two requests were ever in progress at once |
| other `MC...` | | symmetry sets, model values |
| `SessionManagerProofs`, `PermissionHookProofs`, `ClaudeRunnerProofs`, `EventHubProofs`, `EventPipelineProofs` (with those of `ChatTimeline`), `WebInputProofs` (with those of `WSClient` and `WebPage`), `WebTurnProofs`, `RelayProofs` (with those of `Mobile`) | | the theorems |

Names are those of the code where there is one. An operator preceded by "Mutant:" is
not part of a specification: it is a plausible bug in the definition that follows,
kept to show that a property would notice it.

How they compose. `PermissionHook` implements `PermissionDecision`
(`ImplementsDecision`, with the registry's accepted answers for `said` and the HTTP
answer for `verdict`). `WebInput` extends `WSClient` and drives it: its steps of the
connection are `WSClient`'s actions, its own make requests by `Send`, and every one of
its behaviours is one of `WSClient` (`UsesConnection`). `Mobile` is built over
`MobileStore`, and `MCSessionManager` over `SessionManager`. `EventPipeline` abstracts
`SessionManager` to start, stop and end of a session; `ChatTimeline` abstracts
`EventPipeline` to the order of events, the number an event carries or not, and the
rows saved so far, and `EventHub` to one bounded channel. `WebTurn` abstracts the
connection to a wire that is there or not, and the server to what clients see of it.

Abstractions worth knowing. `ProcessRunner` counts chunks and does not tell them apart.
The 200 ms that `PtyRunner.waitLoop` sleeps are taken to be enough for its readLoop,
which never waits; every call of Write or Close is by a connection of its own. `Abort` of
these runners does nothing: that of `CodexRunner` asks for a `threadID` that nothing
assigns, so `session.abort` never interrupts Codex. Payloads are numbers of events; JSON, wording and logging
are left out. In `SessionManager` a session has one kind of process runner beside
`ClaudeRunner`, whose channels may not be closed twice; ids that are made up are fresh. In
`EventPipeline` an event was read from JSON, so that `ProjectionToEnvelope` does not fail. In `ChatTimeline` no
save fails and the page is not reloaded. A handler of the browser runs to its end before
the next one: in `WebInput` whatever awaits a promise that is settled goes on first
(`Quiet`). Reconnect delays are not numbers: a timer that is armed fires at some time. In
`Relay` a lookup under the mutex and the write that follows are one step, a write does
not block, and the page uses a URL that reaches the server; the one it builds itself has
`/relay` twice, and the server has no such route. What a page sends over the relay for
`session.start` and the like is printed by the agent (`relay_cmd.go`), so that only
texts are modelled; `sendStop` there leaves the relay (ChatContext.tsx:793). In `WebTurn`
`permClearAllowlist` and `dismissPermission` (ChatContext.tsx:811, 847) are no actions:
nothing calls them, and so nothing takes a tool off the list. In `Mobile` a history is any
selection, in order, of at most `HistoryLimit` events (50 in the code): the rows that were
saved by the time of the fetch are one, whatever the writer has failed to save or not saved
yet, and the code asks for the oldest. `AssistantGroupCard.tsx` renders a card of no text
and no thinking as nothing; rendering is not modelled.

## What is checked

| Configuration | Question | Instance |
|---|---|---|
| `SessionManager` | Do Start, Restart and Stop of two connections, with runners that fail, exit and are killed, ever close a runner twice or record the current session as inactive? And as long as requests have not overlapped: is there one live runner, is it reachable, is none used after it was closed? | 2 callers, 2 process runners, 1 `ClaudeRunner`, symmetric |
| `PermissionHook` | Is every question decided once, as the promise allows, with one acknowledgement, no use of a closed channel and no phone held up? | 2 questions that are asked, 1 foreign id, 3 phones, fair |
| `ClaudeRunner` | Is no channel used after it was closed, is the end of the current turn reported, and does Close return and leave nothing? | 1 caller, 2 processes, fair |
| `ProcessRunner` | Does the end of the process always reach the manager, and does every Write and Close return, whatever pipe or channel is full? | each of 3 runners, pipes and channels of 1, 3 chunks, 2 Writes, 1 Close, fair |
| `EventHub` | Is what a client is shown in order, without repetition, with losses counted, and is what was queued for it shown? | 1 connection, queues of 2, 4 events, fair |
| `EventPipeline` | Are order, numbers and rows right across full channels, failing saves, overlapping sessions and a restart, with or without a database, and is what was taken broadcast? | 2 sessions, 3 events, channels of 2, 1 restart, fair |
| `ChatTimeline` | Do live events, replays and pages ever double a card, lose an event, change history, or leave out what was in reach when the client connected? | deltas, texts and questions; 2 events, 2 sessions, 2 connections, pages of 1, 3 cards, 1 text of the user, a channel smaller than the replay |
| `WebInput` | Is each text sent or given up once, in order within an outage, and in the end; is each request in one place and written in order? | 3 texts, 3 requests, 3 sockets, fair |
| `WebTurn` | Does whatever ends a turn end the thinking too, is nothing allowed that the user has not allowed or no longer allows, and does a banner without buttons go? | 2 events (questions, starts, ends), 2 tools, 2 sessions, 2 presses, 1 drop or reload, fair |
| `Relay` | Do late ends of agents and pages leave the session to its present peers and give slots back, and are texts in order and not doubled? | 3 slots, 2 agents, 2 sockets, 1 page, 2 texts said, 1 typed |
| `Mobile` | Do merging, replacing and grouping keep the texts that the store was given, in order, with a history that arrives in between? | 3 events of 4 types, 2 blocks, histories of 2, 2 requests, 2 visits to the screen, 1 text |
| `WebPage` | Has every spinner a request that will end it, and does the box show the text of the history where the user stands? | 2 files, 2 directories, 2 settings, 2 texts, 6 steps of the user, 3 fetches under way |

Each run passes and visits its whole state space. `CHECK_DEADLOCK FALSE`
is set everywhere because the system may come to rest: nobody has to call, print, type
or connect, and bounds end the supply of runners, events, sockets and texts.

Why the bounds are enough. Races in the manager are between two requests and one
exit; three runners allow a runner to be installed while another is being replaced
and a third ends late. A question has two phases for an answer (removal, send), so
that two phones and the timeout can be in all of them; the third phone is one more late
answer, and the second question shows that questions do not disturb each other. Two
processes are needed for an old loop to meet a new turn. In `ProcessRunner` a call that
holds the lock at a full pipe, a Close behind it, a loop that waits for room for an error
and a process that waits for its output to be read need two Writes, three chunks and
nothing larger than one: all of them at once is the case in which a circle could close.
Queues of two can be empty,
partly full and full, with more events than they hold. Two events, a replay, a page and
a live broadcast let each event come by each of its three ways before and after the
other, and be merged, replaced and cut off; what needs a gap of three events or more is
in the observed configurations `ChatOpen`, `ChatOnce` and `ChatOldSession`. Three
sockets are two drops, so that a flush can outlive its own
connection and meet the one after; three texts are one that fails, one after it in the
same flush and one typed meanwhile; as many requests suffice since a text is handed over
once unless it fails. Two events let a question be overtaken by another or by the
end of a turn; two sessions let both belong to a session that was left; with two tools a
question can be about one that is allowed or one that is not. Requests that are refused
and questions that come without a `permission_ask` are in `WebTurnOpen` and in the proofs
only, for the number of states. Two agents are a
registration and one that replaces it; two sockets are a page and its reconnect. In
`Mobile` three events are two deltas, of one block or of two, and the text or another
event that follows them, in the order of the connection or of a history, and two requests
are a text or an answer, and an abort; the requests are more in `MobileOpen`.
In `WebPage` six steps are two selections, a change of directory and back with a reload,
and three fetches are two of a kind that overlap and one of another.

Fairness. Weak fairness on the steps of a goroutine that can go on, which the Go
scheduler gives. Strong fairness only in `EventHub`, for goroutines that wait for room
in a channel or choose between ready cases of a `select`: a waiting sender is woken in
turn. The permission timer fires because contexts have a deadline. In the browser,
promises that are settled resume, what has changed is rendered and effects run
(`Render`, `Resume`), answers arrive or fail (`Asked`) and timers fire (`Timeout`,
`Reconnect`); `EveryTextEnds` also assumes that the page connects, as it does when it is
opened, that an attempt succeeds and that the last socket is not lost: a text cannot
leave a phone that stays offline. `CallsReturn` has its assumption in its premise: the
process does not for ever leave a full pipe unread while there is room for its output;
if it did, Write would hold the mutex and Close, which asks for it before it kills, would
never get there. `WebTurn` assumes that renders happen and what is on
the wire arrives. `Mobile` has fairness for its timers and its one connection, which
opens or fails. Nothing makes a process print or exit, a user act, a network break, or
the server restart. `ChatTimeline`, `Relay` and `WebPage` state no liveness: what they
promise is about the order of things that happen.

## Disagreements

The other configurations of this directory check what a comment or document leads one to
expect, and TLC shows a behaviour of the code that violates it. Where a configuration
lists several properties each is violated: leave one in to see it.

| Configuration | Module | Property | What happens |
|---|---|---|---|
| `SessionOpen` | `MCSessionManager` | `LiveRunnerReachable` | "Manager 持有当前活跃 runner" (manager.go:21): a Stop between the two halves of Start leaves a running runner that cannot be reached (manager.go:104) |
| `SessionSerialDisconnect` | `MCSessionManager` | `SessionSurvivesDisconnect` | a session ends only by Stop or exit (manager.go:202), but process runners die with the connection that started them (ws/handler.go:202) |
| `SessionOpen` | `MCSessionManager` | `RestartKeepsSessionId` | of two restarts at once, one goes on without its id (manager.go:136) |
| `PermissionLostAnswer` | `MCPermissionHook` | `AckedDecisionReachesClaude` | an answer that races with the timeout is acknowledged to the phone while Claude gets the default (hook/handler.go:223) |
| `ClaudeOpen` | `MCClaudeRunner` | `TurnEndMeansIdle` | the `turn_end` of a killed process comes after the `started` of the next (claude_runner.go:171) |
| `ClaudeWaitRace` | `MCClaudeRunner` | `EveryTurnEndReported` | a waitLoop reads `r.cmd` after the next message replaced it (claude_runner.go:307) |
| `ClaudeOpen` | `MCClaudeRunner` | `OneProcess` | two connections that write at once start two processes (claude_runner.go:171) |
| `ProcessRunnerOpen` | `ProcessRunner` | `NoSendAfterClose` | "wait until readLoop has read all output, then close the channels" (pty_runner.go:149): the other two runners close `events` while a readLoop has a chunk in hand, and the server ends (piped_runner.go:141, codex_runner.go:191) |
| `ProcessRunnerOpen` | `ProcessRunner` | `OutputIsTaken` | `cmd.Wait` closes the pipe with the last output in it (piped_runner.go:131) |
| `ProcessRunnerOpen` | `ProcessRunner` | `CallsReturn` | with `LongLines`: a line longer than the scanner's 512 KB ends codex's readLoop (codex_runner.go:158), the pipe fills, the process stops reading, and Write and Close wait for ever |
| `HubReplay` | `MCEventHub` | `NewestIsReplayed` | 200 events are put into a channel of 128, oldest first (hub.go:42) |
| `PipelineSession` | `EventPipeline` | `OwnSession` | an event gets the id that is current when it is taken, not when it was emitted (main.go:479) |
| `ChatOnce` | `ChatTimeline` | `OnceOnly` | a merged delta is not recognised when it comes again (ChatContext.tsx:255) |
| `ChatOpen` | `ChatTimeline` | `InOrder` | fetched events are appended after newer ones (ChatContext.tsx:566) |
| `ChatOldSession` | `ChatTimeline` | `OwnTimeline` | the replay shows an earlier session in the current one (hub.go:94 has no caller) |
| `ChatOpen` | `ChatTimeline` | `CaughtUp` | "reconnect with after_seq catch-up replay" (README.md:38): replayed events move `lastSeq` over a gap before the client asks what it missed (ChatContext.tsx:557) |
| `WebTurnOpen` | `WebTurn` | `ButtonGoesBack` | the lifecycle event `turn_end` is sent at the end of a process "让前端把按钮切回"发送"" (so that the frontend switches its button back to "send", claude_runner.go:309), but the web client resets the turn only at an event of *type* `turn_end` (ChatContext.tsx:348): a process that dies, or is aborted elsewhere, leaves the button at "abort" |
| `WebTurnOpen` | `WebTurn` | `AllowAllWithinTurn` | "cleared after the turn ends" (ChatContext.tsx:112), but not when its process dies or another session starts |
| `WebTurnOpen` | `WebTurn` | `ToolsWithinSession` | "本次会话不再询问" (do not ask again in this session, PermissionBanner.tsx:67; ChatContext.tsx:67, 111): the list is kept in `localStorage`, and a tool allowed in one session is answered for in the next (ChatContext.tsx:451) |
| `WebTurnOpen` | `WebTurn` | `OnlyAsksAnswered` | a prompt derived from a tool_result is answered to the hook, which does not know it (ChatContext.tsx:334) |
| `WebTurnOpen` | `WebTurn` | `QuestionStays` | a second question takes the place of the first, which nobody can answer any more (ChatContext.tsx:306) |
| `WebInputTwice` | `WebInput` | `TextAccounted` | after y, n, y with a failing second y, n is queued and sent again: `indexOf` finds the first y (ChatContext.tsx:782) |
| `RelayOpen` | `Relay` | `StaysAttached` | an agent that registers again leaves the page connected and unheard (relay/server.go:161) |
| `RelayOpen` | `Relay` | `OwnAgent` | the loop of an earlier registration sends to the page of the later one (relay/server.go:317) |
| `MobileLeaving` | `Mobile` | `LeavingEnds` | after a drop, the way out waits for an abort that is never sent: nothing connects again (TerminalScreen.tsx:269) |
| `MobileOpen` | `Mobile` | `TextIsOfItsDeltas` | a text takes the place of whatever delta stands last, without a look at its block (useMessageStore.ts:84): one of a history that is handled late overwrites a delta that was published after it |
| `MobileOpen` | `Mobile` | `ThinkingKept` | "last.thinking or event.thinking": of the thinking of a block only the first delta stays (useMessageStore.ts:78) |
| `MobileOpen` | `Mobile` | `NeverUndefined` | two deltas without text, of thinking, are joined to "undefined" where a text should be (useMessageStore.ts:77) |
| `MobileOpen` | `Mobile` | `SeenIsAnswered` | a press answers the request that came after the one on the screen (TerminalScreen.tsx:623) |
| `MobileOpen` | `Mobile` | `SendAfterTurnEnd` | a history without the last `turn_end` makes the turn active again (TerminalScreen.tsx:398) |
| `WebPageOpen` | `MCWebPage` | `DiffOfSelected`, `ModelsOfSetting`, `ChoiceStays`, `BoxIsDraft` | the diff of a file selected earlier is shown under another; `RUNTIME_LOADED` makes a new `defaultArgs`, and the default's models are fetched beside another setting; a list fetched again takes the choice back; a text that failed returns into the box of another session |

Also seen while modelling, without a configuration: a page whose pairing secret has
expired, or whose session was replaced, reconnects to the relay for ever and is rejected
each time; `session.abort` on the server aborts the turn, where TerminalScreen.tsx:268
says that the session is stopped.

## What is proved

`SessionManagerProofs`, for any sets of callers and runners (`ConstantsAssumption`:
`None` is no runner, and `ClaudeRunners` are runners):

- `TypeCorrect`, `CloseSafety` (`ClosedAtMostOnce`, `ActiveNotClosed`), `StatusSafety`
  (`CurrentRecordedActive`).
- The argument. That no runner is closed twice is not inductive: one must know that a
  caller about to close a runner is the only one who has it. `IInv` adds that a runner
  is held by one caller (`HoldsUnique`), who either brings or takes it (`HoldsOneWay`),
  that a runner that is held is not the active one and not closed (`HeldIsOut`), and,
  for the statuses, what is known of runners that were not made, are being brought, or
  are remembered (`UnmadeUnknown`, `BroughtHasNoSession`, `RememberedExists`).
  `QuietStep` and `CloseStep` are the two kinds of step that only narrow what callers
  hold; the steps that hand a runner over are treated one by one.
- `OneRuns`, `Reachable`, `NoPanic` (`OneRunsInTurn`, `ReachableInTurn`,
  `NoPanicInTurn`), of `MCSpec`, which remembers whether two requests were ever in
  progress at once. `IInTurn` says what holds until then: one caller at most is busy
  (`Alone`); what it brings was made (`BringsMade`), what it installed is the active
  runner (`InstalledIsActive`), and while it has taken one away there is none
  (`TakenLeavesNone`); a live runner is the active one or the busy caller's
  (`LiveIsKnown`). That the other callers are idle is used in every step: without it
  each of the three fails, as `SessionOpen` shows of the second.

`PermissionHookProofs`, for any sets of questions and phones (`PermissionAssumption`:
`Foreign` are questions, `None` is neither a question nor a decision):

- `TypeCorrect`, `OneAcknowledgement`, `ChannelSafety` (`NeverPanics`), `RegistryClean`
  (`AnsweredNotPending`), and `Refinement`: `Spec => Decision!SafeSpec`.
- The argument. Whoever removes a question from the registry owns its channel:
  `OneOwner`, `ResponderOwns`, `AborterOwns`, while a pending question's channel is
  open and empty (`PendingFree`, `UnregisteredUnused`); hence it is closed once, and
  acknowledged at most once (`AcksClose`). That the buffered decision is the accepted
  one (`BufferAccepted`) and that an answered question has left the registry
  (`AnsweredStage`) give the refinement.

`ClaudeRunnerProofs`, for any sets of callers and any number of processes, and as long
as requests come one after another (`Alone`, a hypothesis on the whole behaviour that
every run of one connection meets):

- `TypeCorrect` (without that hypothesis), `NoSendAfterClose` (`NeverPanics`),
  `CloseIsComplete` (`NothingLeft`), `OneProcessInTurn` (`OneProcess`).
- The argument. Close is the last request the runner sees, since its caller has taken
  it out of `m.active` (`CloserIsLast`); it closes the channels only when every loop,
  those on stdout and stderr and the wait loop, is over, and none is made after that (`ClosedAfterLoops`), so that nobody is
  left to send; and what runs is `r.cmd` or about to be (`RunsKnown`), so that killing
  `r.cmd` leaves nothing. With two writers `RunsKnown` is false: `ClaudeOpen`.

`EventHubProofs`, for any sets of connections, capacities and numbers of events:

- `TypeCorrect`, `ShownInOrder` (`InOrderOnce`), `LossCounted` (`LossIsCounted`).
- The argument. Shown, queued for the socket, in the bridge's hand and in the hub's
  channel are four parts of one line: each is in order (`PartsInOrder`), each comes
  before those behind it (`PartsInLine`), and all were broadcast (`AllBroadcast`). A
  replay is in order and older than anything broadcast after (`ReplayInOrder`), and it
  goes into a channel that nobody has used (`Unused`). Counting (`Counted`) needs that
  the event delivered is in none of the parts: it is the newest.

`EventPipelineProofs`, for any capacities and numbers of sessions, events and restarts:

- `TypeCorrect`, `Ordered` (`OneOrder`), `NumbersAreTrue` (`SeqIsTrue`),
  `NothingUnsaved` (`BroadcastIsSaved`).
- The argument. An event goes along two ways that part at the queue of saves. That
  broadcasts and rows are in order is not inductive: `BroadcastInLine` and `SavesInLine`
  say that whatever is further along either way was emitted before everything behind
  it. For the numbers, the row that waits for its number to be filled back is the last
  of its session (`Busy`), and the field of an event, sent or not, is true once it is
  set (`SeqFieldIsTrue`), since both goroutines work on one struct.

The same module has the theorems about `ChatTimeline`, for any numbers of broadcasts,
sessions, connections, fetches, texts and cards, and any sizes of the replay, the
channel and the pages (`ChatAssumption`):

- `ChatTypeCorrect`, `CardsAreOne` (`OneCard`), `CardsForgetNothing`
  (`NothingForgotten`), `ConnectedIsShown` (`WindowIsShown`), and the action property
  `CardsOnlyGrow` (`HistoryIsStable`).
- The argument. `ChatInv` says of the timeline (`TimelineInv`) that each card stands
  under the id of an event that was put into it and is of its kind (`OwnId`), without
  which a merge or a replacement could make two cards of one event; and of the client
  that everything in the replay buffer when it connected, and everything since, was
  taken, is on the wire, or was dropped, ignored or cleared (`Window`). A step handles
  one event, or all rows of a page. For a page the same facts are carried from one row
  to the next, and so for pages of any length; the action property is carried along
  (`Grown`: nothing but the last card changes, until cards are cut).

`WebInputProofs`, for any number of requests, sockets, connects and texts
(`WSAssumption`, `InputAssumption`: the bounds are natural numbers). It has the theorems
about `WSClient`, whoever makes the requests, `Close` included, and those about
`WebInput` and `WebPage`:

- `WSTypeCorrect`, `RequestsAccounted` (`RequestAccounted`), `RequestsInOrder`
  (`SentInOrder`), from the inductive `WSInvariant`.
- The argument. `SentInOrder` is not inductive: a flush appends the queue to what was
  written, and a request may be queued or written directly. `WSInv` adds that the queue
  is itself in order (`QueueInOrder`), that what was written was made before what is
  queued (`SentBeforeQueued`), and that nothing is queued while `this.ws` is open
  (`OpenHasNoQueue`), without which a direct write could overtake the queue. That
  `onopen` of an old socket flushes into `this.ws`, or rejects the queue when that one
  is not open, is the case that needs care.
- `UsesConnection`, `Spec => WSSpec`: each step of typing, flushing, resuming and
  rendering is one step of the connection or none. With it the theorems on `WSClient`
  hold of the composed system (`TextRequestsAccounted`, `TextRequestsInOrder`), texts
  that are repeated included.
- `TextsAccounted` (`TextAccounted`) and `TextsInOutageOrder` (`OutageInOrder`), in every
  state in which no two texts say the same (`Distinct`), and `TextsOfOneWord`: both
  always, for a user who never repeats a text (`Repeating = FALSE`, as in the run). The
  hypothesis is that of the code: it looks a text up by what it says
  (ChatContext.tsx:782), and with a repetition `TextAccounted` is false (`WebInputTwice`).
- The argument. Neither property is inductive. A text is open exactly while it is in the
  queue or with one call of `sendInput` (`HeldAreOpen`, `OpenAreHeld`, `HeldOnce`);
  what was typed in the present outage is still queued (`OutageIsQueued`), and what was
  queued in one outage stays together, in order, in the queue or with one flush
  (`OutageTogether`), so that the flush, which puts what is left of its queue back,
  cannot let one text overtake another.
- `PageTypeCorrect`, `SpinnersHaveRequests` (`SpinnerHasRequest`), `HistoryIsShown`
  (`BrowsingShowsHistory`) of `WebPage`, for any files, directories, settings, texts and
  sessions and any number of fetches under way. What is asked is a bag: of two equal
  fetches one may be answered while the other keeps its spinner. For the history one
  needs that a text is sent from outside it only (`SendingLeavesHistory`): the one that
  comes back would be written over the one that is shown.

`WebTurnProofs`, for any numbers of events, sessions, presses and drops and any tools:

- `TypeCorrect`, `ThinksInTurn` (`ThinkingInTurn`), `AllowsAsTold` (`AllowedByUser`).
- The argument. What is answered is decided by what was rendered, which may be several
  steps behind the state; the two are therefore both `Sound`: thinking is within a turn,
  the prompt is an event that was emitted and the request id its own, and the tools on the
  list are among those the user has allowed. That the turn is allowed is claimed of the
  state only, not of what was rendered, which may still show it after the turn has ended
  (`Shows`): the effect reads the state of its own render, and every step that takes the
  turn's allowance back, the end of the turn, an abort or a reload, turns the flag off in
  the same step. Since events do not change and a tool stays allowed, `Sound` outlives
  every other step, and an answer is justified by it whichever state it was read from.

`RelayProofs`, for any numbers of agents, sockets, pages, slots and texts:

- `TypeCorrect`, `SessionAndSlots` (`SessionHolds`), `TextsKeepOrder` (`TextsInOrder`).
- The argument, in three layers of `RelayInv`. `Base`: a page has one socket that is not
  on its way out (`OneSocket`), the server has no loop for a socket that was never
  opened, and each slot taken is one element more of a finite set (`Counted`). `Down`:
  what is in the queue of the socket in use was said, is in order, and follows what the
  page shows (`DownInOrder`); a new socket starts empty, and frames of an old one are
  not shown. `Up`: each text typed is in one queue, once (`UpOnce`), or was heard, once
  (`HeardOnce`), never both, and a text that is typed has a number no frame has
  (`UpTyped`, `HeardTyped`).

The same module has the theorems about `Mobile`, for any types of events, any numbers of
events, requests, visits and texts, and lists of cards of any length:

- `MobileTypeCorrect`, `CardsKeepTexts` (`TextsKept`), `GroupsLoseNothing`
  (`GroupsKeepAll`).
- The argument. `TextsKept` compares what the cards say with what the store was given,
  where a delta gives way (`GivesWay`) to a later text that only deltas of its block, and
  events that are on no card, separate from it: the store does lose that delta, whether
  the text repeats it or not. Whether a delta gives way is not known before the text
  comes. The inductive invariant `CardsKeep` therefore says of a list that ends with a
  delta that the cards before it say all that was given up to some point, and that after
  this point only deltas of its block came, and events that are on no card (`EndsAt`);
  nothing before it can still give way. A lemma for each way in which `handleEvent` changes the list
  (appending, going on with a delta, a text in place of the deltas before it, a request)
  carries it on (`EventStep`, `KeepsMore`); a history is many events, one after the other
  (`HistoryKept`). `groupMessages` is treated card by
  card: the items of the groups that are closed and of the one that is open are the
  cards so far, and the last closed group is none of the assistant (`Grouping`).

Proofs about lists of any length. Pages, histories, groups and flattened sequences are
defined by recursive functions. What such a function computes is proved by induction,
which the modules derive from the least element of a set of numbers
(`WellFoundedInduction`) and state of a set and of a sequence of functions (`Induction`,
`Recursion`), since the library states it with an operator as a parameter.

TLC finds `IInTurn`, `RunnerInv`, `HubInv`, `IInv` of the pipeline, `ChatInv`, `TextIInv`,
`PageInv`, `TurnInv`, `RelayInv` and `MobileInv` true of the instances of the runs. A type
invariant is proved where there is a theorem `TypeCorrect`, or of such a name, and there it
is not repeated in the runs. What is proved is every invariant that a run checks, and
every action property but those of liveness.

Only model-checked:

- all liveness (`ImplementsDecision` beyond its safety part, `RespondReturns`,
  `CurrentTurnEndReported`, `CloseReturns`, `EndIsReported`, `CallsReturn`,
  `QueuedIsShown`, `TakenIsBroadcast`, `EveryTextEnds`, `BannerGoes`), which the prover
  does not handle under fairness;
- the properties of `ClaudeRunner` and the three about requests in turn of
  `SessionManager` in behaviours outside their hypotheses, where several are false
  (`ClaudeOpen`, `SessionOpen`).

## The plan

The order is that of importance: what runs and stops processes, what decides
permissions, what carries events, then the clients and the edges.

1. `SessionManager`, its proofs, also for requests that do not overlap. Done.
2. `PermissionHook` over `PermissionDecision`, its proofs. Done.
3. `ClaudeRunner`, its proofs for requests one after another. Done.
4. `EventHub`, its proofs. Done.
5. `EventPipeline`, its proofs. Done.
6. `ChatTimeline`, `WebTurn`, `WebPage`: the web client, their proofs. Done.
7. `WSClient` and `WebInput` over it, their proofs. Done.
8. `Relay`, its proofs. Done. Its promise as an abstract channel between
   the two peers of a session holds only of agents that register once.
9. `MobileStore`, `Mobile`, their proofs. Done.
10. `ProcessRunner`: the Codex, pipe and terminal runners. Done.
11. `PhaseTracker`, `SettingsInjector`, `ResumeHandoff` (the pending resume id between
    `mc`, the gateway and the next start). Left.

`EventHub` and `EventPipeline` compose with the abstract channel that `ChatTimeline`
assumes: a refinement from each is planned.

## Not modelled

Parsing and building of Claude's and Codex's lines; full-text search, pages backwards and
the cleanup of rows; the terminal of local mode; TLS, tokens and certificates; files, git
and memory endpoints; themes, layout and the rendering of cards. They hold no state that
several actors change, or their correctness is one of formats. `SetCallbacks`,
`ClearReplay`, `Conn.Close` and the grace periods of `relay/protocol.go` have no caller;
`mobile/src/network/WSClient.ts` and the two repositories beside it are called by tests
only. `GitDiffModal.tsx` of the mobile client reads an array where the server answers
`{"files": ...}`, so that its list is always empty. `PtyRunner.Resize` sets the size
of a terminal. The phase tracker and the settings injector are in the plan.
