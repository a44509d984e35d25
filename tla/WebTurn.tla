------------------------------- MODULE WebTurn -------------------------------
(***************************************************************************)
(* The turn, the session and the permission banner as the web client keeps *)
(* them: the reducer and the callbacks of ChatContext.tsx, and the         *)
(* controls of SessionBar.tsx, InputBar.tsx and PermissionBanner.tsx.      *)
(*                                                                         *)
(* st is the state of the reducer, view what was last rendered: a control  *)
(* is offered, and its handler reads what it closes over, by the view.     *)
(* Events are numbered as the server emits them, which stands for their    *)
(* messageId, and sessions as they start, 0 being none.  How texts wait    *)
(* for the connection is in WebInput, how cards are merged in              *)
(* ChatTimeline, the relay in Relay.  A render with a new status also      *)
(* dispatches it: both happen as the connection changes.  No control calls *)
(* clearPermAllowlist or dismissPermission, so neither has an action.      *)
(***************************************************************************)
EXTENDS Naturals, FiniteSets, SequencesExt

CONSTANTS
  Tools,
  Kinds,   \* the kinds of events the server emits in a turn
  MaxEvents, MaxSessions, MaxPresses, MaxDrops   \* bounds

\* "ask" and "request" stand for permission_ask and permission_request, and
\* "refused" for a tool_result that says a permission was not granted; a
\* "start" and an "end" are those of thinking, a tool or Bash; "died" is the
\* lifecycle event turn_end of a process that has ended.
ASSUME TurnAssumption ==
  /\ Kinds \subseteq {"ask", "request", "refused", "start", "end"}
  /\ {MaxEvents, MaxSessions, MaxPresses, MaxDrops} \subseteq Nat

VARIABLES
  st, view,
  acted,       \* what the effect that answers by itself last ran on
  answer,      \* the permission.respond request that the last step made
  granted,     \* history: what the user has allowed beforehand, tools, the turn
  confirmStop, loading,   \* of SessionBar
  requests,    \* to the server, in order
  replies,     \* of the server that are on their way
  live,        \* the server's session
  sessions,    \* how many sessions it has had
  running,     \* whether its process works on a turn
  open,        \* whether it has announced a start without its end
  remote,      \* runtime.launchMode is "remote-control"
  log, wire,   \* the events emitted, and those on their way
  presses, drops

client == <<st, view, acted, granted, confirmStop, loading>>
server == <<live, sessions, running, open, log>>
link == <<wire, requests, replies>>
bounds == <<presses, drops>>
vars == <<client, answer, server, link, remote, bounds>>

Emitted == DOMAIN log

(***************************************************************************)
(* The reducer                                                             *)
(***************************************************************************)
\* saved is the session in the browser's storage.
initialState ==
  [connected |-> FALSE, sessionId |-> 0, saved |-> 0, stoppedSessionId |-> 0,
   seen |-> {},
   prompt |-> 0, requestId |-> 0, thinking |-> FALSE, turnActive |-> FALSE,
   stopping |-> FALSE, busy |-> FALSE, allowlist |-> {}, allowAll |-> FALSE]

Quiet(s) == [s EXCEPT !.thinking = FALSE, !.turnActive = FALSE]
Unasked(s) == [s EXCEPT !.prompt = 0, !.requestId = 0]

StatusChanged(s, connected) ==
  IF connected THEN [s EXCEPT !.connected = TRUE]
  ELSE [Quiet(s) EXCEPT !.connected = FALSE, !.stopping = FALSE]

SessionStarted(s, id) ==
  [Quiet(Unasked(s)) EXCEPT !.sessionId = id, !.saved = id,
                            !.stoppedSessionId = 0, !.seen = {},
                            !.stopping = FALSE, !.busy = FALSE]

ActiveSessionDetected(s, id) ==
  LET known == [s EXCEPT !.sessionId = id, !.stoppedSessionId = 0] IN
  IF s.sessionId \in {0, id} THEN known
  ELSE [Quiet(Unasked(known)) EXCEPT !.saved = id, !.seen = {}, !.busy = FALSE]

SessionStopped(s) ==
  [Quiet(Unasked(s)) EXCEPT
     !.stoppedSessionId = IF s.sessionId # 0 THEN s.sessionId ELSE @,
     !.sessionId = 0, !.saved = 0, !.stopping = FALSE, !.busy = FALSE]

UserMessageSent(s) == [s EXCEPT !.thinking = TRUE, !.turnActive = TRUE]
PermissionAnswered(s) == Unasked(s)
AbortTurn(s) == [Quiet(s) EXCEPT !.allowAll = FALSE]
Stopping(s) == [Quiet(s) EXCEPT !.stopping = TRUE]
PermAllowTool(s, tool) == [s EXCEPT !.allowlist = @ \cup {tool}]
PermAllowAllTurn(s) == [s EXCEPT !.allowAll = TRUE]

\* Mutant: the turn ends and leaves the thinking flag alone.
TurnEndThinks(s) == [s EXCEPT !.turnActive = FALSE, !.allowAll = FALSE]

\* Mutant: what is allowed for the turn outlives it.
TurnEndAllows(s) == Quiet(s)

TurnEnd(s) == [Quiet(s) EXCEPT !.allowAll = FALSE]

\* A question takes the place of the one that is shown.
Asked(s, e) ==
  [s EXCEPT !.prompt = e,
            !.requestId = IF log[e].kind = "ask" THEN e ELSE 0,
            !.turnActive = @ \/ ~ s.stopping]

\* What an event does to the flags, after it is put into the timeline.
\* "died" resets only what is reset already.
Flags(s, e) ==
  CASE log[e].kind \in {"ask", "request"} -> Asked(s, e)
    [] log[e].kind = "refused" -> [s EXCEPT !.prompt = IF @ = 0 THEN e ELSE @]
    [] log[e].kind = "turn_end" -> TurnEnd(s)
    [] log[e].kind = "start" -> [s EXCEPT !.busy = TRUE]
    [] log[e].kind = "end" -> [s EXCEPT !.busy = FALSE]
    [] log[e].kind = "died" -> s

\* What comes again is dropped, but for the questions, which are shown again.
Deduplicated(e) == log[e].kind \notin {"ask", "request"}

Ignored(s, e) ==
  \/ log[e].session # 0 /\ log[e].session = s.stoppedSessionId
  \/ e \in s.seen

EventReceived(s, e) ==
  IF Ignored(s, e) THEN s
  ELSE Flags([s EXCEPT !.seen = IF Deduplicated(e) THEN @ \cup {e} ELSE @,
                       !.sessionId = IF @ # 0 \/ s.stopping THEN @
                                     ELSE log[e].session], e)

NoAnswer == [to |-> 0, allow |-> FALSE, by |-> "nobody"]

Init ==
  /\ st = initialState /\ view = initialState /\ acted = <<0, 0, {}, FALSE>>
  /\ answer = NoAnswer
  /\ granted = [tools |-> {}, turn |-> FALSE]
  /\ confirmStop = FALSE /\ loading = FALSE
  /\ requests = <<>> /\ replies = <<>> /\ wire = <<>> /\ log = <<>>
  /\ live \in {0, 1} /\ sessions = live /\ running = FALSE /\ open = FALSE
  /\ remote \in BOOLEAN
  /\ presses = 0 /\ drops = 0

(***************************************************************************)
(* What the user does                                                      *)
(***************************************************************************)

\* What a render shows.
Shown(s) == [s EXCEPT !.seen = {}, !.stoppedSessionId = 0, !.saved = 0]

\* A control dispatches, and is rendered before the next event.
Dispatch(R(_)) == st' = R(st) /\ view' = Shown(R(view))

Request(r) == requests' = Append(requests, r)

Press == presses < MaxPresses /\ presses' = presses + 1

\* isActive of InputBar: Enter and the button abort instead of sending.
Active(s) == s.turnActive \/ s.thinking \/ s.busy

\* handleSend and sendInput; under remote control the message is shown after
\* the answer of the server.
PressSend ==
  /\ Press /\ view.connected /\ view.sessionId # 0
  /\ ~ view.stopping /\ ~ Active(view)
  /\ IF remote THEN UNCHANGED <<st, view>> ELSE Dispatch(UserMessageSent)
  /\ Request("input")
  /\ answer' = NoAnswer
  /\ UNCHANGED <<acted, granted, confirmStop, loading, server, remote,
                 wire, replies, drops>>

PressAbort ==
  /\ Press /\ ~ view.stopping /\ Active(view)
  /\ Dispatch(AbortTurn)
  /\ granted' = [granted EXCEPT !.turn = FALSE]
  /\ Request("abort")
  /\ answer' = NoAnswer
  /\ UNCHANGED <<acted, confirmStop, loading, server, remote,
                 wire, replies, drops>>

AutoAllowed(s) == s.prompt # 0 /\ (s.allowAll \/ log[s.prompt].tool \in s.allowlist)

\* The banner has its buttons.
Offers(s) == s.prompt # 0 /\ ~ AutoAllowed(s)

\* The id that is answered: of the request, or else of the event shown.
AnswerTo(s) == IF s.requestId # 0 THEN s.requestId ELSE s.prompt

PressAnswer(allow) ==
  /\ Offers(view)
  /\ answer' = [to |-> AnswerTo(view), allow |-> allow, by |-> "user"]
  /\ Dispatch(PermissionAnswered)
  /\ UNCHANGED <<acted, granted, confirmStop, loading, server, link, remote, bounds>>

\* What is chosen once and for all is taken up by the effect below.  The list
\* of tools is also saved in the browser, and nothing takes a tool off it.
PressAllowTool ==
  /\ Offers(view)
  /\ granted' = [granted EXCEPT !.tools = @ \cup {log[view.prompt].tool}]
  /\ LET R(s) == PermAllowTool(s, log[view.prompt].tool) IN Dispatch(R)
  /\ answer' = NoAnswer
  /\ UNCHANGED <<acted, confirmStop, loading, server, link, remote,
                 bounds>>

PressAllowAll ==
  /\ Offers(view)
  /\ granted' = [granted EXCEPT !.turn = TRUE]
  /\ Dispatch(PermAllowAllTurn)
  /\ answer' = NoAnswer
  /\ UNCHANGED <<acted, confirmStop, loading, server, link, remote,
                 bounds>>

\* The bar of an active session, and that in which one is set up; under
\* remote control there is neither as long as no session is shown.
ActiveBar(s) == s.sessionId # 0
SetupBar(s) == s.sessionId = 0 /\ ~ (s.connected /\ remote)

\* handleStart and sendStart.
PressStart ==
  /\ Press /\ SetupBar(view) /\ ~ loading
  /\ loading' = TRUE
  /\ Request("start")
  /\ answer' = NoAnswer
  /\ UNCHANGED <<st, view, acted, granted, confirmStop, server, remote,
                 wire, replies, drops>>

\* handleApplyRemoteModel: the session goes on with a new process.
PressApplyModel ==
  /\ Press /\ ActiveBar(view) /\ remote /\ ~ loading /\ ~ view.stopping
  /\ loading' = TRUE
  /\ Request("restart")
  /\ answer' = NoAnswer
  /\ UNCHANGED <<st, view, acted, granted, confirmStop, server, remote,
                 wire, replies, drops>>

\* The flags change before the server is asked.
sendStop ==
  /\ LET R(s) == SessionStopped(Stopping(s)) IN Dispatch(R)
  /\ Request("stop")

\* handleStop: the first press asks for a second one within five seconds.
PressStop ==
  /\ ActiveBar(view) /\ ~ view.stopping
  /\ confirmStop' = ~ confirmStop
  /\ \/ /\ ~ confirmStop
        /\ UNCHANGED <<st, view, requests, presses>>
     \/ confirmStop /\ Press /\ sendStop
  /\ answer' = NoAnswer
  /\ UNCHANGED <<acted, granted, loading, server, remote, wire, replies,
                 drops>>

ConfirmLapses ==
  /\ confirmStop /\ confirmStop' = FALSE
  /\ answer' = NoAnswer
  /\ UNCHANGED <<st, view, acted, granted, loading, server, link,
                 remote, bounds>>

(***************************************************************************)
(* Renders, events and replies                                             *)
(***************************************************************************)
\* Mutant: the effect depends on the prompt alone.
DepsPrompt(s) == <<s.prompt, s.requestId, {}, FALSE>>

Deps(s) == <<s.prompt, s.requestId, s.allowlist, s.allowAll>>

\* A render, and the effect that answers what the user has allowed before.
Render ==
  /\ Shown(st) # view \/ Deps(st) # acted
  /\ acted' = Deps(st)
  /\ view' = Shown(st)
  /\ \/ /\ Deps(st) # acted /\ AutoAllowed(st)
        /\ answer' = [to |-> AnswerTo(st), allow |-> TRUE, by |-> "effect"]
        /\ st' = PermissionAnswered(st)
     \/ /\ ~ (Deps(st) # acted /\ AutoAllowed(st))
        /\ answer' = NoAnswer /\ UNCHANGED st
  /\ UNCHANGED <<granted, confirmStop, loading, server, link, remote, bounds>>

Receive ==
  /\ wire # <<>>
  /\ st' = EventReceived(st, Head(wire))
  /\ wire' = Tail(wire)
  \* A question that is shown again is another object for the effect.
  /\ acted' = IF st'.prompt = Head(wire) THEN <<>> ELSE acted
  /\ granted' = IF log[Head(wire)].kind = "turn_end" /\ ~ Ignored(st, Head(wire))
                THEN [granted EXCEPT !.turn = FALSE] ELSE granted
  /\ answer' = NoAnswer
  /\ UNCHANGED <<view, confirmStop, loading, server,
                 requests, replies, remote, bounds>>

\* What a callback does with the reply to its request, "none" if it is lost.
Replied ==
  /\ replies # <<>> /\ replies' = Tail(replies)
  /\ LET r == Head(replies) IN
     /\ st' = CASE r.to = "start" /\ r.session # 0 -> SessionStarted(st, r.session)
                [] r.to = "restart" /\ r.session # 0 ->
                     ActiveSessionDetected(st, r.session)
                [] r.to = "input" /\ r.session # 0 /\ remote -> UserMessageSent(st)
                [] r.to = "input" /\ r.refused -> SessionStopped(st)
                [] OTHER -> st
     /\ loading' = (loading /\ r.to \notin {"start", "restart"})
  /\ answer' = NoAnswer
  /\ UNCHANGED <<view, acted, granted, confirmStop, server, requests,
                 wire, remote, bounds>>

\* refreshActiveSessionId, at a connect or before an input is sent.
Refreshed ==
  /\ st.connected
  /\ \/ live # 0 /\ st' = [ActiveSessionDetected(st, live) EXCEPT !.saved = live]
     \/ live = 0 /\ remote /\ st' = SessionStopped(st)
  /\ answer' = NoAnswer
  /\ UNCHANGED <<view, acted, granted, confirmStop, loading, server,
                 link, remote, bounds>>

\* The replay buffer is sent at a connect, whatever was received before.
Connected ==
  /\ ~ st.connected
  /\ st' = StatusChanged(st, TRUE)
  /\ wire' = [i \in Emitted |-> i]
  /\ answer' = NoAnswer
  /\ UNCHANGED <<view, acted, granted, confirmStop, loading, server,
                 requests, replies, remote, bounds>>

Unanswered == [i \in DOMAIN replies |-> replies[i].to] \o requests

\* What is under way is lost: a request without a reply is rejected or times
\* out.
Dropped ==
  /\ st.connected /\ drops < MaxDrops /\ drops' = drops + 1
  /\ st' = StatusChanged(st, FALSE)
  /\ wire' = <<>> /\ requests' = <<>>
  /\ replies' = [i \in DOMAIN Unanswered |->
                   [to |-> Unanswered[i], session |-> 0, refused |-> FALSE]]
  /\ answer' = NoAnswer
  /\ UNCHANGED <<view, acted, granted, confirmStop, loading, server,
                 remote, presses>>

\* The page is loaded again: what the browser has saved is left, the session,
\* the events that are not shown again, and the list of tools.
Reload ==
  /\ drops < MaxDrops /\ drops' = drops + 1
  /\ st' = [initialState EXCEPT !.sessionId = st.saved, !.saved = st.saved,
                                !.seen = st.seen, !.allowlist = st.allowlist]
  /\ view' = Shown(st') /\ acted' = Deps(st')
  /\ granted' = [granted EXCEPT !.turn = FALSE]
  /\ confirmStop' = FALSE /\ loading' = FALSE
  /\ wire' = <<>> /\ requests' = <<>> /\ replies' = <<>>
  /\ answer' = NoAnswer
  /\ UNCHANGED <<server, remote, presses>>

(***************************************************************************)
(* The server, as far as the client depends on it                          *)
(***************************************************************************)
Emit(es) ==
  /\ Len(log) + Len(es) <= MaxEvents
  /\ log' = log \o es
  /\ wire' = IF st.connected THEN wire \o [i \in DOMAIN es |-> Len(log) + i]
             ELSE wire

Questions == {"ask", "request", "refused"}
NoTool == "none"
ToolsOf(kind) == IF kind \in Questions THEN Tools ELSE {NoTool}

Event(kind, tool) == [kind |-> kind, tool |-> tool, session |-> live]

\* The agent works on its turn.
Works(kind, tool) ==
  /\ running
  /\ kind = "start" => ~ open
  /\ kind = "end" => open
  /\ Emit(<<Event(kind, tool)>>)
  /\ open' = IF kind = "start" THEN TRUE ELSE IF kind = "end" THEN FALSE ELSE open
  /\ answer' = NoAnswer
  /\ UNCHANGED <<client, live, sessions, running, requests, replies, remote, bounds>>

\* The turn ends with all that is open, or the process dies.
TurnEnds ==
  /\ running /\ running' = FALSE
  /\ \/ /\ open' = FALSE
        /\ Emit((IF open THEN <<Event("end", NoTool)>> ELSE <<>>)
                  \o <<Event("turn_end", NoTool)>>)
     \/ /\ Emit(<<Event("died", NoTool)>>)
        /\ UNCHANGED open
  /\ answer' = NoAnswer
  /\ UNCHANGED <<client, live, sessions, requests, replies, remote, bounds>>

\* The server handles the requests of a connection one after the other.  A
\* session that starts has a new id, unless it replaces the process of the
\* one there is; a start is refused while there is one.  A process that is
\* killed at its work reports its end, unless a channel is full.
Handles ==
  /\ st.connected /\ requests # <<>> /\ requests' = Tail(requests)
  /\ LET r == Head(requests)
         starts == r \in {"start", "restart"} /\ live = 0
         refused == (r = "start" /\ live # 0) \/ (r = "input" /\ live = 0)
     IN
     /\ starts => sessions < MaxSessions
     /\ sessions' = IF starts THEN sessions + 1 ELSE sessions
     /\ live' = IF starts THEN sessions' ELSE IF r = "stop" THEN 0 ELSE live
     /\ running' = IF refused THEN running ELSE r = "input"
     /\ replies' = Append(replies, [to |-> r, refused |-> refused,
                                    session |-> IF refused THEN 0 ELSE live'])
     /\ \/ /\ running /\ ~ refused
           /\ Emit(<<[Event("died", NoTool) EXCEPT !.session = live']>>)
        \/ UNCHANGED <<log, wire>>
  /\ answer' = NoAnswer
  /\ UNCHANGED <<client, open, remote, bounds>>

Next ==
  \/ PressSend \/ PressAbort
  \/ \E allow \in BOOLEAN : PressAnswer(allow)
  \/ PressAllowTool \/ PressAllowAll
  \/ PressStart \/ PressApplyModel \/ PressStop \/ ConfirmLapses
  \/ Render \/ Receive \/ Replied \/ Refreshed \/ Connected \/ Dropped \/ Reload
  \/ \E kind \in Kinds : \E tool \in ToolsOf(kind) : Works(kind, tool)
  \/ TurnEnds \/ Handles

\* What has been dispatched is rendered, and what was sent arrives.
Spec == Init /\ [][Next]_vars /\ WF_vars(Render) /\ WF_vars(Receive)

(***************************************************************************)
(* Properties                                                              *)
(***************************************************************************)

\* The client thinks only within a turn: whatever ends the turn, an event, a
\* drop, an abort, a stop or a new session, ends the thinking as well, and
\* else the button would abort a turn that is not there.
ThinkingInTurn == st.thinking => st.turnActive

\* Who allows: a press allows the question that its button was shown for, and
\* the effect only what the user has allowed beforehand and what is covered at
\* that moment, however questions, renders, replays and presses overtake each
\* other.  A tool is covered from the press on, in all sessions: the list is
\* saved and never cleared (see ToolsWithinSession).  A turn is covered from
\* the press until the client handles an event turn_end, the user aborts or
\* the page is loaded again; the end of its process or session does not count
\* (see AllowAllWithinTurn).
AllowedByUser ==
  [][answer'.allow
       => \/ answer'.by = "user" /\ Offers(view) /\ answer'.to = view.prompt
          \/ /\ answer'.by = "effect"
             /\ log[answer'.to].tool \in granted.tools \/ granted.turn]_vars

\* A banner without buttons, for what is allowed already, does not stay.
BannerGoes == [](AutoAllowed(view) => <>~ AutoAllowed(view))

\* The turn is over, all that was emitted has arrived, and nothing was sent
\* since.
TurnOver ==
  /\ live # 0 /\ st.sessionId = live /\ st.connected /\ ~ running
  /\ log # <<>> /\ Last(log).kind \in {"turn_end", "died"} /\ Last(log).session = live
  /\ wire = <<>> /\ requests = <<>> /\ replies = <<>>

\* A lifecycle event turn_end is inserted so that the button goes back to
\* "send" even if the process ends without a result (claude_runner.go:309).
ButtonGoesBack == TurnOver => ~ Active(st)

\* What is allowed for one turn is cleared as it ends (ChatContext.tsx:112).
AllowAllWithinTurn == TurnOver => ~ st.allowAll

\* The list of tools is one of a session, "会话级" (ChatContext.tsx:67 and 111),
\* and its button says "not again in this session" (PermissionBanner.tsx:67):
\* it does not outlive the session that it was made in.
ToolsWithinSession ==
  [][st.sessionId # 0 /\ st'.sessionId # st.sessionId => st'.allowlist = {}]_vars

\* Only questions of the hook are answered to the hook (ChatContext.tsx:831).
OnlyAsksAnswered == answer.to # 0 => log[answer.to].kind = "ask"

\* "Shown every time" (ChatContext.tsx:231): a question leaves the banner only
\* when it is answered, or its session is left.
QuestionStays ==
  [][ st.prompt # 0 /\ st'.prompt # st.prompt /\ st'.sessionId = st.sessionId
      => answer'.to = st.prompt ]_vars
=============================================================================
