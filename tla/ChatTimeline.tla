---------------------------- MODULE ChatTimeline ----------------------------
(***************************************************************************)
(* The timeline that the web client builds (web/src/core/state/            *)
(* ChatContext.tsx): the reducer that puts an event into the list of       *)
(* cards, fed by the events of the connection, by the replay at each       *)
(* connect (internal/ws/hub.go) and by the pages that it fetches to catch  *)
(* up (internal/gateway/router.go, internal/store/message.go).             *)
(*                                                                         *)
(* Events are numbered in the order in which the server broadcasts them;   *)
(* that number stands for the messageId.  Sessions are numbered in the     *)
(* order in which they start; 0 is no session.  How an event comes to be   *)
(* broadcast and saved is in EventPipeline: here it is saved before or     *)
(* after it is broadcast, and carries its sequence number or none.         *)
(***************************************************************************)
EXTENDS Naturals, FiniteSets, SequencesExt

CONSTANTS
  Kinds,        \* the kinds of events: deltas of one block, final texts,
                \* questions for one tool or another, anything else
  ReplaySize,   \* replayBufferSize, 200
  WireCap,      \* the events that fit in a subscriber's channel, 128
  PageSize,     \* the limit of a catch-up request, 200
  MaxMessages,  \* the cards that are kept, MAX_MESSAGES, 500
  MaxBroadcasts, MaxStarts, MaxConnects, MaxUser, MaxFetches   \* bounds

Asks == {"ask a tool", "ask another"}

ASSUME ChatAssumption ==
  /\ Kinds \subseteq {"delta", "text", "other"} \cup Asks
  /\ {ReplaySize, WireCap, PageSize, MaxMessages, MaxBroadcasts, MaxStarts,
      MaxConnects, MaxFetches} \subseteq Nat \ {0}
  /\ MaxUser \in Nat

SessionIds == 0..MaxStarts
Slots == 1..MaxFetches     \* the requests under way at the same time

VARIABLES
  log,        \* the events broadcast so far, each with the seq it was sent with
  saved,      \* how many of them are in the database
  session,    \* the server's latest session
  up,         \* status is "connected"
  wire,       \* the events in the subscriber's channel and beyond
  cards,      \* state.messages
  sessionId, stoppedSessionId, lastSeq,   \* of the state
  starting,   \* the response to session.start is on its way
  refreshing, \* the answer of /api/v1/session-id is on its way
  due,        \* the effect that fetches missed messages is to be run
  fetches,    \* the catch-up requests under way
  connects,   \* how many times the client connected
  joined,     \* Len(log) when it last connected
  taken,      \* the events it has put into the current timeline
  excused,    \* the events that were dropped for it, ignored or cleared
  failed      \* whether a fetch has failed

server == <<log, saved, session>>
timeline == <<cards, sessionId, lastSeq, taken, excused>>
chatVars == <<server, up, wire, timeline, stoppedSessionId, starting, refreshing,
              due, fetches, connects, joined, failed>>

Idle == [state |-> "idle"]
Published == 1..Len(log)

Fetch == [state : {"asked"}, session : SessionIds, after : Nat]
  \cup [state : {"answered"}, session : SessionIds, rows : Seq(Published)]

OfSession(s) == {e \in Published : log[e].session = s}

\* The sequence number of an event, which counts those of its session.
Row(e) == Cardinality({d \in 1..e : log[d].session = log[e].session})

ChatTypeOK ==
  /\ log \in Seq([kind : Kinds, session : SessionIds, seq : 0..MaxBroadcasts])
  /\ saved \in 0..Len(log)
  /\ session \in SessionIds
  /\ up \in BOOLEAN
  /\ wire \in Seq(Published) /\ Len(wire) <= WireCap
  /\ cards \in Seq([kind : Kinds \cup {"user"}, id : 0..Len(log),
                    parts : Seq(Published), replaced : SUBSET Published])
  /\ Len(cards) <= MaxMessages
  /\ {sessionId, stoppedSessionId} \subseteq SessionIds
  /\ lastSeq \in 0..MaxBroadcasts
  /\ {starting, refreshing, due, failed} \subseteq BOOLEAN
  /\ fetches \in [Slots -> {Idle} \cup Fetch]
  /\ connects \in 0..MaxConnects
  /\ joined \in 0..Len(log)
  /\ taken \subseteq Published /\ excused \subseteq Published

ChatInit ==
  /\ log = <<>> /\ saved = 0 /\ session = 0
  /\ up = FALSE /\ wire = <<>>
  /\ cards = <<>> /\ sessionId = 0 /\ stoppedSessionId = 0 /\ lastSeq = 0
  /\ starting = FALSE /\ refreshing = FALSE /\ due = FALSE
  /\ fetches = [f \in Slots |-> Idle]
  /\ connects = 0 /\ joined = 0
  /\ taken = {} /\ excused = {} /\ failed = FALSE

(***************************************************************************)
(* The reducer.  A card is shown under the id of one event; "parts" are    *)
(* the events whose text it shows, "replaced" those it took the place of.  *)
(***************************************************************************)
NewCard(e) == [kind |-> log[e].kind, id |-> e, parts |-> <<e>>, replaced |-> {}]

\* The list is cut at the front.
Kept(cs) == IF Len(cs) > MaxMessages THEN Tail(cs) ELSE cs

Merges(card, e) == card.kind = "delta" /\ log[e].kind = "delta"

Replaces(card, e) ==
  \/ log[e].kind \in Asks /\ card.kind = log[e].kind
  \/ log[e].kind = "text" /\ card.kind = "delta"

\* Mutant: the text of a block takes the place of what it merged.
WithEventForgets(cs, e) ==
  IF cs # <<>> /\ (Merges(Last(cs), e) \/ Replaces(Last(cs), e))
  THEN Append(Front(cs), NewCard(e))
  ELSE Kept(Append(cs, NewCard(e)))

\* Mutant: a card that an event merges with or replaces is searched for.
WithEventAnywhere(cs, e) ==
  LET at == {i \in DOMAIN cs : Merges(cs[i], e) \/ Replaces(cs[i], e)} IN
  IF at # {}
  THEN LET i == CHOOSE j \in at : \A k \in at : k <= j IN
       [cs EXCEPT ![i] = [NewCard(e) EXCEPT
          !.parts = IF Merges(cs[i], e) THEN Append(cs[i].parts, e) ELSE @,
          !.replaced = ToSet(cs[i].parts) \cup cs[i].replaced]]
  ELSE Kept(Append(cs, NewCard(e)))

WithEvent(cs, e) ==
  LET last == Last(cs) IN
  CASE cs # <<>> /\ Merges(last, e) ->
         Append(Front(cs), [last EXCEPT !.parts = Append(@, e)])
    [] cs # <<>> /\ Replaces(last, e) ->
         Append(Front(cs), [NewCard(e) EXCEPT
                              !.replaced = ToSet(last.parts) \cup last.replaced])
    [] OTHER -> Kept(Append(cs, NewCard(e)))

\* Mutant: only the last card is looked at.
KnownLast(cs, e) ==
  log[e].kind \notin Asks /\ cs # <<>> /\ Last(cs).id = e

Known(cs, e) ==
  log[e].kind \notin Asks /\ \E i \in DOMAIN cs : cs[i].id = e

\* EVENT_RECEIVED: the state c after event e, sent with seq, of session s.
EventReceived(c, e, seq, s) ==
  IF s # 0 /\ s = stoppedSessionId THEN [c EXCEPT !.excused = @ \cup {e}]
  ELSE IF Known(c.cards, e) THEN c
  ELSE [cards |-> WithEvent(c.cards, e),
        sessionId |-> IF c.sessionId = 0 THEN s ELSE c.sessionId,
        lastSeq |-> IF seq > c.lastSeq THEN seq ELSE c.lastSeq,
        taken |-> c.taken \cup {e},
        excused |-> c.excused]

State == [cards |-> cards, sessionId |-> sessionId, lastSeq |-> lastSeq,
          taken |-> taken, excused |-> excused]

Becomes(c) ==
  /\ cards' = c.cards
  /\ sessionId' = c.sessionId
  /\ lastSeq' = c.lastSeq
  /\ taken' = c.taken
  /\ excused' = c.excused

Cleared(s) == [cards |-> <<>>, sessionId |-> s, lastSeq |-> 0, taken |-> {},
               excused |-> excused \cup taken]

\* The effect runs again when what it depends on has changed.
EffectDue == due' = (up /\ (due \/ sessionId' # sessionId \/ lastSeq' # lastSeq))

(***************************************************************************)
(* The server.                                                             *)
(***************************************************************************)
\* A session starts, at the request of this client or of another.
ServerStarts ==
  /\ session < MaxStarts
  /\ session' = session + 1
  /\ starting' \in {starting, up}
  /\ UNCHANGED <<log, saved, up, wire, timeline, stoppedSessionId, refreshing,
                 due, fetches, connects, joined, failed>>

\* An event is broadcast; a subscriber whose channel is full misses it.
Publish(k, early) ==
  /\ session # 0 /\ Len(log) < MaxBroadcasts
  /\ early => saved = Len(log)
  /\ LET e == Len(log) + 1
         row == Cardinality(OfSession(session)) + 1 IN
       /\ log' = Append(log, [kind |-> k, session |-> session,
                              seq |-> IF early THEN row ELSE 0])
       /\ saved' = IF early THEN e ELSE saved
       /\ IF up /\ Len(wire) < WireCap
          THEN wire' = Append(wire, e) /\ UNCHANGED excused
          ELSE UNCHANGED wire /\ excused' = IF up THEN excused \cup {e} ELSE excused
  /\ UNCHANGED <<session, up, cards, sessionId, lastSeq, taken, stoppedSessionId,
                 starting, refreshing, due, fetches, connects, joined, failed>>

Save ==
  /\ saved < Len(log)
  /\ saved' = saved + 1
  /\ UNCHANGED <<log, session, up, wire, timeline, stoppedSessionId, starting,
                 refreshing, due, fetches, connects, joined, failed>>

(***************************************************************************)
(* The connection.                                                         *)
(***************************************************************************)
ReplayBuffer ==
  LET first == IF Len(log) > ReplaySize THEN Len(log) - ReplaySize + 1 ELSE 1 IN
  [i \in 1..(Len(log) - first + 1) |-> first + i - 1]

\* Mutant: what the client has already seen is not replayed to it.
ConnectAfterLastSeq ==
  /\ ~up /\ connects < MaxConnects
  /\ connects' = connects + 1
  /\ up' = TRUE
  /\ LET new == SelectSeq(ReplayBuffer, LAMBDA e : log[e].seq > lastSeq) IN
     /\ wire' = SubSeq(new, 1, IF Len(new) < WireCap THEN Len(new) ELSE WireCap)
     /\ excused' = excused \cup (ToSet(new) \ ToSet(wire'))
  /\ joined' = Len(log)
  /\ due' = TRUE /\ refreshing' = TRUE
  /\ UNCHANGED <<server, cards, sessionId, lastSeq, taken, stoppedSessionId,
                 starting, fetches, failed>>

\* Subscribe replays; the client asks what it has missed and which session runs.
Connect ==
  /\ ~up /\ connects < MaxConnects
  /\ connects' = connects + 1
  /\ up' = TRUE
  /\ wire' = SubSeq(ReplayBuffer, 1,
                    IF Len(ReplayBuffer) < WireCap THEN Len(ReplayBuffer) ELSE WireCap)
  /\ excused' = excused \cup (ToSet(ReplayBuffer) \ ToSet(wire'))
  /\ joined' = Len(log)
  /\ due' = TRUE /\ refreshing' = TRUE
  /\ UNCHANGED <<server, cards, sessionId, lastSeq, taken, stoppedSessionId,
                 starting, fetches, failed>>

\* What was on the wire is lost, an HTTP request under way is not.
Disconnect ==
  /\ up
  /\ up' = FALSE
  /\ wire' = <<>> /\ starting' = FALSE /\ due' = FALSE
  /\ UNCHANGED <<server, timeline, stoppedSessionId, refreshing, fetches,
                 connects, joined, failed>>

Receive ==
  /\ up /\ wire # <<>>
  /\ LET e == Head(wire) IN
       Becomes(EventReceived(State, e, log[e].seq, log[e].session))
  /\ wire' = Tail(wire)
  /\ EffectDue
  /\ UNCHANGED <<server, up, stoppedSessionId, starting, refreshing, fetches,
                 connects, joined, failed>>

(***************************************************************************)
(* Sessions, as the client sees them.                                      *)
(***************************************************************************)
\* SESSION_STARTED.
SessionStarted ==
  /\ starting
  /\ starting' = FALSE
  /\ Becomes(Cleared(session))
  /\ stoppedSessionId' = 0
  /\ EffectDue
  /\ UNCHANGED <<server, up, wire, refreshing, fetches, connects, joined, failed>>

\* ACTIVE_SESSION_DETECTED, or no session was active.
SessionDetected ==
  /\ refreshing
  /\ refreshing' = FALSE
  /\ \/ UNCHANGED <<timeline, stoppedSessionId>>
     \/ /\ session # 0
        /\ stoppedSessionId' = 0
        /\ IF sessionId \notin {0, session} THEN Becomes(Cleared(session))
           ELSE Becomes([State EXCEPT !.sessionId = session])
  /\ EffectDue
  /\ UNCHANGED <<server, up, wire, starting, fetches, connects, joined, failed>>

\* SESSION_STOPPED.
SessionStopped ==
  /\ up /\ sessionId # 0
  /\ stoppedSessionId' = sessionId
  /\ sessionId' = 0
  /\ EffectDue
  /\ UNCHANGED <<server, up, wire, cards, lastSeq, taken, excused, starting,
                 refreshing, fetches, connects, joined, failed>>

\* USER_MESSAGE_SENT: the user's text is a card without an event.
UserMessageSent ==
  /\ up /\ sessionId # 0
  /\ Cardinality({i \in DOMAIN cards : cards[i].kind = "user"}) < MaxUser
  /\ cards' = Kept(Append(cards, [kind |-> "user", id |-> 0, parts |-> <<>>,
                                  replaced |-> {}]))
  /\ UNCHANGED <<server, up, wire, sessionId, lastSeq, taken, excused,
                 stoppedSessionId, starting, refreshing, due, fetches, connects,
                 joined, failed>>

(***************************************************************************)
(* Catching up.                                                            *)
(***************************************************************************)
\* The effect asks for what comes after lastSeq, if it has one.
FetchMissed ==
  /\ due
  /\ due' = FALSE
  /\ IF up /\ sessionId # 0 /\ lastSeq > 0
     THEN \E f \in Slots :
            /\ fetches[f] = Idle /\ \A g \in Slots : g < f => fetches[g] # Idle
            /\ fetches' = [fetches EXCEPT ![f] = [state |-> "asked",
                             session |-> sessionId, after |-> lastSeq]]
     ELSE UNCHANGED fetches
  /\ UNCHANGED <<server, up, wire, timeline, stoppedSessionId, starting,
                 refreshing, connects, joined, failed>>

\* GetMessagesAfter: the oldest PageSize of the rows that there are.
MessagesAfter(s, after) ==
  LET Wanted(e) == log[e].session = s /\ Row(e) \in (after + 1)..(after + PageSize)
      kept[e \in 0..saved] ==
        IF e = 0 THEN <<>>
        ELSE IF Wanted(e) THEN Append(kept[e - 1], e)
        ELSE kept[e - 1]
  IN kept[saved]

FetchAnswered(f) ==
  /\ fetches[f].state = "asked"
  /\ fetches' = [fetches EXCEPT ![f] =
       [state |-> "answered", session |-> @.session,
        rows |-> MessagesAfter(@.session, @.after)]]
  /\ UNCHANGED <<server, up, wire, timeline, stoppedSessionId, starting,
                 refreshing, due, connects, joined, failed>>

\* The rows are put into the timeline one after the other; what was saved of
\* an event has no sequence number.
WithRows(rows, s) ==
  LET put[i \in 0..Len(rows)] ==
        IF i = 0 THEN State ELSE EventReceived(put[i - 1], rows[i], 0, s)
  IN put[Len(rows)]

FetchApplied(f) ==
  /\ fetches[f].state = "answered"
  /\ Becomes(WithRows(fetches[f].rows, fetches[f].session))
  /\ fetches' = [fetches EXCEPT ![f] = Idle]
  /\ EffectDue
  /\ UNCHANGED <<server, up, wire, stoppedSessionId, starting, refreshing,
                 connects, joined, failed>>

FetchFails(f) ==
  /\ fetches[f] # Idle
  /\ fetches' = [fetches EXCEPT ![f] = Idle]
  /\ failed' = TRUE
  /\ UNCHANGED <<server, up, wire, timeline, stoppedSessionId, starting,
                 refreshing, due, connects, joined>>

ChatNext ==
  \/ ServerStarts \/ Save
  \/ \E k \in Kinds, early \in BOOLEAN : Publish(k, early)
  \/ Connect \/ Disconnect \/ Receive
  \/ SessionStarted \/ SessionDetected \/ SessionStopped \/ UserMessageSent
  \/ FetchMissed
  \/ \E f \in Slots : FetchAnswered(f) \/ FetchApplied(f) \/ FetchFails(f)

ChatSpec == ChatInit /\ [][ChatNext]_chatVars

-----------------------------------------------------------------------------
(***************************************************************************)
(* Properties.                                                             *)
(***************************************************************************)
Parts == UNION {ToSet(cards[i].parts) : i \in DOMAIN cards}
Covered == Parts \cup UNION {cards[i].replaced : i \in DOMAIN cards}

\* However the live events, the replays and the pages overlap, no two cards
\* stand under the id of the same event, unless it is a question.
OneCard ==
  \A i, j \in DOMAIN cards :
    cards[i].id = cards[j].id /\ i # j => cards[i].kind \in Asks \cup {"user"}

\* Merging, replacing and removing duplicates loses nothing: while no card
\* was cut off, an event that was put into the timeline is shown, or the card
\* that took its place is.
NothingForgotten == Len(cards) < MaxMessages => taken \subseteq Covered

\* While it is connected, the client has or is about to get every event of
\* its session that was in the replay buffer when it connected or was
\* broadcast since, but for those that were dropped, ignored or cleared.
WindowIsShown ==
  up /\ sessionId # 0 =>
    \A e \in OfSession(sessionId) :
      e + ReplaySize > joined => e \in taken \cup ToSet(wire) \cup excused

\* A step changes at most the last of the cards that were there, unless it
\* clears the timeline or cuts it at the front.
HistoryIsStable ==
  [][\/ cards = <<>> \/ cards' = <<>> \/ Len(cards') = MaxMessages
     \/ IsPrefix(Front(cards), cards')]_chatVars

\* ChatContext.tsx:231, "dedup by messageId (against repeated events after a
\* reconnect), but not questions": what an event says is shown once.
OnceOnly ==
  /\ \A i, j \in DOMAIN cards :
       i # j /\ cards[i].kind \notin Asks
       => ToSet(cards[i].parts) \cap ToSet(cards[j].parts) = {}
  /\ \A i \in DOMAIN cards : IsInjective(cards[i].parts)

\* ChatContext.tsx:565, "sorted by seq, then dispatched, so that the order of
\* messages is kept": it is, of a client that nothing was dropped for.
InOrder ==
  excused = {} =>
    \A i, j \in DOMAIN cards :
      /\ i < j /\ 0 \notin {cards[i].id, cards[j].id}
      /\ cards[i].kind \notin Asks /\ cards[j].kind \notin Asks
      => cards[i].id <= cards[j].id

\* ChatContext.tsx:168, "so that the history of an old session is not shown in
\* the new one".
OwnTimeline ==
  sessionId # 0 => \A e \in Parts : log[e].session = sessionId

\* README.md:38, "WebSocket reconnect with after_seq catch-up replay": when
\* everything was answered and nothing failed, was dropped, ignored or cleared,
\* a client that was sent an event with its sequence number has the
\* later events of that session.
Quiet ==
  /\ up /\ wire = <<>> /\ excused = {} /\ ~due /\ ~refreshing /\ ~failed /\ saved = Len(log)
  /\ \A f \in Slots : fetches[f] = Idle

CaughtUp ==
  Quiet => \A d \in taken \cap OfSession(sessionId) :
             log[d].seq > 0 => {e \in OfSession(sessionId) : e > d} \subseteq taken
=============================================================================
