-------------------------------- MODULE Mobile --------------------------------
(***************************************************************************)
(* The terminal screen of the mobile client (screens/TerminalScreen.tsx):  *)
(* its connection RealMobilecodingClient, its requests, the history it     *)
(* fetches when it is connected, and what the user does, over the store of *)
(* MobileStore, which outlives the screen.  The server publishes events in *)
(* order; a connection is sent those of the replay buffer and then the     *)
(* others.  They are saved by and by, and saving may fail: a fetch of the  *)
(* history finds the oldest of what has been saved of the session when it  *)
(* is served.  Nothing in the code connects a second time.                 *)
(***************************************************************************)
EXTENDS MobileStore

CONSTANTS
  HistoryLimit,                                   \* limit, 50 in the code
  MaxEvents, MaxRequests, MaxVisits, MaxTexts     \* bounds

ASSUME MobileAssumption ==
  {HistoryLimit, MaxEvents, MaxRequests, MaxVisits, MaxTexts} \subseteq Nat

VARIABLES
  published,    \* the events of the server, in order
  store,
  client,       \* clientRef.current: its socket, connected, queue and pending
  requests,     \* what each request asks, and how its promise was settled
  sent,         \* the requests written to the socket, in order
  screen,       \* the React state of the screen
  fetches,      \* the fetches of the history under way: what they have found
  handled       \* what the store was given since it was last reset, in order

mobileVars == <<published, store, client, requests, sent, screen, fetches, handled>>

NoClient == [ws |-> "none", connected |-> FALSE, queue |-> <<>>, pending |-> {},
             read |-> 0]

\* prompt is what is rendered; effect: the effects of connected have yet to run;
\* leaving: the aborts that ways out await.
NoScreen == [visit |-> 0, mounted |-> FALSE, connected |-> FALSE, effect |-> FALSE,
             started |-> FALSE, turnActive |-> FALSE, prompt |-> NoPrompt,
             typed |-> 0, leaving |-> {}]

MobileInit ==
  /\ published = <<>> /\ store = resetMessages /\ client = NoClient
  /\ requests = <<>> /\ sent = <<>> /\ screen = NoScreen /\ fetches = {}
  /\ handled = <<>>

Queued == {client.queue[i] : i \in DOMAIN client.queue}

MobileTypeOK ==
  /\ published \in Seq(Kinds) /\ Len(published) <= MaxEvents
  /\ store \in StoreStates
  /\ client \in [ws : {"none", "connecting", "open", "closed"}, connected : BOOLEAN,
                 queue : Seq(Nat), pending : SUBSET Nat, read : 0..Len(published)]
  /\ requests \in Seq([method : {"session.start", "session.input", "session.abort",
                                "permission.respond", "session.start_restart"},
                      about : [text : Nat, seen : Nat, id : Nat],
                      settled : {"no", "resolved", "rejected"}])
  /\ Len(requests) <= MaxRequests
  /\ sent \in Seq(Nat)
  /\ screen \in [visit : Nat, mounted : BOOLEAN, connected : BOOLEAN, effect : BOOLEAN,
                 started : BOOLEAN, turnActive : BOOLEAN, prompt : Nat, typed : Nat,
                 leaving : SUBSET Nat]
  /\ \A f \in fetches :
       f \in [visit : Nat, rows : Seq(1..Len(published)), served : BOOLEAN]
  /\ handled \in Seq(0..Len(published))

\* The screen follows every change of the store, but for what it renders.
StoreBecomes(st) ==
  /\ store' = st
  /\ screen' = [screen EXCEPT !.turnActive = IF screen.mounted THEN st.turnActive ELSE @]

Publish(e) ==
  /\ Len(published) < MaxEvents
  /\ published' = Append(published, e)
  /\ UNCHANGED <<store, client, requests, sent, screen, fetches, handled>>

(***************************************************************************)
(* The connection                                                          *)
(***************************************************************************)

\* What a request is about: a text, or the prompt that was on the screen and the
\* request that is answered.
Nothing == [text |-> 0, seen |-> NoPrompt, id |-> NoPrompt]

\* send: written while connected, else queued.
send(method, about) ==
  LET r == Len(requests) + 1 IN
  /\ r <= MaxRequests
  /\ requests' = Append(requests, [method |-> method, about |-> about, settled |-> "no"])
  /\ IF client.connected
     THEN /\ client' = [client EXCEPT !.pending = @ \cup {r}]
          /\ sent' = Append(sent, r)
     ELSE /\ client' = [client EXCEPT !.queue = Append(@, r)]
          /\ UNCHANGED sent

Settled(rs, outcome) ==
  [r \in DOMAIN requests |-> IF r \in rs THEN [requests[r] EXCEPT !.settled = outcome]
                             ELSE requests[r]]

\* The screen is entered: handleConnect, a moment after the first render.
handleConnect ==
  /\ ~ screen.mounted /\ screen.visit < MaxVisits
  /\ screen' = [NoScreen EXCEPT !.visit = screen.visit + 1, !.mounted = TRUE]
  /\ store' = resetMessages /\ handled' = <<>>
  /\ client' = [NoClient EXCEPT !.ws = "connecting"]
  /\ UNCHANGED <<published, requests, sent, fetches>>

\* onopen, with flushQueue.
onopen ==
  /\ client.ws = "connecting"
  /\ client' = [client EXCEPT !.ws = "open", !.connected = TRUE,
                              !.queue = <<>>, !.pending = @ \cup Queued]
  /\ sent' = sent \o client.queue
  /\ screen' = [screen EXCEPT !.connected = TRUE, !.effect = TRUE]
  /\ UNCHANGED <<published, store, requests, fetches, handled>>

\* onclose: what is queued or pending stays.
onclose ==
  /\ client.ws \in {"connecting", "open"}
  /\ client' = [client EXCEPT !.ws = "closed", !.connected = FALSE]
  /\ screen' = [screen EXCEPT !.connected = FALSE, !.effect = FALSE]
  /\ UNCHANGED <<published, store, requests, sent, fetches, handled>>

onEvent ==
  /\ client.ws = "open" /\ client.read < Len(published)
  /\ LET id == client.read + 1 IN
     /\ StoreBecomes(handleEvent(store, published[id], id))
     /\ handled' = Append(handled, id)
     /\ client' = [client EXCEPT !.read = id]
  /\ UNCHANGED <<published, requests, sent, fetches>>

\* disconnect, resetMessages and goBack, once the abort has been answered.
disconnect(settle) ==
  /\ requests' = [r \in DOMAIN requests |->
       IF r \in client.pending \cup Queued /\ r \notin DOMAIN settle
       THEN [requests[r] EXCEPT !.settled = "rejected"]
       ELSE IF r \in DOMAIN settle THEN [requests[r] EXCEPT !.settled = settle[r]]
       ELSE requests[r]]
  /\ client' = NoClient
  /\ store' = resetMessages /\ handled' = <<>>
  /\ screen' = [NoScreen EXCEPT !.visit = screen.visit]

\* A response or a timeout; what awaits the request goes on at once.
Answered(r, outcome) ==
  /\ r \in client.pending
  /\ \/ /\ r \in screen.leaving
        /\ disconnect([x \in {r} |-> outcome])
     \/ /\ r \notin screen.leaving
        /\ requests' = Settled({r}, outcome)
        /\ client' = [client EXCEPT !.pending = @ \ {r}]
        /\ screen' = [screen EXCEPT !.started = @ \/ requests[r].method = "session.start"]
        /\ UNCHANGED <<store, handled>>
  /\ UNCHANGED <<published, sent, fetches>>

Response(r) ==
  /\ client.ws = "open"
  /\ \E o \in {"resolved", "rejected"} : Answered(r, o)

Timeout(r) == Answered(r, "rejected")

(***************************************************************************)
(* The screen                                                              *)
(***************************************************************************)

\* The effects of connected: the history is fetched and the session started.
Effects ==
  /\ screen.effect
  /\ screen' = [screen EXCEPT !.effect = FALSE]
  /\ fetches' = fetches \cup {[visit |-> screen.visit, rows |-> <<>>, served |-> FALSE]}
  /\ IF screen.started THEN UNCHANGED <<client, requests, sent>>
     ELSE send("session.start", Nothing)
  /\ UNCHANGED <<published, store, handled>>

\* The rows that are found: of the events, in order, those that were saved.
Histories ==
  {rows \in BoundedSeq(DOMAIN published, HistoryLimit) :
     \A i, j \in DOMAIN rows : i < j => rows[i] < rows[j]}

Found(f, rows) == [f EXCEPT !.served = TRUE, !.rows = rows]

FetchServed(f) ==
  /\ f \in fetches /\ ~ f.served
  /\ \E rows \in Histories : fetches' = (fetches \ {f}) \cup {Found(f, rows)}
  /\ UNCHANGED <<published, store, client, requests, sent, screen, handled>>

\* The history is handled like events that have just happened, by whatever
\* is in the store by then.
WithHistory(rows) ==
  LET put[i \in 0..Len(rows)] ==
        IF i = 0 THEN store
        ELSE handleEvent(put[i - 1], published[rows[i]], rows[i])
  IN put[Len(rows)]

FetchHandled(f) ==
  /\ f \in fetches /\ f.served
  /\ fetches' = fetches \ {f}
  /\ StoreBecomes(WithHistory(f.rows))
  /\ handled' = handled \o f.rows
  /\ UNCHANGED <<published, client, requests, sent>>

FetchFailed(f) ==
  /\ f \in fetches /\ ~ f.served
  /\ fetches' = fetches \ {f}
  /\ UNCHANGED <<published, store, client, requests, sent, screen, handled>>

Render ==
  /\ screen.mounted /\ screen.prompt # store.permissionPrompt
  /\ screen' = [screen EXCEPT !.prompt = store.permissionPrompt]
  /\ UNCHANGED <<published, store, client, requests, sent, fetches, handled>>

\* What the user does on the screen, which stays while a way out is awaited.
Usable == screen.mounted

\* The send button is there while no turn is.
handleSend ==
  /\ Usable /\ screen.connected /\ ~ screen.turnActive /\ screen.typed < MaxTexts
  /\ LET text == screen.typed + 1 IN
     /\ store' = addUserMessage(store, text)
     /\ send("session.input", [Nothing EXCEPT !.text = text])
     /\ screen' = [screen EXCEPT !.typed = text, !.turnActive = TRUE]
     /\ handled' = Append(handled, 0)
  /\ UNCHANGED <<published, fetches>>

\* /clear
Clear ==
  /\ Usable /\ screen.connected /\ ~ screen.turnActive /\ store.messages # <<>>
  /\ StoreBecomes(resetMessages)
  /\ handled' = <<>>
  /\ UNCHANGED <<published, client, requests, sent, fetches>>

\* The state of the screen is reset, that of the store is not.
handleAbort ==
  /\ Usable /\ screen.turnActive
  /\ send("session.abort", Nothing)
  /\ screen' = [screen EXCEPT !.turnActive = FALSE]
  /\ UNCHANGED <<published, store, fetches, handled>>

\* A press on the buttons of the rendered prompt answers what the store
\* holds by then.
Answer ==
  /\ Usable /\ screen.prompt # NoPrompt
  /\ send("permission.respond",
          [Nothing EXCEPT !.seen = screen.prompt, !.id = store.permissionRequestId])
  /\ StoreBecomes(answerPermission(store))
  /\ UNCHANGED <<published, fetches, handled>>

applyModelSwitch ==
  /\ Usable
  /\ send("session.start_restart", Nothing)
  /\ UNCHANGED <<published, store, screen, fetches, handled>>

\* The way back: the abort is sent, and the rest awaits its answer; the dialog
\* is closed by then, and the way may be taken once more.
onBackPress ==
  /\ Usable
  /\ send("session.abort", Nothing)
  /\ screen' = [screen EXCEPT !.leaving = @ \cup {Len(requests')}]
  /\ UNCHANGED <<published, store, fetches, handled>>

MobileNext ==
  \/ \E e \in Kinds : Publish(e)
  \/ handleConnect \/ onopen \/ onclose \/ onEvent
  \/ \E r \in 1..MaxRequests : Response(r) \/ Timeout(r)
  \/ Effects \/ Render
  \/ \E f \in fetches : FetchServed(f) \/ FetchHandled(f) \/ FetchFailed(f)
  \/ handleSend \/ Clear \/ handleAbort \/ Answer \/ applyModelSwitch \/ onBackPress

\* Timers fire; a connection that is being made opens or fails.
MobileFairness ==
  /\ WF_mobileVars(onopen \/ onclose)
  /\ \A r \in 1..MaxRequests : WF_mobileVars(Timeout(r))

MobileSpec == MobileInit /\ [][MobileNext]_mobileVars
FairMobileSpec == MobileSpec /\ MobileFairness

(***************************************************************************)
(* Properties                                                              *)
(***************************************************************************)

\* What is given to the store: events by their number, texts of the user by 0.
Is(id, types) == id # 0 /\ published[id].type \in types
OnCards(id) == ~ Is(id, StateTypes \cup HiddenTypes \cup {"context_window"})
DeltaOf(id, b) == Is(id, {"text_delta"}) /\ published[id].block = b

\* What a card says, and what is said by what is given; requests give way to
\* later ones and are left out.
CardSays(card) ==
  CASE card.type \in AskTypes -> <<>>
    [] card.type = "user" -> <<0>>
    [] OTHER -> card.of
Says(id) ==
  CASE id = 0 -> <<0>>
    [] id # 0 /\ OnCards(id) /\ ~ Is(id, AskTypes) -> TextOf(published[id], id)
    [] OTHER -> <<>>

\* Of ids, the delta at place k gives way to a later text that nothing but
\* deltas of its block separates from it.
GivesWay(ids, k) ==
  \E b \in Blocks, l \in (k + 1)..Len(ids) :
    /\ DeltaOf(ids[k], b) /\ Is(ids[l], {"text"})
    /\ \A j \in (k + 1)..(l - 1) : OnCards(ids[j]) => DeltaOf(ids[j], b)

\* The cards say, in order, all that the store was given since it was last
\* reset, by the connection, by histories that came in between and by the user,
\* however often it was given; nothing is lost but deltas that a text follows,
\* and requests.  That the text is the one that repeats these deltas does not
\* hold (see TextIsOfItsDeltas).
TextsKept ==
  FlattenSeq([i \in DOMAIN store.messages |-> CardSays(store.messages[i])])
    = FlattenSeq([k \in DOMAIN handled |->
                    IF GivesWay(handled, k) THEN <<>> ELSE Says(handled[k])])

\* The groups hold every card once and in order, no two groups of the assistant
\* follow each other and none is empty.
GroupsKeepAll ==
  LET groups == groupMessages(store.messages) IN
  /\ FlattenSeq([i \in DOMAIN groups |-> groups[i].items]) = store.messages
  /\ \A i \in DOMAIN groups :
       /\ groups[i].items # <<>>
       /\ i > 1 => ~ (groups[i].kind = "assistant" /\ groups[i - 1].kind = "assistant")

\* A text takes the place of deltas that it repeats, so of none that was
\* published after it.  Does not hold: a text of the history comes after what
\* is live.
TextIsOfItsDeltas ==
  \A k, l \in DOMAIN handled :
    /\ k < l /\ Is(handled[k], {"text_delta"}) /\ Is(handled[l], {"text"})
    /\ \A j \in (k + 1)..(l - 1) : ~ OnCards(handled[j])
    => handled[k] < handled[l]

\* No card shows an "undefined" that nobody wrote.  Does not hold.
NeverUndefined == \A i \in DOMAIN store.messages : ~ store.messages[i].spoiled

\* The thinking of every delta is on a card.  Does not hold.
ThinkingKept ==
  \A k \in DOMAIN handled :
    Is(handled[k], {"text_delta"}) /\ published[handled[k]].holds # "text"
      => \E i \in DOMAIN store.messages : store.messages[i].thinking = handled[k]

\* Whoever takes the way back gets out.  Does not hold.
LeavingEnds == screen.leaving # {} ~> screen.leaving = {}

\* What is answered is what was on the screen.  Does not hold.
SeenIsAnswered ==
  \A r \in DOMAIN requests :
    requests[r].method = "permission.respond" => requests[r].about.seen = requests[r].about.id

\* When the last event is a turn_end and everything has arrived, the send
\* button is there.  Does not hold.
SendAfterTurnEnd ==
  (/\ screen.mounted /\ published # <<>> /\ Last(published).type = "turn_end"
   /\ client.read = Len(published) /\ fetches = {} /\ screen.typed = 0)
    => ~ screen.turnActive
==============================================================================
