------------------------------ MODULE EventHub ------------------------------
(***************************************************************************)
(* internal/ws/hub.go, conn.go and Handler.ServeConn: the Hub that sends   *)
(* every event to every subscriber, and what each WebSocket connection     *)
(* puts behind its subscription: the channel the Hub fills, the bridge     *)
(* goroutine that moves events on to c.send, the writeLoop that owns the   *)
(* socket, and the read loop that answers the client's requests through    *)
(* c.send too.                                                             *)
(*                                                                         *)
(* Hub's methods run under h.mu: each is one action.  Events are numbered  *)
(* as they are broadcast.  A connection is used once: a client that comes  *)
(* back is another one.  What a request does is modelled elsewhere; here   *)
(* it only needs its response sent.  pingLoop, which ends at the first     *)
(* failed write and closes nothing, is left out, and so is Conn.Close,     *)
(* which the server never calls.                                           *)
(***************************************************************************)
EXTENDS Naturals, Sequences, SequencesExt, FiniteSets

CONSTANTS
  Conns,
  ReplayBufferSize,  \* replayBufferSize, 200 in the code
  SubCap,            \* capacity of a subscriber's channel, 128
  SendCap,           \* capacity of c.send, 256
  MaxEvents          \* bound on the events broadcast

ASSUME HubAssumption ==
  {ReplayBufferSize, SubCap, SendCap, MaxEvents} \subseteq Nat \ {0}

Response == 0              \* an envelope in c.send that is no event
Events == 1..MaxEvents

VARIABLES
  published,    \* how many events were broadcast
  replayBuf,
  subscribers,
  subCh,        \* the channel of each subscription
  subClosed,    \* whether it was closed
  joined,       \* published when each connection subscribed
  dropped,      \* events the Hub did not get into each channel; their sum
                \* is h.dropCount
  bridge,       \* "off", "waiting", "holding" an envelope, or "done"
  held,         \* the envelope the bridge holds
  send,         \* c.send
  reader,       \* the read loop: "off", "read", "reply", "ending", "returned"
  canceled,     \* the context of ServeConn is cancelled
  writer,       \* whether the writeLoop runs
  socket,       \* "none", "up", "stalled" (the client does not read), "down"
  shown,        \* the events the client has received
  panicked      \* a send on a closed channel ended the server

hub == <<published, replayBuf, subscribers, subClosed, joined, dropped>>
pump == <<bridge, held>>
conn == <<reader, canceled>>
wire == <<writer, socket, shown>>
vars == <<hub, subCh, pump, send, conn, wire, panicked>>

TypeOK ==
  /\ published \in 0..MaxEvents
  /\ replayBuf \in Seq(Events) /\ Len(replayBuf) <= ReplayBufferSize
  /\ subscribers \in SUBSET Conns
  /\ subCh \in [Conns -> Seq(Events)]
  /\ subClosed \in [Conns -> BOOLEAN]
  /\ joined \in [Conns -> 0..MaxEvents]
  /\ dropped \in [Conns -> 0..MaxEvents]
  /\ bridge \in [Conns -> {"off", "waiting", "holding", "done"}]
  /\ held \in [Conns -> 0..MaxEvents]
  /\ send \in [Conns -> Seq(0..MaxEvents)]
  /\ reader \in [Conns -> {"off", "read", "reply", "ending", "returned"}]
  /\ canceled \in [Conns -> BOOLEAN]
  /\ writer \in [Conns -> {"off", "running", "done"}]
  /\ socket \in [Conns -> {"none", "up", "stalled", "down"}]
  /\ shown \in [Conns -> Seq(Events)]
  /\ \A c \in Conns : Len(subCh[c]) <= SubCap /\ Len(send[c]) <= SendCap
  /\ panicked \in BOOLEAN

Init ==
  /\ published = 0
  /\ replayBuf = <<>>
  /\ subscribers = {}
  /\ subCh = [c \in Conns |-> <<>>]
  /\ subClosed = [c \in Conns |-> FALSE]
  /\ joined = [c \in Conns |-> 0]
  /\ dropped = [c \in Conns |-> 0]
  /\ bridge = [c \in Conns |-> "off"]
  /\ held = [c \in Conns |-> 0]
  /\ send = [c \in Conns |-> <<>>]
  /\ reader = [c \in Conns |-> "off"]
  /\ canceled = [c \in Conns |-> FALSE]
  /\ writer = [c \in Conns |-> "off"]
  /\ socket = [c \in Conns |-> "none"]
  /\ shown = [c \in Conns |-> <<>>]
  /\ panicked = FALSE

(***************************************************************************)
(* The Hub.                                                                *)
(***************************************************************************)
FirstOf(s, n) == SubSeq(s, 1, IF Len(s) < n THEN Len(s) ELSE n)
LastOf(s, n) == SubSeq(s, IF Len(s) < n THEN 1 ELSE Len(s) - n + 1, Len(s))

\* NewConn, then Subscribe at the beginning of ServeConn: what is in the
\* replay buffer goes into the new channel, oldest first, until it is full.
Subscribe(c) ==
  /\ ~ panicked
  /\ reader[c] = "off"
  /\ subCh' = [subCh EXCEPT ![c] = FirstOf(replayBuf, SubCap)]
  /\ subscribers' = subscribers \cup {c}
  /\ joined' = [joined EXCEPT ![c] = published]
  /\ bridge' = [bridge EXCEPT ![c] = "waiting"]
  /\ reader' = [reader EXCEPT ![c] = "read"]
  /\ writer' = [writer EXCEPT ![c] = "running"]
  /\ socket' = [socket EXCEPT ![c] = "up"]
  /\ UNCHANGED <<published, replayBuf, subClosed, dropped, held, send, canceled,
                 shown, panicked>>

\* <-done, then the deferred Unsubscribe.
Unsubscribe(c) ==
  /\ ~ panicked
  /\ reader[c] = "ending" /\ bridge[c] = "done"
  /\ subscribers' = subscribers \ {c}
  /\ subClosed' = [subClosed EXCEPT ![c] = TRUE]
  /\ reader' = [reader EXCEPT ![c] = "returned"]
  /\ UNCHANGED <<published, replayBuf, joined, dropped, subCh, pump, send,
                 canceled, wire, panicked>>

\* Mutant: the drop is not counted.
DeliverUncounted(e) ==
  /\ panicked' = \E c \in subscribers : subClosed[c]
  /\ subCh' = [c \in Conns |-> IF c \in subscribers /\ Len(subCh[c]) < SubCap
                                 THEN Append(subCh[c], e) ELSE subCh[c]]
  /\ UNCHANGED dropped

\* The event goes into the channel of each subscriber that has room for it.
Deliver(e) ==
  LET full(c) == Len(subCh[c]) >= SubCap IN
  /\ panicked' = \E c \in subscribers : subClosed[c]
  /\ subCh' = [c \in Conns |-> IF c \in subscribers /\ ~ full(c)
                                 THEN Append(subCh[c], e) ELSE subCh[c]]
  /\ dropped' = [c \in Conns |-> IF c \in subscribers /\ full(c)
                                   THEN dropped[c] + 1 ELSE dropped[c]]

Broadcast ==
  /\ ~ panicked
  /\ published < MaxEvents
  /\ published' = published + 1
  /\ replayBuf' = LastOf(Append(replayBuf, published + 1), ReplayBufferSize)
  /\ Deliver(published + 1)
  /\ UNCHANGED <<subscribers, subClosed, joined, pump, send, conn, wire>>

(***************************************************************************)
(* The bridge goroutine.                                                   *)
(***************************************************************************)
BridgeTake(c) ==
  /\ ~ panicked
  /\ bridge[c] = "waiting" /\ subCh[c] # <<>>
  /\ held' = [held EXCEPT ![c] = Head(subCh[c])]
  /\ subCh' = [subCh EXCEPT ![c] = Tail(@)]
  /\ bridge' = [bridge EXCEPT ![c] = "holding"]
  /\ UNCHANGED <<hub, send, conn, wire, panicked>>

\* Mutant: the event stays in hand after it was sent.
BridgeSendKeeps(c) ==
  /\ ~ panicked
  /\ bridge[c] = "holding" /\ Len(send[c]) < SendCap
  /\ send' = [send EXCEPT ![c] = Append(@, held[c])]
  /\ \/ bridge' = [bridge EXCEPT ![c] = "waiting"]
        /\ held' = [held EXCEPT ![c] = 0]
     \/ UNCHANGED pump
  /\ UNCHANGED <<hub, subCh, conn, wire, panicked>>

\* Mutant: Conn.Send is used, which gives up when c.send is full.
BridgeSendDrops(c) ==
  /\ ~ panicked
  /\ bridge[c] = "holding"
  /\ send' = IF Len(send[c]) < SendCap
               THEN [send EXCEPT ![c] = Append(@, held[c])] ELSE send
  /\ held' = [held EXCEPT ![c] = 0]
  /\ bridge' = [bridge EXCEPT ![c] = "waiting"]
  /\ UNCHANGED <<hub, subCh, conn, wire, panicked>>

BridgeSend(c) ==
  /\ ~ panicked
  /\ bridge[c] = "holding" /\ Len(send[c]) < SendCap
  /\ send' = [send EXCEPT ![c] = Append(@, held[c])]
  /\ held' = [held EXCEPT ![c] = 0]
  /\ bridge' = [bridge EXCEPT ![c] = "waiting"]
  /\ UNCHANGED <<hub, subCh, conn, wire, panicked>>

\* Either select sees the context done; the event in hand is lost.
BridgeEnd(c) ==
  /\ ~ panicked
  /\ bridge[c] \in {"waiting", "holding"} /\ canceled[c]
  /\ bridge' = [bridge EXCEPT ![c] = "done"]
  /\ held' = [held EXCEPT ![c] = 0]
  /\ UNCHANGED <<hub, subCh, send, conn, wire, panicked>>

(***************************************************************************)
(* The writeLoop and the read loop.                                        *)
(***************************************************************************)
Write(c) ==
  /\ ~ panicked
  /\ writer[c] = "running" /\ send[c] # <<>>
  /\ socket[c] = "up"
  /\ send' = [send EXCEPT ![c] = Tail(@)]
  /\ shown' = IF Head(send[c]) = Response THEN shown
              ELSE [shown EXCEPT ![c] = Append(@, Head(send[c]))]
  /\ UNCHANGED <<hub, subCh, pump, conn, writer, socket, panicked>>

\* The write fails, or its deadline passes: the writeLoop ends, and nobody
\* is told.
WriteFails(c) ==
  /\ ~ panicked
  /\ writer[c] = "running" /\ send[c] # <<>>
  /\ socket[c] \in {"stalled", "down"}
  /\ send' = [send EXCEPT ![c] = Tail(@)]
  /\ writer' = [writer EXCEPT ![c] = "done"]
  /\ UNCHANGED <<hub, subCh, pump, conn, socket, shown, panicked>>

ReadRequest(c) ==
  /\ ~ panicked
  /\ reader[c] = "read" /\ socket[c] \in {"up", "stalled"}
  /\ reader' = [reader EXCEPT ![c] = "reply"]
  /\ UNCHANGED <<hub, subCh, pump, send, canceled, wire, panicked>>

\* sendResp; its context ends only when the read loop itself does.
Reply(c) ==
  /\ ~ panicked
  /\ reader[c] = "reply" /\ Len(send[c]) < SendCap
  /\ send' = [send EXCEPT ![c] = Append(@, Response)]
  /\ reader' = [reader EXCEPT ![c] = "read"]
  /\ UNCHANGED <<hub, subCh, pump, canceled, wire, panicked>>

\* The connection broke, or no frame and no pong came for readTimeout.
ReadFails(c) ==
  /\ ~ panicked
  /\ reader[c] = "read" /\ socket[c] \in {"stalled", "down"}
  /\ canceled' = [canceled EXCEPT ![c] = TRUE]
  /\ reader' = [reader EXCEPT ![c] = "ending"]
  /\ UNCHANGED <<hub, subCh, pump, send, wire, panicked>>

\* The network and the client: the phone sleeps, wakes up, goes away.
Network(c) ==
  /\ ~ panicked
  /\ \/ socket[c] = "up" /\ socket' = [socket EXCEPT ![c] = "stalled"]
     \/ socket[c] = "stalled" /\ socket' = [socket EXCEPT ![c] = "up"]
     \/ /\ socket[c] \in {"up", "stalled"}
        /\ socket' = [socket EXCEPT ![c] = "down"]
  /\ UNCHANGED <<hub, subCh, pump, send, conn, writer, shown, panicked>>

BridgeStep(c) == BridgeTake(c) \/ BridgeSend(c) \/ BridgeEnd(c)
WriterStep(c) == Write(c) \/ WriteFails(c)
ReaderStep(c) == Reply(c) \/ ReadFails(c) \/ Unsubscribe(c)

Next ==
  \/ Broadcast
  \/ \E c \in Conns :
       \/ Subscribe(c) \/ ReadRequest(c) \/ Network(c)
       \/ BridgeStep(c) \/ WriterStep(c) \/ ReaderStep(c)

\* Each connection's three goroutines are scheduled; those that wait for room
\* in c.send are served in the order in which they came, so that neither
\* keeps the other out.  Clients need not ask, nor the network heal.
Fairness == \A c \in Conns :
  /\ WF_vars(BridgeStep(c)) /\ SF_vars(BridgeSend(c)) /\ WF_vars(BridgeEnd(c))
  /\ WF_vars(WriterStep(c)) /\ WF_vars(ReaderStep(c)) /\ SF_vars(Reply(c))

Spec == Init /\ [][Next]_vars
FairSpec == Spec /\ Fairness

-----------------------------------------------------------------------------
(***************************************************************************)
(* Properties.                                                             *)
(***************************************************************************)

IsEvent(x) == x # Response

\* The events of a queue, whatever else there is in it, are in order.
InOrder(q) == \A i, j \in DOMAIN q :
  i < j /\ IsEvent(q[i]) /\ IsEvent(q[j]) => q[i] < q[j]

\* What a connection has shown and has under way.
Pipeline(c) ==
  shown[c] \o send[c] \o (IF bridge[c] = "holding" THEN <<held[c]>> ELSE <<>>) \o subCh[c]

Carried(c) == {e \in ToSet(Pipeline(c)) : IsEvent(e)}

\* A client is shown events in the order in which they were broadcast, none
\* twice, though some come from the replay buffer and some from Broadcast.
InOrderOnce == \A c \in Conns : InOrder(Pipeline(c))

\* Every event broadcast while a healthy connection was subscribed reaches
\* it or is counted in dropCount.
LossIsCounted == \A c \in subscribers :
  ~ canceled[c] /\ writer[c] = "running" =>
    published - joined[c]
      = dropped[c] + Cardinality({e \in Carried(c) : e > joined[c]})

\* As long as the client reads and its writeLoop has not failed, every event
\* that got into the connection's channel is shown.
QueuedIsShown == \A c \in Conns : \A e \in Events :
  (e \in Carried(c)) ~>
    \/ \E i \in 1..Len(shown[c]) : shown[c][i] = e
    \/ socket[c] # "up" \/ writer[c] # "running" \/ canceled[c]

\* hub.go:46, "the new subscriber's buffer is full: skip old events": the
\* newest event is not the one skipped.
NewestIsReplayed == \A c \in subscribers :
  ~ canceled[c] /\ writer[c] = "running" /\ joined[c] > 0 =>
    joined[c] \in Carried(c)
=============================================================================
