------------------------------ MODULE WSClient ------------------------------
(***************************************************************************)
(* The connection of the web client: the class WSClient of                 *)
(* web/src/core/ws/ws-client.ts.  Requests and sockets are numbered in the *)
(* order in which they are made; a request number stands for its id.       *)
(* Handlers run one at a time.  What a caller does once its request has    *)
(* settled is up to the module that makes the requests.                    *)
(***************************************************************************)
EXTENDS Naturals, Sequences

CONSTANTS MaxRequests, MaxSockets, MaxConnects   \* bounds

ASSUME WSAssumption == {MaxRequests, MaxSockets, MaxConnects} \subseteq Nat

Requests == 1..MaxRequests
SocketIds == 1..MaxSockets

VARIABLES
  readyState,       \* of each socket made so far
  ws,               \* the socket in this.ws, 0 for null
  status, closed,
  timers,           \* the sockets whose close armed a timer that is to run
  reconnectTimer,   \* the latest of them, the only one that can be cleared
  requestQueue, pendingRequests,
  settled,          \* how the promise of each request was settled
  sent,             \* the requests written to a socket, in order
  connects          \* how many times connect got as far as doConnect

socketVars == <<readyState, ws, closed, timers, reconnectTimer, connects>>
requestVars == <<requestQueue, pendingRequests, settled, sent>>
wsVars == <<socketVars, status, requestVars>>

Made == DOMAIN settled
Sockets == DOMAIN readyState
IsOpen(s) == s \in Sockets /\ readyState[s] = "open"
Queued == {requestQueue[i] : i \in DOMAIN requestQueue}

\* Every variable has a value of its kind; a request in some place was made.
WSTypeOK ==
  /\ readyState \in Seq({"connecting", "open", "closing", "closed"})
  /\ ws \in 0..Len(readyState)
  /\ status \in {"idle", "connecting", "connected", "reconnecting", "closed"}
  /\ closed \in BOOLEAN
  /\ timers \subseteq Sockets /\ reconnectTimer \in {0} \cup Sockets
  /\ settled \in Seq({"no", "resolved", "rejected"})
  /\ requestQueue \in Seq(Made) /\ pendingRequests \subseteq Made
  /\ sent \in Seq([request : Made, on : Sockets])
  /\ connects \in Nat

WSInit ==
  /\ readyState = <<>> /\ ws = 0
  /\ status = "idle" /\ closed = FALSE
  /\ timers = {} /\ reconnectTimer = 0
  /\ requestQueue = <<>> /\ pendingRequests = {} /\ settled = <<>> /\ sent = <<>>
  /\ connects = 0

Settle(rs, outcome) ==
  settled' = [r \in Made |-> IF r \in rs THEN outcome ELSE settled[r]]

\* A new socket, which is this.ws from now on.
doConnect ==
  /\ Len(readyState) < MaxSockets
  /\ readyState' = Append(readyState, "connecting")
  /\ ws' = Len(readyState) + 1
  /\ status' = "connecting"

Connect ==
  /\ connects < MaxConnects /\ ~ IsOpen(ws)
  /\ connects' = connects + 1
  /\ closed' = FALSE
  /\ doConnect
  /\ UNCHANGED <<timers, reconnectTimer, requestVars>>

Reconnect(s) ==
  /\ s \in timers
  /\ timers' = timers \ {s}
  /\ IF closed THEN UNCHANGED <<readyState, ws, status>> ELSE doConnect
  /\ UNCHANGED <<closed, reconnectTimer, connects, requestVars>>

\* What is pending is rejected; what is queued stays queued.
Close ==
  /\ closed' = TRUE
  /\ timers' = timers \ {reconnectTimer} /\ reconnectTimer' = 0
  /\ readyState' = [s \in Sockets |->
       IF s = ws /\ readyState[s] # "closed" THEN "closing" ELSE readyState[s]]
  /\ ws' = 0
  /\ status' = "closed"
  /\ Settle(pendingRequests, "rejected") /\ pendingRequests' = {}
  /\ UNCHANGED <<connects, requestQueue, sent>>

\* Mutant: the queued requests go out last in, first out.
OpenedReversed(s) ==
  /\ s \in Sockets /\ readyState[s] = "connecting"
  /\ readyState' = [readyState EXCEPT ![s] = "open"]
  /\ status' = "connected"
  /\ requestQueue' = <<>>
  /\ pendingRequests' = pendingRequests \cup Queued
  /\ sent' = sent \o [i \in DOMAIN requestQueue |->
       [request |-> requestQueue[Len(requestQueue) + 1 - i], on |-> ws]]
  /\ UNCHANGED <<ws, closed, timers, reconnectTimer, connects, settled>>

\* onopen of any socket, with flushQueue: the requests go to this.ws.
Opened(s) ==
  /\ s \in Sockets /\ readyState[s] = "connecting"
  /\ readyState' = [readyState EXCEPT ![s] = "open"]
  /\ status' = "connected"
  /\ requestQueue' = <<>>
  /\ \/ /\ s = ws \/ IsOpen(ws)
        /\ pendingRequests' = pendingRequests \cup Queued
        /\ sent' = sent \o [i \in DOMAIN requestQueue |->
                              [request |-> requestQueue[i], on |-> ws]]
        /\ UNCHANGED settled
     \/ /\ s # ws /\ ~ IsOpen(ws)
        /\ Settle(Queued, "rejected")
        /\ UNCHANGED <<pendingRequests, sent>>
  /\ UNCHANGED <<ws, closed, timers, reconnectTimer, connects>>

\* onclose of any socket: the code can be 1000 only after the client's own
\* close.
Dropped(s) ==
  /\ s \in Sockets /\ readyState[s] # "closed"
  /\ readyState' = [readyState EXCEPT ![s] = "closed"]
  /\ \/ /\ closed \/ readyState[s] = "closing"
        /\ status' = "closed"
        /\ UNCHANGED <<timers, reconnectTimer>>
     \/ /\ ~ closed
        /\ status' = "reconnecting"
        /\ timers' = timers \cup {s} /\ reconnectTimer' = s
  /\ UNCHANGED <<ws, closed, connects, requestVars>>

\* Mutant: the request is queued and written.
SendTwice ==
  /\ Len(settled) < MaxRequests
  /\ settled' = Append(settled, "no")
  /\ requestQueue' = Append(requestQueue, Len(settled'))
  /\ pendingRequests' = pendingRequests \cup {Len(settled')}
  /\ UNCHANGED sent

\* The next request is written to an open this.ws, or queued.
Send ==
  LET r == Len(settled) + 1 IN
  /\ r <= MaxRequests
  /\ settled' = Append(settled, "no")
  /\ \/ /\ IsOpen(ws)
        /\ pendingRequests' = pendingRequests \cup {r}
        /\ sent' = Append(sent, [request |-> r, on |-> ws])
        /\ UNCHANGED requestQueue
     \/ /\ ~ IsOpen(ws)
        /\ requestQueue' = Append(requestQueue, r)
        /\ UNCHANGED <<pendingRequests, sent>>

\* The timer of a request runs until its response: a drop does not stop it.
Timeout(r) ==
  /\ r \in pendingRequests
  /\ pendingRequests' = pendingRequests \ {r}
  /\ Settle({r}, "rejected")
  /\ UNCHANGED <<socketVars, status, requestQueue, sent>>

\* handleEnvelope; a response to what is no longer pending changes nothing.
Response(r, outcome) ==
  /\ r \in pendingRequests
  /\ \E i \in DOMAIN sent : sent[i].request = r /\ IsOpen(sent[i].on)
  /\ pendingRequests' = pendingRequests \ {r}
  /\ Settle({r}, outcome)
  /\ UNCHANGED <<socketVars, status, requestQueue, sent>>

Network ==
  \/ Connect
  \/ \E s \in SocketIds : Reconnect(s) \/ Opened(s) \/ Dropped(s)
  \/ \E r \in Requests :
       Timeout(r) \/ \E o \in {"resolved", "rejected"} : Response(r, o)

\* The client by itself, whoever makes the requests.
WSNext == Network \/ Close \/ (Send /\ UNCHANGED <<socketVars, status>>)

WSSpec == WSInit /\ [][WSNext]_wsVars

(***************************************************************************)
(* Properties                                                              *)
(***************************************************************************)

\* A request is queued, pending or settled, and only one of these: no
\* overlap of drops, timeouts, late responses and reconnects loses one,
\* forgets that it was answered, or has it twice in the queue.
RequestAccounted ==
  /\ \A r \in Made :
       /\ settled[r] = "no" <=> r \in Queued \cup pendingRequests
       /\ ~ (r \in Queued /\ r \in pendingRequests)
  /\ \A i, j \in DOMAIN requestQueue : requestQueue[i] = requestQueue[j] => i = j

\* Requests are written in the order in which they were made and none twice,
\* whether directly or from the queue after a reconnect.
SentInOrder ==
  \A i, j \in DOMAIN sent : i < j => sent[i].request < sent[j].request
=============================================================================
