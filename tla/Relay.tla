-------------------------------- MODULE Relay --------------------------------
(***************************************************************************)
(* The relay: the sessions and loops of internal/relay/server.go, agents   *)
(* that register under one session id (cmd/server/relay_cmd.go with the    *)
(* flag -session), and a page of the web client that was opened with a     *)
(* pairing URL (connectRelay of ChatContext.tsx and the RelayClient of     *)
(* relay-client.ts).  Agents, sockets and texts are numbered; the pairing  *)
(* secret of a registration is the number of its agent.  A loop's lookup   *)
(* under the mutex and the write that follows are one step.  The relayUrl  *)
(* is one that reaches the server: the page's own has "/relay" twice.      *)
(***************************************************************************)
EXTENDS Naturals, Sequences, FiniteSets

CONSTANTS
  HasToken,        \* the page also connects directly
  MaxConnections,
  MaxAgents, MaxSockets, MaxPages, MaxSaid, MaxTyped   \* bounds

ASSUME RelayAssumption ==
  /\ HasToken \in BOOLEAN
  /\ {MaxConnections, MaxAgents, MaxSockets, MaxPages, MaxSaid, MaxTyped} \subseteq Nat

VARIABLES
  agents,          \* the agentLoop of each agent: "reading", "registered", "gone"
  said,            \* the number of texts each agent has sent
  session,         \* s.sessions[id]; a secret of 0 means that there is none
  expired,         \* its pairingExpiresAt is over
  agentConns, clientConns,
  loop,            \* the clientLoop of each socket: "none" before it is accepted
  up, down,        \* what is under way on each socket
  readyState,      \* of each socket
  page,            \* the RelayClient of the page
  direct, status,  \* status of the WSClient; state.status
  heard            \* the texts given to an agent, in order

server == <<agents, said, session, expired, agentConns, clientConns>>
socket == <<loop, up, down, readyState>>
chat == <<page, direct, status, heard>>
vars == <<server, socket, chat>>

Agents == DOMAIN agents
Sockets == DOMAIN readyState
SocketIds == 1..MaxSockets
AgentIds == 1..MaxAgents

Text(a, n) == [type |-> "relay.forward", agent |-> a, text |-> n]
Paired == [type |-> "client.paired", agent |-> 0, text |-> 0]
Error == [type |-> "relay.error", agent |-> 0, text |-> 0]
Pair(secret) == [type |-> "client.pair", agent |-> secret, text |-> 0]

\* No page has been opened with a pairing URL yet: the mode is direct.
NoPage == [number |-> 0, secret |-> 0, status |-> "idle", ws |-> 0,
           timer |-> FALSE, typed |-> 0, events |-> <<>>]

\* What is written to a socket that the page has closed is lost.
Written(s, frame) ==
  [t \in Sockets |-> IF t = s /\ readyState[t] = "open" THEN Append(down[t], frame)
                    ELSE down[t]]

Init ==
  /\ agents = <<>> /\ said = <<>> /\ expired = FALSE
  /\ session = [secret |-> 0, agent |-> 0, client |-> 0]
  /\ agentConns = 0 /\ clientConns = 0
  /\ loop = <<>> /\ up = <<>> /\ down = <<>> /\ readyState = <<>>
  /\ page = NoPage /\ direct = "idle" /\ status = "idle" /\ heard = <<>>

Full == agentConns + clientConns >= MaxConnections

(***************************************************************************)
(* The agents                                                              *)
(***************************************************************************)

AgentAccepted ==
  /\ Len(agents) < MaxAgents /\ ~ Full
  /\ agents' = Append(agents, "reading") /\ said' = Append(said, 0)
  /\ agentConns' = agentConns + 1
  /\ UNCHANGED <<session, expired, clientConns, socket, chat>>

\* A registration makes a new session, whatever was there under the id.
AgentRegistered(a) ==
  /\ a \in Agents /\ agents[a] = "reading"
  /\ agents' = [agents EXCEPT ![a] = "registered"]
  /\ session' = [secret |-> a, agent |-> a, client |-> 0]
  /\ expired' = FALSE
  /\ UNCHANGED <<said, agentConns, clientConns, socket, chat>>

\* forwardLoop: the target is looked up by the session id.
AgentSays(a) ==
  /\ a \in Agents /\ agents[a] = "registered" /\ said[a] < MaxSaid
  /\ said' = [said EXCEPT ![a] = @ + 1]
  /\ down' = Written(session.client, Text(a, said'[a]))
  /\ UNCHANGED <<agents, session, expired, agentConns, clientConns, loop, up,
                 readyState, chat>>

\* Mutant: the agent is taken for the one of the session without a look.
MarkAnyDisconnected(a) ==
  /\ session' = [session EXCEPT !.agent = 0]
  /\ down' = Written(session.client, Error)

\* An agent of a session that was replaced is found in none.
markAgentDisconnected(a) ==
  IF session.agent = a
  THEN /\ session' = [session EXCEPT !.agent = 0]
       /\ down' = Written(session.client, Error)
  ELSE UNCHANGED <<session, down>>

AgentGone(a) ==
  /\ a \in Agents /\ agents[a] # "gone"
  /\ agents' = [agents EXCEPT ![a] = "gone"]
  /\ agentConns' = agentConns - 1
  /\ markAgentDisconnected(a)
  /\ UNCHANGED <<said, expired, clientConns, loop, up, readyState, chat>>

Expire ==
  /\ session.secret # 0 /\ ~ expired
  /\ expired' = TRUE
  /\ UNCHANGED <<agents, said, session, agentConns, clientConns, socket, chat>>

(***************************************************************************)
(* The client loops of the server                                          *)
(***************************************************************************)

markClientDisconnected(s) ==
  session' = [session EXCEPT !.client = IF @ = s THEN 0 ELSE @]

PairRead(s) ==
  /\ s \in Sockets /\ loop[s] = "reading" /\ up[s] # <<>>
  /\ \/ /\ Head(up[s]).agent = session.secret /\ ~ expired
        /\ up' = [up EXCEPT ![s] = Tail(@)]
        /\ session' = [session EXCEPT !.client = s]
        /\ loop' = [loop EXCEPT ![s] = "forwarding"]
        /\ down' = Written(s, Paired)
        /\ UNCHANGED clientConns
     \/ /\ Head(up[s]).agent # session.secret \/ expired
        /\ up' = [up EXCEPT ![s] = <<>>]
        /\ loop' = [loop EXCEPT ![s] = "gone"]
        /\ down' = Written(s, Error)
        /\ clientConns' = clientConns - 1
        /\ UNCHANGED session
  /\ UNCHANGED <<agents, said, expired, agentConns, readyState, chat>>

ForwardToAgent(s) ==
  /\ s \in Sockets /\ loop[s] = "forwarding" /\ up[s] # <<>>
  /\ up' = [up EXCEPT ![s] = Tail(@)]
  /\ heard' = IF session.agent = 0 THEN heard
              ELSE Append(heard, [to |-> session.agent, page |-> Head(up[s]).agent,
                                  text |-> Head(up[s]).text])
  /\ UNCHANGED <<server, loop, down, readyState, page, direct, status>>

\* The read fails, once the page has closed the socket or the network has.
ClientGone(s) ==
  /\ s \in Sockets /\ loop[s] \in {"reading", "forwarding"}
  /\ readyState[s] \in {"closing", "closed"}
  /\ loop' = [loop EXCEPT ![s] = "gone"]
  /\ clientConns' = clientConns - 1
  /\ up' = [up EXCEPT ![s] = <<>>]
  /\ markClientDisconnected(s)
  /\ UNCHANGED <<agents, said, expired, agentConns, down, readyState, chat>>

(***************************************************************************)
(* The page                                                                *)
(***************************************************************************)

doConnect(old) ==
  /\ Len(readyState) < MaxSockets
  /\ readyState' = Append([s \in Sockets |->
       IF s \in old /\ readyState[s] # "closed" THEN "closing" ELSE readyState[s]],
       "connecting")
  /\ loop' = Append(loop, "none")
  /\ up' = Append(up, <<>>) /\ down' = Append(down, <<>>)

\* The page is loaded with the pairing URL of a registration; what was there
\* before goes with its sockets.
OpenPage(secret) ==
  /\ page.number < MaxPages
  /\ secret \in Agents /\ agents[secret] # "reading"
  /\ doConnect(Sockets)
  /\ page' = [NoPage EXCEPT !.number = page.number + 1, !.secret = secret,
                            !.status = "connecting", !.ws = Len(readyState')]
  /\ status' = "connecting"
  /\ direct' = IF HasToken THEN "connecting" ELSE "idle"
  /\ UNCHANGED <<server, heard>>

\* onopen sends the pairing frame; the server takes the connection or closes
\* it at once.
Opened(s) ==
  /\ s \in Sockets /\ readyState[s] = "connecting"
  /\ readyState' = [readyState EXCEPT ![s] = "open"]
  /\ up' = [up EXCEPT ![s] = IF Full THEN <<>> ELSE <<Pair(page.secret)>>]
  /\ loop' = [loop EXCEPT ![s] = IF Full THEN "gone" ELSE "reading"]
  /\ clientConns' = IF Full THEN clientConns ELSE clientConns + 1
  /\ down' = [down EXCEPT ![s] = IF Full THEN <<Error>> ELSE <<>>]
  /\ UNCHANGED <<agents, said, session, expired, agentConns, chat>>

\* handleFrame: an error is logged only.
Received(s) ==
  /\ s \in Sockets /\ readyState[s] = "open" /\ down[s] # <<>>
  /\ down' = [down EXCEPT ![s] = Tail(@)]
  /\ \/ /\ Head(down[s]).type = "client.paired"
        /\ page' = [page EXCEPT !.status = "connected"]
        /\ status' = IF page.status = "connected" THEN status ELSE "connected"
     \/ /\ Head(down[s]).type = "relay.forward"
        /\ page' = [page EXCEPT !.events = Append(@, Head(down[s]))]
        /\ UNCHANGED status
     \/ /\ Head(down[s]).type = "relay.error"
        /\ UNCHANGED <<page, status>>
  /\ UNCHANGED <<server, loop, up, readyState, direct, heard>>

\* Mutant: an error schedules a reconnect as well, while the socket is open.
DroppedOnError(s) ==
  /\ s \in Sockets /\ readyState[s] \in {"connecting", "open"}
  /\ page' = [page EXCEPT !.status = "reconnecting", !.timer = TRUE]
  /\ status' = "reconnecting"
  /\ UNCHANGED <<server, loop, up, down, readyState, direct, heard>>

\* onclose; the socket of an earlier page has no page to tell.
Dropped(s) ==
  /\ s \in Sockets /\ readyState[s] # "closed"
  /\ readyState' = [readyState EXCEPT ![s] = "closed"]
  /\ down' = [down EXCEPT ![s] = <<>>]
  /\ IF readyState[s] = "closing" THEN UNCHANGED <<page, status>>
     ELSE /\ page' = [page EXCEPT !.status = "reconnecting", !.timer = TRUE]
          /\ status' = IF page.status = "reconnecting" THEN status ELSE "reconnecting"
  /\ UNCHANGED <<server, loop, up, direct, heard>>

Reconnect ==
  /\ page.timer
  /\ doConnect({})
  /\ page' = [page EXCEPT !.timer = FALSE, !.status = "connecting",
                          !.ws = Len(readyState')]
  /\ status' = "connecting"
  /\ UNCHANGED <<server, direct, heard>>

\* sendInput in relay mode shows the text and then sends it, or throws.
Type ==
  /\ page.number > 0 /\ page.typed < MaxTyped
  /\ page' = [page EXCEPT !.typed = @ + 1]
  /\ up' = [s \in Sockets |->
       IF s = page.ws /\ readyState[s] = "open" /\ loop[s] # "gone"
       THEN Append(up[s], Text(page.number, page'.typed)) ELSE up[s]]
  /\ UNCHANGED <<server, loop, down, readyState, direct, status, heard>>

\* The direct connection, which the page keeps in relay mode too.
DirectChanges(new) ==
  /\ direct \notin {"idle", new}
  /\ \/ direct = "connecting" /\ new \in {"connected", "reconnecting"}
     \/ direct = "connected" /\ new = "reconnecting"
     \/ direct = "reconnecting" /\ new = "connecting"
  /\ direct' = new /\ status' = new
  /\ UNCHANGED <<server, socket, page, heard>>

ServerNext ==
  \/ AgentAccepted \/ Expire
  \/ \E a \in AgentIds : AgentRegistered(a) \/ AgentSays(a) \/ AgentGone(a)
  \/ \E s \in SocketIds : PairRead(s) \/ ForwardToAgent(s) \/ ClientGone(s)

PageNext ==
  \/ \E secret \in AgentIds : OpenPage(secret)
  \/ \E s \in SocketIds : Opened(s) \/ Received(s) \/ Dropped(s)
  \/ Reconnect \/ Type
  \/ \E new \in {"connecting", "connected", "reconnecting"} : DirectChanges(new)

Next == ServerNext \/ PageNext

Spec == Init /\ [][Next]_vars

(***************************************************************************)
(* Properties                                                              *)
(***************************************************************************)

\* The session names the agent that registered last as long as that one is
\* there, and a client whose loop runs: an agent or a client that ends late,
\* after another has taken its place, takes nothing away.  Every connection
\* gives its slot back, and there are never more than MaxConnections.
SessionHolds ==
  /\ session.agent = (IF session.secret # 0 /\ agents[session.secret] = "registered"
                      THEN session.secret ELSE 0)
  /\ session.client # 0 => loop[session.client] = "forwarding"
  /\ agentConns = Cardinality({a \in Agents : agents[a] # "gone"})
  /\ clientConns = Cardinality({s \in Sockets : loop[s] \in {"reading", "forwarding"}})
  /\ agentConns + clientConns <= MaxConnections

\* A page shows the texts of an agent in the order in which they were said
\* and none twice, and an agent is given no text of a page twice, however
\* often sockets drop, are made again and replace each other.
TextsInOrder ==
  /\ \A i, j \in DOMAIN page.events :
       i < j /\ page.events[i].agent = page.events[j].agent => page.events[i].text < page.events[j].text
  /\ \A i, j \in DOMAIN heard :
       heard[i].page = heard[j].page /\ heard[i].text = heard[j].text => i = j

\* A page that shows itself connected is the client of the session: when its
\* agent has come back, they hear each other.  Does not hold.
StaysAttached ==
  page.status = "connected" /\ readyState[page.ws] = "open" => session.client = page.ws

\* A page hears the agent it has paired with and no other.  Does not hold.
OwnAgent == \A i \in DOMAIN page.events : page.events[i].agent = page.secret
=============================================================================
