----------------------------- MODULE RelayProofs -----------------------------
(***************************************************************************)
(* Proofs about Relay, for any number of agents, sockets, pages and texts  *)
(* and any limit of connections, and about Mobile, for any number of       *)
(* events, requests, visits and texts and cards of any length.             *)
(***************************************************************************)
EXTENDS Relay, Mobile, FiniteSetTheorems, SequenceTheorems, WellFoundedInduction, TLAPS

AgentState == {"reading", "registered", "gone"}
LoopState == {"none", "reading", "forwarding", "gone"}
SocketState == {"connecting", "open", "closing", "closed"}
Status == {"idle", "connecting", "connected", "reconnecting"}

Frame ==
  [type : {"relay.forward", "client.paired", "relay.error", "client.pair"},
   agent : Nat, text : Nat]

Heard == [to : Nat, page : Nat, text : Nat]

Page ==
  [number : Nat, secret : Nat, status : Status, ws : Nat, timer : BOOLEAN,
   typed : Nat, events : Seq(Frame)]

AgentTypes ==
  /\ agents \in Seq(AgentState)
  /\ said \in Seq(Nat) /\ Len(said) = Len(agents)
  /\ agentConns \in Nat /\ clientConns \in Nat
  /\ expired \in BOOLEAN

SocketTypes ==
  /\ readyState \in Seq(SocketState)
  /\ loop \in Seq(LoopState) /\ Len(loop) = Len(readyState)
  /\ up \in Seq(Seq(Frame)) /\ Len(up) = Len(readyState)
  /\ down \in Seq(Seq(Frame)) /\ Len(down) = Len(readyState)

PageTypes ==
  /\ page \in Page /\ direct \in Status /\ status \in Status
  /\ heard \in Seq(Heard)

SessionTypes ==
  session \in [secret : 0..Len(agents), agent : 0..Len(agents),
               client : 0..Len(readyState)]

TypeOK == AgentTypes /\ SocketTypes /\ PageTypes /\ SessionTypes

(***************************************************************************)
(* The inductive invariant.                                                *)
(***************************************************************************)

\* The page has one socket that is not on its way out, and none while it
\* waits to connect again; a loop begins when its socket opens.
OneSocket ==
  \A s \in Sockets :
    /\ readyState[s] \in {"connecting", "open"} => s = page.ws /\ ~ page.timer
    /\ readyState[s] = "connecting" => loop[s] = "none"

\* Down: a text that an agent has said, in the order of what was said.
Said(f) == f.agent \in Agents /\ f.text <= said[f.agent]
Before(f, g) == f.agent = g.agent => f.text < g.text
IsText(f) == f.type = "relay.forward"

InOrder(q) ==
  \A i, j \in DOMAIN q : i < j /\ IsText(q[i]) /\ IsText(q[j]) => Before(q[i], q[j])

EventsSaid ==
  \A i \in DOMAIN page.events : IsText(page.events[i]) /\ Said(page.events[i])

Follows(q, r) ==
  \A i \in DOMAIN r, j \in DOMAIN q : IsText(q[j]) => Before(r[i], q[j])

DownOK(s) ==
  /\ \A i \in DOMAIN down[s] : IsText(down[s][i]) => Said(down[s][i])
  /\ InOrder(down[s]) /\ Follows(down[s], page.events)

DownInOrder == \A s \in Sockets : readyState[s] = "open" => DownOK(s)

\* Up: a text that the page has typed, in one place only.
TypedOn(n, k, p, t) == p < n \/ (p = n /\ t <= k)
Typed(p, t) == TypedOn(page.number, page.typed, p, t)
Waits(s, i) == s \in Sockets /\ i \in DOMAIN up[s] /\ IsText(up[s][i])

OnlyTexts ==
  \A s \in Sockets : \A i \in DOMAIN up[s] :
    IsText(up[s][i]) \/ (loop[s] = "reading" /\ i = 1)

UpTyped ==
  \A s \in Sockets : \A i \in DOMAIN up[s] :
    IsText(up[s][i]) => Typed(up[s][i].agent, up[s][i].text)

HeardTyped == \A i \in DOMAIN heard : Typed(heard[i].page, heard[i].text)

UpOnce ==
  \A s, t \in Sockets : \A i \in DOMAIN up[s], j \in DOMAIN up[t] :
    /\ IsText(up[s][i]) /\ IsText(up[t][j])
    /\ up[s][i].agent = up[t][j].agent /\ up[s][i].text = up[t][j].text
    => s = t /\ i = j

HeardOnce ==
  /\ \A i, j \in DOMAIN heard :
       heard[i].page = heard[j].page /\ heard[i].text = heard[j].text => i = j
  /\ \A s \in Sockets : \A i \in DOMAIN heard, j \in DOMAIN up[s] :
       IsText(up[s][j])
         => ~ (heard[i].page = up[s][j].agent /\ heard[i].text = up[s][j].text)

\* SessionHolds in two parts.
SessionKept ==
  /\ session.agent = (IF session.secret # 0 /\ agents[session.secret] = "registered"
                      THEN session.secret ELSE 0)
  /\ session.client # 0 => loop[session.client] = "forwarding"

Counted ==
  /\ agentConns = Cardinality({a \in Agents : agents[a] # "gone"})
  /\ clientConns = Cardinality({s \in Sockets : loop[s] \in {"reading", "forwarding"}})
  /\ agentConns + clientConns <= MaxConnections

RelayInv ==
  /\ TypeOK /\ SessionKept /\ Counted /\ OneSocket
  /\ EventsSaid /\ InOrder(page.events) /\ DownInOrder
  /\ OnlyTexts /\ UpTyped /\ HeardTyped /\ UpOnce /\ HeardOnce

(***************************************************************************)
(* Sequences and numbers of elements.                                      *)
(***************************************************************************)

\* What EXCEPT, Append and Tail do, and a function on 1..n.
LEMMA Replaced ==
  ASSUME NEW S, NEW q \in Seq(S), NEW i \in DOMAIN q, NEW v \in S, NEW r,
         r = [q EXCEPT ![i] = v]
  PROVE  /\ r \in Seq(S) /\ Len(r) = Len(q) /\ DOMAIN r = DOMAIN q /\ r[i] = v
         /\ \A j \in DOMAIN q : j # i => r[j] = q[j]
  OBVIOUS

LEMMA Appended ==
  ASSUME NEW S, NEW q \in Seq(S), NEW v \in S, NEW r, r = Append(q, v)
  PROVE  /\ r \in Seq(S) /\ Len(q) \in Nat /\ Len(r) = Len(q) + 1
         /\ DOMAIN q = 1..Len(q) /\ DOMAIN r = 1..(Len(q) + 1)
         /\ \A j \in DOMAIN q : r[j] = q[j]
         /\ r[Len(q) + 1] = v
  OBVIOUS

LEMMA Shortened ==
  ASSUME NEW S, NEW q \in Seq(S), q # <<>>, NEW r, r = Tail(q)
  PROVE  /\ r \in Seq(S) /\ Len(q) \in Nat \ {0} /\ Len(r) = Len(q) - 1
         /\ Head(q) = q[1] /\ 1 \in DOMAIN q /\ Head(q) \in S
         /\ DOMAIN q = 1..Len(q)
         /\ \A j \in DOMAIN r : j + 1 \in DOMAIN q /\ j + 1 # 1 /\ r[j] = q[j + 1]
  OBVIOUS

LEMMA FunctionIsSeq ==
  ASSUME NEW S, NEW n \in Nat, NEW f \in [1..n -> S]
  PROVE  f \in Seq(S) /\ Len(f) = n /\ DOMAIN f = 1..n
  OBVIOUS

\* One element more or less in a set of numbers up to n.
LEMMA FiniteUpTo ==
  ASSUME NEW n \in Nat, NEW A, A \subseteq 1..n
  PROVE  IsFiniteSet(A) /\ Cardinality(A) \in Nat
  <1>1. IsFiniteSet(1..n)
    <2>1. 1 \in Int /\ n \in Int OBVIOUS
    <2> QED BY <2>1, FS_Interval
  <1>2. IsFiniteSet(A) BY <1>1, FS_Subset
  <1> QED BY <1>2, FS_CardinalityType

LEMMA OneMore ==
  ASSUME NEW n \in Nat, NEW A, A \subseteq 1..n, NEW x, x \notin A, NEW B,
         B = A \cup {x}
  PROVE  Cardinality(B) = Cardinality(A) + 1
  BY FiniteUpTo, FS_AddElement

LEMMA OneLess ==
  ASSUME NEW n \in Nat, NEW A, A \subseteq 1..n, NEW x \in A, NEW B, B = A \ {x}
  PROVE  Cardinality(B) = Cardinality(A) - 1
  BY FiniteUpTo, FS_RemoveElement

(***************************************************************************)
(* Types, the session and its slots.                                       *)
(***************************************************************************)

SlotAgents == {a \in Agents : agents[a] # "gone"}
SlotSockets == {s \in Sockets : loop[s] \in {"reading", "forwarding"}}

LEMMA Facts ==
  ASSUME TypeOK
  PROVE  /\ Len(agents) \in Nat /\ Agents = 1..Len(agents) /\ DOMAIN said = Agents
         /\ \A a \in Agents : agents[a] \in AgentState /\ said[a] \in Nat
         /\ Len(readyState) \in Nat /\ Sockets = 1..Len(readyState)
         /\ DOMAIN loop = Sockets /\ DOMAIN up = Sockets /\ DOMAIN down = Sockets
         /\ \A s \in Sockets : /\ readyState[s] \in SocketState
                               /\ loop[s] \in LoopState
                               /\ up[s] \in Seq(Frame) /\ down[s] \in Seq(Frame)
         /\ SlotAgents \subseteq 1..Len(agents)
         /\ SlotSockets \subseteq 1..Len(readyState)
  BY DEF TypeOK, AgentTypes, SocketTypes, Agents, Sockets, SlotAgents, SlotSockets

\* A frame is written to one socket.
LEMMA Writing ==
  ASSUME TypeOK, NEW s, NEW f \in Frame
  PROVE  /\ Written(s, f) \in Seq(Seq(Frame)) /\ Len(Written(s, f)) = Len(readyState)
         /\ \A t \in Sockets :
              Written(s, f)[t] = IF t = s /\ readyState[t] = "open"
                                 THEN Append(down[t], f) ELSE down[t]
  <1>1. PICK n \in Nat : n = Len(readyState) BY Facts
  <1>2. Sockets = 1..n BY <1>1, Facts
  <1>3. \A t \in 1..n : down[t] \in Seq(Frame) BY <1>2, Facts
  <1>4. \A t \in 1..n : Append(down[t], f) \in Seq(Frame) BY <1>3
  <1>5. PICK w : w = Written(s, f) OBVIOUS
  <1>6. w \in [1..n -> Seq(Frame)] BY <1>2, <1>3, <1>4, <1>5 DEF Written
  <1>7. w \in Seq(Seq(Frame)) /\ Len(w) = n BY <1>6, FunctionIsSeq
  <1> QED BY <1>1, <1>5, <1>7 DEF Written

\* The frames that the program writes.
LEMMA Frames ==
  /\ Paired \in Frame /\ Error \in Frame
  /\ \A a, n \in Nat : Text(a, n) \in Frame /\ Pair(a) \in Frame
  BY DEF Paired, Error, Text, Pair, Frame

Base == TypeOK /\ SessionKept /\ Counted /\ OneSocket

LEMMA BaseAgentAccepted == Base /\ AgentAccepted => Base'
  <1> SUFFICES ASSUME Base, AgentAccepted PROVE Base' OBVIOUS
  <1>1. TypeOK /\ SessionKept /\ Counted /\ OneSocket BY DEF Base
  <1>2. UNCHANGED <<session, expired, clientConns, readyState, loop, up, down, page,
                    direct, status, heard>>
    BY DEF AgentAccepted, socket, chat
  <1> DEFINE n == Len(agents)
  <1>3. /\ agents' \in Seq(AgentState) /\ n \in Nat /\ Len(agents') = n + 1
        /\ DOMAIN agents' = 1..(n + 1) /\ Agents = 1..n
        /\ \A a \in Agents : agents'[a] = agents[a]
        /\ agents'[n + 1] = "reading"
    BY <1>1, Appended DEF AgentAccepted, AgentState, TypeOK, AgentTypes, Agents
  <1>4. said' \in Seq(Nat) /\ Len(said') = n + 1
    BY <1>1, Appended DEF AgentAccepted, TypeOK, AgentTypes
  <1>5. SlotAgents' = SlotAgents \cup {n + 1} /\ n + 1 \notin SlotAgents
    BY <1>3 DEF SlotAgents, Agents
  <1>6. Cardinality(SlotAgents') = Cardinality(SlotAgents) + 1
    BY <1>1, <1>3, <1>5, Facts, OneMore
  <1>7. agentConns' = Cardinality(SlotAgents') /\ agentConns' \in Nat
    <2>1. agentConns' = agentConns + 1 BY DEF AgentAccepted
    <2>2. agentConns = Cardinality(SlotAgents) BY <1>1 DEF Counted, SlotAgents
    <2>3. agentConns \in Nat BY <1>1 DEF TypeOK, AgentTypes
    <2> QED BY <1>6, <2>1, <2>2, <2>3
  <1>8. TypeOK'
    BY <1>1, <1>2, <1>3, <1>4, <1>7
    DEF TypeOK, AgentTypes, SocketTypes, PageTypes, SessionTypes
  <1>9. Counted'
    <2>1. agentConns' + clientConns' <= MaxConnections
      BY <1>1, <1>2, RelayAssumption DEF AgentAccepted, Full, TypeOK, AgentTypes
    <2>2. clientConns' = Cardinality(SlotSockets') BY <1>1, <1>2 DEF Counted, SlotSockets, Sockets
    <2> QED BY <1>7, <2>1, <2>2 DEF Counted, SlotAgents, SlotSockets
  <1>10. SessionKept'
    <2>1. session.secret # 0 => session.secret \in Agents
      BY <1>1, <1>3 DEF TypeOK, SessionTypes
    <2> QED BY <1>1, <1>2, <1>3, <2>1 DEF SessionKept
  <1>11. OneSocket' BY <1>1, <1>2 DEF OneSocket, Sockets
  <1> QED BY <1>8, <1>9, <1>10, <1>11 DEF Base

LEMMA BaseAgentRegistered ==
  ASSUME Base, NEW a, AgentRegistered(a) PROVE Base'
  <1>1. TypeOK /\ SessionKept /\ Counted /\ OneSocket BY DEF Base
  <1>2. UNCHANGED <<said, agentConns, clientConns, readyState, loop, up, down, page,
                    direct, status, heard>>
    BY DEF AgentRegistered, socket, chat
  <1>3. a \in Agents /\ agents[a] = "reading" BY DEF AgentRegistered
  <1>4. /\ agents' \in Seq(AgentState) /\ Len(agents') = Len(agents)
        /\ DOMAIN agents' = Agents /\ agents'[a] = "registered"
        /\ \A b \in Agents : b # a => agents'[b] = agents[b]
    BY <1>1, <1>3, Replaced
    DEF AgentRegistered, AgentState, TypeOK, AgentTypes, Agents
  <1>5. session' = [secret |-> a, agent |-> a, client |-> 0] /\ expired' = FALSE
    BY DEF AgentRegistered
  <1>6. a \in 1..Len(agents) /\ Len(agents) \in Nat /\ Len(readyState) \in Nat
    BY <1>1, <1>3, Facts
  <1>7. TypeOK'
    <2>1. SessionTypes' BY <1>2, <1>4, <1>5, <1>6 DEF SessionTypes
    <2> QED BY <1>1, <1>2, <1>4, <1>5, <2>1 DEF TypeOK, AgentTypes, SocketTypes, PageTypes
  <1>8. SlotAgents' = SlotAgents BY <1>3, <1>4 DEF SlotAgents, Agents
  <1>9. Counted' BY <1>1, <1>2, <1>8 DEF Counted, SlotAgents, Sockets
  <1>10. SessionKept' BY <1>4, <1>5, <1>6 DEF SessionKept
  <1>11. OneSocket' BY <1>1, <1>2 DEF OneSocket, Sockets
  <1> QED BY <1>7, <1>9, <1>10, <1>11 DEF Base

LEMMA BaseAgentSays ==
  ASSUME Base, NEW a, AgentSays(a) PROVE Base'
  <1>1. TypeOK /\ SessionKept /\ Counted /\ OneSocket BY DEF Base
  <1>2. UNCHANGED <<agents, session, expired, agentConns, clientConns, loop, up,
                    readyState, page, direct, status, heard>>
    BY DEF AgentSays, chat
  <1>3. a \in Agents /\ said' = [said EXCEPT ![a] = said[a] + 1] BY DEF AgentSays
  <1>4. said[a] + 1 \in Nat /\ a \in DOMAIN said BY <1>1, <1>3, Facts
  <1>5. said' \in Seq(Nat) /\ Len(said') = Len(said) /\ said'[a] \in Nat
    BY <1>1, <1>3, <1>4, Replaced DEF TypeOK, AgentTypes
  <1>6. down' \in Seq(Seq(Frame)) /\ Len(down') = Len(readyState)
    <2>1. Text(a, said'[a]) \in Frame BY <1>1, <1>3, <1>5, Facts, Frames
    <2> QED BY <1>1, <2>1, Writing DEF AgentSays
  <1>7. TypeOK'
    BY <1>1, <1>2, <1>5, <1>6 DEF TypeOK, AgentTypes, SocketTypes, PageTypes, SessionTypes
  <1>8. Counted' /\ SessionKept' /\ OneSocket'
    BY <1>1, <1>2 DEF Counted, SessionKept, OneSocket, Agents, Sockets
  <1> QED BY <1>7, <1>8 DEF Base

LEMMA BaseAgentGone ==
  ASSUME Base, NEW a, AgentGone(a) PROVE Base'
  <1>1. TypeOK /\ SessionKept /\ Counted /\ OneSocket BY DEF Base
  <1>2. UNCHANGED <<said, expired, clientConns, loop, up, readyState, page, direct,
                    status, heard>>
    BY DEF AgentGone, chat
  <1>3. a \in Agents /\ agents[a] # "gone" BY DEF AgentGone
  <1>4. /\ agents' \in Seq(AgentState) /\ Len(agents') = Len(agents)
        /\ DOMAIN agents' = Agents /\ agents'[a] = "gone"
        /\ \A b \in Agents : b # a => agents'[b] = agents[b]
    BY <1>1, <1>3, Replaced
    DEF AgentGone, AgentState, TypeOK, AgentTypes, Agents
  <1>5. SlotAgents' = SlotAgents \ {a} /\ a \in SlotAgents
    BY <1>3, <1>4 DEF SlotAgents, Agents
  <1>6. Cardinality(SlotAgents') = Cardinality(SlotAgents) - 1
    BY <1>1, <1>5, Facts, OneLess
  <1>7. agentConns' = Cardinality(SlotAgents') /\ Cardinality(SlotAgents') \in Nat
    <2>1. agentConns' = Cardinality(SlotAgents')
      BY <1>1, <1>6 DEF AgentGone, Counted, SlotAgents
    <2>2. SlotAgents' \subseteq 1..Len(agents) /\ Len(agents) \in Nat
      BY <1>1, <1>5, Facts
    <2> QED BY <2>1, <2>2, FiniteUpTo
  <1>8. agentConns' <= agentConns /\ agentConns' \in Nat
    BY <1>1, <1>7 DEF AgentGone, TypeOK, AgentTypes
  <1>9. /\ session' \in [secret : 0..Len(agents), agent : 0..Len(agents),
                        client : 0..Len(readyState)]
        /\ session'.secret = session.secret /\ session'.client = session.client
        /\ session'.agent = (IF session.agent = a THEN 0 ELSE session.agent)
    <2>1. session \in [secret : 0..Len(agents), agent : 0..Len(agents),
                       client : 0..Len(readyState)]
      BY <1>1 DEF TypeOK, SessionTypes
    <2>2. 0 \in 0..Len(agents) BY <1>1, Facts
    <2>3. session' = (IF session.agent = a THEN [session EXCEPT !.agent = 0] ELSE session)
      BY DEF AgentGone, markAgentDisconnected
    <2> QED BY <2>1, <2>2, <2>3
  <1>10. down' \in Seq(Seq(Frame)) /\ Len(down') = Len(readyState)
    <2>1. CASE session.agent = a
      <3>1. down' = Written(session.client, Error)
        BY <2>1 DEF AgentGone, markAgentDisconnected
      <3> QED BY <1>1, <3>1, Writing, Frames
    <2>2. CASE session.agent # a
      <3>1. down' = down BY <2>2 DEF AgentGone, markAgentDisconnected
      <3> QED BY <1>1, <3>1 DEF TypeOK, SocketTypes
    <2> QED BY <2>1, <2>2
  <1>11. TypeOK'
    BY <1>1, <1>2, <1>4, <1>8, <1>9, <1>10
    DEF TypeOK, AgentTypes, SocketTypes, PageTypes, SessionTypes
  <1>12. Counted'
    <2>1. agentConns' + clientConns' <= MaxConnections
      BY <1>1, <1>2, <1>8, RelayAssumption DEF Counted, TypeOK, AgentTypes
    <2>2. clientConns' = Cardinality(SlotSockets')
      BY <1>1, <1>2 DEF Counted, SlotSockets, Sockets
    <2> QED BY <1>7, <2>1, <2>2 DEF Counted, SlotAgents, SlotSockets
  <1>13. SessionKept'
    <2>1. session.secret # 0 => session.secret \in Agents
      BY <1>1, Facts DEF TypeOK, SessionTypes
    <2>2. a # 0 BY <1>1, <1>3, Facts
    <2> QED BY <1>1, <1>2, <1>3, <1>4, <1>9, <2>1, <2>2 DEF SessionKept
  <1>14. OneSocket' BY <1>1, <1>2 DEF OneSocket, Sockets
  <1> QED BY <1>11, <1>12, <1>13, <1>14 DEF Base

LEMMA BaseExpire == Base /\ Expire => Base'
  BY DEF Base, Expire, socket, chat, TypeOK, AgentTypes, SocketTypes, PageTypes,
     SessionTypes, SessionKept, Counted, OneSocket, Agents, Sockets

LEMMA BasePairRead ==
  ASSUME Base, NEW s, PairRead(s) PROVE Base'
  <1>1. TypeOK /\ SessionKept /\ Counted /\ OneSocket BY DEF Base
  <1>2. UNCHANGED <<agents, said, expired, agentConns, readyState, page, direct,
                    status, heard>>
    BY DEF PairRead, chat
  <1>3. s \in Sockets /\ loop[s] = "reading" /\ up[s] # <<>> BY DEF PairRead
  <1>4. /\ s \in 1..Len(readyState) /\ Len(readyState) \in Nat
        /\ s \in DOMAIN loop /\ s \in DOMAIN up /\ up[s] \in Seq(Frame)
        /\ SlotSockets \subseteq 1..Len(readyState)
    BY <1>1, <1>3, Facts
  <1>5. /\ loop \in Seq(LoopState) /\ up \in Seq(Seq(Frame))
        /\ Len(loop) = Len(readyState) /\ Len(up) = Len(readyState)
        /\ DOMAIN loop = Sockets
        /\ session \in [secret : 0..Len(agents), agent : 0..Len(agents),
                        client : 0..Len(readyState)]
        /\ clientConns \in Nat /\ clientConns = Cardinality(SlotSockets)
        /\ agentConns \in Nat /\ agentConns + clientConns <= MaxConnections
    BY <1>1, Facts
    DEF TypeOK, SocketTypes, SessionTypes, AgentTypes, Counted, SlotSockets
  <1>6. /\ s \notin {0} /\ Tail(up[s]) \in Seq(Frame) /\ <<>> \in Seq(Frame)
    BY <1>3, <1>4, Shortened
  <1>7. /\ up' \in Seq(Seq(Frame)) /\ Len(up') = Len(readyState)
        /\ down' \in Seq(Seq(Frame)) /\ Len(down') = Len(readyState)
    <2>1. \A f \in Frame : /\ Written(s, f) \in Seq(Seq(Frame))
                          /\ Len(Written(s, f)) = Len(readyState)
      BY <1>1, Writing
    <2>2. \A v \in Seq(Frame) : /\ [up EXCEPT ![s] = v] \in Seq(Seq(Frame))
                              /\ Len([up EXCEPT ![s] = v]) = Len(up)
      BY <1>4, <1>5, Replaced
    <2>3. up' = [up EXCEPT ![s] = Tail(up[s])] \/ up' = [up EXCEPT ![s] = <<>>]
      BY DEF PairRead
    <2>4. down' = Written(s, Paired) \/ down' = Written(s, Error) BY DEF PairRead
    <2> QED BY <1>5, <1>6, <2>1, <2>2, <2>3, <2>4, Frames
  <1>8. ASSUME NEW v \in LoopState, loop' = [loop EXCEPT ![s] = v]
        PROVE  /\ loop' \in Seq(LoopState) /\ Len(loop') = Len(readyState)
               /\ loop'[s] = v /\ \A t \in Sockets : t # s => loop'[t] = loop[t]
    BY <1>4, <1>5, <1>8, Replaced
  <1>9. ASSUME loop' \in Seq(LoopState), Len(loop') = Len(readyState), SessionTypes',
               clientConns' \in Nat
        PROVE  TypeOK'
    BY <1>1, <1>2, <1>7, <1>9 DEF TypeOK, AgentTypes, SocketTypes, PageTypes
  <1>10. SlotAgents' = SlotAgents BY <1>2 DEF SlotAgents, Agents
  <1>11. agentConns = Cardinality(SlotAgents) BY <1>1 DEF Counted, SlotAgents
  <1>12. CASE /\ session' = [session EXCEPT !.client = s]
              /\ loop' = [loop EXCEPT ![s] = "forwarding"]
              /\ clientConns' = clientConns
    <2>1. "forwarding" \in LoopState BY DEF LoopState
    <2>2. /\ loop' \in Seq(LoopState) /\ Len(loop') = Len(readyState)
          /\ loop'[s] = "forwarding" /\ \A t \in Sockets : t # s => loop'[t] = loop[t]
      BY <1>8, <1>12, <2>1
    <2>3. SessionTypes'
      <3>1. s \in 0..Len(readyState) BY <1>4
      <3>2. session' \in [secret : 0..Len(agents), agent : 0..Len(agents),
                          client : 0..Len(readyState)]
        BY <1>5, <1>12, <3>1
      <3> QED BY <1>2, <3>2 DEF SessionTypes
    <2>4. TypeOK' BY <1>5, <1>9, <1>12, <2>2, <2>3
    <2>5. SlotSockets' = SlotSockets BY <1>2, <1>3, <2>2 DEF SlotSockets, Sockets
    <2>6. Counted'
      BY <1>2, <1>5, <1>10, <1>11, <1>12, <2>5 DEF Counted, SlotAgents, SlotSockets
    <2>7. SessionKept'
      <3>1. /\ session'.secret = session.secret /\ session'.agent = session.agent
            /\ session'.client = s
        BY <1>5, <1>12
      <3> QED BY <1>1, <1>2, <2>2, <3>1 DEF SessionKept
    <2>8. OneSocket'
      <3>1. readyState[s] # "connecting" BY <1>1, <1>3 DEF OneSocket
      <3> QED BY <1>1, <1>2, <2>2, <3>1 DEF OneSocket, Sockets
    <2> QED BY <2>4, <2>6, <2>7, <2>8 DEF Base
  <1>13. CASE /\ session' = session
              /\ loop' = [loop EXCEPT ![s] = "gone"]
              /\ clientConns' = clientConns - 1
    <2>1. "gone" \in LoopState BY DEF LoopState
    <2>2. /\ loop' \in Seq(LoopState) /\ Len(loop') = Len(readyState)
          /\ loop'[s] = "gone" /\ \A t \in Sockets : t # s => loop'[t] = loop[t]
      BY <1>8, <1>13, <2>1
    <2>3. SlotSockets' = SlotSockets \ {s} /\ s \in SlotSockets
      BY <1>2, <1>3, <2>2 DEF SlotSockets, Sockets
    <2>4. Cardinality(SlotSockets') = Cardinality(SlotSockets) - 1
      BY <1>4, <2>3, OneLess
    <2>5. clientConns' = Cardinality(SlotSockets') BY <1>5, <1>13, <2>4
    <2>6. Cardinality(SlotSockets') \in Nat
      <3>1. SlotSockets' \subseteq 1..Len(readyState) BY <1>4, <2>3
      <3> QED BY <1>4, <3>1, FiniteUpTo
    <2>7. SessionTypes' BY <1>1, <1>2, <1>13 DEF TypeOK, SessionTypes
    <2>8. TypeOK' BY <1>9, <2>2, <2>5, <2>6, <2>7
    <2>9. Counted'
      <3>1. agentConns + clientConns' <= MaxConnections
        <4>1. MaxConnections \in Nat BY RelayAssumption
        <4>2. /\ agentConns \in Nat /\ clientConns \in Nat
              /\ agentConns + clientConns <= MaxConnections
          BY <1>5
        <4>3. clientConns' = clientConns - 1 BY <1>13
        <4> QED BY <4>1, <4>2, <4>3
      <3> QED BY <1>2, <1>10, <1>11, <2>5, <3>1 DEF Counted, SlotAgents, SlotSockets
    <2>10. SessionKept'
      <3>1. session.client # 0 => session.client # s /\ session.client \in Sockets
        <4>1. session.client # 0 => session.client \in Sockets
          BY <1>1, <1>5, Facts
        <4> QED BY <1>1, <1>3, <4>1 DEF SessionKept
      <3> QED BY <1>1, <1>2, <1>13, <2>2, <3>1 DEF SessionKept
    <2>11. OneSocket'
      <3>1. readyState[s] # "connecting" BY <1>1, <1>3 DEF OneSocket
      <3> QED BY <1>1, <1>2, <2>2, <3>1 DEF OneSocket, Sockets
    <2> QED BY <2>8, <2>9, <2>10, <2>11 DEF Base
  <1> QED BY <1>12, <1>13 DEF PairRead

LEMMA BaseForwardToAgent ==
  ASSUME Base, NEW s, ForwardToAgent(s) PROVE Base'
  <1>1. TypeOK /\ SessionKept /\ Counted /\ OneSocket BY DEF Base
  <1>2. UNCHANGED <<agents, said, session, expired, agentConns, clientConns, loop,
                    down, readyState, page, direct, status>>
    BY DEF ForwardToAgent, server
  <1>3. s \in DOMAIN up /\ up[s] \in Seq(Frame) /\ up[s] # <<>>
        /\ up \in Seq(Seq(Frame)) /\ Len(up) = Len(readyState)
    BY <1>1, Facts DEF ForwardToAgent, TypeOK, SocketTypes
  <1>4. Tail(up[s]) \in Seq(Frame) /\ Head(up[s]) \in Frame BY <1>3, Shortened
  <1>5. up' \in Seq(Seq(Frame)) /\ Len(up') = Len(readyState)
    BY <1>3, <1>4, Replaced DEF ForwardToAgent
  <1>6. heard' \in Seq(Heard)
    <2>1. heard \in Seq(Heard) /\ session.agent \in Nat
      BY <1>1, Facts DEF TypeOK, PageTypes, SessionTypes
    <2>2. [to |-> session.agent, page |-> Head(up[s]).agent, text |-> Head(up[s]).text]
            \in Heard
      BY <1>4, <2>1 DEF Frame, Heard
    <2> QED BY <2>1, <2>2 DEF ForwardToAgent
  <1>7. TypeOK'
    BY <1>1, <1>2, <1>5, <1>6 DEF TypeOK, AgentTypes, SocketTypes, PageTypes, SessionTypes
  <1>8. Counted' /\ SessionKept' /\ OneSocket'
    BY <1>1, <1>2 DEF Counted, SessionKept, OneSocket, Agents, Sockets
  <1> QED BY <1>7, <1>8 DEF Base

LEMMA BaseClientGone ==
  ASSUME Base, NEW s, ClientGone(s) PROVE Base'
  <1>1. TypeOK /\ SessionKept /\ Counted /\ OneSocket BY DEF Base
  <1>2. UNCHANGED <<agents, said, expired, agentConns, down, readyState, page,
                    direct, status, heard>>
    BY DEF ClientGone, chat
  <1>3. /\ s \in Sockets /\ loop[s] \in {"reading", "forwarding"}
        /\ readyState[s] \in {"closing", "closed"}
        /\ loop' = [loop EXCEPT ![s] = "gone"] /\ up' = [up EXCEPT ![s] = <<>>]
        /\ clientConns' = clientConns - 1
        /\ session' = [session EXCEPT !.client = IF session.client = s THEN 0
                                                 ELSE session.client]
    BY DEF ClientGone, markClientDisconnected
  <1>4. /\ s \in 1..Len(readyState) /\ Len(readyState) \in Nat
        /\ s \in DOMAIN loop /\ s \in DOMAIN up
        /\ SlotSockets \subseteq 1..Len(readyState)
        /\ loop \in Seq(LoopState) /\ up \in Seq(Seq(Frame))
        /\ Len(loop) = Len(readyState) /\ Len(up) = Len(readyState)
        /\ DOMAIN loop = Sockets
        /\ clientConns \in Nat /\ clientConns = Cardinality(SlotSockets)
        /\ agentConns \in Nat /\ agentConns + clientConns <= MaxConnections
    BY <1>1, <1>3, Facts
    DEF TypeOK, SocketTypes, AgentTypes, Counted, SlotSockets
  <1>5. /\ loop' \in Seq(LoopState) /\ Len(loop') = Len(readyState)
        /\ loop'[s] = "gone" /\ \A t \in Sockets : t # s => loop'[t] = loop[t]
    BY <1>3, <1>4, Replaced DEF LoopState
  <1>6. up' \in Seq(Seq(Frame)) /\ Len(up') = Len(readyState)
    <2>1. <<>> \in Seq(Frame) OBVIOUS
    <2> QED BY <1>3, <1>4, <2>1, Replaced
  <1>7. /\ session' \in [secret : 0..Len(agents), agent : 0..Len(agents),
                        client : 0..Len(readyState)]
        /\ session'.secret = session.secret /\ session'.agent = session.agent
        /\ session'.client = (IF session.client = s THEN 0 ELSE session.client)
    <2>1. session \in [secret : 0..Len(agents), agent : 0..Len(agents),
                       client : 0..Len(readyState)]
      BY <1>1 DEF TypeOK, SessionTypes
    <2>2. 0 \in 0..Len(readyState) BY <1>4
    <2> QED BY <1>3, <2>1, <2>2
  <1>8. SlotSockets' = SlotSockets \ {s} /\ s \in SlotSockets
    BY <1>2, <1>3, <1>5 DEF SlotSockets, Sockets
  <1>9. Cardinality(SlotSockets') = Cardinality(SlotSockets) - 1
    BY <1>4, <1>8, OneLess
  <1>10. clientConns' = Cardinality(SlotSockets') BY <1>3, <1>4, <1>9
  <1>11. clientConns' \in Nat
    <2>1. SlotSockets' \subseteq 1..Len(readyState) BY <1>4, <1>8
    <2>2. Cardinality(SlotSockets') \in Nat BY <1>4, <2>1, FiniteUpTo
    <2> QED BY <1>10, <2>2
  <1>12. TypeOK'
    BY <1>1, <1>2, <1>5, <1>6, <1>7, <1>11
    DEF TypeOK, AgentTypes, SocketTypes, PageTypes, SessionTypes
  <1>13. Counted'
    <2>1. agentConns + clientConns' <= MaxConnections
      <3>1. MaxConnections \in Nat BY RelayAssumption
      <3> QED BY <1>3, <1>4, <3>1
    <2>2. agentConns' = Cardinality(SlotAgents')
      BY <1>1, <1>2 DEF Counted, SlotAgents, Agents
    <2> QED BY <1>2, <1>10, <2>1, <2>2 DEF Counted, SlotAgents, SlotSockets
  <1>14. SessionKept'
    <2>1. session.client # 0 => session.client \in Sockets
      BY <1>1, Facts DEF TypeOK, SessionTypes
    <2> QED BY <1>1, <1>2, <1>5, <1>7, <2>1 DEF SessionKept
  <1>15. OneSocket'
    <2>1. readyState[s] # "connecting" BY <1>3
    <2> QED BY <1>1, <1>2, <1>5, <2>1 DEF OneSocket, Sockets
  <1> QED BY <1>12, <1>13, <1>14, <1>15 DEF Base

\* A socket more; those of before keep what they have.
LEMMA Connecting ==
  ASSUME TypeOK, NEW old, doConnect(old)
  PROVE  LET n == Len(readyState) IN
         /\ n \in Nat /\ Sockets = 1..n /\ Sockets' = 1..(n + 1)
         /\ readyState' \in Seq(SocketState) /\ Len(readyState') = n + 1
         /\ loop' \in Seq(LoopState) /\ Len(loop') = n + 1
         /\ up' \in Seq(Seq(Frame)) /\ Len(up') = n + 1
         /\ down' \in Seq(Seq(Frame)) /\ Len(down') = n + 1
         /\ \A s \in Sockets :
              /\ loop'[s] = loop[s] /\ up'[s] = up[s] /\ down'[s] = down[s]
              /\ readyState'[s] = IF s \in old /\ readyState[s] # "closed"
                                  THEN "closing" ELSE readyState[s]
         /\ readyState'[n + 1] = "connecting" /\ loop'[n + 1] = "none"
         /\ up'[n + 1] = <<>> /\ down'[n + 1] = <<>>
  <1> DEFINE n == Len(readyState)
  <1>1. n \in Nat /\ Sockets = 1..n BY Facts
  <1>2. PICK q : q = [s \in 1..n |->
                       IF s \in old /\ readyState[s] # "closed" THEN "closing"
                       ELSE readyState[s]]
    OBVIOUS
  <1>3. q \in [1..n -> SocketState] BY <1>1, <1>2, Facts DEF SocketState
  <1>4. q \in Seq(SocketState) /\ Len(q) = n /\ DOMAIN q = 1..n
    BY <1>1, <1>3, FunctionIsSeq
  <1>5. readyState' = Append(q, "connecting") BY <1>1, <1>2 DEF doConnect
  <1>6. /\ readyState' \in Seq(SocketState) /\ Len(readyState') = n + 1
        /\ DOMAIN readyState' = 1..(n + 1) /\ readyState'[n + 1] = "connecting"
        /\ \A s \in 1..n : readyState'[s] = q[s]
    BY <1>4, <1>5, Appended DEF SocketState
  <1>7. /\ loop' \in Seq(LoopState) /\ Len(loop') = n + 1
        /\ loop'[n + 1] = "none" /\ \A s \in 1..n : loop'[s] = loop[s]
    BY Appended DEF doConnect, LoopState, TypeOK, SocketTypes
  <1>8. /\ up' \in Seq(Seq(Frame)) /\ Len(up') = n + 1
        /\ up'[n + 1] = <<>> /\ \A s \in 1..n : up'[s] = up[s]
    <2>1. <<>> \in Seq(Frame) OBVIOUS
    <2> QED BY <2>1, Appended DEF doConnect, TypeOK, SocketTypes
  <1>9. /\ down' \in Seq(Seq(Frame)) /\ Len(down') = n + 1
        /\ down'[n + 1] = <<>> /\ \A s \in 1..n : down'[s] = down[s]
    <2>1. <<>> \in Seq(Frame) OBVIOUS
    <2> QED BY <2>1, Appended DEF doConnect, TypeOK, SocketTypes
  <1>10. \A s \in 1..n : readyState'[s] = IF s \in old /\ readyState[s] # "closed"
                                          THEN "closing" ELSE readyState[s]
    BY <1>2, <1>6
  <1> QED BY <1>1, <1>6, <1>7, <1>8, <1>9, <1>10 DEF Sockets

LEMMA BaseConnecting ==
  ASSUME Base, NEW old, doConnect(old), UNCHANGED <<server, heard>>,
         page' \in Page, page'.ws = Len(readyState) + 1, page'.timer = FALSE,
         direct' \in Status, status' \in Status,
         old = Sockets \/ page.timer
  PROVE  Base'
  <1> DEFINE n == Len(readyState)
  <1>1. TypeOK /\ SessionKept /\ Counted /\ OneSocket BY DEF Base
  <1>2. UNCHANGED <<agents, said, session, expired, agentConns, clientConns>>
    BY DEF server
  <1>3. /\ n \in Nat /\ Sockets = 1..n /\ Sockets' = 1..(n + 1)
        /\ readyState' \in Seq(SocketState) /\ Len(readyState') = n + 1
        /\ loop' \in Seq(LoopState) /\ Len(loop') = n + 1
        /\ up' \in Seq(Seq(Frame)) /\ Len(up') = n + 1
        /\ down' \in Seq(Seq(Frame)) /\ Len(down') = n + 1
        /\ \A s \in Sockets :
             /\ loop'[s] = loop[s]
             /\ readyState'[s] = IF s \in old /\ readyState[s] # "closed"
                                 THEN "closing" ELSE readyState[s]
        /\ readyState'[n + 1] = "connecting" /\ loop'[n + 1] = "none"
    BY <1>1, Connecting
  <1>4. SessionTypes'
    <2>1. session \in [secret : 0..Len(agents), agent : 0..Len(agents), client : 0..n]
      BY <1>1 DEF TypeOK, SessionTypes
    <2>2. 0..n \subseteq 0..Len(readyState') BY <1>3
    <2>3. session \in [secret : 0..Len(agents), agent : 0..Len(agents),
                       client : 0..Len(readyState')]
      BY <2>1, <2>2
    <2> QED BY <1>2, <2>3 DEF SessionTypes
  <1>5. TypeOK'
    <2>1. SocketTypes' BY <1>3 DEF SocketTypes
    <2>2. PageTypes' BY <1>1 DEF TypeOK, PageTypes
    <2>3. AgentTypes' BY <1>1, <1>2 DEF TypeOK, AgentTypes
    <2> QED BY <1>4, <2>1, <2>2, <2>3 DEF TypeOK
  <1>6. SlotSockets' = SlotSockets
    <2>1. SlotSockets' = {s \in 1..(n + 1) : loop'[s] \in {"reading", "forwarding"}}
      BY <1>3 DEF SlotSockets
    <2>2. \A s \in 1..(n + 1) : s \in 1..n \/ s = n + 1 BY <1>3
    <2>3. 1..n \subseteq 1..(n + 1) BY <1>3
    <2> QED BY <1>3, <2>1, <2>2, <2>3 DEF SlotSockets
  <1>7. Counted' BY <1>1, <1>2, <1>6 DEF Counted, SlotSockets, Agents
  <1>8. SessionKept'
    <2>1. session.client # 0 => session.client \in Sockets
      BY <1>1, Facts DEF TypeOK, SessionTypes
    <2> QED BY <1>1, <1>2, <1>3, <2>1 DEF SessionKept
  <1>9. OneSocket'
    <2>1. ASSUME NEW s \in Sockets PROVE readyState'[s] \notin {"connecting", "open"}
      BY <1>1, <1>3 DEF OneSocket
    <2> QED BY <1>3, <2>1 DEF OneSocket
  <1> QED BY <1>5, <1>7, <1>8, <1>9 DEF Base

LEMMA BaseOpenPage ==
  ASSUME Base, NEW secret \in AgentIds, OpenPage(secret) PROVE Base'
  <1>1. TypeOK BY DEF Base
  <1>2. secret \in Nat BY <1>1, Facts DEF OpenPage
  <1>3. PICK k \in Nat : k = page.number + 1 BY <1>1 DEF TypeOK, PageTypes, Page
  <1>4. PICK w \in Nat : w = Len(readyState') /\ w = Len(readyState) + 1
    BY <1>1, Connecting DEF OpenPage
  <1>5. page' = [NoPage EXCEPT !.number = k, !.secret = secret,
                               !.status = "connecting", !.ws = w]
    BY <1>3, <1>4 DEF OpenPage
  <1>6. page' \in Page /\ page'.ws = w /\ page'.timer = FALSE
    <2>1. <<>> \in Seq(Frame) OBVIOUS
    <2> QED BY <1>2, <1>5, <2>1 DEF NoPage, Page, Status
  <1>7. direct' \in Status /\ status' \in Status BY DEF OpenPage, Status
  <1>8. doConnect(Sockets) /\ UNCHANGED <<server, heard>> BY DEF OpenPage
  <1> QED BY <1>4, <1>6, <1>7, <1>8, BaseConnecting

LEMMA BaseReconnect == Base /\ Reconnect => Base'
  <1> SUFFICES ASSUME Base, Reconnect PROVE Base' OBVIOUS
  <1>1. TypeOK BY DEF Base
  <1>2. PICK w \in Nat : w = Len(readyState') /\ w = Len(readyState) + 1
    BY <1>1, Connecting DEF Reconnect
  <1>3. page' = [page EXCEPT !.timer = FALSE, !.status = "connecting", !.ws = w]
    BY <1>2 DEF Reconnect
  <1>4. page' \in Page /\ page'.ws = w /\ page'.timer = FALSE
    BY <1>1, <1>3 DEF TypeOK, PageTypes, Page, Status
  <1>5. direct' \in Status /\ status' \in Status
    BY <1>1 DEF Reconnect, Status, TypeOK, PageTypes
  <1>6. doConnect({}) /\ UNCHANGED <<server, heard>> /\ page.timer BY DEF Reconnect
  <1> QED BY <1>2, <1>4, <1>5, <1>6, BaseConnecting

LEMMA BaseOpened ==
  ASSUME Base, NEW s, Opened(s) PROVE Base'
  <1>1. TypeOK /\ SessionKept /\ Counted /\ OneSocket BY DEF Base
  <1>2. UNCHANGED <<agents, said, session, expired, agentConns, page, direct, status,
                    heard>>
    BY DEF Opened, chat
  <1>3. s \in Sockets /\ readyState[s] = "connecting" /\ loop[s] = "none"
    BY <1>1 DEF Opened, OneSocket
  <1>4. /\ s \in 1..Len(readyState) /\ Len(readyState) \in Nat
        /\ s \in DOMAIN readyState
        /\ s \in DOMAIN loop /\ s \in DOMAIN up /\ s \in DOMAIN down
        /\ SlotSockets \subseteq 1..Len(readyState)
        /\ loop \in Seq(LoopState) /\ up \in Seq(Seq(Frame))
        /\ down \in Seq(Seq(Frame)) /\ Len(down) = Len(readyState)
        /\ readyState \in Seq(SocketState)
        /\ Len(loop) = Len(readyState) /\ Len(up) = Len(readyState)
        /\ DOMAIN loop = Sockets
        /\ clientConns \in Nat /\ clientConns = Cardinality(SlotSockets)
        /\ agentConns \in Nat /\ agentConns + clientConns <= MaxConnections
    BY <1>1, <1>3, Facts
    DEF TypeOK, SocketTypes, AgentTypes, Counted, SlotSockets, Sockets
  <1>5. /\ readyState' \in Seq(SocketState) /\ Len(readyState') = Len(readyState)
        /\ DOMAIN readyState' = Sockets /\ readyState'[s] = "open"
        /\ \A t \in Sockets : t # s => readyState'[t] = readyState[t]
    <2>1. "open" \in SocketState BY DEF SocketState
    <2> QED BY <1>4, <2>1, Replaced DEF Opened, Sockets
  <1>6. PICK v \in {"reading", "gone"} : v = IF Full THEN "gone" ELSE "reading"
    OBVIOUS
  <1>7. /\ loop' \in Seq(LoopState) /\ Len(loop') = Len(readyState)
        /\ loop'[s] = v /\ \A t \in Sockets : t # s => loop'[t] = loop[t]
    <2>1. v \in LoopState BY <1>6 DEF LoopState
    <2>2. loop' = [loop EXCEPT ![s] = v] BY <1>6 DEF Opened
    <2> QED BY <1>4, <2>1, <2>2, Replaced
  <1>8. up' \in Seq(Seq(Frame)) /\ Len(up') = Len(readyState)
    <2>1. Pair(page.secret) \in Frame
      BY <1>1, Frames DEF TypeOK, PageTypes, Page
    <2>2. PICK q \in Seq(Frame) : q = IF Full THEN <<>> ELSE <<Pair(page.secret)>>
      <3>1. <<>> \in Seq(Frame) /\ <<Pair(page.secret)>> \in Seq(Frame) BY <2>1
      <3> QED BY <3>1
    <2>3. up' = [up EXCEPT ![s] = q] BY <2>2 DEF Opened
    <2> QED BY <1>4, <2>2, <2>3, Replaced
  <1>9. down' \in Seq(Seq(Frame)) /\ Len(down') = Len(readyState)
    <2>1. PICK q \in Seq(Frame) : q = IF Full THEN <<Error>> ELSE <<>>
      <3>1. <<>> \in Seq(Frame) /\ <<Error>> \in Seq(Frame) BY Frames
      <3> QED BY <3>1
    <2>2. down' = [down EXCEPT ![s] = q] BY <2>1 DEF Opened
    <2> QED BY <1>4, <2>1, <2>2, Replaced
  <1>10. clientConns' = Cardinality(SlotSockets')
    <2>1. CASE Full
      <3>1. SlotSockets' = SlotSockets
        BY <1>3, <1>5, <1>6, <1>7, <2>1 DEF SlotSockets, Sockets
      <3> QED BY <1>4, <2>1, <3>1 DEF Opened
    <2>2. CASE ~ Full
      <3>1. SlotSockets' = SlotSockets \cup {s} /\ s \notin SlotSockets
        BY <1>3, <1>5, <1>6, <1>7, <2>2 DEF SlotSockets, Sockets
      <3>2. Cardinality(SlotSockets') = Cardinality(SlotSockets) + 1
        BY <1>4, <3>1, OneMore
      <3>3. clientConns' = clientConns + 1 BY <2>2 DEF Opened
      <3> QED BY <1>4, <3>2, <3>3
    <2> QED BY <2>1, <2>2
  <1>11. clientConns' \in Nat BY <1>4 DEF Opened
  <1>12. TypeOK'
    <2>1. SocketTypes' BY <1>5, <1>7, <1>8, <1>9 DEF SocketTypes
    <2>2. SessionTypes' BY <1>1, <1>2, <1>5 DEF TypeOK, SessionTypes
    <2> QED BY <1>1, <1>2, <1>11, <2>1, <2>2 DEF TypeOK, AgentTypes, PageTypes
  <1>13. Counted'
    <2>1. agentConns + clientConns' <= MaxConnections
      <3>1. MaxConnections \in Nat BY RelayAssumption
      <3> QED BY <1>4, <3>1 DEF Opened, Full
    <2>2. agentConns' = Cardinality(SlotAgents')
      BY <1>1, <1>2 DEF Counted, SlotAgents, Agents
    <2> QED BY <1>2, <1>10, <2>1, <2>2 DEF Counted, SlotAgents, SlotSockets
  <1>14. SessionKept'
    <2>1. session.client # 0 => session.client \in Sockets
      BY <1>1, Facts DEF TypeOK, SessionTypes
    <2> QED BY <1>1, <1>2, <1>3, <1>7, <2>1 DEF SessionKept
  <1>15. OneSocket' BY <1>1, <1>2, <1>3, <1>5, <1>7 DEF OneSocket, Sockets
  <1> QED BY <1>12, <1>13, <1>14, <1>15 DEF Base

LEMMA BaseReceived ==
  ASSUME Base, NEW s, Received(s) PROVE Base'
  <1>1. TypeOK /\ SessionKept /\ Counted /\ OneSocket BY DEF Base
  <1>2. UNCHANGED <<agents, said, session, expired, agentConns, clientConns, loop, up,
                    readyState, direct, heard>>
    BY DEF Received, server
  <1>3. /\ s \in DOMAIN down /\ down[s] \in Seq(Frame) /\ down[s] # <<>>
        /\ down \in Seq(Seq(Frame)) /\ Len(down) = Len(readyState)
    BY <1>1, Facts DEF Received, TypeOK, SocketTypes
  <1>4. Tail(down[s]) \in Seq(Frame) /\ Head(down[s]) \in Frame BY <1>3, Shortened
  <1>5. down' \in Seq(Seq(Frame)) /\ Len(down') = Len(readyState)
    BY <1>3, <1>4, Replaced DEF Received
  <1>6. /\ page' \in Page /\ page'.ws = page.ws /\ page'.timer = page.timer
        /\ status' \in Status
    <2>1. page \in Page /\ status \in Status BY <1>1 DEF TypeOK, PageTypes
    <2>2. CASE page' = [page EXCEPT !.status = "connected"] /\ status' \in {status, "connected"}
      BY <2>1, <2>2 DEF Page, Status
    <2>3. CASE page' = [page EXCEPT !.events = Append(page.events, Head(down[s]))]
               /\ status' = status
      <3>1. PICK q \in Seq(Frame) : q = Append(page.events, Head(down[s]))
        <4>1. page.events \in Seq(Frame) BY <2>1 DEF Page
        <4>2. Append(page.events, Head(down[s])) \in Seq(Frame) BY <1>4, <4>1
        <4> QED BY <4>2
      <3> QED BY <2>1, <2>3, <3>1 DEF Page
    <2>4. CASE UNCHANGED <<page, status>> BY <2>1, <2>4
    <2> QED BY <2>2, <2>3, <2>4 DEF Received
  <1>7. TypeOK'
    BY <1>1, <1>2, <1>5, <1>6 DEF TypeOK, AgentTypes, SocketTypes, PageTypes, SessionTypes
  <1>8. Counted' /\ SessionKept' /\ OneSocket'
    BY <1>1, <1>2, <1>6 DEF Counted, SessionKept, OneSocket, Agents, Sockets
  <1> QED BY <1>7, <1>8 DEF Base

LEMMA BaseDropped ==
  ASSUME Base, NEW s, Dropped(s) PROVE Base'
  <1>1. TypeOK /\ SessionKept /\ Counted /\ OneSocket BY DEF Base
  <1>2. UNCHANGED <<agents, said, session, expired, agentConns, clientConns, loop, up,
                    direct, heard>>
    BY DEF Dropped, server
  <1>3. /\ s \in Sockets /\ readyState[s] # "closed"
        /\ s \in DOMAIN down /\ s \in DOMAIN readyState
        /\ down \in Seq(Seq(Frame)) /\ Len(down) = Len(readyState)
        /\ readyState \in Seq(SocketState)
    BY <1>1, Facts DEF Dropped, TypeOK, SocketTypes, Sockets
  <1>4. down' \in Seq(Seq(Frame)) /\ Len(down') = Len(readyState)
    <2>1. <<>> \in Seq(Frame) OBVIOUS
    <2> QED BY <1>3, <2>1, Replaced DEF Dropped
  <1>5. /\ readyState' \in Seq(SocketState) /\ Len(readyState') = Len(readyState)
        /\ DOMAIN readyState' = Sockets /\ readyState'[s] = "closed"
        /\ \A t \in Sockets : t # s => readyState'[t] = readyState[t]
    <2>1. "closed" \in SocketState BY DEF SocketState
    <2> QED BY <1>3, <2>1, Replaced DEF Dropped, Sockets
  <1>6. /\ page' \in Page /\ page'.ws = page.ws /\ status' \in Status
        /\ (readyState[s] = "closing" => page'.timer = page.timer)
    <2>1. page \in Page /\ status \in Status BY <1>1 DEF TypeOK, PageTypes
    <2>2. CASE readyState[s] = "closing" BY <2>1, <2>2 DEF Dropped
    <2>3. CASE readyState[s] # "closing"
      <3>1. page' = [page EXCEPT !.status = "reconnecting", !.timer = TRUE]
        BY <2>3 DEF Dropped
      <3>2. status' \in Status BY <2>1, <2>3 DEF Dropped, Status
      <3> QED BY <2>1, <2>3, <3>1, <3>2 DEF Page, Status
    <2> QED BY <2>2, <2>3
  <1>7. TypeOK'
    <2>1. SocketTypes' BY <1>1, <1>2, <1>4, <1>5 DEF TypeOK, SocketTypes
    <2>2. SessionTypes' BY <1>1, <1>2, <1>5 DEF TypeOK, SessionTypes
    <2> QED BY <1>1, <1>2, <1>6, <2>1, <2>2 DEF TypeOK, AgentTypes, PageTypes
  <1>8. Counted' /\ SessionKept'
    BY <1>1, <1>2, <1>5 DEF Counted, SessionKept, Agents, Sockets
  <1>9. OneSocket'
    <2>1. CASE readyState[s] = "closing"
      BY <1>1, <1>2, <1>5, <1>6, <2>1 DEF OneSocket, Sockets
    <2>2. CASE readyState[s] # "closing"
      <3>1. readyState[s] \in {"connecting", "open"}
        BY <1>1, <1>3, <2>2, Facts DEF SocketState
      <3>2. s = page.ws BY <1>1, <1>3, <3>1 DEF OneSocket
      <3>3. ASSUME NEW t \in Sockets PROVE readyState'[t] \notin {"connecting", "open"}
        BY <1>1, <1>5, <3>2 DEF OneSocket
      <3> QED BY <1>5, <3>3 DEF OneSocket, Sockets
    <2> QED BY <2>1, <2>2
  <1> QED BY <1>7, <1>8, <1>9 DEF Base

LEMMA BaseType == Base /\ Type => Base'
  <1> SUFFICES ASSUME Base, Type PROVE Base' OBVIOUS
  <1>1. TypeOK /\ SessionKept /\ Counted /\ OneSocket BY DEF Base
  <1>2. UNCHANGED <<agents, said, session, expired, agentConns, clientConns, loop,
                    down, readyState, direct, status, heard>>
    BY DEF Type, server
  <1>3. PICK k \in Nat : k = page.typed + 1 BY <1>1 DEF TypeOK, PageTypes, Page
  <1>4. /\ page' \in Page /\ page'.ws = page.ws /\ page'.timer = page.timer
        /\ page'.typed = k /\ page'.number = page.number /\ page.number \in Nat
    BY <1>1, <1>3 DEF Type, TypeOK, PageTypes, Page
  <1>5. up' \in Seq(Seq(Frame)) /\ Len(up') = Len(readyState)
    <2>1. PICK n \in Nat : n = Len(readyState) BY <1>1, Facts
    <2>2. Sockets = 1..n BY <1>1, <2>1, Facts
    <2>3. \A t \in 1..n : up[t] \in Seq(Frame) BY <1>1, <2>2, Facts
    <2>4. PICK f \in Frame : f = Text(page.number, page'.typed) BY <1>4, Frames
    <2>5. \A t \in 1..n : Append(up[t], f) \in Seq(Frame) BY <2>3
    <2>6. PICK w : w = up' OBVIOUS
    <2>7. w = [t \in 1..n |->
                IF t = page.ws /\ readyState[t] = "open" /\ loop[t] # "gone"
                THEN Append(up[t], f) ELSE up[t]]
      BY <2>2, <2>4, <2>6 DEF Type
    <2>8. w \in [1..n -> Seq(Frame)] BY <2>3, <2>5, <2>7
    <2>9. w \in Seq(Seq(Frame)) /\ Len(w) = n BY <2>8, FunctionIsSeq
    <2> QED BY <2>1, <2>6, <2>9
  <1>6. TypeOK'
    BY <1>1, <1>2, <1>4, <1>5 DEF TypeOK, AgentTypes, SocketTypes, PageTypes, SessionTypes
  <1>7. Counted' /\ SessionKept' /\ OneSocket'
    BY <1>1, <1>2, <1>4 DEF Counted, SessionKept, OneSocket, Agents, Sockets
  <1> QED BY <1>6, <1>7 DEF Base

LEMMA BaseDirectChanges ==
  ASSUME Base, NEW new \in {"connecting", "connected", "reconnecting"},
         DirectChanges(new)
  PROVE  Base'
  <1>1. TypeOK /\ SessionKept /\ Counted /\ OneSocket BY DEF Base
  <1>2. UNCHANGED <<agents, said, session, expired, agentConns, clientConns, loop, up,
                    down, readyState, page, heard>>
    BY DEF DirectChanges, server, socket
  <1>3. direct' \in Status /\ status' \in Status BY DEF DirectChanges, Status
  <1>4. TypeOK'
    BY <1>1, <1>2, <1>3 DEF TypeOK, AgentTypes, SocketTypes, PageTypes, SessionTypes
  <1>5. Counted' /\ SessionKept' /\ OneSocket'
    BY <1>1, <1>2 DEF Counted, SessionKept, OneSocket, Agents, Sockets
  <1> QED BY <1>4, <1>5 DEF Base

LEMMA BaseInit == Init => Base
  <1> SUFFICES ASSUME Init PROVE Base OBVIOUS
  <1>1. /\ agents = <<>> /\ said = <<>> /\ loop = <<>> /\ up = <<>> /\ down = <<>>
        /\ readyState = <<>> /\ heard = <<>> /\ expired = FALSE
        /\ agentConns = 0 /\ clientConns = 0
        /\ session = [secret |-> 0, agent |-> 0, client |-> 0]
        /\ page = NoPage /\ direct = "idle" /\ status = "idle"
    BY DEF Init
  <1>2. AgentTypes
    <2>1. expired \in BOOLEAN BY Zenon DEF Init
    <2>2. <<>> \in Seq(AgentState) /\ <<>> \in Seq(Nat) OBVIOUS
    <2>3. agentConns \in Nat /\ clientConns \in Nat BY <1>1
    <2> QED BY <1>1, <2>1, <2>2, <2>3 DEF AgentTypes
  <1>3. SocketTypes BY <1>1 DEF SocketTypes
  <1>4. PageTypes
    <2>1. <<>> \in Seq(Frame) OBVIOUS
    <2>2. NoPage \in Page BY <2>1 DEF NoPage, Page, Status
    <2> QED BY <1>1, <2>2 DEF PageTypes, Status
  <1>5. SessionTypes
    <2>1. Len(agents) = 0 /\ Len(readyState) = 0 BY <1>1
    <2>2. 0 \in 0..0 OBVIOUS
    <2> QED BY <1>1, <2>1, <2>2 DEF SessionTypes
  <1>6. Counted
    <2>1. Agents = {} /\ Sockets = {} BY <1>1 DEF Agents, Sockets
    <2>2. /\ {a \in Agents : agents[a] # "gone"} = {}
          /\ {s \in Sockets : loop[s] \in {"reading", "forwarding"}} = {}
      BY <2>1
    <2>3. Cardinality({}) = 0 BY FS_EmptySet
    <2>4. 0 + 0 <= MaxConnections
      <3>1. MaxConnections \in Nat BY RelayAssumption
      <3> QED BY <3>1
    <2>5. agentConns = 0 /\ clientConns = 0 BY <1>1
    <2> QED BY <2>2, <2>3, <2>4, <2>5 DEF Counted
  <1>7. SessionKept BY <1>1 DEF SessionKept
  <1>8. OneSocket BY <1>1 DEF OneSocket, Sockets
  <1> QED BY <1>2, <1>3, <1>4, <1>5, <1>6, <1>7, <1>8 DEF Base, TypeOK

LEMMA BaseStep == Base /\ [Next]_vars => Base'
  <1> SUFFICES ASSUME Base, [Next]_vars PROVE Base' OBVIOUS
  <1>1. CASE ServerNext
    BY <1>1, BaseAgentAccepted, BaseAgentRegistered, BaseAgentSays, BaseAgentGone,
       BaseExpire, BasePairRead, BaseForwardToAgent, BaseClientGone
    DEF ServerNext
  <1>2. CASE PageNext
    BY <1>2, BaseOpenPage, BaseOpened, BaseReceived, BaseDropped, BaseReconnect,
       BaseType, BaseDirectChanges
    DEF PageNext
  <1>3. CASE UNCHANGED vars
    BY <1>3 DEF Base, vars, server, socket, chat, TypeOK, AgentTypes, SocketTypes,
                PageTypes, SessionTypes, SessionKept, Counted, OneSocket, Agents, Sockets
  <1> QED BY <1>1, <1>2, <1>3 DEF Next

(***************************************************************************)
(* What agents say.                                                        *)
(***************************************************************************)

DownInv == EventsSaid /\ InOrder(page.events) /\ DownInOrder

\* A frame is put behind the others, or taken from their front.
LEMMA PutBehind ==
  ASSUME NEW q \in Seq(Frame), NEW r \in Seq(Frame), NEW f \in Frame,
         InOrder(q), Follows(q, r),
         IsText(f) => /\ \A i \in DOMAIN q : IsText(q[i]) => Before(q[i], f)
                      /\ \A i \in DOMAIN r : Before(r[i], f)
  PROVE  InOrder(Append(q, f)) /\ Follows(Append(q, f), r)
  <1>1. PICK p : p = Append(q, f) OBVIOUS
  <1>2. /\ p \in Seq(Frame) /\ Len(q) \in Nat /\ DOMAIN q = 1..Len(q)
        /\ DOMAIN p = 1..(Len(q) + 1) /\ p[Len(q) + 1] = f
        /\ \A j \in DOMAIN q : p[j] = q[j]
    BY <1>1, Appended
  <1>3. \A j \in DOMAIN p : j \in DOMAIN q \/ j = Len(q) + 1 BY <1>2
  <1>4. InOrder(p)
    <2> SUFFICES ASSUME NEW i \in DOMAIN p, NEW j \in DOMAIN p, i < j,
                        IsText(p[i]), IsText(p[j])
                 PROVE Before(p[i], p[j])
      BY DEF InOrder
    <2>1. i \in DOMAIN q /\ p[i] = q[i] BY <1>2, <1>3
    <2>2. CASE j \in DOMAIN q BY <1>2, <2>1, <2>2 DEF InOrder
    <2>3. CASE j = Len(q) + 1 BY <1>2, <2>1, <2>3
    <2> QED BY <1>3, <2>2, <2>3
  <1>5. Follows(p, r)
    <2> SUFFICES ASSUME NEW i \in DOMAIN r, NEW j \in DOMAIN p, IsText(p[j])
                 PROVE Before(r[i], p[j])
      BY DEF Follows
    <2>1. CASE j \in DOMAIN q BY <1>2, <2>1 DEF Follows
    <2>2. CASE j = Len(q) + 1 BY <1>2, <2>2
    <2> QED BY <1>3, <2>1, <2>2
  <1> QED BY <1>1, <1>4, <1>5

LEMMA TakenFromFront ==
  ASSUME NEW q \in Seq(Frame), NEW r \in Seq(Frame), q # <<>>,
         InOrder(q), Follows(q, r), InOrder(r),
         \A i \in DOMAIN r : IsText(r[i])
  PROVE  /\ InOrder(Tail(q)) /\ Follows(Tail(q), r)
         /\ \A i \in DOMAIN Tail(q) : \E j \in DOMAIN q : Tail(q)[i] = q[j]
         /\ IsText(Head(q)) => /\ Follows(Tail(q), Append(r, Head(q)))
                               /\ InOrder(Append(r, Head(q)))
  <1>1. PICK p : p = Tail(q) OBVIOUS
  <1>2. /\ p \in Seq(Frame) /\ Len(q) \in Nat \ {0} /\ Len(p) = Len(q) - 1
        /\ Head(q) = q[1] /\ 1 \in DOMAIN q /\ Head(q) \in Frame
        /\ DOMAIN q = 1..Len(q) /\ DOMAIN p = 1..Len(p)
        /\ \A j \in DOMAIN p : j + 1 \in DOMAIN q /\ j + 1 # 1 /\ p[j] = q[j + 1]
    BY <1>1, Shortened
  <1>3. InOrder(p)
    <2> SUFFICES ASSUME NEW i \in DOMAIN p, NEW j \in DOMAIN p, i < j,
                        IsText(p[i]), IsText(p[j])
                 PROVE Before(p[i], p[j])
      BY DEF InOrder
    <2>1. i + 1 < j + 1 BY <1>2
    <2> QED BY <1>2, <2>1 DEF InOrder
  <1>4. Follows(p, r) BY <1>2 DEF Follows
  <1>5. ASSUME IsText(Head(q))
        PROVE  Follows(p, Append(r, Head(q))) /\ InOrder(Append(r, Head(q)))
    <2>1. PICK w : w = Append(r, Head(q)) OBVIOUS
    <2>2. /\ Len(r) \in Nat /\ DOMAIN r = 1..Len(r) /\ DOMAIN w = 1..(Len(r) + 1)
          /\ w[Len(r) + 1] = Head(q) /\ \A j \in DOMAIN r : w[j] = r[j]
      BY <1>2, <2>1, Appended
    <2>3. \A j \in DOMAIN w : j \in DOMAIN r \/ j = Len(r) + 1 BY <2>2
    <2>4. Follows(p, w)
      <3> SUFFICES ASSUME NEW i \in DOMAIN w, NEW j \in DOMAIN p, IsText(p[j])
                   PROVE Before(w[i], p[j])
        BY DEF Follows
      <3>1. CASE i \in DOMAIN r BY <1>4, <2>2, <3>1 DEF Follows
      <3>2. CASE i = Len(r) + 1
        <4>1. 1 < j + 1 BY <1>2
        <4> QED BY <1>2, <1>5, <2>2, <3>2, <4>1 DEF InOrder
      <3> QED BY <2>3, <3>1, <3>2
    <2>5. InOrder(w)
      <3> SUFFICES ASSUME NEW i \in DOMAIN w, NEW j \in DOMAIN w, i < j,
                          IsText(w[i]), IsText(w[j])
                   PROVE Before(w[i], w[j])
        BY DEF InOrder
      <3>1. i \in DOMAIN r /\ w[i] = r[i] BY <2>2, <2>3
      <3>2. CASE j \in DOMAIN r BY <2>2, <3>1, <3>2 DEF InOrder
      <3>3. CASE j = Len(r) + 1 BY <1>2, <1>5, <2>2, <3>1, <3>3 DEF Follows
      <3> QED BY <2>3, <3>2, <3>3
    <2> QED BY <2>1, <2>4, <2>5
  <1>6. \A i \in DOMAIN p : \E j \in DOMAIN q : p[i] = q[j] BY <1>2
  <1> QED BY <1>1, <1>3, <1>4, <1>5, <1>6

\* Agents only say more.
Grows == /\ Agents \subseteq Agents'
         /\ \A a \in Agents : said'[a] \in Nat /\ said[a] <= said'[a]

LEMMA SaidStays ==
  ASSUME TypeOK, Grows, NEW f \in Frame, Said(f)
  PROVE  f.agent \in Agents' /\ f.text <= said'[f.agent]
  <1>1. f.agent \in Agents /\ f.text <= said[f.agent] /\ f.text \in Nat
    BY DEF Said, Frame
  <1>2. said[f.agent] \in Nat BY <1>1, Facts
  <1>3. /\ f.agent \in Agents' /\ said'[f.agent] \in Nat
        /\ said[f.agent] <= said'[f.agent]
    BY <1>1 DEF Grows
  <1> QED BY <1>1, <1>2, <1>3

\* Steps that write nothing on an open socket and give the page nothing.
LEMMA DownKept ==
  ASSUME TypeOK, DownInv, Grows, page'.events = page.events,
         \A s \in Sockets' : readyState'[s] = "open"
            => s \in Sockets /\ readyState[s] = "open" /\ down'[s] = down[s]
  PROVE  DownInv'
  <1>1. page.events \in Seq(Frame) BY DEF TypeOK, PageTypes, Page
  <1>2. EventsSaid'
    <2> SUFFICES ASSUME NEW i \in DOMAIN page.events
                 PROVE /\ IsText(page.events[i])
                       /\ page.events[i].agent \in Agents'
                       /\ page.events[i].text <= said'[page.events[i].agent]
      BY DEF EventsSaid, Said, IsText
    <2>1. page.events[i] \in Frame BY <1>1
    <2> QED BY <2>1, SaidStays DEF DownInv, EventsSaid
  <1>3. InOrder(page.events)' BY DEF DownInv, InOrder
  <1>4. ASSUME NEW s \in Sockets', readyState'[s] = "open" PROVE DownOK(s)'
    <2>1. s \in Sockets /\ readyState[s] = "open" /\ down'[s] = down[s] BY <1>4
    <2>2. DownOK(s) /\ down[s] \in Seq(Frame) BY <2>1, Facts DEF DownInv, DownInOrder
    <2>3. ASSUME NEW i \in DOMAIN down[s], IsText(down[s][i])
          PROVE  /\ down[s][i].agent \in Agents'
                 /\ down[s][i].text <= said'[down[s][i].agent]
      <3>1. down[s][i] \in Frame BY <2>2
      <3> QED BY <2>2, <2>3, <3>1, SaidStays DEF DownOK
    <2>4. Follows(down[s], page.events) /\ InOrder(down[s]) BY <2>2 DEF DownOK
    <2> QED BY <2>1, <2>3, <2>4 DEF DownOK, Said, IsText, Follows, InOrder
  <1> QED BY <1>2, <1>3, <1>4 DEF DownInv, DownInOrder

\* An agent's next text, or a frame that is none, is written.
LEMMA DownWritten ==
  ASSUME TypeOK, DownInv, Grows, page'.events = page.events, UNCHANGED readyState,
         NEW c, NEW f \in Frame, down' = Written(c, f),
         IsText(f) => f.agent \in Agents /\ f.text = said[f.agent] + 1
                      /\ said'[f.agent] = f.text
  PROVE  DownInv'
  <1>1. page.events \in Seq(Frame) BY DEF TypeOK, PageTypes, Page
  <1>2. EventsSaid'
    <2> SUFFICES ASSUME NEW i \in DOMAIN page.events
                 PROVE /\ IsText(page.events[i])
                       /\ page.events[i].agent \in Agents'
                       /\ page.events[i].text <= said'[page.events[i].agent]
      BY DEF EventsSaid, Said, IsText
    <2>1. page.events[i] \in Frame BY <1>1
    <2> QED BY <2>1, SaidStays DEF DownInv, EventsSaid
  <1>3. InOrder(page.events)' BY DEF DownInv, InOrder
  <1>4. ASSUME NEW s \in Sockets, readyState[s] = "open" PROVE DownOK(s)'
    <2>1. DownOK(s) /\ down[s] \in Seq(Frame) BY <1>4, Facts DEF DownInv, DownInOrder
    <2>2. ASSUME NEW g \in Frame, Said(g)
          PROVE  /\ g.agent \in Agents' /\ g.text <= said'[g.agent]
                 /\ IsText(f) => Before(g, f)
      <3>1. g.agent \in Agents' /\ g.text <= said'[g.agent] BY <2>2, SaidStays
      <3>2. ASSUME IsText(f), g.agent = f.agent PROVE g.text < f.text
        <4>1. g.text <= said[g.agent] /\ g.text \in Nat BY <2>2 DEF Said, Frame
        <4>2. f.text = said[g.agent] + 1 /\ said[g.agent] \in Nat BY <3>2, Facts
        <4> QED BY <4>1, <4>2
      <3> QED BY <3>1, <3>2 DEF Before
    <2>3. \A i \in DOMAIN down[s] : down[s][i] \in Frame BY <2>1
    <2>4. \A i \in DOMAIN page.events : page.events[i] \in Frame /\ Said(page.events[i])
      BY <1>1 DEF DownInv, EventsSaid
    <2>5. InOrder(Append(down[s], f)) /\ Follows(Append(down[s], f), page.events)
      <3>1. \A i \in DOMAIN down[s] : IsText(f) /\ IsText(down[s][i]) => Before(down[s][i], f)
        BY <2>1, <2>2, <2>3 DEF DownOK
      <3>2. \A i \in DOMAIN page.events : IsText(f) => Before(page.events[i], f)
        BY <2>2, <2>4
      <3> QED BY <1>1, <2>1, <3>1, <3>2, PutBehind DEF DownOK
    <2>6. \A i \in DOMAIN down[s] : IsText(down[s][i])
            => down[s][i].agent \in Agents' /\ down[s][i].text <= said'[down[s][i].agent]
      BY <2>1, <2>2, <2>3 DEF DownOK
    <2>7. CASE s = c
      <3>1. PICK q : q = down'[s] OBVIOUS
      <3>2. q = Append(down[s], f) BY <1>4, <2>7, <3>1, Writing
      <3>3. /\ Len(down[s]) \in Nat /\ DOMAIN down[s] = 1..Len(down[s])
            /\ DOMAIN q = 1..(Len(down[s]) + 1) /\ q[Len(down[s]) + 1] = f
            /\ \A j \in DOMAIN down[s] : q[j] = down[s][j]
        BY <2>1, <3>2, Appended
      <3>4. IsText(f) => f.agent \in Agents' /\ f.text <= said'[f.agent]
        BY DEF Grows, Frame
      <3>5. \A i \in DOMAIN q : IsText(q[i])
              => q[i].agent \in Agents' /\ q[i].text <= said'[q[i].agent]
        <4> SUFFICES ASSUME NEW i \in DOMAIN q, IsText(q[i])
                     PROVE q[i].agent \in Agents' /\ q[i].text <= said'[q[i].agent]
          OBVIOUS
        <4>1. i \in DOMAIN down[s] \/ i = Len(down[s]) + 1 BY <3>3
        <4>2. CASE i \in DOMAIN down[s] BY <2>6, <3>3, <4>2
        <4>3. CASE i = Len(down[s]) + 1 BY <3>3, <3>4, <4>3
        <4> QED BY <4>1, <4>2, <4>3
      <3> QED BY <2>5, <3>1, <3>2, <3>5 DEF DownOK, Said, IsText, Follows, InOrder
    <2>8. CASE s # c
      <3>1. down'[s] = down[s] BY <2>8, Writing
      <3> QED BY <2>1, <2>6, <3>1 DEF DownOK, Said, IsText, Follows, InOrder
    <2> QED BY <2>7, <2>8
  <1>5. Sockets' = Sockets BY DEF Sockets
  <1> QED BY <1>2, <1>3, <1>4, <1>5 DEF DownInv, DownInOrder

LEMMA SameSaid ==
  ASSUME TypeOK, UNCHANGED <<agents, said>>
  PROVE  Grows
  <1>1. \A a \in Agents : said[a] \in Nat BY Facts
  <1> QED BY <1>1 DEF Grows, Agents

LEMMA DownAgentSays ==
  ASSUME Base, DownInv, NEW a, AgentSays(a) PROVE DownInv'
  <1>1. TypeOK BY DEF Base
  <1>2. /\ a \in Agents /\ said' = [said EXCEPT ![a] = said[a] + 1]
        /\ UNCHANGED <<agents, readyState, page>>
    BY DEF AgentSays, chat
  <1>3. /\ said \in Seq(Nat) /\ DOMAIN said = Agents /\ a \in DOMAIN said
        /\ said[a] \in Nat /\ a \in Nat
    BY <1>1, <1>2, Facts DEF TypeOK, AgentTypes
  <1>4. said'[a] = said[a] + 1 /\ \A b \in Agents : b # a => said'[b] = said[b]
    BY <1>2, <1>3, Replaced
  <1>5. Grows
    <2>1. \A b \in Agents : said[b] \in Nat BY <1>1, Facts
    <2>2. \A b \in Agents : b = a \/ said'[b] = said[b] BY <1>4
    <2> QED BY <1>2, <1>3, <1>4, <2>1, <2>2 DEF Grows, Agents
  <1>6. PICK f \in Frame : f = Text(a, said'[a]) BY <1>3, <1>4, Frames
  <1>7. f.agent = a /\ f.text = said'[a] BY <1>6 DEF Text
  <1>8. down' = Written(session.client, f) BY <1>6 DEF AgentSays
  <1>9. page'.events = page.events BY <1>2
  <1> QED BY <1>1, <1>2, <1>4, <1>5, <1>7, <1>8, <1>9, DownWritten

LEMMA DownAgentGone ==
  ASSUME Base, DownInv, NEW a, AgentGone(a) PROVE DownInv'
  <1>1. TypeOK BY DEF Base
  <1>2. /\ agents' = [agents EXCEPT ![a] = "gone"] /\ a \in Agents
        /\ UNCHANGED <<said, readyState, page>>
    BY DEF AgentGone, chat
  <1>3. Grows
    <2>1. Agents' = Agents BY <1>1, <1>2 DEF Agents, TypeOK, AgentTypes
    <2>2. \A b \in Agents : said[b] \in Nat BY <1>1, Facts
    <2> QED BY <1>2, <2>1, <2>2 DEF Grows
  <1>4. ~ IsText(Error) /\ Error \in Frame BY Frames DEF IsText, Error
  <1>5. CASE down' = Written(session.client, Error)
    BY <1>1, <1>2, <1>3, <1>4, <1>5, DownWritten
  <1>6. CASE UNCHANGED down BY <1>1, <1>2, <1>3, <1>6, DownKept DEF Sockets
  <1> QED BY <1>5, <1>6 DEF AgentGone, markAgentDisconnected

LEMMA DownPairRead ==
  ASSUME Base, DownInv, NEW s, PairRead(s) PROVE DownInv'
  <1>1. TypeOK BY DEF Base
  <1>2. UNCHANGED <<agents, said, readyState, page>> BY DEF PairRead, chat
  <1>3. Grows BY <1>1, <1>2, SameSaid
  <1>4. /\ ~ IsText(Error) /\ Error \in Frame /\ ~ IsText(Paired) /\ Paired \in Frame
    BY Frames DEF IsText, Error, Paired
  <1>5. down' = Written(s, Paired) \/ down' = Written(s, Error) BY DEF PairRead
  <1> QED BY <1>1, <1>2, <1>3, <1>4, <1>5, DownWritten

LEMMA DownOpenPage ==
  ASSUME Base, DownInv, NEW secret \in AgentIds, OpenPage(secret) PROVE DownInv'
  <1>1. TypeOK BY DEF Base
  <1>2. page'.events = <<>> BY DEF OpenPage, NoPage
  <1>3. EventsSaid' /\ InOrder(page.events)' BY <1>2 DEF EventsSaid, InOrder
  <1>4. \A s \in Sockets' : readyState'[s] # "open"
    <2>1. doConnect(Sockets) BY DEF OpenPage
    <2>2. LET n == Len(readyState) IN
          /\ n \in Nat /\ Sockets = 1..n /\ Sockets' = 1..(n + 1)
          /\ \A s \in Sockets : readyState'[s] = IF s \in Sockets /\ readyState[s] # "closed"
                                               THEN "closing" ELSE readyState[s]
          /\ readyState'[n + 1] = "connecting"
      BY <1>1, <2>1, Connecting
    <2> QED BY <2>2
  <1> QED BY <1>3, <1>4 DEF DownInv, DownInOrder

LEMMA DownReconnect == Base /\ DownInv /\ Reconnect => DownInv'
  <1> SUFFICES ASSUME Base, DownInv, Reconnect PROVE DownInv' OBVIOUS
  <1>1. TypeOK /\ OneSocket BY DEF Base
  <1>2. page'.events = page.events /\ page.timer
    BY <1>1 DEF Reconnect, TypeOK, PageTypes, Page
  <1>3. Grows BY <1>1, SameSaid DEF Reconnect, server
  <1>4. \A s \in Sockets' : readyState'[s] # "open"
    <2>1. doConnect({}) BY DEF Reconnect
    <2>2. LET n == Len(readyState) IN
          /\ n \in Nat /\ Sockets = 1..n /\ Sockets' = 1..(n + 1)
          /\ \A s \in Sockets : readyState'[s] = IF s \in {} /\ readyState[s] # "closed"
                                               THEN "closing" ELSE readyState[s]
          /\ readyState'[n + 1] = "connecting"
      BY <1>1, <2>1, Connecting
    <2>3. \A s \in Sockets : readyState[s] # "open" BY <1>1, <1>2 DEF OneSocket
    <2> QED BY <2>2, <2>3
  <1> QED BY <1>1, <1>2, <1>3, <1>4, DownKept

LEMMA DownOpened ==
  ASSUME Base, DownInv, NEW s, Opened(s) PROVE DownInv'
  <1>1. TypeOK BY DEF Base
  <1>2. /\ s \in Sockets /\ UNCHANGED <<agents, said, page>>
        /\ down' = [down EXCEPT ![s] = IF Full THEN <<Error>> ELSE <<>>]
        /\ readyState' = [readyState EXCEPT ![s] = "open"]
    BY DEF Opened, chat
  <1>3. /\ Sockets' = Sockets /\ DOMAIN down = Sockets
        /\ \A t \in Sockets : t # s => readyState'[t] = readyState[t] /\ down'[t] = down[t]
        /\ down'[s] = IF Full THEN <<Error>> ELSE <<>>
    BY <1>1, <1>2, Facts DEF Sockets
  <1>4. EventsSaid' /\ InOrder(page.events)'
    BY <1>2 DEF DownInv, EventsSaid, InOrder, Said, Agents
  <1>5. DownOK(s)'
    <2>1. \A i \in DOMAIN down'[s] : ~ IsText(down'[s][i])
      BY <1>3 DEF IsText, Error
    <2> QED BY <2>1 DEF DownOK, InOrder, Follows
  <1>6. ASSUME NEW t \in Sockets, t # s, readyState'[t] = "open" PROVE DownOK(t)'
    <2>1. DownOK(t) BY <1>3, <1>6 DEF DownInv, DownInOrder
    <2> QED BY <1>2, <1>3, <1>6, <2>1 DEF DownOK, Said, Agents, InOrder, Follows
  <1> QED BY <1>3, <1>4, <1>5, <1>6 DEF DownInv, DownInOrder

LEMMA DownReceived ==
  ASSUME Base, DownInv, NEW s, Received(s) PROVE DownInv'
  <1>1. TypeOK BY DEF Base
  <1>2. /\ s \in Sockets /\ readyState[s] = "open" /\ down[s] # <<>>
        /\ down' = [down EXCEPT ![s] = Tail(down[s])]
        /\ UNCHANGED <<agents, said, readyState>>
    BY DEF Received, server
  <1>3. /\ DOMAIN down = Sockets /\ down[s] \in Seq(Frame) /\ page \in Page
        /\ page.events \in Seq(Frame)
    BY <1>1, <1>2, Facts DEF TypeOK, PageTypes, Page
  <1>4. /\ down'[s] = Tail(down[s]) /\ Sockets' = Sockets
        /\ \A t \in Sockets : t # s => down'[t] = down[t]
    BY <1>2, <1>3 DEF Sockets
  <1>5. DownOK(s) BY <1>2 DEF DownInv, DownInOrder
  <1>6. /\ InOrder(down[s]) /\ Follows(down[s], page.events) /\ InOrder(page.events)
        /\ \A i \in DOMAIN page.events : IsText(page.events[i])
        /\ \A i \in DOMAIN down[s] : IsText(down[s][i]) => Said(down[s][i])
    BY <1>5 DEF DownOK, DownInv, EventsSaid
  <1>7. /\ InOrder(Tail(down[s])) /\ Follows(Tail(down[s]), page.events)
        /\ \A i \in DOMAIN Tail(down[s]) : \E j \in DOMAIN down[s] :
             Tail(down[s])[i] = down[s][j]
        /\ IsText(Head(down[s]))
             => /\ Follows(Tail(down[s]), Append(page.events, Head(down[s])))
                /\ InOrder(Append(page.events, Head(down[s])))
    BY <1>2, <1>3, <1>6, TakenFromFront
  <1>8. \A i \in DOMAIN Tail(down[s]) : IsText(Tail(down[s])[i]) => Said(Tail(down[s])[i])
    BY <1>6, <1>7
  <1>9. \A f : Said(f)' <=> Said(f) BY <1>2 DEF Said, Agents
  <1>10. CASE page'.events = page.events
    <2>1. DownOK(s)' BY <1>4, <1>7, <1>8, <1>9, <1>10 DEF DownOK
    <2>2. \A t \in Sockets : t # s /\ readyState[t] = "open" => DownOK(t)'
      BY <1>4, <1>9, <1>10 DEF DownOK, DownInv, DownInOrder
    <2>3. EventsSaid' BY <1>9, <1>10 DEF DownInv, EventsSaid
    <2> QED BY <1>2, <1>4, <1>6, <1>10, <2>1, <2>2, <2>3 DEF DownInv, DownInOrder
  <1>11. CASE Head(down[s]).type = "relay.forward"
    <2>1. PICK r : r = Append(page.events, Head(down[s])) OBVIOUS
    <2>2. page'.events = r BY <1>3, <1>11, <2>1 DEF Received, Page
    <2>3. IsText(Head(down[s])) /\ Head(down[s]) \in Frame /\ Said(Head(down[s]))
      <3>1. /\ Head(down[s]) = down[s][1] /\ 1 \in DOMAIN down[s]
            /\ Head(down[s]) \in Frame
        BY <1>2, <1>3, Shortened
      <3> QED BY <1>6, <1>11, <3>1 DEF IsText
    <2>4. EventsSaid'
      <3>1. /\ Len(page.events) \in Nat /\ DOMAIN page.events = 1..Len(page.events)
            /\ DOMAIN r = 1..(Len(page.events) + 1)
            /\ r[Len(page.events) + 1] = Head(down[s])
            /\ \A j \in DOMAIN page.events : r[j] = page.events[j]
        BY <1>3, <2>1, <2>3, Appended
      <3>2. \A j \in DOMAIN r : j \in DOMAIN page.events \/ j = Len(page.events) + 1
        BY <3>1
      <3>3. \A j \in DOMAIN r : IsText(r[j]) /\ Said(r[j])
        BY <2>3, <3>1, <3>2 DEF DownInv, EventsSaid
      <3> QED BY <1>9, <2>2, <3>3 DEF EventsSaid
    <2>5. InOrder(r) /\ Follows(Tail(down[s]), r) BY <1>7, <2>1, <2>3
    <2>6. DownOK(s)' BY <1>4, <1>7, <1>8, <1>9, <2>2, <2>5 DEF DownOK
    <2>7. \A t \in Sockets : t # s => readyState[t] # "open"
      BY <1>2 DEF Base, OneSocket
    <2> QED BY <1>2, <1>4, <2>2, <2>4, <2>5, <2>6, <2>7 DEF DownInv, DownInOrder
  <1> QED BY <1>3, <1>10, <1>11 DEF Received, Page

LEMMA DownDropped ==
  ASSUME Base, DownInv, NEW s, Dropped(s) PROVE DownInv'
  <1>1. TypeOK BY DEF Base
  <1>2. /\ s \in Sockets /\ UNCHANGED <<agents, said>>
        /\ down' = [down EXCEPT ![s] = <<>>]
        /\ readyState' = [readyState EXCEPT ![s] = "closed"]
    BY DEF Dropped, server
  <1>3. page'.events = page.events BY <1>1 DEF Dropped, TypeOK, PageTypes, Page
  <1>4. /\ Sockets' = Sockets /\ readyState'[s] = "closed"
        /\ \A t \in Sockets : t # s => readyState'[t] = readyState[t] /\ down'[t] = down[t]
    BY <1>1, <1>2, Facts DEF Sockets
  <1>5. Grows BY <1>1, <1>2, SameSaid
  <1> QED BY <1>1, <1>3, <1>4, <1>5, DownKept

LEMMA DownAgentAccepted == Base /\ DownInv /\ AgentAccepted => DownInv'
  <1> SUFFICES ASSUME Base, DownInv, AgentAccepted PROVE DownInv' OBVIOUS
  <1>1. TypeOK BY DEF Base
  <1>2. UNCHANGED <<readyState, down, page>> BY DEF AgentAccepted, socket, chat
  <1>3. Grows
    <2>1. /\ Len(agents) \in Nat /\ Agents = 1..Len(agents) /\ DOMAIN said = Agents
          /\ \A a \in Agents : said[a] \in Nat
      BY <1>1, Facts
    <2>2. DOMAIN agents' = 1..(Len(agents) + 1)
      BY <1>1, Appended DEF AgentAccepted, TypeOK, AgentTypes, AgentState
    <2>3. \A a \in Agents : said'[a] = said[a]
      BY <1>1, <2>1, Appended DEF AgentAccepted, TypeOK, AgentTypes
    <2> QED BY <2>1, <2>2, <2>3 DEF Grows, Agents
  <1> QED BY <1>1, <1>2, <1>3, DownKept DEF Sockets

\* Steps that leave all of it alone.
LEMMA DownAlone ==
  ASSUME Base, DownInv, UNCHANGED <<said, readyState, down>>,
         page'.events = page.events, Agents' = Agents
  PROVE  DownInv'
  <1>1. TypeOK BY DEF Base
  <1>2. Grows
    <2>1. \A a \in Agents : said[a] \in Nat BY <1>1, Facts
    <2> QED BY <2>1 DEF Grows
  <1> QED BY <1>1, <1>2, DownKept DEF Sockets

LEMMA DownStep == Base /\ DownInv /\ [Next]_vars => DownInv'
  <1> SUFFICES ASSUME Base, DownInv, [Next]_vars PROVE DownInv' OBVIOUS
  <1>1. TypeOK BY DEF Base
  <1>2. ASSUME NEW a \in AgentIds, AgentRegistered(a) PROVE DownInv'
    <2>1. Agents' = Agents BY <1>2 DEF AgentRegistered, Agents
    <2> QED BY <1>2, <2>1, DownAlone DEF AgentRegistered, socket, chat
  <1>3. CASE Expire BY <1>3, DownAlone DEF Expire, socket, chat, Agents
  <1>4. ASSUME NEW s \in SocketIds, ForwardToAgent(s) \/ ClientGone(s) PROVE DownInv'
    BY <1>4, DownAlone DEF ForwardToAgent, ClientGone, server, chat, Agents
  <1>5. CASE Type
    <2>1. page'.events = page.events BY <1>1, <1>5 DEF Type, TypeOK, PageTypes, Page
    <2> QED BY <1>5, <2>1, DownAlone DEF Type, server, Agents
  <1>6. ASSUME NEW new \in {"connecting", "connected", "reconnecting"}, DirectChanges(new)
        PROVE DownInv'
    BY <1>6, DownAlone DEF DirectChanges, server, socket, Agents
  <1>7. CASE UNCHANGED vars BY <1>7, DownAlone DEF vars, server, socket, chat, Agents
  <1>8. CASE ServerNext
    BY <1>2, <1>3, <1>4, <1>8, DownAgentAccepted, DownAgentSays, DownAgentGone,
       DownPairRead
    DEF ServerNext
  <1>9. CASE PageNext
    BY <1>5, <1>6, <1>9, DownOpenPage, DownOpened, DownReceived, DownDropped,
       DownReconnect
    DEF PageNext
  <1> QED BY <1>7, <1>8, <1>9 DEF Next

(***************************************************************************)
(* What the page sends.                                                    *)
(***************************************************************************)

UpInv == OnlyTexts /\ UpTyped /\ HeardTyped /\ UpOnce /\ HeardOnce

\* No text waits on the socket, or the texts of before, shifted by d.
Shifted(s, d) ==
  /\ s \in Sockets
  /\ \A i \in DOMAIN up'[s] :
       i \in Nat /\ i + d \in DOMAIN up[s] /\ up'[s][i] = up[s][i + d]

NoTexts(s) == \A i \in DOMAIN up'[s] : ~ IsText(up'[s][i])

\* What was typed stays typed.
TypedStays == \A p \in Nat, t \in Nat : Typed(p, t) => Typed(p, t)'

\* Steps that only take from what waits.
LEMMA UpTaken ==
  ASSUME Base, UpInv, TypedStays,
         \A s \in Sockets' : NoTexts(s) \/ Shifted(s, 0) \/ Shifted(s, 1)
  PROVE  /\ UpTyped' /\ UpOnce'
         /\ UNCHANGED heard => HeardTyped' /\ HeardOnce'
  <1>1. TypeOK BY DEF Base
  <1>2. \A s \in Sockets : \A i \in DOMAIN up[s] :
          up[s][i] \in Frame /\ up[s][i].agent \in Nat /\ up[s][i].text \in Nat
    <2> SUFFICES ASSUME NEW s \in Sockets, NEW i \in DOMAIN up[s]
                 PROVE up[s][i] \in Frame /\ up[s][i].agent \in Nat /\ up[s][i].text \in Nat
      OBVIOUS
    <2>1. up[s] \in Seq(Frame) BY <1>1, Facts
    <2>2. up[s][i] \in Frame BY <2>1
    <2> QED BY <2>2 DEF Frame
  <1>3. ASSUME NEW s \in Sockets' PROVE
          \E d \in {0, 1} :
            /\ \A i \in DOMAIN up'[s] : IsText(up'[s][i])
                 => Shifted(s, d) /\ s \in Sockets /\ i \in Nat /\ i + d \in DOMAIN up[s]
                    /\ up'[s][i] = up[s][i + d]
    <2>1. CASE NoTexts(s) BY <2>1 DEF NoTexts
    <2>2. CASE Shifted(s, 0) BY <2>2 DEF Shifted
    <2>3. CASE Shifted(s, 1) BY <2>3 DEF Shifted
    <2> QED BY <2>1, <2>2, <2>3
  <1>4. UpTyped'
    <2> SUFFICES ASSUME NEW s \in Sockets', NEW i \in DOMAIN up'[s], IsText(up'[s][i])
                 PROVE TypedOn(page'.number, page'.typed, up'[s][i].agent, up'[s][i].text)
      BY DEF UpTyped, Typed
    <2>1. PICK k \in DOMAIN up[s] : s \in Sockets /\ up'[s][i] = up[s][k] BY <1>3
    <2>2. Typed(up[s][k].agent, up[s][k].text) BY <2>1 DEF UpInv, UpTyped
    <2>3. PICK a \in Nat, t \in Nat : a = up[s][k].agent /\ t = up[s][k].text
      BY <1>2, <2>1
    <2>4. Typed(a, t)' BY <2>2, <2>3 DEF TypedStays
    <2> QED BY <2>1, <2>3, <2>4 DEF Typed
  <1>5. UpOnce'
    <2> SUFFICES ASSUME NEW s \in Sockets', NEW t \in Sockets',
                        NEW i \in DOMAIN up'[s], NEW j \in DOMAIN up'[t],
                        IsText(up'[s][i]), IsText(up'[t][j]),
                        up'[s][i].agent = up'[t][j].agent,
                        up'[s][i].text = up'[t][j].text
                 PROVE s = t /\ i = j
      BY DEF UpOnce
    <2>1. PICK d \in {0, 1} : \A h \in DOMAIN up'[s] : IsText(up'[s][h])
            => s \in Sockets /\ h \in Nat /\ h + d \in DOMAIN up[s]
               /\ up'[s][h] = up[s][h + d]
      BY <1>3
    <2>2. PICK e \in {0, 1} : \A h \in DOMAIN up'[t] : IsText(up'[t][h])
            => t \in Sockets /\ h \in Nat /\ h + e \in DOMAIN up[t]
               /\ up'[t][h] = up[t][h + e]
      BY <1>3
    <2>3. s = t /\ i + d = j + e BY <2>1, <2>2 DEF UpInv, UpOnce
    <2>4. j + d \in DOMAIN up[s] /\ up'[t][j] = up[s][j + d] /\ s \in Sockets
      BY <2>1, <2>3
    <2>5. i + d = j + d BY <2>1, <2>4 DEF UpInv, UpOnce
    <2> QED BY <2>1, <2>2, <2>3, <2>5
  <1>6. ASSUME UNCHANGED heard PROVE HeardTyped' /\ HeardOnce'
    <2>1. ASSUME NEW i \in DOMAIN heard PROVE Typed(heard[i].page, heard[i].text)'
      <3>1. heard \in Seq(Heard) BY <1>1 DEF TypeOK, PageTypes
      <3>2. heard[i] \in Heard BY <3>1
      <3>3. PICK a \in Nat, t \in Nat : a = heard[i].page /\ t = heard[i].text
        BY <3>2 DEF Heard
      <3>4. Typed(a, t)' BY <3>3 DEF TypedStays, UpInv, HeardTyped
      <3> QED BY <1>6, <3>3, <3>4 DEF Typed
    <2>2. HeardTyped' BY <1>6, <2>1 DEF HeardTyped, Typed
    <2>3. ASSUME NEW s \in Sockets', NEW i \in DOMAIN heard, NEW j \in DOMAIN up'[s],
                 IsText(up'[s][j])
          PROVE  ~ (heard[i].page = up'[s][j].agent /\ heard[i].text = up'[s][j].text)
      <3>1. PICK k \in DOMAIN up[s] : s \in Sockets /\ up'[s][j] = up[s][k] BY <1>3, <2>3
      <3> QED BY <2>3, <3>1 DEF UpInv, HeardOnce
    <2> QED BY <1>6, <2>2, <2>3 DEF UpInv, HeardOnce
  <1> QED BY <1>4, <1>5, <1>6

\* Steps that leave the page's numbers alone, or number a new page.
LEMMA NumbersGrow ==
  ASSUME TypeOK, page' \in Page,
         \/ page'.number = page.number /\ page'.typed \in Nat /\ page.typed <= page'.typed
         \/ page'.number = page.number + 1
  PROVE  TypedStays
  <1>1. page.number \in Nat /\ page.typed \in Nat BY DEF TypeOK, PageTypes, Page
  <1>2. PICK n \in Nat : n = page'.number BY <1>1
  <1> QED BY <1>1, <1>2 DEF TypedStays, Typed, TypedOn

\* What a socket holds, place by place.
LEMMA Places ==
  ASSUME TypeOK, NEW s \in Sockets
  PROVE  /\ up[s] \in Seq(Frame) /\ \A i \in DOMAIN up[s] : i \in Nat /\ i + 0 = i
         /\ up'[s] = up[s] => Shifted(s, 0)
         /\ up'[s] = <<>> => NoTexts(s)
         /\ up[s] # <<>> /\ up'[s] = Tail(up[s])
              => Shifted(s, 1) /\ \A i \in DOMAIN up'[s] : i + 1 # 1
  <1>1. up[s] \in Seq(Frame) BY Facts
  <1>2. \A i \in DOMAIN up[s] : i \in Nat /\ i + 0 = i BY <1>1
  <1>3. up'[s] = up[s] => Shifted(s, 0) BY <1>2 DEF Shifted
  <1>4. up'[s] = <<>> => NoTexts(s) BY DEF NoTexts
  <1>5. ASSUME up[s] # <<>>, up'[s] = Tail(up[s])
        PROVE Shifted(s, 1) /\ \A i \in DOMAIN up'[s] : i + 1 # 1
    <2>1. PICK r : r = Tail(up[s]) OBVIOUS
    <2>2. /\ r \in Seq(Frame)
          /\ \A j \in DOMAIN r : j + 1 \in DOMAIN up[s] /\ j + 1 # 1 /\ r[j] = up[s][j + 1]
      BY <1>1, <1>5, <2>1, Shortened
    <2>3. \A j \in DOMAIN r : j \in Nat BY <2>2
    <2> QED BY <1>5, <2>1, <2>2, <2>3 DEF Shifted
  <1> QED BY <1>1, <1>2, <1>3, <1>4, <1>5

\* Steps that leave it alone.
LEMMA UpAlone ==
  ASSUME Base, UpInv, UNCHANGED <<loop, up, heard>>, page' \in Page,
         page'.number = page.number, page'.typed = page.typed, Sockets' = Sockets
  PROVE  UpInv'
  <1>1. TypeOK BY DEF Base
  <1>2. TypedStays
    <2>1. page.typed \in Nat BY <1>1 DEF TypeOK, PageTypes, Page
    <2> QED BY <1>1, <2>1, NumbersGrow
  <1>3. \A s \in Sockets' : Shifted(s, 0) BY <1>1, Places
  <1>4. OnlyTexts' BY DEF UpInv, OnlyTexts
  <1> QED BY <1>2, <1>3, <1>4, UpTaken DEF UpInv

LEMMA UpPairRead ==
  ASSUME Base, UpInv, NEW s, PairRead(s) PROVE UpInv'
  <1>1. TypeOK BY DEF Base
  <1>2. /\ s \in Sockets /\ up[s] # <<>> /\ UNCHANGED <<readyState, page, heard>>
        /\ Sockets' = Sockets /\ DOMAIN up = Sockets /\ DOMAIN loop = Sockets
    BY <1>1, Facts DEF PairRead, chat, Sockets
  <1>3. TypedStays BY DEF TypedStays, Typed, PairRead, chat
  <1>4. \A t \in Sockets : t # s => up'[t] = up[t] /\ loop'[t] = loop[t]
    BY <1>2 DEF PairRead
  <1>5. up'[s] = Tail(up[s]) \/ up'[s] = <<>> BY <1>2 DEF PairRead
  <1>6. \A t \in Sockets' : NoTexts(t) \/ Shifted(t, 0) \/ Shifted(t, 1)
    BY <1>1, <1>2, <1>4, <1>5, Places
  <1>7. OnlyTexts'
    <2>1. ASSUME NEW i \in DOMAIN up'[s] PROVE IsText(up'[s][i])
      <3>1. CASE up'[s] = <<>> BY <3>1
      <3>2. CASE up'[s] = Tail(up[s])
        <4>1. i + 1 \in DOMAIN up[s] /\ i + 1 # 1 /\ up'[s][i] = up[s][i + 1]
          BY <1>1, <1>2, <3>2, Places DEF Shifted
        <4> QED BY <1>2, <4>1 DEF UpInv, OnlyTexts
      <3> QED BY <1>5, <3>1, <3>2
    <2>2. ASSUME NEW t \in Sockets, t # s, NEW i \in DOMAIN up'[t]
          PROVE IsText(up'[t][i]) \/ (loop'[t] = "reading" /\ i = 1)
      BY <1>4, <2>2 DEF UpInv, OnlyTexts
    <2> QED BY <1>2, <2>1, <2>2 DEF OnlyTexts
  <1> QED BY <1>2, <1>3, <1>6, <1>7, UpTaken DEF UpInv

LEMMA UpClientGone ==
  ASSUME Base, UpInv, NEW s, ClientGone(s) PROVE UpInv'
  <1>1. TypeOK BY DEF Base
  <1>2. /\ s \in Sockets /\ UNCHANGED <<readyState, page, heard>>
        /\ Sockets' = Sockets /\ DOMAIN up = Sockets /\ DOMAIN loop = Sockets
        /\ up' = [up EXCEPT ![s] = <<>>] /\ loop' = [loop EXCEPT ![s] = "gone"]
    BY <1>1, Facts DEF ClientGone, chat, Sockets
  <1>3. TypedStays BY <1>2 DEF TypedStays, Typed
  <1>4. /\ up'[s] = <<>>
        /\ \A t \in Sockets : t # s => up'[t] = up[t] /\ loop'[t] = loop[t]
    BY <1>2
  <1>5. \A t \in Sockets' : NoTexts(t) \/ Shifted(t, 0) \/ Shifted(t, 1)
    BY <1>1, <1>2, <1>4, Places
  <1>6. OnlyTexts'
    <2>1. \A t \in Sockets : t # s => \A i \in DOMAIN up'[t] :
            IsText(up'[t][i]) \/ (loop'[t] = "reading" /\ i = 1)
      BY <1>4 DEF UpInv, OnlyTexts
    <2>2. DOMAIN up'[s] = {} BY <1>4
    <2> QED BY <1>2, <2>1, <2>2 DEF OnlyTexts
  <1> QED BY <1>2, <1>3, <1>5, <1>6, UpTaken DEF UpInv

LEMMA UpConnecting ==
  ASSUME Base, UpInv, NEW old, doConnect(old), UNCHANGED heard, TypedStays
  PROVE  UpInv'
  <1>1. TypeOK BY DEF Base
  <1>2. PICK n \in Nat :
          /\ Sockets = 1..n /\ Sockets' = 1..(n + 1)
          /\ \A s \in Sockets : loop'[s] = loop[s] /\ up'[s] = up[s]
          /\ up'[n + 1] = <<>>
    BY <1>1, Connecting
  <1>3. \A s \in Sockets' : s \in Sockets \/ s = n + 1 BY <1>2
  <1>4. \A s \in Sockets' : NoTexts(s) \/ Shifted(s, 0) \/ Shifted(s, 1)
    <2>1. \A s \in Sockets : Shifted(s, 0) BY <1>1, <1>2, Places
    <2>2. NoTexts(n + 1) BY <1>2 DEF NoTexts
    <2> QED BY <1>3, <2>1, <2>2
  <1>5. OnlyTexts'
    <2>1. DOMAIN up'[n + 1] = {} BY <1>2
    <2>2. \A s \in Sockets : \A i \in DOMAIN up'[s] :
            IsText(up'[s][i]) \/ (loop'[s] = "reading" /\ i = 1)
      BY <1>2 DEF UpInv, OnlyTexts
    <2> QED BY <1>3, <2>1, <2>2 DEF OnlyTexts
  <1> QED BY <1>4, <1>5, UpTaken DEF UpInv

LEMMA UpOpened ==
  ASSUME Base, UpInv, NEW s, Opened(s) PROVE UpInv'
  <1>1. TypeOK BY DEF Base
  <1>2. /\ s \in Sockets /\ UNCHANGED <<page, heard>>
        /\ DOMAIN up = Sockets /\ DOMAIN loop = Sockets
        /\ up' = [up EXCEPT ![s] = IF Full THEN <<>> ELSE <<Pair(page.secret)>>]
        /\ loop' = [loop EXCEPT ![s] = IF Full THEN "gone" ELSE "reading"]
    BY <1>1, Facts DEF Opened, chat
  <1>3. Sockets' = Sockets BY DEF Opened, Sockets
  <1>4. TypedStays BY <1>2 DEF TypedStays, Typed
  <1>5. /\ up'[s] = IF Full THEN <<>> ELSE <<Pair(page.secret)>>
        /\ loop'[s] = IF Full THEN "gone" ELSE "reading"
        /\ \A t \in Sockets : t # s => up'[t] = up[t] /\ loop'[t] = loop[t]
    BY <1>2
  <1>6. NoTexts(s) BY <1>5 DEF NoTexts, Pair, IsText
  <1>7. \A t \in Sockets' : NoTexts(t) \/ Shifted(t, 0) \/ Shifted(t, 1)
    BY <1>1, <1>3, <1>5, <1>6, Places
  <1>8. OnlyTexts'
    <2>1. \A t \in Sockets : t # s => \A i \in DOMAIN up'[t] :
            IsText(up'[t][i]) \/ (loop'[t] = "reading" /\ i = 1)
      BY <1>5 DEF UpInv, OnlyTexts
    <2>2. \A i \in DOMAIN up'[s] : loop'[s] = "reading" /\ i = 1
      <3>1. CASE Full BY <1>5, <3>1
      <3>2. CASE ~ Full
        <4>1. up'[s] = <<Pair(page.secret)>> /\ loop'[s] = "reading" BY <1>5, <3>2
        <4>2. DOMAIN <<Pair(page.secret)>> = {1} OBVIOUS
        <4> QED BY <4>1, <4>2
      <3> QED BY <3>1, <3>2
    <2> QED BY <1>3, <2>1, <2>2 DEF OnlyTexts
  <1> QED BY <1>2, <1>4, <1>7, <1>8, UpTaken DEF UpInv

LEMMA UpForwardToAgent ==
  ASSUME Base, UpInv, NEW s, ForwardToAgent(s) PROVE UpInv'
  <1>1. TypeOK BY DEF Base
  <1>2. /\ s \in Sockets /\ loop[s] = "forwarding" /\ up[s] # <<>>
        /\ UNCHANGED <<readyState, loop, page>>
        /\ Sockets' = Sockets /\ DOMAIN up = Sockets
        /\ up' = [up EXCEPT ![s] = Tail(up[s])]
    BY <1>1, Facts DEF ForwardToAgent, server, Sockets
  <1>3. TypedStays BY <1>2 DEF TypedStays, Typed
  <1>4. /\ up'[s] = Tail(up[s]) /\ \A t \in Sockets : t # s => up'[t] = up[t]
    BY <1>2
  <1>5. \A t \in Sockets' : NoTexts(t) \/ Shifted(t, 0) \/ Shifted(t, 1)
    BY <1>1, <1>2, <1>4, Places
  <1>6. Shifted(s, 1) /\ \A i \in DOMAIN up'[s] : i + 1 # 1
    BY <1>1, <1>2, <1>4, Places
  <1>7. PICK f : f = Head(up[s]) OBVIOUS
  <1>8. f = up[s][1] /\ 1 \in DOMAIN up[s] /\ f \in Frame
    <2>1. up[s] \in Seq(Frame) BY <1>1, <1>2, Places
    <2> QED BY <1>2, <1>7, <2>1, Shortened
  <1>9. IsText(f) BY <1>2, <1>8 DEF UpInv, OnlyTexts
  <1>10. OnlyTexts'
    <2>1. ASSUME NEW i \in DOMAIN up'[s] PROVE IsText(up'[s][i])
      <3>1. i + 1 \in DOMAIN up[s] /\ up'[s][i] = up[s][i + 1] BY <1>6 DEF Shifted
      <3> QED BY <1>2, <3>1 DEF UpInv, OnlyTexts
    <2>2. ASSUME NEW t \in Sockets, t # s, NEW i \in DOMAIN up'[t]
          PROVE IsText(up'[t][i]) \/ (loop'[t] = "reading" /\ i = 1)
      BY <1>2, <1>4, <2>2 DEF UpInv, OnlyTexts
    <2> QED BY <1>2, <2>1, <2>2 DEF OnlyTexts
  <1>11. UpTyped' /\ UpOnce' BY <1>3, <1>5, UpTaken
  <1>12. CASE UNCHANGED heard BY <1>3, <1>5, <1>10, <1>12, UpTaken DEF UpInv
  <1>13. CASE heard' = Append(heard, [to |-> session.agent, page |-> f.agent,
                                     text |-> f.text])
    <2>1. PICK h \in Heard : h.page = f.agent /\ h.text = f.text
                            /\ heard' = Append(heard, h)
      <3>1. session.agent \in Nat BY <1>1, Facts DEF TypeOK, SessionTypes
      <3>2. [to |-> session.agent, page |-> f.agent, text |-> f.text] \in Heard
        BY <1>8, <3>1 DEF Frame, Heard
      <3> QED BY <1>13, <3>2
    <2>2. heard \in Seq(Heard) BY <1>1 DEF TypeOK, PageTypes
    <2>3. PICK g : g = heard' OBVIOUS
    <2>4. /\ Len(heard) \in Nat /\ DOMAIN heard = 1..Len(heard)
          /\ DOMAIN g = 1..(Len(heard) + 1) /\ g[Len(heard) + 1] = h
          /\ \A j \in DOMAIN heard : g[j] = heard[j]
      BY <2>1, <2>2, <2>3, Appended
    <2>5. \A j \in DOMAIN g : j \in DOMAIN heard \/ j = Len(heard) + 1 BY <2>4
    <2>6. HeardTyped'
      <3>1. \A j \in DOMAIN heard : Typed(heard[j].page, heard[j].text)
        BY DEF UpInv, HeardTyped
      <3>2. Typed(h.page, h.text) BY <1>2, <1>8, <1>9, <2>1 DEF UpInv, UpTyped
      <3>3. \A j \in DOMAIN g : Typed(g[j].page, g[j].text) BY <2>4, <2>5, <3>1, <3>2
      <3> QED BY <1>2, <2>3, <3>3 DEF HeardTyped, Typed
    <2>7. \A j \in DOMAIN heard : ~ (heard[j].page = h.page /\ heard[j].text = h.text)
      BY <1>2, <1>8, <1>9, <2>1 DEF UpInv, HeardOnce
    <2>8. ASSUME NEW i \in DOMAIN g, NEW j \in DOMAIN g,
                 g[i].page = g[j].page, g[i].text = g[j].text
          PROVE  i = j
      <3>1. CASE i \in DOMAIN heard /\ j \in DOMAIN heard
        BY <2>4, <2>8, <3>1 DEF UpInv, HeardOnce
      <3>2. CASE i \in DOMAIN heard /\ j = Len(heard) + 1 BY <2>4, <2>7, <2>8, <3>2
      <3>3. CASE i = Len(heard) + 1 /\ j \in DOMAIN heard BY <2>4, <2>7, <2>8, <3>3
      <3>4. CASE i = Len(heard) + 1 /\ j = Len(heard) + 1 BY <3>4
      <3> QED BY <2>5, <3>1, <3>2, <3>3, <3>4
    <2>9. ASSUME NEW t \in Sockets, NEW j \in DOMAIN up'[t], IsText(up'[t][j])
          PROVE  /\ ~ (h.page = up'[t][j].agent /\ h.text = up'[t][j].text)
                 /\ \A i \in DOMAIN heard :
                      ~ (heard[i].page = up'[t][j].agent /\ heard[i].text = up'[t][j].text)
      <3>1. PICK k \in DOMAIN up[t] : up'[t][j] = up[t][k] /\ (t = s => k # 1)
        <4>1. CASE t = s
          <5>1. j + 1 \in DOMAIN up[s] /\ up'[s][j] = up[s][j + 1] /\ j + 1 # 1
            BY <1>6, <2>9, <4>1 DEF Shifted
          <5> QED BY <4>1, <5>1
        <4>2. CASE t # s BY <1>4, <2>9, <4>2
        <4> QED BY <4>1, <4>2
      <3>2. IsText(up[t][k]) BY <2>9, <3>1
      <3>3. ~ (f.agent = up[t][k].agent /\ f.text = up[t][k].text)
        <4> SUFFICES ASSUME f.agent = up[t][k].agent, f.text = up[t][k].text PROVE FALSE
          OBVIOUS
        <4>1. /\ IsText(up[s][1]) /\ IsText(up[t][k])
              /\ up[s][1].agent = up[t][k].agent /\ up[s][1].text = up[t][k].text
          BY <1>8, <1>9, <3>2
        <4>2. s = t /\ 1 = k BY <1>2, <1>8, <4>1 DEF UpInv, UpOnce
        <4> QED BY <3>1, <4>2
      <3>4. \A i \in DOMAIN heard :
              ~ (heard[i].page = up[t][k].agent /\ heard[i].text = up[t][k].text)
        BY <3>2 DEF UpInv, HeardOnce
      <3> QED BY <2>1, <3>1, <3>3, <3>4
    <2>10. \A t \in Sockets : \A i \in DOMAIN g, j \in DOMAIN up'[t] :
             IsText(up'[t][j])
               => ~ (g[i].page = up'[t][j].agent /\ g[i].text = up'[t][j].text)
      <3> SUFFICES ASSUME NEW t \in Sockets, NEW i \in DOMAIN g, NEW j \in DOMAIN up'[t],
                          IsText(up'[t][j])
                   PROVE ~ (g[i].page = up'[t][j].agent /\ g[i].text = up'[t][j].text)
        OBVIOUS
      <3>1. CASE i \in DOMAIN heard BY <2>4, <2>9, <3>1
      <3>2. CASE i = Len(heard) + 1 BY <2>4, <2>9, <3>2
      <3> QED BY <2>5, <3>1, <3>2
    <2>11. HeardOnce' BY <1>2, <2>3, <2>8, <2>10 DEF HeardOnce
    <2> QED BY <1>10, <1>11, <2>6, <2>11 DEF UpInv
  <1> QED BY <1>7, <1>12, <1>13 DEF ForwardToAgent

LEMMA UpType == Base /\ UpInv /\ Type => UpInv'
  <1> SUFFICES ASSUME Base, UpInv, Type PROVE UpInv' OBVIOUS
  <1>1. TypeOK BY DEF Base
  <1>2. UNCHANGED <<readyState, loop, heard>> /\ Sockets' = Sockets
    BY DEF Type, server, Sockets
  <1>3. PICK n \in Nat, k \in Nat : n = page.number /\ k = page.typed
    BY <1>1 DEF TypeOK, PageTypes, Page
  <1>4. page'.number = n /\ page'.typed = k + 1 /\ page' \in Page
    <2>1. PICK m \in Nat : m = k + 1 BY <1>3
    <2>2. page \in Page BY <1>1 DEF TypeOK, PageTypes
    <2>3. page' = [page EXCEPT !.typed = m] BY <1>3, <2>1 DEF Type
    <2>4. page' \in Page BY <2>1, <2>2, <2>3 DEF Page
    <2>5. page'.number = n /\ page'.typed = m BY <1>3, <2>2, <2>3 DEF Page
    <2> QED BY <2>1, <2>4, <2>5
  <1>5. TypedStays BY <1>1, <1>3, <1>4, NumbersGrow
  <1>6. PICK f \in Frame : f.agent = n /\ f.text = k + 1 /\ IsText(f)
                         /\ f = Text(page.number, page'.typed)
    <2>1. Text(n, k + 1) \in Frame BY Frames
    <2> QED BY <1>3, <1>4, <2>1 DEF Text, IsText
  <1>7. \A t \in Sockets :
          up'[t] = up[t] \/ (t = page.ws /\ up'[t] = Append(up[t], f))
    BY <1>6 DEF Type
  <1>8. ASSUME NEW t \in Sockets, NEW i \in DOMAIN up'[t]
        PROVE  \/ i \in DOMAIN up[t] /\ up'[t][i] = up[t][i]
               \/ /\ t = page.ws /\ i = Len(up[t]) + 1 /\ up'[t][i] = f
    <2>1. CASE up'[t] = up[t] BY <1>8, <2>1
    <2>2. CASE t = page.ws /\ up'[t] = Append(up[t], f)
      <3>1. up[t] \in Seq(Frame) BY <1>1, Places
      <3>2. PICK r : r = up'[t] OBVIOUS
      <3>3. /\ Len(up[t]) \in Nat /\ DOMAIN up[t] = 1..Len(up[t])
            /\ DOMAIN r = 1..(Len(up[t]) + 1) /\ r[Len(up[t]) + 1] = f
            /\ \A j \in DOMAIN up[t] : r[j] = up[t][j]
        BY <2>2, <3>1, <3>2, Appended
      <3>4. i \in DOMAIN r BY <1>8, <3>2
      <3> QED BY <2>2, <3>2, <3>3, <3>4
    <2> QED BY <1>7, <2>1, <2>2
  <1>9. ~ Typed(n, k + 1) /\ TypedOn(n, k + 1, n, k + 1)
    BY <1>3 DEF Typed, TypedOn
  <1>10. \A t \in Sockets : \A i \in DOMAIN up[t] :
           IsText(up[t][i]) => ~ (up[t][i].agent = n /\ up[t][i].text = k + 1)
    BY <1>9 DEF UpInv, UpTyped
  <1>11. \A i \in DOMAIN heard : ~ (heard[i].page = n /\ heard[i].text = k + 1)
    BY <1>9 DEF UpInv, HeardTyped
  <1>12. OnlyTexts' BY <1>2, <1>6, <1>8 DEF UpInv, OnlyTexts
  <1>13. UpTyped'
    <2>1. ASSUME NEW t \in Sockets, NEW i \in DOMAIN up'[t], IsText(up'[t][i])
          PROVE  TypedOn(n, k + 1, up'[t][i].agent, up'[t][i].text)
      <3>1. CASE up'[t][i] = f BY <1>6, <1>9, <3>1
      <3>2. CASE i \in DOMAIN up[t] /\ up'[t][i] = up[t][i]
        <4>1. up[t] \in Seq(Frame) BY <1>1, Places
        <4>2. up[t][i] \in Frame BY <3>2, <4>1
        <4>3. PICK a \in Nat, x \in Nat : a = up[t][i].agent /\ x = up[t][i].text
          BY <4>2 DEF Frame
        <4>4. Typed(a, x) BY <2>1, <3>2, <4>3 DEF UpInv, UpTyped
        <4> QED BY <1>3, <3>2, <4>3, <4>4 DEF Typed, TypedOn
      <3> QED BY <1>8, <3>1, <3>2
    <2> QED BY <1>2, <1>4, <2>1 DEF UpTyped, Typed
  <1>14. HeardTyped'
    <2>1. ASSUME NEW i \in DOMAIN heard
          PROVE  TypedOn(n, k + 1, heard[i].page, heard[i].text)
      <3>1. heard \in Seq(Heard) BY <1>1 DEF TypeOK, PageTypes
      <3>2. heard[i] \in Heard BY <3>1
      <3>3. PICK a \in Nat, x \in Nat : a = heard[i].page /\ x = heard[i].text
        BY <3>2 DEF Heard
      <3>4. Typed(a, x) BY <3>3 DEF UpInv, HeardTyped
      <3> QED BY <1>3, <3>3, <3>4 DEF Typed, TypedOn
    <2> QED BY <1>2, <1>4, <2>1 DEF HeardTyped, Typed
  <1>15. UpOnce'
    <2>1. ASSUME NEW s \in Sockets, NEW t \in Sockets,
                 NEW i \in DOMAIN up'[s], NEW j \in DOMAIN up'[t],
                 IsText(up'[s][i]), IsText(up'[t][j]),
                 up'[s][i].agent = up'[t][j].agent, up'[s][i].text = up'[t][j].text
          PROVE  s = t /\ i = j
      <3>1. CASE i \in DOMAIN up[s] /\ up'[s][i] = up[s][i]
        <4>1. CASE j \in DOMAIN up[t] /\ up'[t][j] = up[t][j]
          BY <2>1, <3>1, <4>1 DEF UpInv, UpOnce
        <4>2. CASE up'[t][j] = f BY <1>6, <1>10, <2>1, <3>1, <4>2
        <4> QED BY <1>8, <4>1, <4>2
      <3>2. CASE s = page.ws /\ i = Len(up[s]) + 1 /\ up'[s][i] = f
        <4>1. CASE j \in DOMAIN up[t] /\ up'[t][j] = up[t][j]
          BY <1>6, <1>10, <2>1, <3>2, <4>1
        <4>2. CASE t = page.ws /\ j = Len(up[t]) + 1 /\ up'[t][j] = f BY <3>2, <4>2
        <4> QED BY <1>8, <4>1, <4>2
      <3> QED BY <1>8, <3>1, <3>2
    <2> QED BY <1>2, <2>1 DEF UpOnce
  <1>16. HeardOnce'
    <2>1. ASSUME NEW s \in Sockets, NEW i \in DOMAIN heard, NEW j \in DOMAIN up'[s],
                 IsText(up'[s][j])
          PROVE  ~ (heard[i].page = up'[s][j].agent /\ heard[i].text = up'[s][j].text)
      <3>1. CASE j \in DOMAIN up[s] /\ up'[s][j] = up[s][j]
        BY <2>1, <3>1 DEF UpInv, HeardOnce
      <3>2. CASE up'[s][j] = f BY <1>6, <1>11, <3>2
      <3> QED BY <1>8, <3>1, <3>2
    <2> QED BY <1>2, <2>1 DEF UpInv, HeardOnce
  <1> QED BY <1>12, <1>13, <1>14, <1>15, <1>16 DEF UpInv

LEMMA UpStep == Base /\ UpInv /\ [Next]_vars => UpInv'
  <1> SUFFICES ASSUME Base, UpInv, [Next]_vars PROVE UpInv' OBVIOUS
  <1>1. TypeOK /\ page \in Page BY DEF Base, TypeOK, PageTypes
  <1>2. Base' BY BaseStep
  <1>3. page' \in Page BY <1>2 DEF Base, TypeOK, PageTypes
  <1>4. CASE AgentAccepted \/ Expire
    BY <1>1, <1>4, UpAlone DEF AgentAccepted, Expire, socket, chat, Sockets
  <1>5. ASSUME NEW a \in AgentIds, AgentRegistered(a) \/ AgentSays(a) \/ AgentGone(a)
        PROVE UpInv'
    BY <1>1, <1>5, UpAlone DEF AgentRegistered, AgentSays, AgentGone, socket, chat, Sockets
  <1>6. ASSUME NEW s \in SocketIds, Received(s) PROVE UpInv'
    <2>1. page'.number = page.number /\ page'.typed = page.typed
      BY <1>1, <1>6 DEF Received, Page
    <2> QED BY <1>3, <1>6, <2>1, UpAlone DEF Received, server, Sockets
  <1>7. ASSUME NEW s \in SocketIds, Dropped(s) PROVE UpInv'
    <2>1. page'.number = page.number /\ page'.typed = page.typed
      BY <1>1, <1>7 DEF Dropped, Page
    <2>2. Sockets' = Sockets
      BY <1>1, <1>7 DEF Dropped, Sockets, TypeOK, SocketTypes
    <2> QED BY <1>3, <1>7, <2>1, <2>2, UpAlone DEF Dropped, server
  <1>8. ASSUME NEW secret \in AgentIds, OpenPage(secret) PROVE UpInv'
    <2>1. page'.number = page.number + 1 BY <1>8 DEF OpenPage, NoPage
    <2>2. TypedStays BY <1>1, <1>3, <2>1, NumbersGrow
    <2> QED BY <1>8, <2>2, UpConnecting DEF OpenPage
  <1>9. CASE Reconnect
    <2>1. page'.number = page.number /\ page'.typed = page.typed
      BY <1>1, <1>9 DEF Reconnect, Page
    <2>2. TypedStays BY <2>1 DEF TypedStays, Typed
    <2> QED BY <1>9, <2>2, UpConnecting DEF Reconnect
  <1>10. ASSUME NEW new \in {"connecting", "connected", "reconnecting"}, DirectChanges(new)
         PROVE UpInv'
    BY <1>1, <1>10, UpAlone DEF DirectChanges, server, socket, Sockets
  <1>11. CASE UNCHANGED vars
    BY <1>1, <1>11, UpAlone DEF vars, server, socket, chat, Sockets
  <1>12. CASE ServerNext
    BY <1>4, <1>5, <1>12, UpPairRead, UpForwardToAgent, UpClientGone DEF ServerNext
  <1>13. CASE PageNext
    BY <1>6, <1>7, <1>8, <1>9, <1>10, <1>13, UpOpened, UpType DEF PageNext
  <1> QED BY <1>11, <1>12, <1>13 DEF Next

(***************************************************************************)
(* Theorems.                                                               *)
(***************************************************************************)

LEMMA RelayInvEquals == RelayInv <=> Base /\ DownInv /\ UpInv
  BY DEF RelayInv, Base, DownInv, UpInv

\* Whatever agents, pages and the server's loops do, and however late they
\* end, all parts of the invariant hold.
THEOREM RelayInvariant == Spec => []RelayInv
  <1>1. Init => RelayInv
    <2> SUFFICES ASSUME Init PROVE RelayInv OBVIOUS
    <2>1. Base BY BaseInit
    <2>2. page.events = <<>> /\ heard = <<>> /\ Sockets = {}
      BY DEF Init, NoPage, Sockets
    <2>3. DownInv BY <2>2 DEF DownInv, EventsSaid, InOrder, DownInOrder
    <2>4. UpInv BY <2>2 DEF UpInv, OnlyTexts, UpTyped, HeardTyped, UpOnce, HeardOnce
    <2> QED BY <2>1, <2>3, <2>4, RelayInvEquals
  <1>2. RelayInv /\ [Next]_vars => RelayInv'
    <2> SUFFICES ASSUME RelayInv, [Next]_vars PROVE RelayInv' OBVIOUS
    <2>1. Base /\ DownInv /\ UpInv BY RelayInvEquals
    <2>2. Base' /\ DownInv' /\ UpInv' BY <2>1, BaseStep, DownStep, UpStep
    <2> QED BY <2>2 DEF RelayInv, Base, DownInv, UpInv
  <1> QED BY <1>1, <1>2, PTL DEF Spec

\* All that the relay, its agents and the page keep is what the code can hold
\* there.
THEOREM TypeCorrect == Spec => []TypeOK
  <1>1. RelayInv => TypeOK BY DEF RelayInv
  <1> QED BY <1>1, RelayInvariant, PTL

\* The session names the agent that registered last as long as that one is
\* there, and a client whose loop runs; every connection gives its slot back,
\* and there are never more than MaxConnections.
THEOREM SessionAndSlots == Spec => []SessionHolds
  <1>1. RelayInv => SessionHolds BY DEF RelayInv, SessionKept, Counted, SessionHolds
  <1> QED BY <1>1, RelayInvariant, PTL

\* A page shows the texts of an agent in order and none twice, and an agent is
\* given no text of a page twice, however often sockets drop and are made again.
THEOREM TextsKeepOrder == Spec => []TextsInOrder
  <1>1. RelayInv => TextsInOrder
    BY DEF RelayInv, EventsSaid, InOrder, Before, HeardOnce, TextsInOrder
  <1> QED BY <1>1, RelayInvariant, PTL

(***************************************************************************)
(* The mobile client.                                                      *)
(***************************************************************************)

(***************************************************************************)
(* Induction and recursion.  The theorems of the library take an operator  *)
(* as a parameter; stated of a set and of a sequence of functions instead, *)
(* both are first order, and follow from the least element that every set  *)
(* of numbers has.                                                         *)
(***************************************************************************)

\* A set of numbers that is not empty has a least one.
LEMMA Least ==
  ASSUME NEW T, T \subseteq Nat, T # {}
  PROVE  \E x \in T : \A y \in T : x <= y
  <1> DEFINE R == OpToRel(<, Nat)
  <1>1. IsWellFoundedOn(R, Nat) BY NatLessThanWellFounded
  <1>2. \A x, y \in Nat : x < y => <<x, y>> \in R BY DEF OpToRel
  <1> HIDE DEF R
  <1>3. PICK x \in T : \A y \in T : ~ (<<y, x>> \in R) BY <1>1, WFMin
  <1>4. \A y \in T : ~ (y < x) BY <1>2, <1>3
  <1> QED BY <1>3, <1>4

\* Induction over the numbers.
LEMMA Induction ==
  ASSUME NEW T, 0 \in T, \A n \in Nat : n \in T => n + 1 \in T
  PROVE  Nat \subseteq T
  <1> SUFFICES ASSUME Nat \ T # {} PROVE FALSE OBVIOUS
  <1>1. PICK x \in Nat \ T : \A y \in Nat \ T : x <= y
    <2> DEFINE U == Nat \ T
    <2>1. U \subseteq Nat /\ U # {} OBVIOUS
    <2> HIDE DEF U
    <2>2. \E x \in U : \A y \in U : x <= y BY <2>1, Least
    <2> QED BY <2>2 DEF U
  <1>2. x # 0 /\ x - 1 \in Nat BY <1>1
  <1>3. x - 1 \in T BY <1>1, <1>2
  <1> QED BY <1>1, <1>2, <1>3

\* The values f[0], ..., f[n] of which each is computed from the one before.
Computes(f, n, S, a, step) ==
  f \in [0..n -> S] /\ f[0] = a /\ \A i \in 1..n : f[i] = step[i][f[i - 1]]

\* What is computed step by step can be computed.
LEMMA Recursion ==
  ASSUME NEW n \in Nat, NEW S, NEW a \in S, NEW step \in [1..n -> [S -> S]]
  PROVE  \E f : Computes(f, n, S, a, step)
  <1> DEFINE T == {k \in Nat : k <= n => \E f : Computes(f, k, S, a, step)}
  <1>1. 0 \in T
    <2>1. Computes([i \in 0..0 |-> a], 0, S, a, step) BY DEF Computes
    <2> QED BY <2>1
  <1>2. ASSUME NEW k \in Nat, k \in T PROVE k + 1 \in T
    <2> SUFFICES ASSUME k + 1 <= n PROVE \E f : Computes(f, k + 1, S, a, step) OBVIOUS
    <2>1. PICK f : Computes(f, k, S, a, step) BY <1>2
    <2>2. k + 1 \in 1..n /\ k \in 0..k /\ f[k] \in S BY <2>1 DEF Computes
    <2>3. PICK v \in S : v = step[k + 1][f[k]] BY <2>2
    <2> DEFINE g == [i \in 0..(k + 1) |-> IF i = k + 1 THEN v ELSE f[i]]
    <2>4. \A i \in 0..k : g[i] = f[i] /\ f[i] \in S BY <2>1 DEF Computes
    <2>5. g[k + 1] = v OBVIOUS
    <2>6. g \in [0..(k + 1) -> S] BY <2>1, <2>3 DEF Computes
    <2> HIDE DEF g
    <2>7. g[0] = a BY <2>1, <2>4 DEF Computes
    <2>8. ASSUME NEW i \in 1..(k + 1) PROVE g[i] = step[i][g[i - 1]]
      <3>1. CASE i = k + 1 BY <2>2, <2>3, <2>4, <2>5, <3>1
      <3>2. CASE i # k + 1
        <4>1. i \in 1..k /\ i \in 0..k /\ i - 1 \in 0..k BY <3>2
        <4> QED BY <2>1, <2>4, <4>1 DEF Computes
      <3> QED BY <3>1, <3>2
    <2> QED BY <2>6, <2>7, <2>8 DEF Computes
  <1>3. n \in T
    <2> HIDE DEF T
    <2>1. Nat \subseteq T BY <1>1, <1>2, Induction
    <2> QED BY <2>1
  <1> QED BY <1>3
\* Two computations that take the same steps are the same.
SameSteps(step, more, n) == \A i \in 1..n : step[i] = more[i]

LEMMA SameStart ==
  ASSUME NEW n \in Nat, NEW m \in Nat, n <= m, NEW S, NEW a,
         NEW step, NEW more, SameSteps(step, more, n),
         NEW f, Computes(f, n, S, a, step), NEW g, Computes(g, m, S, a, more)
  PROVE  g[n] = f[n]
  <1> DEFINE T == {i \in Nat : i <= n => g[i] = f[i]}
  <1>1. 0 \in T BY DEF Computes
  <1>2. ASSUME NEW i \in Nat, i \in T PROVE i + 1 \in T
    <2> SUFFICES ASSUME i + 1 <= n PROVE g[i + 1] = f[i + 1] OBVIOUS
    <2>1. i + 1 \in 1..n /\ i + 1 \in 1..m /\ (i + 1) - 1 = i /\ g[i] = f[i] BY <1>2
    <2>2. f[i + 1] = step[i + 1][f[i]] BY <2>1 DEF Computes
    <2>3. g[i + 1] = more[i + 1][g[i]] BY <2>1 DEF Computes
    <2>4. step[i + 1] = more[i + 1] BY <2>1 DEF SameSteps
    <2> QED BY <2>1, <2>2, <2>3, <2>4
  <1>3. n \in T
    <2> HIDE DEF T
    <2>1. Nat \subseteq T BY <1>1, <1>2, Induction
    <2> QED BY <2>1
  <1> QED BY <1>3

(***************************************************************************)
(* Sequences of sequences.                                                 *)
(***************************************************************************)
Joins(qs, S) == [i \in 1..Len(qs) |-> [h \in Seq(S) |-> h \o qs[i]]]

LEMMA FlattenIs ==
  ASSUME NEW S, NEW qs \in Seq(Seq(S))
  PROVE  \E f : /\ Computes(f, Len(qs), Seq(S), <<>>, Joins(qs, S))
                /\ FlattenSeq(qs) = f[Len(qs)]
  <1> DEFINE n == Len(qs)
             Q == Seq(S)
             e == <<>>
             step == Joins(qs, S)
             next(f) == [i \in 1..n |-> IF i = 1 THEN qs[i] ELSE f[i - 1] \o qs[i]]
             flatten == CHOOSE f : f = next(f)
  <1>1. FlattenSeq(qs) = IF n = 0 THEN qs ELSE flatten[n] BY DEF FlattenSeq
  <1>2. n \in Nat /\ e \in Q /\ \A i \in 1..n : qs[i] \in Q OBVIOUS
  <1>3. step \in [1..n -> [Q -> Q]]
    <2>1. ASSUME NEW i \in 1..n, NEW h \in Q PROVE h \o qs[i] \in Q BY <1>2
    <2>2. step = [i \in 1..n |-> [h \in Q |-> h \o qs[i]]] BY DEF Joins
    <2> HIDE DEF Q, n, step
    <2> QED BY <2>1, <2>2
  <1>4. PICK g : Computes(g, n, Q, e, step)
    <2> HIDE DEF n, Q, e, step
    <2> QED BY <1>2, <1>3, Recursion
  <1>5. \A i \in 1..n : g[i] = g[i - 1] \o qs[i]
    <2> SUFFICES ASSUME NEW i \in 1..n PROVE g[i] = g[i - 1] \o qs[i] OBVIOUS
    <2>1. i - 1 \in 0..n BY <1>2
    <2>2. step[i] = [h \in Q |-> h \o qs[i]] BY DEF Joins
    <2> HIDE DEF Q, n, step
    <2>3. g[i - 1] \in Q /\ g[i] = step[i][g[i - 1]] BY <1>4, <2>1 DEF Computes
    <2> QED BY <2>2, <2>3
  <1>6. g[0] = <<>>
    <2> HIDE DEF Q, n, step
    <2> QED BY <1>4 DEF Computes
  <1>7. n # 0 => g[1] = qs[1]
    <2> SUFFICES ASSUME n # 0 PROVE g[1] = qs[1] OBVIOUS
    <2>1. 1 \in 1..n /\ 1 - 1 = 0 BY <1>2
    <2>2. g[1] = <<>> \o qs[1] BY <1>5, <1>6, <2>1
    <2>3. qs[1] \in Seq(S) BY <1>2, <2>1
    <2> QED BY <2>2, <2>3
  <1> HIDE DEF n
  <1>8. flatten = next(flatten)
    <2> DEFINE h == [i \in 1..n |-> g[i]]
    <2>1. ASSUME NEW i \in 1..n
          PROVE  g[i] = IF i = 1 THEN qs[i] ELSE h[i - 1] \o qs[i]
      <3>1. CASE i = 1 BY <1>2, <1>7, <3>1
      <3>2. CASE i # 1
        <4>1. i - 1 \in 1..n BY <1>2, <3>2
        <4>2. h[i - 1] = g[i - 1] BY <4>1
        <4> QED BY <1>5, <3>2, <4>2
      <3> QED BY <3>1, <3>2
    <2>2. h = next(h) BY <2>1
    <2> HIDE DEF h, next
    <2> QED BY <2>2, Zenon
  <1> HIDE DEF flatten, next
  <1>9. \A i \in 1..n : flatten[i] = IF i = 1 THEN qs[i] ELSE flatten[i - 1] \o qs[i]
    <2>1. \A i \in 1..n : flatten[i] = next(flatten)[i] BY <1>8, Zenon
    <2>2. \A i \in 1..n : next(flatten)[i] = IF i = 1 THEN qs[i] ELSE flatten[i - 1] \o qs[i]
      BY DEF next
    <2> QED BY <2>1, <2>2, Zenon
  <1> DEFINE T == {i \in Nat : i + 1 <= n => flatten[i + 1] = g[i + 1]}
  <1>10. 0 \in T
    <2> SUFFICES ASSUME 1 <= n PROVE flatten[1] = g[1] OBVIOUS
    <2>1. 1 \in 1..n /\ n # 0 BY <1>2
    <2> QED BY <1>7, <1>9, <2>1
  <1>11. ASSUME NEW i \in Nat, i \in T PROVE i + 1 \in T
    <2> SUFFICES ASSUME (i + 1) + 1 <= n PROVE flatten[(i + 1) + 1] = g[(i + 1) + 1] OBVIOUS
    <2> PICK k : k = i + 1 OBVIOUS
    <2>1. k + 1 \in 1..n /\ k + 1 # 1 /\ (k + 1) - 1 = k /\ flatten[k] = g[k]
      BY <1>2, <1>11
    <2>2. flatten[k + 1] = flatten[k] \o qs[k + 1] BY <1>9, <2>1
    <2>3. g[k + 1] = g[k] \o qs[k + 1] BY <1>5, <2>1
    <2> QED BY <2>1, <2>2, <2>3
  <1>12. Nat \subseteq T
    <2> HIDE DEF T
    <2> QED BY <1>10, <1>11, Induction
  <1>13. FlattenSeq(qs) = g[n]
    <2>1. CASE n = 0
      <3>1. qs = <<>> BY <2>1 DEF n
      <3> QED BY <1>1, <1>6, <2>1, <3>1
    <2>2. CASE n # 0
      <3>1. n - 1 \in Nat /\ (n - 1) + 1 = n BY <1>2, <2>2
      <3>2. flatten[n] = g[n] BY <1>12, <3>1
      <3> QED BY <1>1, <2>2, <3>2
    <2> QED BY <2>1, <2>2
  <1> HIDE DEF step, Q, e
  <1>14. \E f : Computes(f, n, Q, e, step) /\ FlattenSeq(qs) = f[n] BY <1>4, <1>13
  <1> QED BY <1>14 DEF n, Q, e, step

LEMMA FlattenMore ==
  ASSUME NEW S, NEW qs \in Seq(Seq(S)), NEW x \in Seq(S)
  PROVE  /\ FlattenSeq(Append(qs, x)) = FlattenSeq(qs) \o x
         /\ FlattenSeq(qs) \in Seq(S)
  <1> PICK rs : rs = Append(qs, x) OBVIOUS
  <1> PICK n \in Nat : n = Len(qs) OBVIOUS
  <1> DEFINE Q == Seq(S)
             e == <<>>
             step == Joins(qs, S)
             more == Joins(rs, S)
  <1>1. rs \in Seq(Seq(S)) /\ Len(rs) = n + 1 /\ rs[n + 1] = x
        /\ \A i \in 1..n : rs[i] = qs[i]
    OBVIOUS
  <1>2. PICK f : Computes(f, n, Q, e, step) /\ FlattenSeq(qs) = f[n]
    BY FlattenIs
  <1>3. PICK g : Computes(g, n + 1, Q, e, more) /\ FlattenSeq(rs) = g[n + 1]
    BY <1>1, FlattenIs
  <1>4. \A i \in 1..n : step[i] = more[i]
    <2> SUFFICES ASSUME NEW i \in 1..n PROVE step[i] = more[i] OBVIOUS
    <2>1. step[i] = [h \in Seq(S) |-> h \o qs[i]] BY DEF Joins
    <2>2. i \in 1..(n + 1) /\ rs[i] = qs[i] BY <1>1
    <2>3. more[i] = [h \in Seq(S) |-> h \o rs[i]] BY <1>1, <2>2 DEF Joins
    <2> QED BY <2>1, <2>2, <2>3
  <1>5. g[n] = f[n]
    <2> HIDE DEF Q, e, step, more
    <2> PICK m \in Nat : m = n + 1 OBVIOUS
    <2>1. n <= m /\ Computes(f, n, Q, e, step) /\ Computes(g, m, Q, e, more) BY <1>2, <1>3
    <2>2. SameSteps(step, more, n) BY <1>4 DEF SameSteps
    <2> QED BY <2>1, <2>2, SameStart
  <1>6. g[n] \in Q /\ g[n + 1] = more[n + 1][g[n]]
    <2> HIDE DEF Q, e, step, more
    <2>1. n \in 0..(n + 1) /\ n + 1 \in 1..(n + 1) /\ (n + 1) - 1 = n OBVIOUS
    <2> QED BY <1>3, <2>1 DEF Computes
  <1>7. more[n + 1] = [h \in Q |-> h \o x]
    <2>1. n + 1 \in 1..(n + 1) OBVIOUS
    <2> QED BY <1>1, <2>1 DEF Joins
  <1> QED BY <1>2, <1>3, <1>5, <1>6, <1>7

LEMMA AppendedTo ==
  ASSUME NEW S, NEW q \in Seq(S), NEW x \in S, NEW n \in Nat, Len(q) = n
  PROVE  /\ Append(q, x) \in [1..(n + 1) -> S]
         /\ \A i \in 1..n : Append(q, x)[i] = q[i]
         /\ Append(q, x)[n + 1] = x
  <1>1. /\ Append(q, x) \in Seq(S) /\ Len(Append(q, x)) = n + 1
        /\ \A i \in 1..n : Append(q, x)[i] = q[i]
        /\ Append(q, x)[n + 1] = x
    BY AppendProperties
  <1> QED BY <1>1, LenProperties

\* A function that goes on where a sequence ends is the sequence with its value
\* appended.
Continues(r, q, x, n) ==
  /\ DOMAIN r = 1..(n + 1) /\ r = [i \in 1..(n + 1) |-> r[i]]
  /\ r[n + 1] = x /\ \A i \in 1..n : r[i] = q[i]

LEMMA AppendIs ==
  ASSUME NEW S, NEW q \in Seq(S), NEW x \in S, NEW n \in Nat, Len(q) = n,
         NEW r, Continues(r, q, x, n)
  PROVE  r = Append(q, x)
  <1>1. /\ Append(q, x) \in [1..(n + 1) -> S]
        /\ \A i \in 1..n : Append(q, x)[i] = q[i]
        /\ Append(q, x)[n + 1] = x
    BY AppendedTo
  <1> PICK t : t = Append(q, x) OBVIOUS
  <1>2. t = [i \in 1..(n + 1) |-> t[i]] BY <1>1
  <1>3. \A i \in 1..(n + 1) : r[i] = t[i]
    <2> SUFFICES ASSUME NEW i \in 1..(n + 1) PROVE r[i] = t[i] OBVIOUS
    <2>1. CASE i = n + 1 BY <1>1, <2>1 DEF Continues
    <2>2. CASE i # n + 1
      <3>1. i \in 1..n BY <2>2
      <3> QED BY <1>1, <3>1 DEF Continues
    <2> QED BY <2>1, <2>2
  <1>4. r = t
    <2>1. r = [i \in 1..(n + 1) |-> r[i]] BY DEF Continues
    <2> QED BY <1>2, <1>3, <2>1, Zenon
  <1> QED BY <1>4

\* Joining is associative, said of an operator that is not expanded.
Concat(p, q) == p \o q

LEMMA Regrouped ==
  ASSUME NEW S, NEW a \in Seq(S), NEW b \in Seq(S), NEW c \in Seq(S)
  PROVE  Concat(Concat(a, b), c) = Concat(a, Concat(b, c))
  <1>1. (a \o b) \o c = a \o (b \o c) BY ConcatAssociative, SMT
  <1> QED BY <1>1 DEF Concat

LEMMA JoinsAppended ==
  ASSUME NEW S, NEW a \in Seq(S), NEW b \in Seq(S), NEW x \in S
  PROVE  /\ Append(b, x) \in Seq(S) /\ b \o <<x>> = Append(b, x)
         /\ a \o Append(b, x) = Append(a \o b, x)
         /\ a \o Append(b, x) = (a \o b) \o <<x>>
  <1>0. <<x>> \in Seq(S) OBVIOUS
  <1>1. PICK c \in Seq(S) : c = <<x>> BY <1>0, Zenon
  <1>2. a \o b \in Seq(S) BY ConcatProperties
  <1>3. Append(b, x) = b \o <<x>> /\ Append(a \o b, x) = (a \o b) \o <<x>>
    BY <1>2, AppendIsConcat
  <1>4. Append(b, x) \in Seq(S) BY AppendProperties
  <1>5. Concat(Concat(a, b), c) = Concat(a, Concat(b, c)) BY Regrouped
  <1>6. (a \o b) \o <<x>> = a \o (b \o <<x>>) BY <1>1, <1>5 DEF Concat
  <1> QED BY <1>3, <1>4, <1>6

LEMMA AppendJoined ==
  ASSUME NEW S, NEW a \in Seq(S), NEW b \in Seq(S), NEW x \in S
  PROVE  a \o Append(b, x) = Append(a \o b, x)
  BY JoinsAppended

LEMMA NumbersJoin ==
  ASSUME NEW a \in Seq(Nat), NEW b \in Seq(Nat), NEW id \in Nat
  PROVE  /\ Append(b, id) \in Seq(Nat) /\ b \o <<id>> \in Seq(Nat)
         /\ a \o Append(b, id) = (a \o b) \o <<id>>
         /\ a \o (b \o <<id>>) = (a \o b) \o <<id>>
  <1> DEFINE N == Nat
  <1>1. a \in Seq(N) /\ b \in Seq(N) /\ id \in N OBVIOUS
  <1> HIDE DEF N
  <1>2. /\ Append(b, id) \in Seq(N) /\ b \o <<id>> = Append(b, id)
        /\ a \o Append(b, id) = (a \o b) \o <<id>>
    BY <1>1, JoinsAppended
  <1> QED BY <1>2 DEF N

\* The first elements and the last one of a sequence make it up.
LEMMA FrontAndLast ==
  ASSUME NEW S, NEW q \in Seq(S), q # <<>>
  PROVE  Front(q) \in Seq(S) /\ Last(q) \in S /\ q = Append(Front(q), Last(q))
  <1> PICK n \in Nat : n = Len(q) OBVIOUS
  <1>1. n >= 1 /\ n - 1 \in 0..n OBVIOUS
  <1>2. Last(q) = q[n] /\ Last(q) \in S BY <1>1 DEF Last
  <1> PICK k \in 0..n : k = n - 1 BY <1>1
  <1> PICK f : f = SubSeq(q, 1, k) OBVIOUS
  <1>3. f \in Seq(S) /\ Len(f) = k /\ \A i \in 1..k : f[i] = q[i] OBVIOUS
  <1>4. Front(q) = f BY DEF Front
  <1> PICK x \in S : x = q[n] BY <1>2
  <1>5. q = Append(f, x)
    <2>1. /\ Append(f, x) \in Seq(S) /\ Len(Append(f, x)) = n
          /\ \A i \in 1..k : Append(f, x)[i] = q[i]
          /\ Append(f, x)[n] = x
      BY <1>1, <1>3
    <2>2. \A i \in 1..n : i \in 1..k \/ i = n BY <1>1
    <2> QED BY <2>1, <2>2
  <1> QED BY <1>2, <1>3, <1>4, <1>5

(***************************************************************************)
(* What the cards say, and what was given: the terms of the sequence that  *)
(* TextsKept joins, and the joints of its first p terms.                   *)
(***************************************************************************)
Contents(cards) == FlattenSeq([i \in DOMAIN cards |-> CardSays(cards[i])])
Term(ids, k) == IF GivesWay(ids, k) THEN <<>> ELSE Says(ids[k])
Given(ids, p) == FlattenSeq([k \in 1..p |-> Term(ids, k)])

LEMMA SaysIs ==
  ASSUME NEW c \in Cards
  PROVE  CardSays(c) \in Seq(Nat)
  <1>1. c.of \in Seq(Nat) BY DEF Cards
  <1>2. <<>> \in Seq(Nat) /\ <<0>> \in Seq(Nat) OBVIOUS
  <1> QED BY <1>1, <1>2 DEF CardSays

LEMMA ContentsMore ==
  ASSUME NEW cards \in Seq(Cards), NEW c \in Cards
  PROVE  /\ Contents(Append(cards, c)) = Contents(cards) \o CardSays(c)
         /\ Contents(cards) \in Seq(Nat)
  <1> PICK n \in Nat : n = Len(cards) OBVIOUS
  <1> PICK d : d = Append(cards, c) OBVIOUS
  <1>1. /\ DOMAIN cards = 1..n /\ DOMAIN d = 1..(n + 1) /\ d[n + 1] = c
        /\ \A i \in 1..n : d[i] = cards[i] /\ cards[i] \in Cards
    OBVIOUS
  <1> DEFINE qs == [i \in DOMAIN cards |-> CardSays(cards[i])]
             rs == [i \in DOMAIN d |-> CardSays(d[i])]
  <1>2. CardSays(c) \in Seq(Nat) BY SaysIs
  <1>3. qs \in Seq(Seq(Nat)) /\ Len(qs) = n
    <2>1. \A i \in 1..n : CardSays(cards[i]) \in Seq(Nat) BY <1>1, SaysIs
    <2>2. qs \in [1..n -> Seq(Nat)] BY <1>1, <2>1
    <2> HIDE DEF qs
    <2> QED BY <2>2, FunctionIsSeq
  <1>4. rs = Append(qs, CardSays(c))
    <2> PICK x \in Seq(Nat) : x = CardSays(c) BY <1>2
    <2>1. DOMAIN rs = 1..(n + 1) /\ rs = [i \in 1..(n + 1) |-> rs[i]] BY <1>1
    <2>2. rs[n + 1] = x /\ \A i \in 1..n : rs[i] = qs[i]
      <3>1. n + 1 \in DOMAIN d /\ \A i \in 1..n : i \in DOMAIN d BY <1>1
      <3> QED BY <1>1, <3>1
    <2> DEFINE Q == Seq(Nat)
    <2>3. qs \in Seq(Q) /\ x \in Q /\ Len(qs) = n BY <1>3
    <2> HIDE DEF qs, rs, Q
    <2>4. Continues(rs, qs, x, n) BY <2>1, <2>2 DEF Continues
    <2>5. rs = Append(qs, x) BY <2>3, <2>4, AppendIs
    <2> QED BY <2>5
  <1>5. Contents(cards) = FlattenSeq(qs) /\ Contents(d) = FlattenSeq(rs) BY DEF Contents
  <1> HIDE DEF qs, rs
  <1> QED BY <1>2, <1>3, <1>4, <1>5, FlattenMore

\* What an event and the user say is a sequence of numbers.
LEMMA TermIs ==
  ASSUME NEW ids \in Seq(Nat), NEW k \in 1..Len(ids)
  PROVE  Term(ids, k) \in Seq(Nat)
  <1> PICK id \in Nat : id = ids[k] OBVIOUS
  <1>1. <<>> \in Seq(Nat) /\ <<0>> \in Seq(Nat) /\ <<id>> \in Seq(Nat) OBVIOUS
  <1>2. Says(id) \in Seq(Nat) BY <1>1 DEF Says, TextOf
  <1> QED BY <1>1, <1>2 DEF Term

LEMMA GivenMore ==
  ASSUME NEW ids \in Seq(Nat), NEW p \in Nat, p + 1 <= Len(ids)
  PROVE  /\ Given(ids, p + 1) = Concat(Given(ids, p), Term(ids, p + 1))
         /\ Given(ids, p) \in Seq(Nat) /\ Given(ids, p + 1) \in Seq(Nat)
  <1> DEFINE qs == [k \in 1..p |-> Term(ids, k)]
             rs == [k \in 1..(p + 1) |-> Term(ids, k)]
             Q == Seq(Nat)
  <1>1. \A k \in 1..(p + 1) : Term(ids, k) \in Q
    <2>1. \A k \in 1..(p + 1) : k \in 1..Len(ids) OBVIOUS
    <2> QED BY <2>1, TermIs
  <1> PICK x \in Q : x = Term(ids, p + 1) BY <1>1
  <1>2. qs \in Seq(Q) /\ Len(qs) = p
    <2>1. qs \in [1..p -> Q] BY <1>1
    <2> HIDE DEF qs, Q
    <2> QED BY <2>1, FunctionIsSeq
  <1>3. rs = Append(qs, x)
    <2>1. DOMAIN rs = 1..(p + 1) /\ rs = [k \in 1..(p + 1) |-> rs[k]] OBVIOUS
    <2>2. rs[p + 1] = x /\ \A k \in 1..p : rs[k] = qs[k] OBVIOUS
    <2> HIDE DEF qs, rs, Q
    <2>3. Continues(rs, qs, x, p) BY <2>1, <2>2 DEF Continues
    <2> QED BY <1>2, <2>3, AppendIs
  <1>4. Given(ids, p) = FlattenSeq(qs) /\ Given(ids, p + 1) = FlattenSeq(rs) BY DEF Given
  <1>5. FlattenSeq(rs) = Concat(FlattenSeq(qs), x) /\ FlattenSeq(qs) \in Q
    <2> HIDE DEF qs, rs
    <2> QED BY <1>2, <1>3, FlattenMore DEF Concat
  <1>6. Concat(FlattenSeq(qs), x) \in Q
    <2> PICK a \in Seq(Nat) : a = FlattenSeq(qs) BY <1>5
    <2> HIDE DEF qs
    <2> QED BY ConcatProperties DEF Concat
  <1> QED BY <1>4, <1>5, <1>6

LEMMA FlattenNothing == FlattenSeq(<<>>) = <<>>
  <1>1. <<>> \in Seq(Seq(Nat)) /\ Len(<<>>) = 0 OBVIOUS
  <1>2. PICK f : /\ Computes(f, 0, Seq(Nat), <<>>, Joins(<<>>, Nat))
                 /\ FlattenSeq(<<>>) = f[0]
    BY <1>1, FlattenIs
  <1> QED BY <1>2 DEF Computes

LEMMA GivenNothing ==
  ASSUME NEW ids
  PROVE  Given(ids, 0) = <<>>
  <1>1. [k \in 1..0 |-> Term(ids, k)] = <<>> OBVIOUS
  <1> QED BY <1>1, FlattenNothing DEF Given

\* Terms that say nothing add nothing to those before them.
LEMMA GivenTail ==
  ASSUME NEW ids \in Seq(Nat), NEW p \in Nat, NEW n \in Nat, p <= n, n <= Len(ids),
         \A k \in (p + 1)..n : Term(ids, k) = <<>>
  PROVE  Given(ids, n) = Given(ids, p)
  <1> DEFINE T == {i \in Nat : p + i <= n => Given(ids, p + i) = Given(ids, p)}
  <1>1. 0 \in T
    <2>1. p + 0 = p OBVIOUS
    <2> QED BY <2>1
  <1>2. ASSUME NEW i \in Nat, i \in T PROVE i + 1 \in T
    <2> SUFFICES ASSUME p + (i + 1) <= n PROVE Given(ids, p + (i + 1)) = Given(ids, p)
      OBVIOUS
    <2> PICK q \in Nat : q = p + i OBVIOUS
    <2>1. q + 1 = p + (i + 1) /\ q + 1 <= Len(ids) /\ q + 1 \in (p + 1)..n OBVIOUS
    <2>2. Given(ids, q) = Given(ids, p) BY <1>2, <2>1
    <2>3. Given(ids, q + 1) = Concat(Given(ids, q), <<>>) /\ Given(ids, q) \in Seq(Nat)
      BY <2>1, GivenMore
    <2>4. Concat(Given(ids, q), <<>>) = Given(ids, q) BY <2>3, ConcatEmptySeq DEF Concat
    <2> QED BY <2>1, <2>2, <2>3, <2>4
  <1>3. n - p \in Nat /\ p + (n - p) = n OBVIOUS
  <1>4. Nat \subseteq T
    <2> HIDE DEF T
    <2> QED BY <1>1, <1>2, Induction
  <1>5. n - p \in T BY <1>3, <1>4
  <1> QED BY <1>3, <1>5

\* The same terms say the same.
LEMMA GivenSame ==
  ASSUME NEW ids, NEW jds, NEW p \in Nat, \A k \in 1..p : Term(ids, k) = Term(jds, k)
  PROVE  Given(ids, p) = Given(jds, p)
  BY DEF Given

(***************************************************************************)
(* What the next thing that is given does to those before it: only a text  *)
(* makes any of them give way, and only those that are open.               *)
(***************************************************************************)
Open(ids, k) ==
  \E b \in Blocks :
    /\ DeltaOf(ids[k], b)
    /\ \A j \in (k + 1)..Len(ids) : OnCards(ids[j]) => DeltaOf(ids[j], b)

LEMMA AppendedIds ==
  ASSUME NEW ids \in Seq(Nat), NEW x \in Nat, NEW n \in Nat, n = Len(ids)
  PROVE  /\ Append(ids, x) \in Seq(Nat) /\ Len(Append(ids, x)) = n + 1
         /\ \A k \in 1..n : Append(ids, x)[k] = ids[k]
         /\ Append(ids, x)[n + 1] = x
  OBVIOUS

LEMMA OpenStays ==
  ASSUME NEW ids \in Seq(Nat), NEW x \in Nat, NEW k \in 1..Len(ids),
         ~ Open(ids, k)
  PROVE  ~ Open(Append(ids, x), k)
  <1> PICK n \in Nat : n = Len(ids) OBVIOUS
  <1> PICK more \in Seq(Nat) : more = Append(ids, x) BY AppendedIds
  <1>1. Len(more) = n + 1 /\ \A j \in 1..n : more[j] = ids[j] BY AppendedIds
  <1> SUFFICES ASSUME Open(more, k) PROVE FALSE OBVIOUS
  <1> PICK b \in Blocks : /\ DeltaOf(more[k], b)
                          /\ \A j \in (k + 1)..Len(more) :
                               OnCards(more[j]) => DeltaOf(more[j], b)
    BY DEF Open
  <1>2. more[k] = ids[k] BY <1>1
  <1>3. ASSUME NEW j \in (k + 1)..n PROVE OnCards(ids[j]) => DeltaOf(ids[j], b)
    <2>1. j \in (k + 1)..Len(more) /\ more[j] = ids[j] BY <1>1
    <2> QED BY <2>1
  <1> QED BY <1>2, <1>3 DEF Open

\* What is on a card, and no delta of its block, closes what was open.
LEMMA OpenEnds ==
  ASSUME NEW ids \in Seq(Nat), NEW x \in Nat, OnCards(x), NEW k \in 1..Len(ids),
         \A b \in Blocks : DeltaOf(ids[k], b) => ~ DeltaOf(x, b)
  PROVE  ~ Open(Append(ids, x), k)
  <1> PICK n \in Nat : n = Len(ids) OBVIOUS
  <1> PICK more \in Seq(Nat) : more = Append(ids, x) BY AppendedIds
  <1>1. /\ Len(more) = n + 1 /\ more[n + 1] = x /\ more[k] = ids[k]
        /\ n + 1 \in (k + 1)..Len(more)
    BY AppendedIds
  <1> QED BY <1>1 DEF Open

LEMMA BeforeEnd ==
  ASSUME NEW n \in Nat, NEW k \in 1..n, NEW l \in (k + 1)..(n + 1), l # n + 1
  PROVE  l \in (k + 1)..n /\ l \in 1..n
  OBVIOUS

LEMMA TermStays ==
  ASSUME NEW ids \in Seq(Nat), NEW x \in Nat, NEW k \in 1..Len(ids),
         ~ Is(x, {"text"}) \/ ~ Open(ids, k)
  PROVE  Term(Append(ids, x), k) = Term(ids, k)
  <1> PICK n \in Nat : n = Len(ids) OBVIOUS
  <1> PICK more \in Seq(Nat) : more = Append(ids, x) BY AppendedIds
  <1>1. Len(more) = n + 1 /\ more[n + 1] = x /\ \A j \in 1..n : more[j] = ids[j]
    BY AppendedIds
  <1>2. k \in 1..n /\ more[k] = ids[k] BY <1>1
  <1>3. ASSUME GivesWay(ids, k) PROVE GivesWay(more, k)
    <2> PICK b \in Blocks, l \in (k + 1)..n :
          /\ DeltaOf(ids[k], b) /\ Is(ids[l], {"text"})
          /\ \A j \in (k + 1)..(l - 1) : OnCards(ids[j]) => DeltaOf(ids[j], b)
      BY <1>3 DEF GivesWay
    <2>1. l \in (k + 1)..Len(more) /\ more[l] = ids[l] BY <1>1
    <2>2. \A j \in (k + 1)..(l - 1) : more[j] = ids[j] BY <1>1
    <2> QED BY <1>2, <2>1, <2>2 DEF GivesWay
  <1>4. ASSUME GivesWay(more, k) PROVE GivesWay(ids, k)
    <2> PICK b \in Blocks, l \in (k + 1)..(n + 1) :
          /\ DeltaOf(more[k], b) /\ Is(more[l], {"text"})
          /\ \A j \in (k + 1)..(l - 1) : OnCards(more[j]) => DeltaOf(more[j], b)
      BY <1>1, <1>4 DEF GivesWay
    <2>1. \A j \in (k + 1)..(l - 1) : OnCards(ids[j]) => DeltaOf(ids[j], b)
      <3> SUFFICES ASSUME NEW j \in (k + 1)..(l - 1)
                   PROVE  OnCards(ids[j]) => DeltaOf(ids[j], b)
        OBVIOUS
      <3>1. more[j] = ids[j] BY <1>1
      <3>2. OnCards(more[j]) => DeltaOf(more[j], b) OBVIOUS
      <3> QED BY <3>1, <3>2
    <2>2. CASE l = n + 1
      <3>1. Is(x, {"text"}) BY <1>1, <2>2
      <3>2. \A j \in (k + 1)..n : OnCards(ids[j]) => DeltaOf(ids[j], b) BY <2>1, <2>2
      <3>3. Open(ids, k) BY <1>2, <3>2 DEF Open
      <3> QED BY <3>1, <3>3
    <2>3. CASE l # n + 1
      <3>1. l \in (k + 1)..n /\ l \in 1..n BY <1>2, <2>3, BeforeEnd
      <3>2. more[l] = ids[l] BY <1>1, <3>1
      <3> QED BY <1>2, <2>1, <3>1, <3>2 DEF GivesWay
    <2> QED BY <2>2, <2>3
  <1> QED BY <1>2, <1>3, <1>4 DEF Term

\* The last that is given gives way to nothing.
LEMMA LastTerm ==
  ASSUME NEW ids \in Seq(Nat), NEW x \in Nat, NEW n \in Nat, n = Len(ids)
  PROVE  Term(Append(ids, x), n + 1) = Says(x)
  <1> PICK more \in Seq(Nat) : more = Append(ids, x) BY AppendedIds
  <1>1. Len(more) = n + 1 /\ more[n + 1] = x BY AppendedIds
  <1>2. (n + 1 + 1)..Len(more) = {} BY <1>1
  <1>3. ~ GivesWay(more, n + 1) BY <1>2 DEF GivesWay
  <1> QED BY <1>1, <1>3 DEF Term

\* What a text finds open says nothing any more.
LEMMA OpenTerm ==
  ASSUME NEW ids \in Seq(Nat), NEW x \in Nat, Is(x, {"text"}), NEW k \in 1..Len(ids),
         NEW b \in Blocks,
         \A j \in k..Len(ids) : OnCards(ids[j]) => DeltaOf(ids[j], b)
  PROVE  Term(Append(ids, x), k) = <<>>
  <1> PICK n \in Nat : n = Len(ids) OBVIOUS
  <1> PICK more \in Seq(Nat) : more = Append(ids, x) BY AppendedIds
  <1>1. Len(more) = n + 1 /\ more[n + 1] = x /\ \A j \in 1..n : more[j] = ids[j]
    BY AppendedIds
  <1>2. more[k] = ids[k] /\ k \in k..n BY <1>1
  <1>3. CASE ~ OnCards(ids[k])
    <2>1. ids[k] # 0 BY <1>3 DEF OnCards, Is
    <2>2. Says(more[k]) = <<>> BY <1>2, <1>3, <2>1 DEF Says
    <2> QED BY <2>2 DEF Term
  <1>4. CASE OnCards(ids[k])
    <2>1. DeltaOf(more[k], b) BY <1>2, <1>4
    <2>2. n + 1 \in (k + 1)..Len(more) /\ Is(more[n + 1], {"text"}) BY <1>1
    <2>3. \A j \in (k + 1)..((n + 1) - 1) : OnCards(more[j]) => DeltaOf(more[j], b)
      <3>1. \A j \in (k + 1)..((n + 1) - 1) : j \in k..n /\ j \in 1..n OBVIOUS
      <3> QED BY <1>1, <3>1
    <2>4. GivesWay(more, k) BY <2>1, <2>2, <2>3 DEF GivesWay
    <2> QED BY <2>4 DEF Term
  <1> QED BY <1>3, <1>4

(***************************************************************************)
(* The cards keep what was given.  Whatever is open follows the first p    *)
(* that were given, and is what the last card says, which is then a delta: *)
(* a text takes the place of just that.                                    *)
(***************************************************************************)
AtDelta(cards) == LastIs(cards, {"text_delta"})

EndsAt(cards, ids, p) ==
  /\ \A k \in 1..p : ~ Open(ids, k)
  /\ ~ AtDelta(cards) => p = Len(ids)
  /\ AtDelta(cards) =>
       /\ Contents(Front(cards)) = Given(ids, p)
       /\ Last(cards).block \in Blocks
       /\ \A k \in (p + 1)..Len(ids) :
            OnCards(ids[k]) => DeltaOf(ids[k], Last(cards).block)

CardsKeep(cards, ids) ==
  /\ Contents(cards) = Given(ids, Len(ids))
  /\ \E p \in 0..Len(ids) : EndsAt(cards, ids, p)

LEMMA GivenAppended ==
  ASSUME NEW ids \in Seq(Nat), NEW x \in Nat, NEW n \in Nat, n = Len(ids)
  PROVE  /\ Given(Append(ids, x), n + 1) = Concat(Given(Append(ids, x), n), Says(x))
         /\ ~ Is(x, {"text"}) =>
              \A p \in 0..n : Given(Append(ids, x), p) = Given(ids, p)
  <1> PICK more \in Seq(Nat) : more = Append(ids, x) BY AppendedIds
  <1>1. Len(more) = n + 1 BY AppendedIds
  <1>2. Term(more, n + 1) = Says(x) BY LastTerm
  <1>3. Given(more, n + 1) = Concat(Given(more, n), Term(more, n + 1)) 
    <2>1. n + 1 <= Len(more) BY <1>1
    <2> QED BY <2>1, GivenMore
  <1>4. ASSUME ~ Is(x, {"text"}), NEW p \in 0..n PROVE Given(more, p) = Given(ids, p)
    <2>1. \A k \in 1..p : Term(more, k) = Term(ids, k)
      <3> SUFFICES ASSUME NEW k \in 1..p PROVE Term(more, k) = Term(ids, k) OBVIOUS
      <3>1. k \in 1..Len(ids) OBVIOUS
      <3> QED BY <1>4, <3>1, TermStays
    <2>2. p \in Nat OBVIOUS
    <2> QED BY <2>1, <2>2, GivenSame
  <1> QED BY <1>2, <1>3, <1>4

\* What is on no card changes nothing.
LEMMA KeepHidden ==
  ASSUME NEW cards, NEW ids \in Seq(Nat), CardsKeep(cards, ids), NEW x \in Nat, ~ OnCards(x)
  PROVE  CardsKeep(cards, Append(ids, x))
  <1> PICK n \in Nat : n = Len(ids) OBVIOUS
  <1> PICK more \in Seq(Nat) : more = Append(ids, x) BY AppendedIds
  <1>1. Len(more) = n + 1 /\ more[n + 1] = x /\ \A k \in 1..n : more[k] = ids[k]
    BY AppendedIds
  <1>2. ~ Is(x, {"text"}) /\ \A b \in Blocks : ~ DeltaOf(x, b)
    BY DEF OnCards, Is, DeltaOf, StateTypes, HiddenTypes
  <1>3. \A p \in 0..n : Given(more, p) = Given(ids, p) BY <1>2, GivenAppended
  <1>4. Given(more, n + 1) = Given(ids, n)
    <2>1. Says(x) = <<>> BY DEF Says, OnCards, Is
    <2>2. Given(more, n + 1) = Concat(Given(more, n), <<>>) BY <2>1, GivenAppended
    <2>3. n \in 0..n /\ Given(more, n) = Given(ids, n) BY <1>3
    <2>4. n + 1 <= Len(more) BY <1>1
    <2>5. Given(more, n) \in Seq(Nat) BY <2>4, GivenMore
    <2>6. Concat(Given(more, n), <<>>) = Given(more, n) BY <2>5, ConcatEmptySeq DEF Concat
    <2> QED BY <2>2, <2>3, <2>6
  <1> PICK p \in 0..n : EndsAt(cards, ids, p) BY DEF CardsKeep
  <1>5. \A k \in 1..p : ~ Open(more, k)
    <2> SUFFICES ASSUME NEW k \in 1..p PROVE ~ Open(more, k) OBVIOUS
    <2>1. k \in 1..Len(ids) /\ ~ Open(ids, k) BY DEF EndsAt
    <2> QED BY <2>1, OpenStays
  <1>6. CASE AtDelta(cards)
    <2>1. \A k \in (p + 1)..(n + 1) : OnCards(more[k]) => DeltaOf(more[k], Last(cards).block)
      <3> SUFFICES ASSUME NEW k \in (p + 1)..(n + 1), OnCards(more[k])
                   PROVE  DeltaOf(more[k], Last(cards).block)
        OBVIOUS
      <3>1. k # n + 1 BY <1>1
      <3>2. k \in (p + 1)..n /\ k \in 1..n BY <3>1
      <3>3. more[k] = ids[k] BY <1>1, <3>2
      <3> QED BY <1>6, <3>2, <3>3 DEF EndsAt
    <2>2. EndsAt(cards, more, p) BY <1>1, <1>3, <1>5, <1>6, <2>1 DEF EndsAt
    <2>3. p \in 0..(n + 1) OBVIOUS
    <2> QED BY <1>1, <1>4, <2>2, <2>3 DEF CardsKeep
  <1>7. CASE ~ AtDelta(cards)
    <2>1. p = n BY <1>7 DEF EndsAt
    <2>2. ~ Open(more, n + 1) BY <1>1, <1>2 DEF Open
    <2>3. \A k \in 1..(n + 1) : ~ Open(more, k)
      <3>1. \A k \in 1..(n + 1) : k = n + 1 \/ k \in 1..p BY <2>1
      <3> QED BY <1>5, <2>2, <3>1
    <2>4. n + 1 \in 0..(n + 1) /\ EndsAt(cards, more, n + 1) BY <1>1, <1>7, <2>3 DEF EndsAt
    <2> QED BY <1>1, <1>4, <2>4 DEF CardsKeep
  <1> QED BY <1>6, <1>7

\* After what is on a card, and no delta, nothing is open.
LEMMA NothingOpen ==
  ASSUME NEW cards, NEW ids \in Seq(Nat), NEW x \in Nat, OnCards(x), ~ Is(x, {"text_delta"}),
         ~ AtDelta(cards), NEW n \in Nat, n = Len(ids),
         Contents(cards) = Given(Append(ids, x), n + 1)
  PROVE  CardsKeep(cards, Append(ids, x))
  <1> PICK more \in Seq(Nat) : more = Append(ids, x) BY AppendedIds
  <1>1. Len(more) = n + 1 /\ more[n + 1] = x BY AppendedIds
  <1>2. \A b \in Blocks : ~ DeltaOf(x, b) BY DEF DeltaOf
  <1>3. ASSUME NEW k \in 1..(n + 1) PROVE ~ Open(more, k)
    <2>1. CASE k = n + 1 BY <1>1, <1>2, <2>1 DEF Open
    <2>2. CASE k # n + 1
      <3>1. k \in 1..Len(ids) BY <2>2
      <3> QED BY <1>2, <3>1, OpenEnds
    <2> QED BY <2>1, <2>2
  <1>4. n + 1 \in 0..(n + 1) /\ EndsAt(cards, more, n + 1) BY <1>1, <1>3 DEF EndsAt
  <1> QED BY <1>1, <1>4 DEF CardsKeep

LEMMA KeepCard ==
  ASSUME NEW cards, NEW ids \in Seq(Nat), CardsKeep(cards, ids), NEW x \in Nat,
         OnCards(x), ~ Is(x, {"text"}), ~ Is(x, {"text_delta"}),
         NEW next, ~ AtDelta(next), Contents(next) = Concat(Contents(cards), Says(x))
  PROVE  CardsKeep(next, Append(ids, x))
  <1> PICK n \in Nat : n = Len(ids) OBVIOUS
  <1>1. n \in 0..n /\ Given(Append(ids, x), n) = Given(ids, n) BY GivenAppended
  <1>2. Given(Append(ids, x), n + 1) = Concat(Given(ids, n), Says(x)) BY <1>1, GivenAppended
  <1>3. Contents(next) = Given(Append(ids, x), n + 1) BY <1>2 DEF CardsKeep
  <1> QED BY <1>3, NothingOpen

\* A text takes the place of what is open, or of nothing.
LEMMA KeepText ==
  ASSUME NEW cards, NEW ids \in Seq(Nat), CardsKeep(cards, ids), NEW x \in Nat,
         Is(x, {"text"}), NEW next, ~ AtDelta(next),
         Contents(next) = Concat(Contents(IF AtDelta(cards) THEN Front(cards) ELSE cards), Says(x))
  PROVE  CardsKeep(next, Append(ids, x))
  <1> PICK n \in Nat : n = Len(ids) OBVIOUS
  <1> PICK more \in Seq(Nat) : more = Append(ids, x) BY AppendedIds
  <1>1. Len(more) = n + 1 BY AppendedIds
  <1> PICK p \in 0..n : EndsAt(cards, ids, p) BY DEF CardsKeep
  <1>2. Given(more, p) = Given(ids, p)
    <2>1. \A k \in 1..p : Term(more, k) = Term(ids, k)
      <3> SUFFICES ASSUME NEW k \in 1..p PROVE Term(more, k) = Term(ids, k) OBVIOUS
      <3>1. k \in 1..Len(ids) /\ ~ Open(ids, k) BY DEF EndsAt
      <3> QED BY <3>1, TermStays
    <2>2. p \in Nat OBVIOUS
    <2> QED BY <2>1, <2>2, GivenSame
  <1>3. Contents(IF AtDelta(cards) THEN Front(cards) ELSE cards) = Given(more, n)
    <2>1. CASE AtDelta(cards)
      <3> PICK b \in Blocks : b = Last(cards).block BY <2>1 DEF EndsAt
      <3>1. \A k \in (p + 1)..n : OnCards(ids[k]) => DeltaOf(ids[k], b)
        BY <2>1 DEF EndsAt
      <3>2. \A k \in (p + 1)..n : Term(more, k) = <<>>
        <4> SUFFICES ASSUME NEW k \in (p + 1)..n PROVE Term(more, k) = <<>> OBVIOUS
        <4>1. k \in 1..Len(ids) /\ \A j \in k..Len(ids) : j \in (p + 1)..n OBVIOUS
        <4>2. \A j \in k..Len(ids) : OnCards(ids[j]) => DeltaOf(ids[j], b)
          BY <3>1, <4>1
        <4> QED BY <4>1, <4>2, OpenTerm
      <3>3. p \in Nat /\ p <= n /\ n <= Len(more) BY <1>1
      <3>4. Given(more, n) = Given(more, p) BY <3>2, <3>3, GivenTail
      <3> QED BY <1>2, <2>1, <3>4 DEF EndsAt
    <2>2. CASE ~ AtDelta(cards)
      <3>1. p = n BY <2>2 DEF EndsAt
      <3> QED BY <1>2, <2>2, <3>1 DEF CardsKeep
    <2> QED BY <2>1, <2>2
  <1>4. Contents(next) = Given(more, n + 1) BY <1>3, GivenAppended
  <1>5. OnCards(x) /\ ~ Is(x, {"text_delta"}) BY DEF OnCards, Is, StateTypes, HiddenTypes
  <1> QED BY <1>4, <1>5, NothingOpen

\* A delta goes on with what is open, or closes it and is open itself.
LEMMA KeepDelta ==
  ASSUME NEW cards, NEW ids \in Seq(Nat), CardsKeep(cards, ids), NEW x \in Nat,
         NEW c \in Blocks, DeltaOf(x, c), NEW next, AtDelta(next), Last(next).block = c,
         Contents(next) = Concat(Contents(cards), Says(x)),
         Front(next) = IF AtDelta(cards) /\ Last(cards).block = c THEN Front(cards) ELSE cards
  PROVE  CardsKeep(next, Append(ids, x))
  <1> PICK n \in Nat : n = Len(ids) OBVIOUS
  <1> PICK more \in Seq(Nat) : more = Append(ids, x) BY AppendedIds
  <1>1. Len(more) = n + 1 /\ more[n + 1] = x /\ \A k \in 1..n : more[k] = ids[k]
    BY AppendedIds
  <1>2. OnCards(x) /\ ~ Is(x, {"text"}) BY DEF DeltaOf, OnCards, Is, StateTypes, HiddenTypes
  <1>3. \A p \in 0..n : Given(more, p) = Given(ids, p) BY <1>2, GivenAppended
  <1>4. Contents(next) = Given(more, n + 1)
    <2>1. n \in 0..n /\ Given(more, n) = Given(ids, n) BY <1>3
    <2>2. Given(more, n + 1) = Concat(Given(ids, n), Says(x)) BY <2>1, GivenAppended
    <2> QED BY <2>2 DEF CardsKeep
  <1> PICK p \in 0..n : EndsAt(cards, ids, p) BY DEF CardsKeep
  <1>5. \A k \in 1..p : ~ Open(more, k)
    <2> SUFFICES ASSUME NEW k \in 1..p PROVE ~ Open(more, k) OBVIOUS
    <2>1. k \in 1..Len(ids) /\ ~ Open(ids, k) BY DEF EndsAt
    <2> QED BY <2>1, OpenStays
  <1>6. CASE AtDelta(cards) /\ Last(cards).block = c
    <2>1. \A k \in (p + 1)..(n + 1) : OnCards(more[k]) => DeltaOf(more[k], c)
      <3> SUFFICES ASSUME NEW k \in (p + 1)..(n + 1), OnCards(more[k])
                   PROVE  DeltaOf(more[k], c)
        OBVIOUS
      <3>1. CASE k = n + 1 BY <1>1, <3>1
      <3>2. CASE k # n + 1
        <4>1. k \in (p + 1)..n /\ k \in 1..n BY <3>2
        <4>2. more[k] = ids[k] BY <1>1, <4>1
        <4> QED BY <1>6, <4>1, <4>2 DEF EndsAt
      <3> QED BY <3>1, <3>2
    <2>2. Contents(Front(next)) = Given(more, p) BY <1>3, <1>6 DEF EndsAt
    <2>3. EndsAt(next, more, p) BY <1>1, <1>5, <2>1, <2>2 DEF EndsAt
    <2>4. p \in 0..(n + 1) OBVIOUS
    <2> QED BY <1>1, <1>4, <2>3, <2>4 DEF CardsKeep
  <1>7. CASE ~ (AtDelta(cards) /\ Last(cards).block = c)
    <2>1. Contents(Front(next)) = Given(more, n)
      <3>1. Front(next) = cards /\ n \in 0..n BY <1>7
      <3> QED BY <1>3, <3>1 DEF CardsKeep
    <2>2. ASSUME NEW k \in 1..n PROVE ~ Open(more, k)
      <3>1. CASE k \in 1..p BY <1>5, <3>1
      <3>2. CASE k \notin 1..p
        <4>1. k \in (p + 1)..n /\ p # n BY <3>2
        <4>2. AtDelta(cards) /\ Last(cards).block # c BY <1>7, <4>1 DEF EndsAt
        <4> PICK b : b = Last(cards).block OBVIOUS
        <4>3. OnCards(ids[k]) => DeltaOf(ids[k], b) BY <4>1, <4>2 DEF EndsAt
        <4>4. \A d \in Blocks : DeltaOf(ids[k], d) => ~ DeltaOf(x, d)
          <5> SUFFICES ASSUME NEW d \in Blocks, DeltaOf(ids[k], d), DeltaOf(x, d)
                       PROVE  FALSE
            OBVIOUS
          <5>1. d = c BY DEF DeltaOf
          <5>2. OnCards(ids[k]) BY DEF DeltaOf, OnCards, Is, StateTypes, HiddenTypes
          <5>3. DeltaOf(ids[k], b) BY <4>3, <5>2
          <5>4. d = b BY <5>3 DEF DeltaOf
          <5> QED BY <4>2, <5>1, <5>4
        <4> QED BY <1>2, <4>4, OpenEnds
      <3> QED BY <3>1, <3>2
    <2>3. \A k \in (n + 1)..(n + 1) : OnCards(more[k]) => DeltaOf(more[k], c)
      <3>1. \A k \in (n + 1)..(n + 1) : k = n + 1 OBVIOUS
      <3> QED BY <1>1, <3>1
    <2>4. EndsAt(next, more, n) BY <1>1, <2>1, <2>2, <2>3 DEF EndsAt
    <2>5. n \in 0..(n + 1) OBVIOUS
    <2> QED BY <1>1, <1>4, <2>4, <2>5 DEF CardsKeep
  <1> QED BY <1>6, <1>7

(***************************************************************************)
(* The store.                                                              *)
(***************************************************************************)
LEMMA KindIs ==
  ASSUME NEW e \in Kinds, NEW id \in Nat
  PROVE  /\ e.type \in Types /\ e.type # "user" /\ e.block \in Blocks
         /\ TextOf(e, id) \in Seq(Nat) /\ ThinkingOf(e, id) \in Nat
         /\ e.type # "text_delta" => TextOf(e, id) = <<id>>
         /\ Card(e, id) \in Cards /\ Card(e, id).type = e.type
         /\ Card(e, id).block = e.block /\ Card(e, id).tool = e.tool
         /\ Card(e, id).of = TextOf(e, id)
  <1>1. e \in [type : Types, block : Blocks, tool : Tools, holds : Holds]
    BY DEF Kinds, Event
  <1>2. e.type # "text_delta" => e.holds = "text" BY DEF Kinds
  <1>3. e.type \in Types /\ e.type # "user" /\ e.block \in Blocks /\ e.tool \in Tools
    BY <1>1, StoreAssumption DEF StateTypes, HiddenTypes, AskTypes
  <1>4. <<id>> \in Seq(Nat) /\ <<>> \in Seq(Nat) OBVIOUS
  <1>5. TextOf(e, id) \in Seq(Nat) BY <1>4 DEF TextOf
  <1>6. ThinkingOf(e, id) \in Nat BY DEF ThinkingOf, NoThinking
  <1>7. e.type # "text_delta" => TextOf(e, id) = <<id>> BY <1>2 DEF TextOf
  <1> PICK of \in Seq(Nat) : of = TextOf(e, id) BY <1>5
  <1> PICK thinking \in Nat : thinking = ThinkingOf(e, id) BY <1>6
  <1>8. Card(e, id) = [type |-> e.type, block |-> e.block, tool |-> e.tool,
                       of |-> of, thinking |-> thinking, spoiled |-> FALSE]
    BY DEF Card
  <1>9. Card(e, id) \in Cards BY <1>3, <1>8 DEF Cards
  <1> QED BY <1>3, <1>5, <1>6, <1>7, <1>8, <1>9

LEMMA AppendOfRecords ==
  ASSUME NEW S, NEW q \in Seq(S), NEW x \in S
  PROVE  Append(q, x) \in Seq(S) /\ Len(Append(q, x)) = Len(q) + 1
  BY AppendProperties

LEMMA PutLast ==
  ASSUME NEW front \in Seq(Cards), NEW c \in Cards
  PROVE  /\ Append(front, c) \in Seq(Cards)
         /\ Contents(Append(front, c)) = Concat(Contents(front), CardSays(c))
         /\ Last(Append(front, c)) = c /\ Front(Append(front, c)) = front
         /\ AtDelta(Append(front, c)) <=> c.type = "text_delta"
  <1> PICK n \in Nat : n = Len(front) OBVIOUS
  <1> PICK more \in Seq(Cards) : more = Append(front, c) BY AppendOfRecords
  <1>1. /\ Len(more) = n + 1 /\ more[n + 1] = c /\ more # <<>>
        /\ \A i \in 1..n : more[i] = front[i]
    OBVIOUS
  <1>2. Last(more) = c BY <1>1 DEF Last
  <1>3. Front(more) = front
    <2>1. Front(more) = SubSeq(more, 1, n) BY <1>1 DEF Front
    <2>2. /\ SubSeq(more, 1, n) \in Seq(Cards) /\ Len(SubSeq(more, 1, n)) = n
          /\ \A i \in 1..n : SubSeq(more, 1, n)[i] = more[i]
      BY <1>1
    <2> QED BY <1>1, <2>1, <2>2, SeqEqual
  <1>4. Contents(more) = Concat(Contents(front), CardSays(c)) BY ContentsMore DEF Concat
  <1>5. AtDelta(more) <=> c.type = "text_delta" BY <1>1, <1>2 DEF AtDelta, LastIs
  <1> QED BY <1>2, <1>3, <1>4, <1>5

LEMMA TakenApart ==
  ASSUME NEW cards \in Seq(Cards), cards # <<>>
  PROVE  /\ Front(cards) \in Seq(Cards) /\ Last(cards) \in Cards
         /\ Contents(cards) = Concat(Contents(Front(cards)), CardSays(Last(cards)))
         /\ Contents(Front(cards)) \in Seq(Nat)
  <1> PICK f \in Seq(Cards), l \in Cards :
        f = Front(cards) /\ l = Last(cards) /\ cards = Append(f, l)
    BY FrontAndLast
  <1>1. Contents(cards) = Concat(Contents(f), CardSays(l)) BY PutLast
  <1>2. Contents(f) \in Seq(Nat) BY ContentsMore
  <1> QED BY <1>1, <1>2

\* A delta that is shown says what it says after what was said, and stands last
\* behind what stood before the delta it goes on with, or behind all.
GoesOn(more, cards, text, block) ==
  /\ Contents(more) = Concat(Contents(cards), text)
  /\ AtDelta(more) /\ Last(more).block = block
  /\ Front(more) = IF AtDelta(cards) /\ Last(cards).block = block THEN Front(cards) ELSE cards

LEMMA DeltaShown ==
  ASSUME NEW cards \in Seq(Cards), NEW e \in Kinds, NEW id \in Nat, e.type = "text_delta"
  PROVE  /\ WithEvent(cards, e, id) \in Seq(Cards)
         /\ GoesOn(WithEvent(cards, e, id), cards, TextOf(e, id), e.block)
  <1>1. WithEvent(cards, e, id) = WithDelta(cards, e, id) BY DEF WithEvent, AskTypes
  <1> PICK text \in Seq(Nat) : text = TextOf(e, id) BY KindIs
  <1>2. CASE AtDelta(cards) /\ Last(cards).block = e.block
    <2>1. cards # <<>> /\ Last(cards).type = "text_delta" BY <1>2 DEF AtDelta, LastIs
    <2> PICK last \in Cards : last = Last(cards) BY <2>1, TakenApart
    <2> PICK front \in Seq(Cards) : front = Front(cards) BY <2>1, TakenApart
    <2> PICK base \in Seq(Nat) : base = Contents(front) BY <2>1, TakenApart
    <2> PICK of \in Seq(Nat) : of = last.of BY DEF Cards
    <2> PICK thinking \in Nat :
          thinking = IF last.thinking # NoThinking THEN last.thinking ELSE ThinkingOf(e, id)
      BY KindIs DEF Cards
    <2> PICK spoiled \in BOOLEAN : spoiled = (last.spoiled \/ e.holds = "thinking")
      BY DEF Cards
    <2> PICK both \in Seq(Nat) : both = of \o text BY ConcatProperties
    <2>2. PICK x \in Cards : /\ x.type = "text_delta" /\ x.of = both /\ x.block = e.block
                             /\ WithDelta(cards, e, id) = Append(front, x)
      <3> DEFINE y == [last EXCEPT !.of = both, !.thinking = thinking, !.spoiled = spoiled]
      <3>1. y \in Cards /\ y.type = "text_delta" /\ y.of = both /\ y.block = e.block
        BY <1>2, <2>1 DEF Cards
      <3>2. WithDelta(cards, e, id) = Append(front, y) BY <1>2 DEF WithDelta, AtDelta
      <3> HIDE DEF y
      <3> QED BY <3>1, <3>2
    <2>3. WithDelta(cards, e, id) = Append(front, x) BY <2>2
    <2>4. CardSays(last) = of /\ CardSays(x) = both
      BY <2>1, <2>2 DEF CardSays, AskTypes
    <2>5. /\ Append(front, x) \in Seq(Cards)
          /\ Contents(Append(front, x)) = Concat(base, both)
          /\ Last(Append(front, x)) = x /\ Front(Append(front, x)) = front
          /\ AtDelta(Append(front, x))
      BY <2>2, <2>4, PutLast
    <2>6. Contents(cards) = Concat(base, of) BY <2>1, <2>4, TakenApart
    <2>7. Concat(base, both) = Concat(Concat(base, of), text)
      <3>1. both = Concat(of, text) BY DEF Concat
      <3> QED BY <3>1, Regrouped
    <2> PICK more : more = Append(front, x) OBVIOUS
    <2>8. WithEvent(cards, e, id) = more BY <1>1, <2>3
    <2>9. Contents(more) = Concat(Contents(cards), text) BY <2>5, <2>6, <2>7
    <2>10. more \in Seq(Cards) /\ AtDelta(more) /\ Front(more) = front
           /\ Last(more).block = e.block
      BY <2>2, <2>5
    <2> QED BY <1>2, <2>8, <2>9, <2>10 DEF GoesOn
  <1>3. CASE ~ (AtDelta(cards) /\ Last(cards).block = e.block)
    <2> PICK x \in Cards : x = Card(e, id) BY KindIs
    <2>1. x.type = "text_delta" /\ x.of = text /\ x.block = e.block BY KindIs
    <2>2. WithDelta(cards, e, id) = Append(cards, x) BY <1>3 DEF WithDelta, AtDelta
    <2>3. CardSays(x) = text BY <2>1 DEF CardSays, AskTypes
    <2>4. /\ Append(cards, x) \in Seq(Cards)
          /\ Contents(Append(cards, x)) = Concat(Contents(cards), text)
          /\ Last(Append(cards, x)) = x /\ Front(Append(cards, x)) = cards
          /\ AtDelta(Append(cards, x))
      BY <2>1, <2>3, PutLast
    <2> QED BY <1>1, <1>3, <2>1, <2>2, <2>4 DEF GoesOn
  <1> QED BY <1>2, <1>3

\* A text that is shown says what it says after what stood before the delta that
\* stood last.
LEMMA TextShown ==
  ASSUME NEW cards \in Seq(Cards), NEW e \in Kinds, NEW id \in Nat, e.type = "text"
  PROVE  /\ WithEvent(cards, e, id) \in Seq(Cards)
         /\ ~ AtDelta(WithEvent(cards, e, id))
         /\ Contents(WithEvent(cards, e, id))
              = Concat(Contents(IF AtDelta(cards) THEN Front(cards) ELSE cards), <<id>>)
  <1>1. WithEvent(cards, e, id) = WithText(cards, e, id) BY DEF WithEvent, AskTypes
  <1> PICK new \in Cards : new = Card(e, id) BY KindIs
  <1>2. new.type = "text" /\ new.of = <<id>> BY KindIs
  <1>3. CASE AtDelta(cards)
    <2>1. cards # <<>> BY <1>3 DEF AtDelta, LastIs
    <2> PICK last \in Cards : last = Last(cards) BY <2>1, TakenApart
    <2> PICK front \in Seq(Cards) : front = Front(cards) BY <2>1, TakenApart
    <2> PICK thinking \in Nat : thinking = last.thinking BY DEF Cards
    <2> PICK x : x = [new EXCEPT !.thinking = thinking] OBVIOUS
    <2>2. x \in Cards /\ x.type = "text" /\ x.of = <<id>> BY <1>2 DEF Cards
    <2>3. WithText(cards, e, id) = Append(front, x) BY <1>3 DEF WithText, AtDelta
    <2>4. CardSays(x) = <<id>> BY <2>2 DEF CardSays, AskTypes
    <2>5. /\ Append(front, x) \in Seq(Cards) /\ ~ AtDelta(Append(front, x))
          /\ Contents(Append(front, x)) = Concat(Contents(front), <<id>>)
      <3> PICK c \in Cards : c = x BY <2>2
      <3>1. /\ Append(front, c) \in Seq(Cards)
            /\ Contents(Append(front, c)) = Concat(Contents(front), CardSays(c))
            /\ AtDelta(Append(front, c)) <=> c.type = "text_delta"
        BY PutLast, Zenon
      <3> QED BY <2>2, <2>4, <3>1
    <2> QED BY <1>1, <1>3, <2>3, <2>5
  <1>4. CASE ~ AtDelta(cards)
    <2>1. WithText(cards, e, id) = Append(cards, new) BY <1>4 DEF WithText, AtDelta
    <2>2. CardSays(new) = <<id>> BY <1>2 DEF CardSays, AskTypes
    <2> QED BY <1>1, <1>2, <1>4, <2>1, <2>2, PutLast
  <1> QED BY <1>3, <1>4

\* Any other event that is shown says what it says, a request nothing, after
\* what was said.
LEMMA OtherShown ==
  ASSUME NEW cards \in Seq(Cards), NEW e \in Kinds, NEW id \in Nat,
         e.type \notin {"text", "text_delta"}
  PROVE  /\ WithEvent(cards, e, id) \in Seq(Cards)
         /\ ~ AtDelta(WithEvent(cards, e, id))
         /\ Contents(WithEvent(cards, e, id))
              = Concat(Contents(cards), IF e.type \in AskTypes THEN <<>> ELSE <<id>>)
  <1> PICK new \in Cards : new = Card(e, id) BY KindIs
  <1>1. new.type = e.type /\ new.of = <<id>> /\ e.type # "user" BY KindIs
  <1>2. CardSays(new) = IF e.type \in AskTypes THEN <<>> ELSE <<id>>
    BY <1>1 DEF CardSays
  <1>3. CASE WithEvent(cards, e, id) = Append(cards, new)
    BY <1>1, <1>2, <1>3, PutLast
  <1>4. CASE e.type \in AskTypes /\ LastIs(cards, AskTypes) /\ Last(cards).tool = e.tool
    <2>1. cards # <<>> /\ Last(cards).type \in AskTypes BY <1>4 DEF LastIs
    <2> PICK last \in Cards : last = Last(cards) BY <2>1, TakenApart
    <2> PICK front \in Seq(Cards) : front = Front(cards) BY <2>1, TakenApart
    <2>2. CardSays(last) = <<>> /\ CardSays(new) = <<>> BY <1>2, <1>4, <2>1 DEF CardSays, AskTypes
    <2>3. WithEvent(cards, e, id) = Append(front, new)
      BY <1>4 DEF WithEvent, WithAsk, AskTypes
    <2>4. Contents(cards) = Concat(Contents(front), <<>>) BY <2>1, <2>2, TakenApart
    <2>5. /\ Append(front, new) \in Seq(Cards) /\ ~ AtDelta(Append(front, new))
          /\ Contents(Append(front, new)) = Concat(Contents(front), <<>>)
      BY <1>1, <2>2, PutLast
    <2>6. Concat(Contents(cards), <<>>) = Contents(cards)
      <3>1. Contents(cards) \in Seq(Nat) BY ContentsMore
      <3> QED BY <3>1, ConcatEmptySeq DEF Concat
    <2> QED BY <1>4, <2>3, <2>4, <2>5, <2>6
  <1> QED BY <1>3, <1>4 DEF WithEvent, WithAsk

\* The store after an event: of its type, and with the cards of before or with
\* the event on them.
NoCards == StateTypes \cup HiddenTypes \cup {"context_window"}

LEMMA EventStep ==
  ASSUME NEW st \in StoreStates, NEW e \in Kinds, NEW id \in Nat
  PROVE  /\ handleEvent(st, e, id) \in StoreStates
         /\ handleEvent(st, e, id).messages
              = IF e.type \in NoCards THEN st.messages ELSE WithEvent(st.messages, e, id)
  <1> PICK after : after = handleEvent(st, e, id) OBVIOUS
  <1> PICK cards \in Seq(Cards) : cards = st.messages BY DEF StoreStates
  <1> DEFINE Goal == /\ after \in StoreStates
                     /\ after.messages = IF e.type \in NoCards THEN cards
                                         ELSE WithEvent(cards, e, id)
  <1>1. ASSUME e.type \in StateTypes PROVE Goal
    <2>1. after = StateEvent(st, e)
      BY <1>1 DEF handleEvent, StateTypes, HiddenTypes
    <2> PICK thinking \in BOOLEAN :
          thinking = CASE e.type = "thinking_start" -> TRUE
                       [] e.type = "turn_end" -> FALSE
                       [] OTHER -> st.thinking
      BY DEF StoreStates
    <2> PICK turn \in BOOLEAN : turn = (e.type # "turn_end") OBVIOUS
    <2>2. after = [st EXCEPT !.thinking = thinking, !.turnActive = turn]
      BY <2>1 DEF StateEvent
    <2>3. after \in StoreStates /\ after.messages = cards BY <2>2 DEF StoreStates
    <2> QED BY <1>1, <2>3 DEF NoCards
  <1>2. ASSUME e.type = "context_window" PROVE Goal
    <2>1. after = [st EXCEPT !.contextWindow = id]
      BY <1>2 DEF handleEvent, StateTypes, HiddenTypes
    <2>2. after \in StoreStates /\ after.messages = cards BY <2>1 DEF StoreStates
    <2> QED BY <1>2, <2>2 DEF NoCards
  <1>3. ASSUME e.type \in HiddenTypes PROVE Goal
    <2>1. after = st BY <1>3 DEF handleEvent, StateTypes, HiddenTypes
    <2> QED BY <1>3, <2>1 DEF NoCards
  <1>4. ASSUME e.type \notin NoCards PROVE Goal
    <2>1. after = ShownEvent(st, e, id) BY <1>4 DEF handleEvent, NoCards
    <2> PICK prompt \in Nat : prompt = IF e.type \in AskTypes THEN id ELSE st.permissionPrompt
      BY DEF StoreStates
    <2> PICK request \in Nat :
          request = IF e.type \in AskTypes THEN id ELSE st.permissionRequestId
      BY DEF StoreStates
    <2> PICK more \in Seq(Cards) : more = WithEvent(cards, e, id)
      BY DeltaShown, TextShown, OtherShown
    <2>2. after = [st EXCEPT !.messages = more, !.turnActive = TRUE,
                             !.permissionPrompt = prompt, !.permissionRequestId = request]
      BY <2>1 DEF ShownEvent
    <2>3. after \in StoreStates /\ after.messages = more BY <2>2 DEF StoreStates
    <2> QED BY <1>4, <2>3
  <1> QED BY <1>1, <1>2, <1>3, <1>4 DEF NoCards

Keeps(st, ids) == st \in StoreStates /\ CardsKeep(st.messages, ids)

LEMMA KeepsMore ==
  ASSUME published \in Seq(Kinds),
         NEW st, NEW ids \in Seq(Nat), Keeps(st, ids), NEW id \in 1..Len(published)
  PROVE  Keeps(handleEvent(st, published[id], id), Append(ids, id))
  <1> PICK e \in Kinds : e = published[id] OBVIOUS
  <1> PICK cards \in Seq(Cards) : cards = st.messages BY DEF Keeps, StoreStates
  <1> PICK after : after = handleEvent(st, e, id) OBVIOUS
  <1>1. id \in Nat /\ id # 0 /\ \A types : Is(id, types) <=> e.type \in types BY DEF Is
  <1>2. OnCards(id) <=> e.type \notin NoCards BY <1>1 DEF OnCards, NoCards
  <1>3. after \in StoreStates
        /\ after.messages = IF e.type \in NoCards THEN cards ELSE WithEvent(cards, e, id)
    BY <1>1, EventStep DEF Keeps
  <1>4. CardsKeep(cards, ids) BY DEF Keeps
  <1>5. OnCards(id) => Says(id) = IF e.type \in AskTypes THEN <<>> ELSE TextOf(e, id)
    BY <1>1 DEF Says
  <1>6. CASE ~ OnCards(id) BY <1>1, <1>2, <1>3, <1>4, <1>6, KeepHidden DEF Keeps
  <1>7. e.type = "text_delta" => GoesOn(WithEvent(cards, e, id), cards, TextOf(e, id), e.block)
    BY <1>1, DeltaShown
  <1> PICK more : more = WithEvent(cards, e, id) OBVIOUS
  <1>8. CASE OnCards(id) /\ e.type = "text_delta"
    <2>1. DeltaOf(id, e.block) /\ e.block \in Blocks BY <1>1, <1>8, KindIs DEF DeltaOf
    <2>2. Says(id) = TextOf(e, id) BY <1>5, <1>8 DEF AskTypes
    <2>3. /\ Contents(more) = Concat(Contents(cards), Says(id))
          /\ AtDelta(more) /\ Last(more).block = e.block
          /\ Front(more) = IF AtDelta(cards) /\ Last(cards).block = e.block
                           THEN Front(cards) ELSE cards
      BY <1>8, <1>7, <2>2 DEF GoesOn
    <2>4. CardsKeep(more, Append(ids, id)) BY <1>1, <1>4, <2>1, <2>3, KeepDelta
    <2> QED BY <1>2, <1>3, <1>8, <2>4 DEF Keeps
  <1>9. CASE OnCards(id) /\ e.type = "text"
    <2>1. Says(id) = <<id>> BY <1>1, <1>5, <1>9, KindIs DEF AskTypes
    <2>2. /\ ~ AtDelta(more)
          /\ Contents(more)
               = Concat(Contents(IF AtDelta(cards) THEN Front(cards) ELSE cards), Says(id))
      BY <1>1, <1>9, <2>1, TextShown
    <2>3. Is(id, {"text"}) BY <1>1, <1>9
    <2>4. CardsKeep(more, Append(ids, id)) BY <1>1, <1>4, <2>2, <2>3, KeepText
    <2> QED BY <1>2, <1>3, <1>9, <2>4 DEF Keeps
  <1>10. CASE OnCards(id) /\ e.type \notin {"text", "text_delta"}
    <2>1. Says(id) = IF e.type \in AskTypes THEN <<>> ELSE <<id>>
      BY <1>1, <1>5, <1>10, KindIs
    <2>2. ~ AtDelta(more) /\ Contents(more) = Concat(Contents(cards), Says(id))
      <3>1. e.type \notin {"text", "text_delta"} BY <1>10
      <3>2. /\ ~ AtDelta(more)
            /\ Contents(more)
                 = Concat(Contents(cards), IF e.type \in AskTypes THEN <<>> ELSE <<id>>)
        BY <1>1, <3>1, OtherShown
      <3> QED BY <2>1, <3>2
    <2>3. ~ Is(id, {"text"}) /\ ~ Is(id, {"text_delta"}) BY <1>1, <1>10
    <2>4. CardsKeep(more, Append(ids, id)) BY <1>1, <1>4, <1>10, <2>2, <2>3, KeepCard
    <2> QED BY <1>2, <1>3, <1>10, <2>4 DEF Keeps
  <1> QED BY <1>6, <1>8, <1>9, <1>10

LEMMA NothingYet == Keeps(resetMessages, <<>>)
  <1>1. [i \in DOMAIN <<>> |-> CardSays(<<>>[i])] = <<>> OBVIOUS
  <1>2. Contents(<<>>) = <<>> BY <1>1, FlattenNothing DEF Contents
  <1>3. Given(<<>>, 0) = <<>> BY GivenNothing
  <1>4. EndsAt(<<>>, <<>>, 0) BY DEF EndsAt, AtDelta, LastIs
  <1>5. Len(<<>>) = 0 /\ 0 \in 0..0 OBVIOUS
  <1>6. CardsKeep(<<>>, <<>>) BY <1>2, <1>3, <1>4, <1>5 DEF CardsKeep
  <1>7. resetMessages \in StoreStates /\ resetMessages.messages = <<>>
    BY DEF resetMessages, StoreStates, NoPrompt
  <1> QED BY <1>6, <1>7 DEF Keeps

LEMMA RowsTaken ==
  ASSUME NEW rows \in Seq(Nat), NEW i \in 0..Len(rows)
  PROVE  /\ SubSeq(rows, 1, i) \in Seq(Nat) /\ Len(SubSeq(rows, 1, i)) = i
         /\ \A j \in 1..i : SubSeq(rows, 1, i)[j] = rows[j]
  BY SubSeqProperties

LEMMA NumbersJoined ==
  ASSUME NEW a \in Seq(Nat), NEW b \in Seq(Nat), NEW x \in Nat
  PROVE  a \o Append(b, x) = Append(a \o b, x) /\ a \o b \in Seq(Nat)
  <1>1. a \o Append(b, x) = Append(a \o b, x) BY AppendJoined
  <1>2. a \o b \in Seq(Nat) BY ConcatProperties
  <1> QED BY <1>1, <1>2

\* One row more is taken.
LEMMA RowTaken ==
  ASSUME NEW rows \in Seq(Nat), NEW i \in Nat, i + 1 <= Len(rows)
  PROVE  /\ SubSeq(rows, 1, i) \in Seq(Nat) /\ rows[i + 1] \in Nat
         /\ SubSeq(rows, 1, i + 1) = Append(SubSeq(rows, 1, i), rows[i + 1])
  <1>1. i + 1 \in 1..Len(rows) /\ i \in 0..Len(rows) /\ i + 1 \in 0..Len(rows) OBVIOUS
  <1>2. rows[i + 1] \in Nat BY <1>1, ElementOfSeq
  <1>3. PICK c \in Seq(Nat) :
          c = SubSeq(rows, 1, i) /\ Len(c) = i /\ \A j \in 1..i : c[j] = rows[j]
    BY <1>1, RowsTaken
  <1>4. PICK d \in Seq(Nat) :
          /\ d = SubSeq(rows, 1, i + 1) /\ Len(d) = i + 1
          /\ \A j \in 1..(i + 1) : d[j] = rows[j]
    BY <1>1, RowsTaken
  <1>5. PICK x \in Nat : x = rows[i + 1] BY <1>2
  <1>6. /\ Append(c, x) \in Seq(Nat) /\ Len(Append(c, x)) = Len(c) + 1
        /\ \A j \in 1..Len(c) : Append(c, x)[j] = c[j]
        /\ Append(c, x)[Len(c) + 1] = x
    OBVIOUS
  <1>7. \A j \in 1..(i + 1) : Append(c, x)[j] = d[j]
    <2>1. \A j \in 1..(i + 1) : j \in 1..i \/ j = i + 1 OBVIOUS
    <2> QED BY <1>3, <1>4, <1>5, <1>6, <2>1
  <1>8. d = Append(c, x)
    <2>1. Len(d) = Len(Append(c, x)) /\ Len(d) = i + 1 BY <1>3, <1>4, <1>6
    <2> QED BY <1>6, <1>7, <2>1, SeqEqual
  <1> QED BY <1>2, <1>3, <1>4, <1>5, <1>8

Through(ids, rows, i) == ids \o SubSeq(rows, 1, i)

\* What has been handled after the first rows of a history.
LEMMA RowsMore ==
  ASSUME NEW ids \in Seq(Nat), NEW rows \in Seq(Nat), NEW i \in Nat, i + 1 <= Len(rows)
  PROVE  /\ Through(ids, rows, i) \in Seq(Nat) /\ Through(ids, rows, 0) = ids
         /\ Through(ids, rows, i + 1) = Append(Through(ids, rows, i), rows[i + 1])
  <1>1. PICK c \in Seq(Nat), x \in Nat :
          /\ c = SubSeq(rows, 1, i) /\ x = rows[i + 1]
          /\ SubSeq(rows, 1, i + 1) = Append(c, x)
    BY RowTaken
  <1>2. ids \o Append(c, x) = Append(ids \o c, x) BY NumbersJoined
  <1>3. ids \o c \in Seq(Nat) BY NumbersJoined
  <1>4. SubSeq(rows, 1, 0) = <<>> OBVIOUS
  <1>5. ids \o <<>> = ids BY ConcatEmptySeq
  <1> QED BY <1>1, <1>2, <1>3, <1>4, <1>5 DEF Through

LEMMA HistoryKept ==
  ASSUME published \in Seq(Kinds), handled \in Seq(Nat), Keeps(store, handled),
         NEW rows \in Seq(1..Len(published))
  PROVE  Keeps(WithHistory(rows), handled \o rows)
  <1> PICK n \in Nat : n = Len(rows) OBVIOUS
  <1> PICK m \in Nat : m = Len(published) OBVIOUS
  <1>0. \A i \in 1..n : rows[i] \in 1..m /\ rows[i] \in Nat OBVIOUS
  <1> DEFINE S == StoreStates
             step == [i \in 1..n |-> [st \in S |-> handleEvent(st, published[rows[i]], rows[i])]]
             next(f) == [i \in 0..Len(rows) |->
                           IF i = 0 THEN store
                           ELSE handleEvent(f[i - 1], published[rows[i]], rows[i])]
             put == CHOOSE f : f = next(f)
  <1>1. WithHistory(rows) = put[n] BY DEF WithHistory
  <1>2. store \in S BY DEF Keeps
  <1>3. step \in [1..n -> [S -> S]]
    <2>1. ASSUME NEW i \in 1..n, NEW st \in S
          PROVE  handleEvent(st, published[rows[i]], rows[i]) \in S
      <3> PICK r \in 1..m : r = rows[i] BY <1>0
      <3>1. published[r] \in Kinds /\ r \in Nat OBVIOUS
      <3>2. handleEvent(st, published[r], r) \in S BY <3>1, EventStep
      <3> QED BY <3>2
    <2> HIDE DEF S
    <2> QED BY <2>1
  <1>4. PICK g : Computes(g, n, S, store, step)
    <2> HIDE DEF S, step
    <2> QED BY <1>2, <1>3, Recursion
  <1>5. \A i \in 1..n : g[i] = handleEvent(g[i - 1], published[rows[i]], rows[i])
    <2> SUFFICES ASSUME NEW i \in 1..n
                 PROVE  g[i] = handleEvent(g[i - 1], published[rows[i]], rows[i])
      OBVIOUS
    <2>1. i - 1 \in 0..n OBVIOUS
    <2>2. step[i] = [st \in S |-> handleEvent(st, published[rows[i]], rows[i])] OBVIOUS
    <2> HIDE DEF S, step
    <2>3. g[i - 1] \in S /\ g[i] = step[i][g[i - 1]] BY <1>4, <2>1 DEF Computes
    <2> QED BY <2>2, <2>3
  <1>6. g[0] = store /\ g = [i \in 0..n |-> g[i]]
    <2> HIDE DEF S, step
    <2> QED BY <1>4 DEF Computes
  <1> HIDE DEF S, step
  <1>7. put = next(put)
    <2>1. g = next(g)
      <3>1. \A i \in 0..n : g[i] = IF i = 0 THEN store
                                   ELSE handleEvent(g[i - 1], published[rows[i]], rows[i])
        <4>1. \A i \in 0..n : i = 0 \/ i \in 1..n OBVIOUS
        <4> QED BY <1>5, <1>6, <4>1
      <3>2. next(g) = [i \in 0..n |-> g[i]] BY <3>1
      <3> HIDE DEF next
      <3> QED BY <1>6, <3>2
    <2> HIDE DEF next
    <2> QED BY <2>1, Zenon
  <1> HIDE DEF put
  <1>8. /\ put[0] = store
        /\ \A i \in 1..n : put[i] = handleEvent(put[i - 1], published[rows[i]], rows[i])
    <2>1. \A i \in 0..n : put[i] = next(put)[i] BY <1>7, Zenon
    <2>2. \A i \in 0..n :
            next(put)[i] = IF i = 0 THEN store
                           ELSE handleEvent(put[i - 1], published[rows[i]], rows[i])
      BY DEF next
    <2> HIDE DEF next
    <2>3. 0 \in 0..n /\ \A i \in 1..n : i \in 0..n /\ i # 0 OBVIOUS
    <2> QED BY <2>1, <2>2, <2>3
  <1>9. rows \in Seq(Nat)
    <2>1. 1..m \subseteq Nat OBVIOUS
    <2> QED BY <2>1, SeqMonotonic
  <1> DEFINE T == {i \in Nat : i <= n => Keeps(put[i], Through(handled, rows, i))}
  <1>10. 0 \in T
    <2>1. Through(handled, rows, 0) = handled
      <3>1. SubSeq(rows, 1, 0) = <<>> OBVIOUS
      <3> QED BY <3>1, ConcatEmptySeq DEF Through
    <2> QED BY <1>8, <2>1
  <1>11. ASSUME NEW i \in Nat, i \in T PROVE i + 1 \in T
    <2> SUFFICES ASSUME i + 1 <= n PROVE Keeps(put[i + 1], Through(handled, rows, i + 1))
      OBVIOUS
    <2> PICK j \in 1..n : j = i + 1 OBVIOUS
    <2> PICK r \in 1..m : r = rows[j] BY <1>0
    <2>1. j - 1 = i /\ Keeps(put[i], Through(handled, rows, i)) BY <1>11
    <2>2. put[j] = handleEvent(put[i], published[r], r) BY <1>8, <2>1
    <2>3. /\ Through(handled, rows, i) \in Seq(Nat)
          /\ Through(handled, rows, j) = Append(Through(handled, rows, i), r)
      <3> HIDE DEF T
      <3>1. i + 1 <= Len(rows) OBVIOUS
      <3> QED BY <1>9, <3>1, RowsMore
    <2>4. Keeps(handleEvent(put[i], published[r], r), Append(Through(handled, rows, i), r))
      BY <2>1, <2>3, KeepsMore
    <2> QED BY <2>2, <2>3, <2>4
  <1>12. n \in T
    <2> HIDE DEF T
    <2>1. Nat \subseteq T BY <1>10, <1>11, Induction
    <2> QED BY <2>1
  <1>13. Through(handled, rows, n) = handled \o rows
    <2>1. SubSeq(rows, 1, n) = rows BY SubSeqFull
    <2> QED BY <2>1 DEF Through
  <1>14. Keeps(put[n], Through(handled, rows, n)) BY <1>12
  <1> HIDE DEF T
  <1> QED BY <1>1, <1>13, <1>14, Zenon

(***************************************************************************)
(* The screen.  Its inductive invariant: the types, and that the store     *)
(* says what it was given.                                                 *)
(***************************************************************************)
Methods == {"session.start", "session.input", "session.abort", "permission.respond",
            "session.start_restart"}
About == [text : Nat, seen : Nat, id : Nat]
Asked == [method : Methods, about : About, settled : {"no", "resolved", "rejected"}]
Clients(n) == [ws : {"none", "connecting", "open", "closed"}, connected : BOOLEAN,
               queue : Seq(Nat), pending : SUBSET Nat, read : 0..n]
Screens == [visit : Nat, mounted : BOOLEAN, connected : BOOLEAN, effect : BOOLEAN,
            started : BOOLEAN, turnActive : BOOLEAN, prompt : Nat, typed : Nat,
            leaving : SUBSET Nat]
Fetch(n) == [visit : Nat, rows : Seq(1..n), served : BOOLEAN]

EventsOK == published \in Seq(Kinds) /\ Len(published) <= MaxEvents
RequestsOK == requests \in Seq(Asked) /\ Len(requests) <= MaxRequests
FetchesOK == fetches \subseteq Fetch(Len(published))
HandledOK == handled \in Seq(0..Len(published))

MobileInv == MobileTypeOK /\ Keeps(store, handled)

LEMMA MobileParts ==
  MobileInv <=> /\ EventsOK /\ client \in Clients(Len(published)) /\ RequestsOK
                /\ sent \in Seq(Nat) /\ screen \in Screens /\ FetchesOK /\ HandledOK
                /\ Keeps(store, handled)
  BY DEF MobileInv, MobileTypeOK, EventsOK, Clients, RequestsOK, Asked, Methods, About,
         Screens, FetchesOK, Fetch, HandledOK, Keeps

LEMMA MobilePartsThen ==
  ASSUME EventsOK', client' \in Clients(Len(published')), RequestsOK', sent' \in Seq(Nat),
         screen' \in Screens, FetchesOK', HandledOK', Keeps(store, handled)'
  PROVE  MobileInv'
  BY DEF MobileInv, MobileTypeOK, EventsOK, Clients, RequestsOK, Asked, Methods, About,
         Screens, FetchesOK, Fetch, HandledOK, Keeps

LEMMA MobileInitInv == MobileInit => MobileInv
  <1> SUFFICES ASSUME MobileInit PROVE MobileInv OBVIOUS
  <1> USE DEF MobileInit
  <1>1. EventsOK BY MobileAssumption DEF EventsOK
  <1>2. client \in Clients(Len(published)) BY DEF Clients, NoClient
  <1>3. RequestsOK BY MobileAssumption DEF RequestsOK
  <1>4. sent \in Seq(Nat) /\ FetchesOK /\ HandledOK BY DEF FetchesOK, HandledOK
  <1>5. screen \in Screens BY DEF Screens, NoScreen, NoPrompt
  <1>6. Keeps(store, handled) BY NothingYet
  <1> QED BY <1>1, <1>2, <1>3, <1>4, <1>5, <1>6, MobileParts

LEMMA SendStep ==
  ASSUME MobileInv, NEW method \in Methods, NEW about \in About, send(method, about)
  PROVE  RequestsOK' /\ client' \in Clients(Len(published)) /\ sent' \in Seq(Nat)
  <1>1. RequestsOK /\ client \in Clients(Len(published)) /\ sent \in Seq(Nat) BY MobileParts
  <1> PICK x \in Asked : x = [method |-> method, about |-> about, settled |-> "no"]
    BY DEF Asked
  <1> PICK r \in Nat : r = Len(requests) + 1 BY <1>1 DEF RequestsOK
  <1>2. requests' = Append(requests, x) /\ r <= MaxRequests BY DEF send
  <1>3. RequestsOK' BY <1>1, <1>2, AppendOfRecords DEF RequestsOK
  <1>4. CASE client.connected
    <2>1. client' = [client EXCEPT !.pending = @ \cup {r}] /\ sent' = Append(sent, r)
      BY <1>4 DEF send
    <2>2. client' \in Clients(Len(published)) BY <1>1, <2>1 DEF Clients
    <2>3. sent' \in Seq(Nat) BY <1>1, <2>1, AppendOfRecords
    <2> QED BY <1>3, <2>2, <2>3
  <1>5. CASE ~ client.connected
    <2> PICK q \in Seq(Nat) : q = Append(client.queue, r)
      <3>1. client.queue \in Seq(Nat) BY <1>1 DEF Clients
      <3> QED BY <3>1, AppendOfRecords
    <2>1. client' = [client EXCEPT !.queue = q] /\ sent' = sent BY <1>5 DEF send
    <2>2. client' \in Clients(Len(published)) BY <1>1, <2>1 DEF Clients
    <2> QED BY <1>1, <1>3, <2>1, <2>2
  <1> QED BY <1>4, <1>5

LEMMA SettledStep ==
  ASSUME RequestsOK, NEW how \in [DOMAIN requests -> {"no", "resolved", "rejected"}],
         requests' = [r \in DOMAIN requests |-> [requests[r] EXCEPT !.settled = how[r]]]
  PROVE  RequestsOK'
  <1> PICK n \in Nat : n = Len(requests) BY DEF RequestsOK
  <1>1. DOMAIN requests = 1..n /\ \A r \in 1..n : requests[r] \in Asked BY DEF RequestsOK
  <1>2. \A r \in 1..n : [requests[r] EXCEPT !.settled = how[r]] \in Asked
    <2> SUFFICES ASSUME NEW r \in 1..n
                 PROVE  [requests[r] EXCEPT !.settled = how[r]] \in Asked
      OBVIOUS
    <2> PICK h \in {"no", "resolved", "rejected"} : h = how[r] BY <1>1
    <2> PICK x \in Asked : x = requests[r] BY <1>1, Zenon
    <2>1. [x EXCEPT !.settled = h] \in Asked BY DEF Asked
    <2> QED BY <2>1
  <1> HIDE DEF Asked
  <1>3. requests' \in [1..n -> Asked] BY <1>1, <1>2
  <1>4. requests' \in Seq(Asked) /\ Len(requests') = n BY <1>3, FunctionIsSeq, Zenon
  <1> QED BY <1>4 DEF RequestsOK

LEMMA StoreStep ==
  ASSUME screen \in Screens, NEW st \in StoreStates, StoreBecomes(st)
  PROVE  store' = st /\ screen' \in Screens
  <1> PICK turn \in BOOLEAN : turn = IF screen.mounted THEN st.turnActive ELSE screen.turnActive
    BY DEF Screens, StoreStates
  <1>1. screen' = [screen EXCEPT !.turnActive = turn] BY DEF StoreBecomes
  <1> QED BY <1>1 DEF StoreBecomes, Screens

\* An event that is published changes nothing of what was given before.
LEMMA KeptStays ==
  ASSUME EventsOK, NEW ids \in Seq(0..Len(published)), NEW e, NEW st, Keeps(st, ids),
         published' = Append(published, e)
  PROVE  Keeps(st, ids)'
  <1> PICK n \in Nat : n = Len(published) BY DEF EventsOK
  <1> PICK m \in Nat : m = Len(ids) OBVIOUS
  <1>1. \A i \in 1..n : published'[i] = published[i] BY DEF EventsOK
  <1>2. \A k \in 1..m : ids[k] \in 0..n OBVIOUS
  <1>3. \A k \in 1..m : ids[k] # 0 => published'[ids[k]] = published[ids[k]]
    BY <1>1, <1>2
  <1>4. \A k \in 1..m : /\ OnCards(ids[k])' <=> OnCards(ids[k])
                        /\ \A b : DeltaOf(ids[k], b)' <=> DeltaOf(ids[k], b)
                        /\ Is(ids[k], {"text"})' <=> Is(ids[k], {"text"})
                        /\ Says(ids[k])' = Says(ids[k])
    BY <1>3 DEF OnCards, DeltaOf, Is, Says
  <1>5. \A k \in 1..m : GivesWay(ids, k)' <=> GivesWay(ids, k)
    <2> SUFFICES ASSUME NEW k \in 1..m PROVE GivesWay(ids, k)' <=> GivesWay(ids, k) OBVIOUS
    <2>1. \A l \in (k + 1)..m : l \in 1..m /\ \A j \in (k + 1)..(l - 1) : j \in 1..m OBVIOUS
    <2> QED BY <1>4, <2>1 DEF GivesWay
  <1>6. \A k \in 1..m : Open(ids, k)' <=> Open(ids, k)
    <2> SUFFICES ASSUME NEW k \in 1..m PROVE Open(ids, k)' <=> Open(ids, k) OBVIOUS
    <2>1. \A j \in (k + 1)..m : j \in 1..m OBVIOUS
    <2> QED BY <1>4, <2>1 DEF Open
  <1>7. \A k \in 1..m : Term(ids, k)' = Term(ids, k) BY <1>4, <1>5 DEF Term
  <1>8. \A p \in 0..m : Given(ids, p)' = Given(ids, p)
    <2> SUFFICES ASSUME NEW p \in 0..m PROVE Given(ids, p)' = Given(ids, p) OBVIOUS
    <2>1. \A k \in 1..p : k \in 1..m OBVIOUS
    <2> QED BY <1>7, <2>1 DEF Given
  <1> PICK cards : cards = st.messages OBVIOUS
  <1> PICK p \in 0..m : EndsAt(cards, ids, p) BY DEF Keeps, CardsKeep
  <1>9. EndsAt(cards, ids, p)'
    <2>1. \A k \in 1..p : k \in 1..m OBVIOUS
    <2>2. \A k \in (p + 1)..m : k \in 1..m OBVIOUS
    <2> QED BY <1>4, <1>6, <1>8, <2>1, <2>2 DEF EndsAt, AtDelta, Contents
  <1>10. m \in 0..m /\ st \in StoreStates BY DEF Keeps
  <1>11. Contents(cards) = Given(ids, m)' BY <1>8, <1>10 DEF Keeps, CardsKeep
  <1> QED BY <1>9, <1>10, <1>11 DEF Keeps, CardsKeep, Contents

LEMMA KeptThen ==
  ASSUME published' = published, NEW st, NEW ids, Keeps(st, ids),
         store' = st, handled' = ids
  PROVE  Keeps(store, handled)'
  <1>1. \A k : /\ OnCards(ids[k])' <=> OnCards(ids[k])
               /\ Says(ids[k])' = Says(ids[k])
               /\ \A b : DeltaOf(ids[k], b)' <=> DeltaOf(ids[k], b)
               /\ Is(ids[k], {"text"})' <=> Is(ids[k], {"text"})
    BY DEF OnCards, DeltaOf, Is, Says
  <1>2. ASSUME NEW k PROVE GivesWay(ids, k)' <=> GivesWay(ids, k) BY <1>1 DEF GivesWay
  <1>3. ASSUME NEW k PROVE Open(ids, k)' <=> Open(ids, k) BY <1>1 DEF Open
  <1>4. ASSUME NEW k PROVE Term(ids, k)' = Term(ids, k)
    <2>1. (GivesWay(ids, k)' <=> GivesWay(ids, k)) /\ Says(ids[k])' = Says(ids[k])
      BY <1>1, <1>2
    <2> QED BY <2>1 DEF Term
  <1>5. \A p : Given(ids, p)' = Given(ids, p) BY <1>4 DEF Given
  <1> PICK cards : cards = st.messages OBVIOUS
  <1> PICK p \in 0..Len(ids) : EndsAt(cards, ids, p) BY DEF Keeps, CardsKeep
  <1>6. EndsAt(cards, ids, p)' BY <1>1, <1>3, <1>5 DEF EndsAt, AtDelta, Contents
  <1>7. CardsKeep(cards, ids)' BY <1>5, <1>6 DEF Keeps, CardsKeep, Contents
  <1> QED BY <1>7 DEF Keeps

LEMMA EventsThen ==
  ASSUME EventsOK, published' = published
  PROVE  EventsOK'
  BY DEF EventsOK

LEMMA FetchesThen ==
  ASSUME FetchesOK, published' = published,
         fetches' = fetches \/ (\E f : fetches' = fetches \ {f})
  PROVE  FetchesOK'
  BY DEF FetchesOK

\* One step, by action.
LEMMA PublishStep ==
  ASSUME MobileInv, NEW e \in Kinds, Publish(e)
  PROVE  MobileInv'
  <1> USE DEF Publish
  <1> PICK n \in Nat : n = Len(published) BY MobileParts DEF EventsOK
  <1>1. EventsOK' /\ Len(published') = n + 1
    <2>1. Len(published) < MaxEvents /\ MaxEvents \in Nat BY MobileAssumption
    <2>2. published \in Seq(Kinds) BY MobileParts DEF EventsOK
    <2>3. published' \in Seq(Kinds) /\ Len(published') = n + 1 BY <2>2, AppendOfRecords
    <2> QED BY <2>1, <2>3 DEF EventsOK
  <1>2. 0..n \subseteq 0..(n + 1) OBVIOUS
  <1>3. client' \in Clients(n + 1) BY <1>2, MobileParts DEF Clients
  <1>4. RequestsOK' BY MobileParts DEF RequestsOK
  <1>5. sent' \in Seq(Nat) /\ screen' \in Screens BY MobileParts
  <1>6. FetchesOK'
    <2>1. Seq(1..n) \subseteq Seq(1..(n + 1))
      <3>1. 1..n \subseteq 1..(n + 1) OBVIOUS
      <3> QED BY <3>1, SeqMonotonic
    <2>2. fetches \subseteq Fetch(n) /\ fetches' = fetches BY MobileParts DEF FetchesOK
    <2>3. Fetch(n) \subseteq Fetch(n + 1)
      <3> DEFINE some == Seq(1..n)
                 more == Seq(1..(n + 1))
      <3>1. some \subseteq more BY <2>1
      <3> HIDE DEF some, more
      <3>2. [visit : Nat, rows : some, served : BOOLEAN]
              \subseteq [visit : Nat, rows : more, served : BOOLEAN]
        BY <3>1
      <3> QED BY <3>2 DEF Fetch, some, more
    <2> QED BY <1>1, <2>2, <2>3 DEF FetchesOK
  <1> PICK hs : hs = handled OBVIOUS
  <1>7. hs \in Seq(0..n) BY MobileParts DEF HandledOK
  <1>8. HandledOK' BY <1>1, <1>2, <1>7, SeqMonotonic DEF HandledOK
  <1>9. Keeps(store, handled)'
    <2> PICK st : st = store OBVIOUS
    <2>1. Keeps(st, hs) BY MobileParts
    <2>2. Keeps(st, hs)' BY <1>7, <2>1, MobileParts, KeptStays
    <2> QED BY <2>2
  <1> QED BY <1>1, <1>3, <1>4, <1>5, <1>6, <1>8, <1>9, MobilePartsThen

\* All other actions publish nothing; what they leave as it is stays right.
LEMMA QuietStep ==
  ASSUME MobileInv, published' = published
  PROVE  /\ fetches' = fetches => FetchesOK'
         /\ handled' = handled => HandledOK'
         /\ requests' = requests => RequestsOK'
         /\ sent' = sent => sent' \in Seq(Nat)
         /\ screen' = screen => screen' \in Screens
         /\ client' = client => client' \in Clients(Len(published))
         /\ handled' = <<>> => HandledOK'
         /\ store' = store /\ handled' = handled => Keeps(store, handled)'
         /\ store' = resetMessages /\ handled' = <<>> => Keeps(store, handled)'
  <1>1. FetchesOK /\ HandledOK /\ RequestsOK /\ client \in Clients(Len(published))
        /\ sent \in Seq(Nat) /\ screen \in Screens /\ Keeps(store, handled)
    BY MobileParts
  <1>2. store' = store /\ handled' = handled => Keeps(store, handled)'
    <2> SUFFICES ASSUME store' = store, handled' = handled PROVE Keeps(store, handled)'
      OBVIOUS
    <2> PICK st, hs : st = store /\ hs = handled OBVIOUS
    <2>1. Keeps(st, hs) BY <1>1
    <2> QED BY <2>1, KeptThen
  <1>3. store' = resetMessages /\ handled' = <<>> => Keeps(store, handled)'
    <2> SUFFICES ASSUME store' = resetMessages, handled' = <<>> PROVE Keeps(store, handled)'
      OBVIOUS
    <2> QED BY NothingYet, KeptThen
  <1>4. fetches' = fetches => FetchesOK' BY <1>1 DEF FetchesOK
  <1>5. handled' = handled => HandledOK' BY <1>1 DEF HandledOK
  <1>6. requests' = requests => RequestsOK' BY <1>1 DEF RequestsOK
  <1>7. handled' = <<>> => HandledOK' BY DEF HandledOK
  <1>8. /\ sent' = sent => sent' \in Seq(Nat)
        /\ screen' = screen => screen' \in Screens
        /\ client' = client => client' \in Clients(Len(published))
    BY <1>1
  <1> QED BY <1>2, <1>3, <1>4, <1>5, <1>6, <1>7, <1>8

LEMMA QuietThen ==
  ASSUME MobileInv, published' = published,
         client' \in Clients(Len(published)), RequestsOK', sent' \in Seq(Nat),
         screen' \in Screens, FetchesOK', HandledOK', Keeps(store, handled)'
  PROVE  MobileInv'
  <1>1. EventsOK' BY MobileParts DEF EventsOK
  <1> QED BY <1>1, MobilePartsThen

LEMMA ConnectionStep ==
  ASSUME MobileInv, handleConnect \/ onopen \/ onclose
  PROVE  MobileInv'
  <1> PICK n \in Nat : n = Len(published) BY MobileParts DEF EventsOK
  <1>1. published' = published BY DEF handleConnect, onopen, onclose
  <1>2. client \in Clients(n) /\ screen \in Screens /\ sent \in Seq(Nat)
    BY MobileParts
  <1>3. CASE handleConnect
    <2>1. client' \in Clients(n)
      <3>1. client' = [NoClient EXCEPT !.ws = "connecting"] BY <1>3 DEF handleConnect
      <3>2. NoClient \in Clients(n) BY DEF Clients, NoClient
      <3> QED BY <3>1, <3>2 DEF Clients
    <2>2. screen' \in Screens
      <3> PICK v \in Nat : v = screen.visit + 1 BY <1>2 DEF Screens
      <3>1. screen' = [NoScreen EXCEPT !.visit = v, !.mounted = TRUE]
        BY <1>3 DEF handleConnect
      <3>2. NoScreen \in Screens BY DEF Screens, NoScreen, NoPrompt
      <3> QED BY <3>1, <3>2 DEF Screens
    <2>3. /\ requests' = requests /\ sent' = sent /\ fetches' = fetches
          /\ store' = resetMessages /\ handled' = <<>>
      BY <1>3 DEF handleConnect
    <2> QED BY <1>1, <2>1, <2>2, <2>3, QuietStep, QuietThen
  <1>4. CASE onopen
    <2>0. client.queue \in Seq(Nat) /\ client.pending \subseteq Nat BY <1>2 DEF Clients
    <2> PICK p : p = client.pending \cup Queued OBVIOUS
    <2>5. p \in SUBSET Nat BY <2>0 DEF Queued
    <2>1. client' \in Clients(n)
      <3>1. client' = [client EXCEPT !.ws = "open", !.connected = TRUE,
                                     !.queue = <<>>, !.pending = p]
        BY <1>4 DEF onopen
      <3>2. <<>> \in Seq(Nat) OBVIOUS
      <3> QED BY <1>2, <2>5, <3>1, <3>2 DEF Clients
    <2>2. screen' \in Screens
      <3>1. screen' = [screen EXCEPT !.connected = TRUE, !.effect = TRUE]
        BY <1>4 DEF onopen
      <3> QED BY <1>2, <3>1 DEF Screens
    <2>3. sent' \in Seq(Nat)
      <3>1. client.queue \in Seq(Nat) /\ sent' = sent \o client.queue
        BY <1>2, <1>4 DEF onopen, Clients
      <3> QED BY <1>2, <3>1, ConcatProperties
    <2>4. requests' = requests /\ fetches' = fetches /\ store' = store /\ handled' = handled
      BY <1>4 DEF onopen
    <2> QED BY <1>1, <2>1, <2>2, <2>3, <2>4, QuietStep, QuietThen
  <1>5. CASE onclose
    <2>1. client' \in Clients(n)
      <3>1. client' = [client EXCEPT !.ws = "closed", !.connected = FALSE]
        BY <1>5 DEF onclose
      <3> QED BY <1>2, <3>1 DEF Clients
    <2>2. screen' \in Screens
      <3>1. screen' = [screen EXCEPT !.connected = FALSE, !.effect = FALSE]
        BY <1>5 DEF onclose
      <3> QED BY <1>2, <3>1 DEF Screens
    <2>3. /\ requests' = requests /\ sent' = sent /\ fetches' = fetches
          /\ store' = store /\ handled' = handled
      BY <1>5 DEF onclose
    <2> QED BY <1>1, <2>1, <2>2, <2>3, QuietStep, QuietThen
  <1> QED BY <1>3, <1>4, <1>5

LEMMA HandledMore ==
  ASSUME EventsOK, HandledOK, NEW id \in 0..Len(published)
  PROVE  /\ handled \in Seq(Nat) /\ Append(handled, id) \in Seq(0..Len(published))
  <1>1. 0..Len(published) \subseteq Nat OBVIOUS
  <1> DEFINE S == 0..Len(published)
  <1>2. handled \in Seq(S) /\ id \in S /\ S \subseteq Nat BY <1>1 DEF HandledOK
  <1> HIDE DEF S
  <1>3. handled \in Seq(Nat) /\ Append(handled, id) \in Seq(S)
    BY <1>2, SeqMonotonic, AppendOfRecords
  <1> QED BY <1>3 DEF S

LEMMA OnEventStep ==
  ASSUME MobileInv, onEvent
  PROVE  MobileInv'
  <1> USE DEF onEvent
  <1> PICK n \in Nat : n = Len(published) BY MobileParts DEF EventsOK
  <1>1. published' = published OBVIOUS
  <1>2. EventsOK /\ HandledOK /\ client \in Clients(n) /\ screen \in Screens
        /\ Keeps(store, handled)
    BY MobileParts
  <1> PICK id \in 1..n : id = client.read + 1
    BY <1>2 DEF Clients, EventsOK
  <1>3. /\ StoreBecomes(handleEvent(store, published[id], id))
        /\ handled' = Append(handled, id) /\ client' = [client EXCEPT !.read = id]
    OBVIOUS
  <1>4. handled \in Seq(Nat) /\ HandledOK'
    BY <1>1, <1>2, <1>3, HandledMore DEF HandledOK
  <1> PICK st : st = handleEvent(store, published[id], id) OBVIOUS
  <1> PICK hs : hs = Append(handled, id) OBVIOUS
  <1>5. Keeps(st, hs) BY <1>2, <1>4, KeepsMore DEF EventsOK
  <1>6. store' = st /\ screen' \in Screens
    BY <1>2, <1>3, <1>5, StoreStep DEF Keeps
  <1>7. Keeps(store, handled)' BY <1>1, <1>3, <1>5, <1>6, KeptThen
  <1>8. client' \in Clients(n)
    <2>1. id \in 0..n /\ client' = [client EXCEPT !.read = id] BY <1>3
    <2> QED BY <1>2, <2>1 DEF Clients
  <1> QED BY <1>1, <1>4, <1>6, <1>7, <1>8, QuietStep, QuietThen

\* The end of a visit.
LEMMA DisconnectStep ==
  ASSUME MobileInv, NEW settle, NEW r \in Nat, NEW o \in {"resolved", "rejected"},
         settle = [x \in {r} |-> o], disconnect(settle), published' = published
  PROVE  /\ RequestsOK' /\ client' \in Clients(Len(published)) /\ screen' \in Screens
         /\ HandledOK' /\ Keeps(store, handled)'
  <1> PICK n \in Nat : n = Len(published) BY MobileParts DEF EventsOK
  <1>1. RequestsOK /\ screen \in Screens BY MobileParts
  <1>2. RequestsOK'
    <2> DEFINE how == [x \in DOMAIN requests |->
                         IF x \in client.pending \cup Queued /\ x \notin DOMAIN settle
                         THEN "rejected"
                         ELSE IF x \in DOMAIN settle THEN settle[x]
                         ELSE requests[x].settled]
    <2> PICK m \in Nat : m = Len(requests) BY <1>1 DEF RequestsOK
    <2>1. DOMAIN requests = 1..m /\ \A x \in 1..m : requests[x] \in Asked
      BY <1>1 DEF RequestsOK
    <2>2. DOMAIN settle = {r} /\ settle[r] = o OBVIOUS
    <2>3. \A x \in 1..m : how[x] \in {"no", "resolved", "rejected"}
      BY <2>1, <2>2 DEF Asked
    <2>4. how \in [DOMAIN requests -> {"no", "resolved", "rejected"}] BY <2>1, <2>3
    <2>5. requests' = [x \in DOMAIN requests |->
            IF x \in client.pending \cup Queued /\ x \notin DOMAIN settle
            THEN [requests[x] EXCEPT !.settled = "rejected"]
            ELSE IF x \in DOMAIN settle THEN [requests[x] EXCEPT !.settled = settle[x]]
            ELSE requests[x]]
      BY DEF disconnect
    <2>6. \A x \in 1..m : [requests[x] EXCEPT !.settled = requests[x].settled] = requests[x]
      BY <2>1 DEF Asked
    <2>7. requests' = [x \in DOMAIN requests |-> [requests[x] EXCEPT !.settled = how[x]]]
      BY <2>1, <2>5, <2>6
    <2> HIDE DEF how
    <2> QED BY <1>1, <2>4, <2>7, SettledStep
  <1>3. client' \in Clients(n)
    <2>1. client' = NoClient BY DEF disconnect
    <2> QED BY <2>1 DEF NoClient, Clients
  <1>4. screen' \in Screens
    <2> PICK v \in Nat : v = screen.visit BY <1>1 DEF Screens
    <2>1. screen' = [NoScreen EXCEPT !.visit = v] BY DEF disconnect
    <2>2. NoScreen \in Screens BY DEF Screens, NoScreen, NoPrompt
    <2> QED BY <2>1, <2>2 DEF Screens
  <1>5. store' = resetMessages /\ handled' = <<>> BY DEF disconnect
  <1> QED BY <1>2, <1>3, <1>4, <1>5, QuietStep

LEMMA AnswerStep ==
  ASSUME MobileInv, NEW r \in 1..MaxRequests, NEW o \in {"resolved", "rejected"},
         Answered(r, o)
  PROVE  MobileInv'
  <1> PICK n \in Nat : n = Len(published) BY MobileParts DEF EventsOK
  <1>1. published' = published /\ sent' = sent /\ fetches' = fetches BY DEF Answered
  <1>2. RequestsOK /\ screen \in Screens /\ client \in Clients(n) BY MobileParts
  <1>3. r \in Nat BY MobileAssumption
  <1>4. CASE r \in screen.leaving /\ disconnect([x \in {r} |-> o])
    <2> PICK settle : settle = [x \in {r} |-> o] OBVIOUS
    <2>1. /\ RequestsOK' /\ client' \in Clients(n) /\ screen' \in Screens
          /\ HandledOK' /\ Keeps(store, handled)'
      BY <1>1, <1>3, <1>4, DisconnectStep
    <2> QED BY <1>1, <2>1, QuietStep, QuietThen
  <1>5. CASE /\ requests' = Settled({r}, o)
             /\ client' = [client EXCEPT !.pending = @ \ {r}]
             /\ screen' = [screen EXCEPT !.started =
                                           @ \/ requests[r].method = "session.start"]
             /\ store' = store /\ handled' = handled
    <2>1. client' \in Clients(n)
      <3> PICK p \in SUBSET Nat : p = client.pending \ {r} BY <1>2 DEF Clients
      <3>1. client' = [client EXCEPT !.pending = p] BY <1>5
      <3> QED BY <1>2, <3>1 DEF Clients
    <2>2. screen' \in Screens
      <3> PICK b \in BOOLEAN :
            b = (screen.started \/ requests[r].method = "session.start")
        BY <1>2 DEF Screens
      <3>1. screen' = [screen EXCEPT !.started = b] BY <1>5
      <3> QED BY <1>2, <3>1 DEF Screens
    <2>3. RequestsOK'
      <3> DEFINE how == [x \in DOMAIN requests |->
                           IF x \in {r} THEN o ELSE requests[x].settled]
      <3> PICK m \in Nat : m = Len(requests) BY <1>2 DEF RequestsOK
      <3>1. DOMAIN requests = 1..m /\ \A x \in 1..m : requests[x] \in Asked
        BY <1>2 DEF RequestsOK
      <3>2. \A x \in 1..m : how[x] \in {"no", "resolved", "rejected"} BY <3>1 DEF Asked
      <3>3. how \in [DOMAIN requests -> {"no", "resolved", "rejected"}] BY <3>1, <3>2
      <3>4. requests' = [x \in DOMAIN requests |->
              IF x \in {r} THEN [requests[x] EXCEPT !.settled = o] ELSE requests[x]]
        BY <1>5 DEF Settled
      <3>5. \A x \in 1..m : [requests[x] EXCEPT !.settled = requests[x].settled] = requests[x]
        BY <3>1 DEF Asked
      <3>6. requests' = [x \in DOMAIN requests |-> [requests[x] EXCEPT !.settled = how[x]]]
        BY <3>1, <3>4, <3>5
      <3> HIDE DEF how
      <3> QED BY <1>2, <3>3, <3>6, SettledStep
    <2> QED BY <1>1, <1>5, <2>1, <2>2, <2>3, QuietStep, QuietThen
  <1> QED BY <1>4, <1>5 DEF Answered

LEMMA EffectsStep ==
  ASSUME MobileInv, Effects
  PROVE  MobileInv'
  <1> PICK n \in Nat : n = Len(published) BY MobileParts DEF EventsOK
  <1>1. published' = published /\ store' = store /\ handled' = handled BY DEF Effects
  <1>2. screen \in Screens /\ FetchesOK BY MobileParts
  <1>3. screen' \in Screens
    <2>1. screen' = [screen EXCEPT !.effect = FALSE] BY DEF Effects
    <2> QED BY <1>2, <2>1 DEF Screens
  <1>4. FetchesOK'
    <2> PICK f : f = [visit |-> screen.visit, rows |-> <<>>, served |-> FALSE] OBVIOUS
    <2>1. f \in Fetch(n)
      <3>1. <<>> \in Seq(1..n) OBVIOUS
      <3> QED BY <1>2, <3>1 DEF Fetch, Screens
    <2>2. fetches' = fetches \cup {f} BY DEF Effects
    <2> QED BY <1>1, <1>2, <2>1, <2>2 DEF FetchesOK
  <1>5. RequestsOK' /\ client' \in Clients(n) /\ sent' \in Seq(Nat)
    <2>1. CASE screen.started
      <3>1. client' = client /\ requests' = requests /\ sent' = sent BY <2>1 DEF Effects
      <3> QED BY <1>1, <3>1, QuietStep
    <2>2. CASE ~ screen.started
      <3>1. send("session.start", Nothing) BY <2>2 DEF Effects
      <3>2. "session.start" \in Methods /\ Nothing \in About
        BY DEF Methods, About, Nothing, NoPrompt
      <3> QED BY <3>1, <3>2, SendStep
    <2> QED BY <2>1, <2>2
  <1> QED BY <1>1, <1>3, <1>4, <1>5, QuietStep, QuietThen

LEMMA HistoryIs ==
  ASSUME EventsOK, NEW rows \in Histories
  PROVE  rows \in Seq(1..Len(published))
  <1> PICK n \in Nat : n = Len(published) BY DEF EventsOK
  <1>1. DOMAIN published = 1..n BY DEF EventsOK
  <1>2. rows \in BoundedSeq(1..n, HistoryLimit) BY <1>1 DEF Histories
  <1> QED BY <1>2 DEF BoundedSeq, SeqOf

LEMMA FetchesMore ==
  ASSUME FetchesOK, published' = published, NEW f \in Fetch(Len(published)),
         fetches' \subseteq fetches \cup {f}
  PROVE  FetchesOK'
  BY DEF FetchesOK

LEMMA FetchStep ==
  ASSUME MobileInv, NEW f \in fetches, FetchServed(f) \/ FetchFailed(f)
  PROVE  MobileInv'
  <1> PICK n \in Nat : n = Len(published) BY MobileParts DEF EventsOK
  <1>1. UNCHANGED <<published, store, client, requests, sent, screen, handled>>
    <2>1. FetchServed(f) => UNCHANGED <<published, store, client, requests, sent, screen, handled>>
      BY DEF FetchServed
    <2>2. FetchFailed(f) => UNCHANGED <<published, store, client, requests, sent, screen, handled>>
      BY DEF FetchFailed
    <2> QED BY <2>1, <2>2
  <1>2. EventsOK /\ FetchesOK BY MobileParts
  <1>3. ASSUME FetchServed(f) PROVE FetchesOK'
    <2> PICK rows \in Histories : fetches' = (fetches \ {f}) \cup {Found(f, rows)}
      BY <1>3 DEF FetchServed
    <2> PICK h \in Fetch(n) : h = f BY <1>2 DEF FetchesOK
    <2> PICK rs \in Seq(1..n) : rs = rows BY <1>2, HistoryIs
    <2>1. Found(h, rs) \in Fetch(n) BY DEF Found, Fetch
    <2>2. fetches' \subseteq fetches \cup {Found(h, rs)} OBVIOUS
    <2> QED BY <1>1, <1>2, <2>1, <2>2, FetchesMore
  <1>4. ASSUME FetchFailed(f) PROVE FetchesOK'
    <2>1. fetches' \subseteq fetches BY <1>4 DEF FetchFailed
    <2> QED BY <1>1, <1>2, <2>1 DEF FetchesOK
  <1>5. FetchesOK' BY <1>3, <1>4
  <1> QED BY <1>1, <1>5, QuietStep, QuietThen

LEMMA FetchHandledStep ==
  ASSUME MobileInv, NEW f \in fetches, FetchHandled(f)
  PROVE  MobileInv'
  <1> PICK n \in Nat : n = Len(published) BY MobileParts DEF EventsOK
  <1>1. /\ UNCHANGED <<published, client, requests, sent>>
        /\ StoreBecomes(WithHistory(f.rows))
        /\ fetches' = fetches \ {f}
        /\ handled' = handled \o f.rows
    BY DEF FetchHandled
  <1>2. EventsOK /\ FetchesOK /\ HandledOK /\ screen \in Screens /\ Keeps(store, handled)
    BY MobileParts
  <1>3. f.rows \in Seq(1..n) BY <1>2 DEF FetchesOK, Fetch
  <1> PICK rows \in Seq(1..n) : rows = f.rows BY <1>3
  <1>4. 0 \in 0..n /\ handled \in Seq(Nat) BY <1>2, HandledMore
  <1> PICK st : st = WithHistory(rows) OBVIOUS
  <1> PICK hs : hs = handled \o rows OBVIOUS
  <1>5. Keeps(st, hs) BY <1>2, <1>4, HistoryKept DEF EventsOK
  <1>6. store' = st /\ screen' \in Screens BY <1>1, <1>2, <1>5, StoreStep DEF Keeps
  <1>7. Keeps(store, handled)' BY <1>1, <1>5, <1>6, KeptThen
  <1>8. HandledOK'
    <2>1. rows \in Seq(0..n)
      <3>1. 1..n \subseteq 0..n OBVIOUS
      <3> QED BY <3>1, SeqMonotonic
    <2>2. handled \in Seq(0..n) BY <1>2 DEF HandledOK
    <2>3. handled \o rows \in Seq(0..n) BY <2>1, <2>2, ConcatProperties
    <2> QED BY <1>1, <2>3 DEF HandledOK
  <1>9. FetchesOK' BY <1>1, <1>2 DEF FetchesOK
  <1> QED BY <1>1, <1>6, <1>7, <1>8, <1>9, QuietStep, QuietThen

LEMMA RenderStep ==
  ASSUME MobileInv, Render
  PROVE  MobileInv'
  <1>1. UNCHANGED <<published, store, client, requests, sent, fetches, handled>>
    BY DEF Render
  <1>2. screen \in Screens /\ Keeps(store, handled) BY MobileParts
  <1>3. screen' \in Screens
    <2> PICK p \in Nat : p = store.permissionPrompt BY <1>2 DEF Keeps, StoreStates
    <2>1. screen' = [screen EXCEPT !.prompt = p] BY DEF Render
    <2> QED BY <1>2, <2>1 DEF Screens
  <1> QED BY <1>1, <1>3, QuietStep, QuietThen

LEMMA HandleSendStep ==
  ASSUME MobileInv, handleSend
  PROVE  MobileInv'
  <1> PICK n \in Nat : n = Len(published) BY MobileParts DEF EventsOK
  <1>1. published' = published /\ fetches' = fetches BY DEF handleSend
  <1>2. EventsOK /\ HandledOK /\ screen \in Screens /\ Keeps(store, handled) BY MobileParts
  <1> PICK text \in Nat : text = screen.typed + 1 BY <1>2 DEF Screens
  <1>3. /\ store' = addUserMessage(store, text)
        /\ send("session.input", [Nothing EXCEPT !.text = text])
        /\ screen' = [screen EXCEPT !.typed = text, !.turnActive = TRUE]
        /\ handled' = Append(handled, 0)
    BY DEF handleSend
  <1>4. screen' \in Screens BY <1>2, <1>3 DEF Screens
  <1>5. RequestsOK' /\ client' \in Clients(n) /\ sent' \in Seq(Nat)
    <2> PICK about \in About : about = [Nothing EXCEPT !.text = text]
      BY DEF About, Nothing, NoPrompt
    <2>1. "session.input" \in Methods BY DEF Methods
    <2> QED BY <1>3, <2>1, SendStep
  <1>6. handled \in Seq(Nat) /\ HandledOK'
    <2>1. 0 \in 0..n OBVIOUS
    <2> QED BY <1>1, <1>2, <1>3, <2>1, HandledMore DEF HandledOK
  <1>7. Keeps(store, handled)'
    <2> PICK st : st = addUserMessage(store, text) OBVIOUS
    <2> PICK hs : hs = Append(handled, 0) OBVIOUS
    <2> PICK c \in Cards : c = User(text)
      <3>1. <<text>> \in Seq(Nat) OBVIOUS
      <3> QED BY <3>1 DEF User, Cards, NoThinking
    <2> PICK cards \in Seq(Cards) : cards = store.messages BY <1>2 DEF Keeps, StoreStates
    <2> PICK more \in Seq(Cards) : more = Append(cards, c) BY AppendOfRecords
    <2>1. st = [store EXCEPT !.messages = more, !.thinking = TRUE, !.turnActive = TRUE]
      BY DEF addUserMessage
    <2>2. st \in StoreStates /\ st.messages = more
      BY <1>2, <2>1 DEF Keeps, StoreStates
    <2>3. c.type = "user" BY DEF User
    <2>4. CardSays(c) = <<0>> /\ Says(0) = <<0>> BY <2>3 DEF CardSays, AskTypes, Says
    <2>5. OnCards(0) /\ ~ Is(0, {"text"}) /\ ~ Is(0, {"text_delta"}) BY DEF OnCards, Is
    <2>6. ~ AtDelta(more) /\ Contents(more) = Concat(Contents(cards), Says(0))
      BY <2>3, <2>4, PutLast
    <2>7. CardsKeep(cards, handled) BY <1>2 DEF Keeps
    <2>8. CardsKeep(more, hs) BY <1>6, <2>5, <2>6, <2>7, KeepCard
    <2>9. Keeps(st, hs) BY <2>2, <2>8 DEF Keeps
    <2> QED BY <1>1, <1>3, <2>9, KeptThen
  <1> QED BY <1>1, <1>4, <1>5, <1>6, <1>7, QuietStep, QuietThen

LEMMA ClearStep ==
  ASSUME MobileInv, Clear
  PROVE  MobileInv'
  <1>1. /\ UNCHANGED <<published, client, requests, sent, fetches>>
        /\ StoreBecomes(resetMessages) /\ handled' = <<>>
    BY DEF Clear
  <1>2. screen \in Screens /\ resetMessages \in StoreStates
    BY MobileParts, NothingYet DEF Keeps
  <1>3. store' = resetMessages /\ screen' \in Screens BY <1>1, <1>2, StoreStep
  <1> QED BY <1>1, <1>3, QuietStep, QuietThen

LEMMA AbortStep ==
  ASSUME MobileInv, handleAbort \/ applyModelSwitch \/ onBackPress
  PROVE  MobileInv'
  <1> PICK n \in Nat : n = Len(published) BY MobileParts DEF EventsOK
  <1>1. UNCHANGED <<published, store, fetches, handled>>
    BY DEF handleAbort, applyModelSwitch, onBackPress
  <1>2. screen \in Screens BY MobileParts
  <1>3. RequestsOK' /\ client' \in Clients(n) /\ sent' \in Seq(Nat)
    <2>1. "session.abort" \in Methods /\ "session.start_restart" \in Methods
          /\ Nothing \in About
      BY DEF Methods, About, Nothing, NoPrompt
    <2>2. send("session.abort", Nothing) \/ send("session.start_restart", Nothing)
      BY DEF handleAbort, applyModelSwitch, onBackPress
    <2> QED BY <2>1, <2>2, SendStep
  <1>4. screen' \in Screens
    <2>1. CASE handleAbort
      <3>1. screen' = [screen EXCEPT !.turnActive = FALSE] BY <2>1 DEF handleAbort
      <3> QED BY <1>2, <3>1 DEF Screens
    <2>2. CASE applyModelSwitch BY <1>2, <2>2 DEF applyModelSwitch
    <2>3. CASE onBackPress
      <3> PICK r \in Nat : r = Len(requests') BY <1>3 DEF RequestsOK
      <3> PICK l \in SUBSET Nat : l = screen.leaving \cup {r} BY <1>2 DEF Screens
      <3>1. screen' = [screen EXCEPT !.leaving = l] BY <2>3 DEF onBackPress
      <3> QED BY <1>2, <3>1 DEF Screens
    <2> QED BY <2>1, <2>2, <2>3
  <1> QED BY <1>1, <1>3, <1>4, QuietStep, QuietThen

LEMMA PressStep ==
  ASSUME MobileInv, Answer
  PROVE  MobileInv'
  <1> PICK n \in Nat : n = Len(published) BY MobileParts DEF EventsOK
  <1>1. UNCHANGED <<published, fetches, handled>> /\ StoreBecomes(answerPermission(store))
    BY DEF Answer
  <1>2. screen \in Screens /\ Keeps(store, handled) BY MobileParts
  <1> PICK st : st = answerPermission(store) OBVIOUS
  <1>3. st \in StoreStates /\ st.messages = store.messages
    BY <1>2 DEF answerPermission, NoPrompt, Keeps, StoreStates
  <1> PICK hs : hs = handled OBVIOUS
  <1>4. Keeps(st, hs) BY <1>2, <1>3 DEF Keeps
  <1>5. store' = st /\ screen' \in Screens BY <1>1, <1>2, <1>3, StoreStep
  <1>6. Keeps(store, handled)' BY <1>1, <1>4, <1>5, KeptThen
  <1>7. RequestsOK' /\ client' \in Clients(n) /\ sent' \in Seq(Nat)
    <2> PICK about \in About :
          about = [Nothing EXCEPT !.seen = screen.prompt, !.id = store.permissionRequestId]
      BY <1>2 DEF Keeps, StoreStates, Screens, About, Nothing, NoPrompt
    <2>1. "permission.respond" \in Methods BY DEF Methods
    <2>2. send("permission.respond", about) BY DEF Answer
    <2> QED BY <2>1, <2>2, SendStep
  <1> QED BY <1>1, <1>5, <1>6, <1>7, QuietStep, QuietThen

LEMMA MobileStep == MobileInv /\ [MobileNext]_mobileVars => MobileInv'
  <1> SUFFICES ASSUME MobileInv, [MobileNext]_mobileVars PROVE MobileInv' OBVIOUS
  <1>1. ASSUME NEW e \in Kinds, Publish(e) PROVE MobileInv' BY <1>1, PublishStep
  <1>2. CASE handleConnect \/ onopen \/ onclose BY <1>2, ConnectionStep
  <1>3. CASE onEvent BY <1>3, OnEventStep
  <1>4. ASSUME NEW r \in 1..MaxRequests, Response(r) \/ Timeout(r) PROVE MobileInv'
    BY <1>4, AnswerStep DEF Response, Timeout
  <1>5. CASE Effects BY <1>5, EffectsStep
  <1>6. CASE Render BY <1>6, RenderStep
  <1>7. ASSUME NEW f \in fetches, FetchServed(f) \/ FetchHandled(f) \/ FetchFailed(f)
        PROVE  MobileInv'
    BY <1>7, FetchStep, FetchHandledStep
  <1>8. CASE handleSend BY <1>8, HandleSendStep
  <1>9. CASE Clear BY <1>9, ClearStep
  <1>10. CASE handleAbort \/ applyModelSwitch \/ onBackPress BY <1>10, AbortStep
  <1>11. CASE Answer BY <1>11, PressStep
  <1>12. CASE UNCHANGED mobileVars
    <2>1. UNCHANGED <<published, store, client, requests, sent, screen, fetches, handled>>
      BY <1>12 DEF mobileVars
    <2> QED BY <2>1, QuietStep, QuietThen
  <1> QED
    BY <1>1, <1>2, <1>3, <1>4, <1>5, <1>6, <1>7, <1>8, <1>9, <1>10, <1>11, <1>12
       DEF MobileNext

\* Every state of the screen and of its store is of its type.
THEOREM MobileTypeCorrect == MobileSpec => []MobileTypeOK
  <1>1. MobileInv => MobileTypeOK BY DEF MobileInv
  <1> QED BY <1>1, MobileInitInv, MobileStep, PTL DEF MobileSpec

\* The cards of the mobile client say, in order, all that the store was given
\* since it was last reset, but for requests and for the deltas that a later text
\* takes the place of (useMessageStore.ts), for stores of any length.
THEOREM CardsKeepTexts == MobileSpec => []TextsKept
  <1>1. MobileInv => TextsKept
    <2> SUFFICES ASSUME MobileInv PROVE TextsKept OBVIOUS
    <2> PICK n \in Nat : n = Len(handled) BY MobileParts DEF HandledOK
    <2>1. DOMAIN handled = 1..n BY MobileParts DEF HandledOK
    <2>2. Contents(store.messages) = Given(handled, n) BY MobileParts DEF Keeps, CardsKeep
    <2> QED BY <2>1, <2>2 DEF TextsKept, Contents, Given, Term
  <1> QED BY <1>1, MobileInitInv, MobileStep, PTL DEF MobileSpec

(***************************************************************************)
(* The groups that are rendered.                                           *)
(***************************************************************************)
Group == [kind : {"assistant", "user", "standalone"}, items : Seq(Cards)]
Groupings == [groups : Seq(Group), current : Seq(Cards)]
ItemsOf(groups) == FlattenSeq([i \in DOMAIN groups |-> groups[i].items])

LEMMA ItemsMore ==
  ASSUME NEW groups \in Seq(Group), NEW g \in Group
  PROVE  /\ ItemsOf(Append(groups, g)) = ItemsOf(groups) \o g.items
         /\ ItemsOf(groups) \in Seq(Cards)
  <1> PICK n \in Nat : n = Len(groups) OBVIOUS
  <1> DEFINE Q == Seq(Cards)
             G == Group
             d == Append(groups, g)
             qs == [i \in DOMAIN groups |-> groups[i].items]
             rs == [i \in DOMAIN d |-> d[i].items]
  <1>0. \A x \in Group : x.items \in Q BY DEF Group
  <1>1. /\ DOMAIN groups = 1..n /\ d \in [1..(n + 1) -> G] /\ d[n + 1] = g
        /\ \A i \in 1..n : d[i] = groups[i] /\ groups[i] \in G
    <2>1. groups \in Seq(G) /\ g \in G OBVIOUS
    <2> HIDE DEF G
    <2> QED BY <2>1, AppendedTo
  <1> HIDE DEF d, G
  <1> PICK x \in Q : x = g.items BY <1>0
  <1>2. qs \in Seq(Q) /\ Len(qs) = n
    <2>1. \A i \in 1..n : groups[i].items \in Q BY <1>0, <1>1 DEF G
    <2> HIDE DEF Q
    <2>2. qs \in [1..n -> Q] BY <1>1, <2>1
    <2>3. [1..n -> Q] \subseteq Seq(Q) BY SeqDef
    <2> QED BY <2>2, <2>3
  <1>3. rs = Append(qs, x)
    <2>1. DOMAIN rs = 1..(n + 1) /\ rs = [i \in 1..(n + 1) |-> rs[i]] BY <1>1
    <2>2. rs[n + 1] = x /\ \A i \in 1..n : rs[i] = qs[i]
      <3>1. n + 1 \in DOMAIN d /\ \A i \in 1..n : i \in DOMAIN d BY <1>1
      <3> QED BY <1>1, <3>1
    <2>3. qs \in Seq(Q) /\ x \in Q /\ Len(qs) = n BY <1>2
    <2> HIDE DEF qs, rs, Q
    <2>4. Continues(rs, qs, x, n) BY <2>1, <2>2 DEF Continues
    <2> QED BY <2>3, <2>4, AppendIs
  <1>4. ItemsOf(groups) = FlattenSeq(qs) /\ ItemsOf(d) = FlattenSeq(rs) BY DEF ItemsOf
  <1>5. FlattenSeq(Append(qs, x)) = FlattenSeq(qs) \o x /\ FlattenSeq(qs) \in Seq(Cards)
    <2> HIDE DEF qs
    <2> QED BY <1>2, FlattenMore
  <1> HIDE DEF qs, rs
  <1> QED BY <1>3, <1>4, <1>5 DEF d

LEMMA ItemsOfSeq ==
  ASSUME NEW groups \in Seq(Group)
  PROVE  ItemsOf(groups) \in Seq(Cards)
  <1> PICK g \in Group : g = [kind |-> "user", items |-> <<>>]
    <2>1. <<>> \in Seq(Cards) OBVIOUS
    <2> QED BY <2>1 DEF Group
  <1> QED BY ItemsMore

\* No group is empty, and no two groups of the assistant follow each other.
Apart(groups) ==
  \A i \in DOMAIN groups :
    /\ groups[i].items # <<>>
    /\ i > 1 => ~ (groups[i].kind = "assistant" /\ groups[i - 1].kind = "assistant")

LEMMA ApartMore ==
  ASSUME NEW groups \in Seq(Group), NEW g \in Group, Apart(groups), g.items # <<>>,
         g.kind # "assistant"
           \/ (groups # <<>> => groups[Len(groups)].kind # "assistant")
  PROVE  Append(groups, g) \in Seq(Group) /\ Apart(Append(groups, g))
  <1> PICK n \in Nat : n = Len(groups) OBVIOUS
  <1> DEFINE G == Group
  <1> PICK d : d = Append(groups, g) OBVIOUS
  <1>1. /\ d \in Seq(G) /\ DOMAIN d = 1..(n + 1) /\ d[n + 1] = g /\ DOMAIN groups = 1..n
        /\ \A i \in 1..n : d[i] = groups[i]
    <2>1. groups \in Seq(G) /\ g \in G OBVIOUS
    <2> HIDE DEF G
    <2> QED BY <2>1, AppendProperties, LenProperties
  <1>2. n > 0 => groups # <<>> OBVIOUS
  <1> HIDE DEF G
  <1>3. ASSUME NEW i \in 1..(n + 1)
        PROVE  /\ d[i].items # <<>>
               /\ i > 1 => ~ (d[i].kind = "assistant" /\ d[i - 1].kind = "assistant")
    <2>1. CASE i = n + 1
      <3>1. i > 1 => i - 1 = n /\ n \in 1..n /\ d[n] = groups[n] BY <1>1, <2>1
      <3> QED BY <1>1, <1>2, <2>1, <3>1
    <2>2. CASE i # n + 1
      <3>1. i \in 1..n /\ d[i] = groups[i] BY <1>1, <2>2
      <3>2. i > 1 => i - 1 \in 1..n /\ d[i - 1] = groups[i - 1] BY <1>1, <3>1
      <3> QED BY <1>1, <3>1, <3>2 DEF Apart
    <2> QED BY <2>1, <2>2
  <1>4. Apart(d) BY <1>1, <1>3 DEF Apart
  <1> QED BY <1>1, <1>4 DEF G

\* What has been grouped of the cards, while a group may be open.
Grouping(acc, cards) ==
  /\ acc \in Groupings
  /\ ItemsOf(acc.groups) \o acc.current = cards
  /\ Apart(acc.groups)
  /\ acc.groups # <<>> => acc.groups[Len(acc.groups)].kind # "assistant"

LEMMA FlushStep ==
  ASSUME NEW acc, NEW cards \in Seq(Cards), Grouping(acc, cards)
  PROVE  /\ flushAssistant(acc) \in Groupings /\ flushAssistant(acc).current = <<>>
         /\ ItemsOf(flushAssistant(acc).groups) = cards
         /\ Apart(flushAssistant(acc).groups)
  <1>1. acc.groups \in Seq(Group) /\ acc.current \in Seq(Cards) /\ Apart(acc.groups)
        /\ ItemsOf(acc.groups) \o acc.current = cards
    BY DEF Grouping, Groupings
  <1>2. CASE acc.current = <<>>
    <2>1. flushAssistant(acc) = acc BY <1>2 DEF flushAssistant
    <2>2. ItemsOf(acc.groups) \in Seq(Cards) BY <1>1, ItemsOfSeq
    <2>3. ItemsOf(acc.groups) = cards BY <1>1, <1>2, <2>2, ConcatEmptySeq
    <2> QED BY <1>1, <1>2, <2>1, <2>3 DEF Grouping
  <1>3. CASE acc.current # <<>>
    <2> PICK g \in Group : g = [kind |-> "assistant", items |-> acc.current]
      BY <1>1 DEF Group
    <2> PICK gs : gs = Append(acc.groups, g) OBVIOUS
    <2>1. flushAssistant(acc) = [groups |-> gs, current |-> <<>>]
      BY <1>3 DEF flushAssistant
    <2>2. ItemsOf(gs) = cards BY <1>1, ItemsMore
    <2>3. gs \in Seq(Group) /\ Apart(gs) BY <1>1, <1>3, ApartMore DEF Grouping
    <2>4. <<>> \in Seq(Cards) OBVIOUS
    <2> QED BY <2>1, <2>2, <2>3, <2>4 DEF Groupings
  <1> QED BY <1>2, <1>3

LEMMA GroupedStep ==
  ASSUME NEW acc, NEW cards \in Seq(Cards), Grouping(acc, cards), NEW c \in Cards
  PROVE  Grouping(Grouped(acc, c), Append(cards, c))
  <1>1. acc.groups \in Seq(Group) /\ acc.current \in Seq(Cards) /\ Apart(acc.groups)
        /\ ItemsOf(acc.groups) \o acc.current = cards
    BY DEF Grouping, Groupings
  <1>2. <<c>> \in Seq(Cards) /\ <<>> \in Seq(Cards) OBVIOUS
  <1>3. CASE c.type = "user" \/ isStandalone(c)
    <2> PICK kind \in {"user", "standalone"} :
          kind = IF c.type = "user" THEN "user" ELSE "standalone"
      OBVIOUS
    <2> PICK g \in Group : g = [kind |-> kind, items |-> <<c>>] BY <1>2 DEF Group
    <2> PICK a : a = flushAssistant(acc) OBVIOUS
    <2>1. /\ a \in Groupings /\ a.current = <<>> /\ ItemsOf(a.groups) = cards
          /\ Apart(a.groups)
      BY FlushStep
    <2>2. a.groups \in Seq(Group) BY <2>1 DEF Groupings
    <2> PICK gs : gs = Append(a.groups, g) OBVIOUS
    <2>3. Grouped(acc, c) = [a EXCEPT !.groups = Append(@, g)] BY <1>3 DEF Grouped
    <2>4. Grouped(acc, c) = [groups |-> gs, current |-> <<>>]
      BY <2>1, <2>3 DEF Groupings
    <2>5. g.items # <<>> /\ g.kind # "assistant" OBVIOUS
    <2>6. gs \in Seq(Group) /\ Apart(gs) BY <2>1, <2>2, <2>5, ApartMore
    <2>7. ItemsOf(gs) = cards \o <<c>> BY <2>1, <2>2, ItemsMore
    <2>8. Append(cards, c) = cards \o <<c>> BY AppendIsConcat
    <2>9. Append(cards, c) \in Seq(Cards) BY AppendProperties
    <2>10. ItemsOf(gs) \o <<>> = Append(cards, c) BY <2>7, <2>8, <2>9, ConcatEmptySeq
    <2>11. gs[Len(gs)] = g BY <2>2, AppendProperties
    <2>12. [groups |-> gs, current |-> <<>>] \in Groupings BY <1>2, <2>6 DEF Groupings
    <2> PICK b : b = Grouped(acc, c) OBVIOUS
    <2>13. b \in Groupings /\ b.groups = gs /\ b.current = <<>> BY <2>4, <2>12
    <2> QED BY <2>5, <2>6, <2>10, <2>11, <2>13 DEF Grouping
  <1>4. CASE ~ (c.type = "user" \/ isStandalone(c))
    <2> PICK more \in Seq(Cards) : more = Append(acc.current, c)
      BY <1>1, AppendProperties
    <2>1. Grouped(acc, c) = [acc EXCEPT !.current = more] BY <1>4 DEF Grouped
    <2>2. Grouped(acc, c) = [groups |-> acc.groups, current |-> more]
      BY <2>1 DEF Grouping, Groupings
    <2>3. [groups |-> acc.groups, current |-> more] \in Groupings
      BY <1>1 DEF Groupings
    <2>4. ItemsOf(acc.groups) \o more = Append(cards, c)
      <3>1. ItemsOf(acc.groups) \in Seq(Cards) BY <1>1, ItemsOfSeq
      <3>2. acc.current \in Seq(Cards) /\ ItemsOf(acc.groups) \o acc.current = cards BY <1>1
      <3> DEFINE a == ItemsOf(acc.groups)
                 b == acc.current
                 C == Cards
      <3>3. a \in Seq(C) /\ b \in Seq(C) /\ c \in C BY <3>1, <3>2
      <3>4. a \o b = cards /\ more = Append(b, c) BY <3>2
      <3> HIDE DEF a, b, C
      <3>5. a \o Append(b, c) = Append(a \o b, c) BY <3>3, AppendJoined
      <3>6. a \o more = Append(cards, c) BY <3>4, <3>5
      <3> QED BY <3>6 DEF a
    <2> PICK b : b = Grouped(acc, c) OBVIOUS
    <2>5. b \in Groupings /\ b.groups = acc.groups /\ b.current = more BY <2>2, <2>3
    <2> QED BY <1>1, <2>4, <2>5 DEF Grouping
  <1> QED BY <1>3, <1>4

LEMMA GroupedTyped ==
  ASSUME NEW acc \in Groupings, NEW c \in Cards
  PROVE  Grouped(acc, c) \in Groupings
  <1>1. acc.groups \in Seq(Group) /\ acc.current \in Seq(Cards) BY DEF Groupings
  <1>2. <<c>> \in Seq(Cards) /\ <<>> \in Seq(Cards) OBVIOUS
  <1>3. CASE c.type = "user" \/ isStandalone(c)
    <2> PICK a : a = flushAssistant(acc) OBVIOUS
    <2>1. a \in Groupings
      <3>1. CASE acc.current = <<>> BY <3>1 DEF flushAssistant
      <3>2. CASE acc.current # <<>>
        <4> PICK g \in Group : g = [kind |-> "assistant", items |-> acc.current]
          BY <1>1 DEF Group
        <4> PICK gs \in Seq(Group) : gs = Append(acc.groups, g) BY <1>1, AppendProperties
        <4>1. a = [groups |-> gs, current |-> <<>>] BY <3>2 DEF flushAssistant
        <4> QED BY <1>2, <4>1 DEF Groupings
      <3> QED BY <3>1, <3>2
    <2> PICK kind \in {"user", "standalone"} :
          kind = IF c.type = "user" THEN "user" ELSE "standalone"
      OBVIOUS
    <2> PICK g \in Group : g = [kind |-> kind, items |-> <<c>>] BY <1>2 DEF Group
    <2>2. a.groups \in Seq(Group) BY <2>1 DEF Groupings
    <2> PICK gs \in Seq(Group) : gs = Append(a.groups, g) BY <2>2, AppendProperties
    <2>3. Grouped(acc, c) = [a EXCEPT !.groups = gs] BY <1>3 DEF Grouped
    <2> QED BY <2>1, <2>3 DEF Groupings
  <1>4. CASE ~ (c.type = "user" \/ isStandalone(c))
    <2> PICK more \in Seq(Cards) : more = Append(acc.current, c)
      BY <1>1, AppendProperties
    <2>1. Grouped(acc, c) = [acc EXCEPT !.current = more] BY <1>4 DEF Grouped
    <2> QED BY <2>1 DEF Groupings
  <1> QED BY <1>3, <1>4

\* The first i cards.
LEMMA FirstCards ==
  ASSUME NEW cards \in Seq(Cards), NEW i \in Nat, i <= Len(cards)
  PROVE  /\ SubSeq(cards, 1, i) \in Seq(Cards) /\ SubSeq(cards, 1, 0) = <<>>
         /\ i < Len(cards) =>
              /\ cards[i + 1] \in Cards
              /\ SubSeq(cards, 1, i + 1) = Append(SubSeq(cards, 1, i), cards[i + 1])
  <1>1. SubSeq(cards, 1, i) \in Seq(Cards) /\ SubSeq(cards, 1, 0) = <<>>
    <2>1. \A k \in 1..i : cards[k] \in Cards BY ElementOfSeq
    <2> QED BY <2>1, SubSeqProperties, SubSeqEmpty
  <1>2. ASSUME i < Len(cards)
        PROVE  /\ cards[i + 1] \in Cards
               /\ SubSeq(cards, 1, i + 1) = Append(SubSeq(cards, 1, i), cards[i + 1])
    <2> PICK m \in 1..Len(cards) : m = i + 1 BY <1>2
    <2>1. 1 \in 1..Len(cards) /\ m \in 1..Len(cards) /\ m - 1 = i OBVIOUS
    <2>2. SubSeq(cards, 1, m) = SubSeq(cards, 1, m - 1) \o <<cards[m]>>
      BY <2>1, SubSeqRecursiveSecond
    <2>3. cards[m] \in Cards BY ElementOfSeq
    <2>4. Append(SubSeq(cards, 1, i), cards[m]) = SubSeq(cards, 1, i) \o <<cards[m]>>
      BY <1>1, <2>3, AppendIsConcat
    <2> QED BY <2>1, <2>2, <2>3, <2>4
  <1> QED BY <1>1, <1>2

\* How far the cards have been grouped, for cards grouped one by one.
LEMMA GroupingMore ==
  ASSUME NEW cards \in Seq(Cards), NEW n \in Nat, n = Len(cards), NEW f,
         f[0] = [groups |-> <<>>, current |-> <<>>],
         \A i \in 1..n : f[i] = Grouped(f[i - 1], cards[i])
  PROVE  \A i \in 0..n : Grouping(f[i], SubSeq(cards, 1, i))
  <1> DEFINE T == {i \in Nat : i <= n => Grouping(f[i], SubSeq(cards, 1, i))}
  <1>1. 0 \in T
    <2> PICK a : a = f[0] OBVIOUS
    <2> PICK e \in Seq(Group) : e = <<>> BY EmptySeq
    <2> PICK none \in Seq(Cards) : none = <<>> BY EmptySeq
    <2>1. a = [groups |-> e, current |-> none] OBVIOUS
    <2>2. a \in Groupings /\ a.groups = e /\ a.current = none BY <2>1 DEF Groupings
    <2>3. ItemsOf(e) = none
      <3>1. [i \in DOMAIN <<>> |-> (<<>>[i]).items] = <<>> OBVIOUS
      <3> QED BY <3>1, FlattenNothing DEF ItemsOf
    <2>4. none \o none = none BY ConcatEmptySeq
    <2>5. SubSeq(cards, 1, 0) = none BY FirstCards
    <2>6. Apart(e) BY DEF Apart
    <2> QED BY <2>2, <2>3, <2>4, <2>5, <2>6 DEF Grouping
  <1>2. ASSUME NEW i \in Nat, i \in T PROVE i + 1 \in T
    <2> SUFFICES ASSUME i + 1 <= n PROVE Grouping(f[i + 1], SubSeq(cards, 1, i + 1)) OBVIOUS
    <2> PICK m \in 1..n : m = i + 1 OBVIOUS
    <2>1. m - 1 = i /\ i <= Len(cards) /\ i < Len(cards) OBVIOUS
    <2>2. Grouping(f[i], SubSeq(cards, 1, i)) BY <1>2, <2>1
    <2>3. /\ SubSeq(cards, 1, i) \in Seq(Cards) /\ cards[m] \in Cards
          /\ SubSeq(cards, 1, m) = Append(SubSeq(cards, 1, i), cards[m])
      BY <2>1, FirstCards
    <2>4. f[m] = Grouped(f[i], cards[m]) BY <2>1
    <2> QED BY <2>2, <2>3, <2>4, GroupedStep
  <1>3. Nat \subseteq T
    <2> HIDE DEF T
    <2> QED BY <1>1, <1>2, Induction
  <1> QED BY <1>3

\* The groups hold every card once and in order.
LEMMA GroupsHold ==
  ASSUME NEW cards \in Seq(Cards)
  PROVE  ItemsOf(groupMessages(cards)) = cards /\ Apart(groupMessages(cards))
  <1> PICK n \in Nat : n = Len(cards) OBVIOUS
  <1> PICK start : start = [groups |-> <<>>, current |-> <<>>] OBVIOUS
  <1> DEFINE S == Groupings
             step == [i \in 1..n |-> [acc \in S |-> Grouped(acc, cards[i])]]
             next(f) == [i \in 0..Len(cards) |->
                           IF i = 0 THEN [groups |-> <<>>, current |-> <<>>]
                           ELSE Grouped(f[i - 1], cards[i])]
             after == CHOOSE f : f = next(f)
  <1>1. groupMessages(cards) = flushAssistant(after[n]).groups BY DEF groupMessages
  <1>2. start \in S
    <2>1. <<>> \in Seq(Group) /\ <<>> \in Seq(Cards) OBVIOUS
    <2> QED BY <2>1 DEF Groupings
  <1>3. step \in [1..n -> [S -> S]]
    <2>1. ASSUME NEW i \in 1..n, NEW acc \in S PROVE Grouped(acc, cards[i]) \in S
      BY ElementOfSeq, GroupedTyped
    <2> HIDE DEF S
    <2> QED BY <2>1
  <1>4. PICK g : Computes(g, n, S, start, step)
    <2> HIDE DEF S, step
    <2> QED BY <1>2, <1>3, Recursion
  <1>5. \A i \in 1..n : g[i] = Grouped(g[i - 1], cards[i])
    <2> SUFFICES ASSUME NEW i \in 1..n PROVE g[i] = Grouped(g[i - 1], cards[i]) OBVIOUS
    <2>1. i - 1 \in 0..n OBVIOUS
    <2>2. step[i] = [acc \in S |-> Grouped(acc, cards[i])] OBVIOUS
    <2> HIDE DEF S, step
    <2>3. g[i - 1] \in S /\ g[i] = step[i][g[i - 1]] BY <1>4, <2>1 DEF Computes
    <2> QED BY <2>2, <2>3
  <1>6. g[0] = start /\ g = [i \in 0..n |-> g[i]]
    <2> HIDE DEF S, step
    <2> QED BY <1>4 DEF Computes
  <1> HIDE DEF S, step
  <1>7. after = next(after)
    <2>1. g = next(g)
      <3>1. \A i \in 0..n :
              g[i] = IF i = 0 THEN [groups |-> <<>>, current |-> <<>>]
                     ELSE Grouped(g[i - 1], cards[i])
        <4>1. \A i \in 0..n : i = 0 \/ i \in 1..n OBVIOUS
        <4> QED BY <1>5, <1>6, <4>1
      <3>2. next(g) = [i \in 0..n |-> g[i]] BY <3>1
      <3> HIDE DEF next
      <3> QED BY <1>6, <3>2
    <2> HIDE DEF next
    <2> QED BY <2>1, Zenon
  <1> HIDE DEF after
  <1>8. /\ after[0] = [groups |-> <<>>, current |-> <<>>]
        /\ \A i \in 1..n : after[i] = Grouped(after[i - 1], cards[i])
    <2>1. \A i \in 0..Len(cards) : after[i] = next(after)[i] BY <1>7, Zenon
    <2>2. \A i \in 0..Len(cards) :
            next(after)[i] = IF i = 0 THEN [groups |-> <<>>, current |-> <<>>]
                             ELSE Grouped(after[i - 1], cards[i])
      BY DEF next
    <2> HIDE DEF next
    <2>3. 0 \in 0..n /\ \A i \in 1..n : i \in 0..n /\ i # 0 OBVIOUS
    <2> QED BY <2>1, <2>2, <2>3
  <1>9. Grouping(after[n], cards)
    <2>1. n \in 0..n OBVIOUS
    <2>2. Grouping(after[n], SubSeq(cards, 1, n)) BY <1>8, <2>1, GroupingMore
    <2> QED BY <2>2, SubSeqFull
  <1> QED BY <1>1, <1>9, FlushStep

\* The groups that MessageList renders hold every card of the store once and in
\* order, none is empty and no two of the assistant follow each other
\* (groupMessages.ts), for stores of any length.
THEOREM GroupsLoseNothing == MobileSpec => []GroupsKeepAll
  <1>1. MobileInv => GroupsKeepAll
    <2> SUFFICES ASSUME MobileInv PROVE GroupsKeepAll OBVIOUS
    <2> PICK cards \in Seq(Cards) : cards = store.messages
      BY DEF MobileInv, Keeps, StoreStates
    <2> PICK groups : groups = groupMessages(cards) OBVIOUS
    <2>1. ItemsOf(groups) = cards /\ Apart(groups) BY GroupsHold
    <2>2. FlattenSeq([i \in DOMAIN groups |-> groups[i].items]) = cards BY <2>1 DEF ItemsOf
    <2> QED BY <2>1, <2>2 DEF GroupsKeepAll, Apart
  <1> QED BY <1>1, MobileInitInv, MobileStep, PTL DEF MobileSpec
==============================================================================
