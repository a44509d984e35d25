--------------------------- MODULE WebInputProofs ---------------------------
(***************************************************************************)
(* Proofs about the web connection, for any number of requests, sockets    *)
(* and calls of connect; about the chat state that uses it as WSClient     *)
(* describes it, so that what is proved of WSClient holds while WebInput   *)
(* drives it; about the texts that go through both; and about the page     *)
(* around the box they are typed into, for any number of files, settings,  *)
(* sessions and fetches under way.                                         *)
(***************************************************************************)
EXTENDS WebInput, WebPage, SequenceTheorems, FiniteSetTheorems,
        WellFoundedInduction, TLAPS

(***************************************************************************)
(* The inductive invariant.  What is written must stay in order whenever   *)
(* the queue is flushed, and the queue when a request is put into it: so   *)
(* the queue is in order, what was written comes before what is queued,    *)
(* and nothing is queued while this.ws is open.                            *)
(***************************************************************************)
Accounted ==
  \A r \in Made :
    /\ settled[r] = "no" <=> r \in Queued \cup pendingRequests
    /\ ~ (r \in Queued /\ r \in pendingRequests)

QueueInOrder ==
  \A i, j \in DOMAIN requestQueue : i < j => requestQueue[i] < requestQueue[j]

SentBeforeQueued ==
  \A i \in DOMAIN sent, j \in DOMAIN requestQueue : sent[i].request < requestQueue[j]

OpenHasNoQueue == IsOpen(ws) => requestQueue = <<>>

WSInv ==
  /\ WSTypeOK
  /\ Accounted
  /\ QueueInOrder
  /\ SentInOrder
  /\ SentBeforeQueued
  /\ OpenHasNoQueue

(***************************************************************************)
(* Sequences.                                                              *)
(***************************************************************************)

\* What Append does, as the other proofs need it.
LEMMA Appended ==
  ASSUME NEW S, NEW q \in Seq(S), NEW e \in S
  PROVE  /\ Append(q, e) \in Seq(S)
         /\ Len(Append(q, e)) = Len(q) + 1
         /\ DOMAIN Append(q, e) = 1..(Len(q) + 1)
         /\ \A i \in DOMAIN q : i \in 1..Len(q) /\ Append(q, e)[i] = q[i]
         /\ Append(q, e)[Len(q) + 1] = e
  OBVIOUS

\* A function on 1..n is a sequence of length n.
LEMMA FunctionIsSeq ==
  ASSUME NEW S, NEW n \in Nat, NEW f \in [1..n -> S]
  PROVE  f \in Seq(S) /\ Len(f) = n /\ DOMAIN f = 1..n
  OBVIOUS

\* What concatenation does.
LEMMA Concatenated ==
  ASSUME NEW S, NEW p \in Seq(S), NEW q \in Seq(S)
  PROVE  /\ p \o q \in Seq(S)
         /\ DOMAIN (p \o q) = 1..(Len(p) + Len(q))
         /\ \A i \in 1..Len(p) : (p \o q)[i] = p[i]
         /\ \A i \in (Len(p) + 1)..(Len(p) + Len(q)) : (p \o q)[i] = q[i - Len(p)]
  OBVIOUS

(***************************************************************************)
(* Type correctness.                                                       *)
(***************************************************************************)
Outcomes == {"no", "resolved", "rejected"}
SocketStates == {"connecting", "open", "closing", "closed"}

\* Settling some requests changes what they say and nothing else.
LEMMA Settling ==
  ASSUME settled \in Seq(Outcomes), NEW rs, NEW o \in Outcomes, Settle(rs, o)
  PROVE  /\ settled' \in Seq(Outcomes)
         /\ Made' = Made
         /\ \A r \in Made : settled'[r] = IF r \in rs THEN o ELSE settled[r]
  <1>1. Made = 1..Len(settled) /\ Len(settled) \in Nat /\ \A r \in Made : settled[r] \in Outcomes
    BY DEF Made
  <1>2. settled' \in [1..Len(settled) -> Outcomes]
    BY <1>1 DEF Settle
  <1>3. settled' \in Seq(Outcomes) /\ DOMAIN settled' = 1..Len(settled)
    BY <1>1, <1>2, FunctionIsSeq
  <1> QED BY <1>1, <1>3 DEF Settle, Made

\* doConnect adds a socket, and makes it this.ws.
LEMMA Connecting ==
  ASSUME WSTypeOK, doConnect
  PROVE  /\ readyState' \in Seq(SocketStates)
         /\ Sockets \subseteq Sockets' /\ ws' \in Sockets'
         /\ status' = "connecting" /\ readyState'[ws'] = "connecting"
         /\ ws' \in 0..Len(readyState')
         /\ sent \in Seq([request : Made, on : Sockets'])
  <1>1. readyState \in Seq(SocketStates) BY DEF WSTypeOK, SocketStates
  <1>2. readyState' = Append(readyState, "connecting") /\ ws' = Len(readyState) + 1
    BY DEF doConnect
  <1>3. Len(readyState) \in Nat /\ Sockets = 1..Len(readyState) BY <1>1 DEF Sockets
  <1>4. /\ readyState' \in Seq(SocketStates)
        /\ DOMAIN readyState' = 1..(Len(readyState) + 1)
        /\ readyState'[Len(readyState) + 1] = "connecting"
    BY <1>1, <1>2, Appended DEF SocketStates
  <1>5. Sockets \subseteq Sockets' /\ ws' \in Sockets' BY <1>2, <1>3, <1>4 DEF Sockets
  <1>6. ws' \in 0..Len(readyState')
    BY <1>2, <1>3, <1>4, LenProperties
  <1>7. sent \in Seq([request : Made, on : Sockets'])
    <2>1. [request : Made, on : Sockets] \subseteq [request : Made, on : Sockets'] BY <1>5
    <2> QED BY <2>1, SeqMonotonic DEF WSTypeOK
  <1> QED BY <1>2, <1>4, <1>5, <1>6, <1>7 DEF doConnect

\* Opened, when what is queued is written.
Flushed(s) ==
  /\ s = ws \/ IsOpen(ws)
  /\ pendingRequests' = pendingRequests \cup Queued
  /\ sent' = sent \o [i \in DOMAIN requestQueue |->
                        [request |-> requestQueue[i], on |-> ws]]
  /\ UNCHANGED settled

\* The sequence written by a flush.
LEMMA Flushing ==
  ASSUME WSTypeOK, NEW s, s \in Sockets, Flushed(s)
  PROVE  /\ sent' \in Seq([request : Made, on : Sockets])
         /\ DOMAIN sent' = 1..(Len(sent) + Len(requestQueue))
         /\ \A i \in 1..Len(sent) : sent'[i] = sent[i]
         /\ \A i \in (Len(sent) + 1)..(Len(sent) + Len(requestQueue)) :
              sent'[i] = [request |-> requestQueue[i - Len(sent)], on |-> ws]
  <1> DEFINE T == [request : Made, on : Sockets]
             tail == [i \in DOMAIN requestQueue |->
                        [request |-> requestQueue[i], on |-> ws]]
  <1>1. sent \in Seq(T) /\ requestQueue \in Seq(Made) BY DEF WSTypeOK
  <1>2. ws \in Sockets BY DEF Flushed, IsOpen
  <1>3. /\ DOMAIN requestQueue = 1..Len(requestQueue) /\ Len(requestQueue) \in Nat
        /\ \A i \in DOMAIN requestQueue : requestQueue[i] \in Made
    BY <1>1
  <1>4. tail \in [1..Len(requestQueue) -> T] BY <1>2, <1>3
  <1>5. tail \in Seq(T) /\ Len(tail) = Len(requestQueue) BY <1>3, <1>4, FunctionIsSeq
  <1>6. sent' = sent \o tail BY DEF Flushed
  <1>7. /\ sent' \in Seq(T)
        /\ DOMAIN sent' = 1..(Len(sent) + Len(tail))
        /\ \A i \in 1..Len(sent) : sent'[i] = sent[i]
        /\ \A i \in (Len(sent) + 1)..(Len(sent) + Len(tail)) : sent'[i] = tail[i - Len(sent)]
    <2> HIDE DEF tail, T
    <2>1. /\ sent \o tail \in Seq(T)
          /\ DOMAIN (sent \o tail) = 1..(Len(sent) + Len(tail))
          /\ \A i \in 1..Len(sent) : (sent \o tail)[i] = sent[i]
          /\ \A i \in (Len(sent) + 1)..(Len(sent) + Len(tail)) :
               (sent \o tail)[i] = tail[i - Len(sent)]
      BY <1>1, <1>5, Concatenated, Zenon
    <2>2. PICK r : r = sent \o tail OBVIOUS
    <2> QED BY <1>6, <2>1, <2>2
  <1>8. \A i \in (Len(sent) + 1)..(Len(sent) + Len(requestQueue)) :
          i - Len(sent) \in DOMAIN requestQueue
    BY <1>1, <1>3
  <1> QED BY <1>5, <1>7, <1>8

\* A request that is made is the greatest one.
LEMMA Sending ==
  ASSUME WSTypeOK, Send
  PROVE  /\ settled' \in Seq(Outcomes) /\ Made \subseteq Made'
         /\ Len(settled) + 1 \in Made' /\ settled'[Len(settled) + 1] = "no"
         /\ \A r \in Made' : r \in Made \/ r = Len(settled) + 1
         /\ \A r \in Made : r \in Nat /\ r < Len(settled) + 1 /\ settled'[r] = settled[r]
         /\ pendingRequests' \subseteq Made'
         /\ requestQueue' \in Seq(Made')
         /\ UNCHANGED readyState => sent' \in Seq([request : Made', on : Sockets'])
  <1> DEFINE r == Len(settled) + 1
             entry == [request |-> r, on |-> ws]
             T == [request : Made', on : Sockets]
  <1>1. settled \in Seq(Outcomes) /\ settled' = Append(settled, "no") /\ Len(settled) \in Nat
    BY DEF WSTypeOK, Send, Outcomes
  <1>2. /\ settled' \in Seq(Outcomes) /\ Made' = 1..r /\ Made = 1..Len(settled)
        /\ settled'[r] = "no" /\ \A x \in Made : settled'[x] = settled[x]
    BY <1>1, Appended DEF Made, Outcomes
  <1>3. Made \subseteq Made' /\ r \in Made' BY <1>1, <1>2
  <1>4. requestQueue \in Seq(Made') BY <1>3, SeqMonotonic DEF WSTypeOK
  <1>5. sent \in Seq(T)
    <2>1. [request : Made, on : Sockets] \subseteq T BY <1>3
    <2> HIDE DEF T
    <2> QED BY <2>1, SeqMonotonic DEF WSTypeOK
  <1>6. requestQueue' \in Seq(Made')
    <2>1. Append(requestQueue, r) \in Seq(Made') BY <1>3, <1>4, Appended
    <2> QED BY <1>4, <2>1 DEF Send
  <1>7. pendingRequests' \subseteq Made' BY <1>3 DEF Send, WSTypeOK
  <1>8. sent' \in Seq(T)
    <2>1. CASE IsOpen(ws)
      <3>1. entry \in T BY <1>3, <2>1 DEF IsOpen
      <3>2. Append(sent, entry) \in Seq(T)
        <4> HIDE DEF T, entry
        <4> QED BY <1>5, <3>1, Appended
      <3> QED BY <1>5, <3>2 DEF Send
    <2>2. CASE ~ IsOpen(ws) BY <1>5, <2>2 DEF Send
    <2> QED BY <2>1, <2>2
  <1>9. \A x \in Made' : x \in Made \/ x = r BY <1>1, <1>2
  <1>10. \A x \in Made : x \in Nat /\ x < r BY <1>1, <1>2
  <1>11. UNCHANGED readyState => T = [request : Made', on : Sockets'] BY DEF Sockets
  <1> HIDE DEF T, entry
  <1> QED BY <1>2, <1>3, <1>6, <1>7, <1>8, <1>9, <1>10, <1>11

\* Each step keeps every variable of its kind.
LEMMA TypeStep ==
  ASSUME WSTypeOK, [WSNext]_wsVars
  PROVE  WSTypeOK'
  <1> USE DEF WSTypeOK
  <1>1. CASE Connect
    <2>1. doConnect /\ UNCHANGED <<timers, reconnectTimer, requestVars>>
          /\ closed' = FALSE /\ connects' = connects + 1
      BY <1>1 DEF Connect
    <2>2. connects' \in Nat BY <2>1
    <2>3. timers' \subseteq Sockets' /\ reconnectTimer' \in {0} \cup Sockets'
      BY <2>1, Connecting
    <2>4. /\ settled' \in Seq(Outcomes) /\ requestQueue' \in Seq(Made')
          /\ pendingRequests' \subseteq Made'
      BY <2>1 DEF requestVars, Made, Outcomes
    <2>5. sent' \in Seq([request : Made', on : Sockets'])
      BY <2>1, Connecting DEF requestVars, Made
    <2> QED BY <2>1, <2>2, <2>3, <2>4, <2>5, Connecting DEF Outcomes, SocketStates
  <1>2. ASSUME NEW s \in SocketIds, Reconnect(s) PROVE WSTypeOK'
    <2>1. CASE closed
      BY <1>2, <2>1 DEF Reconnect, requestVars, Sockets, Made
    <2>2. CASE ~ closed
      <3>1. doConnect /\ UNCHANGED <<closed, reconnectTimer, connects, requestVars>>
            /\ timers' = timers \ {s}
        BY <1>2, <2>2 DEF Reconnect
      <3> QED BY <3>1, Connecting DEF requestVars, Made, SocketStates
    <2> QED BY <2>1, <2>2
  <1>3. ASSUME NEW s \in SocketIds, Opened(s) PROVE WSTypeOK'
    <2>1. /\ readyState' \in Seq(SocketStates) /\ Sockets' = Sockets
          /\ ws' \in 0..Len(readyState') /\ requestQueue' \in Seq(Made')
      <3>1. s \in 1..Len(readyState) /\ readyState' = [readyState EXCEPT ![s] = "open"]
            /\ UNCHANGED ws /\ requestQueue' = <<>>
        BY <1>3 DEF Opened, Sockets
      <3>2. /\ readyState' \in Seq(SocketStates) /\ Len(readyState') = Len(readyState)
            /\ Sockets' = Sockets
        BY <3>1, ExceptSeq DEF SocketStates, Sockets
      <3> QED BY <3>1, <3>2
    <2>2. CASE Flushed(s)
      <3>1. Queued \subseteq Made BY DEF Queued
      <3> QED BY <1>3, <2>1, <2>2, <3>1, Flushing DEF Opened, Flushed, Made, SocketStates
    <2>3. CASE Settle(Queued, "rejected") /\ UNCHANGED <<pendingRequests, sent>>
      BY <1>3, <2>1, <2>3, Settling DEF Opened, Outcomes, SocketStates
    <2> QED BY <1>3, <2>2, <2>3 DEF Opened, Flushed
  <1>4. ASSUME NEW s \in SocketIds, Dropped(s) PROVE WSTypeOK'
    BY <1>4 DEF Dropped, requestVars, Sockets, Made
  <1>5. ASSUME NEW r \in Requests, Timeout(r) PROVE WSTypeOK'
    BY <1>5, Settling DEF Timeout, socketVars, Sockets, Made, Outcomes
  <1>6. ASSUME NEW r \in Requests, NEW o \in {"resolved", "rejected"}, Response(r, o)
        PROVE  WSTypeOK'
    BY <1>6, Settling DEF Response, socketVars, Sockets, Made, Outcomes
  <1>7. CASE Close
    <2>1. readyState' \in [1..Len(readyState) -> SocketStates] /\ Len(readyState) \in Nat
      BY <1>7 DEF Close, Sockets, SocketStates
    <2>2. readyState' \in Seq(SocketStates) /\ DOMAIN readyState' = 1..Len(readyState)
      <3> HIDE DEF WSTypeOK
      <3> QED BY <2>1, FunctionIsSeq
    <2>3. Sockets' = Sockets BY <2>2 DEF Sockets
    <2>4. settled' \in Seq(Outcomes) /\ Made' = Made BY <1>7, Settling DEF Close, Outcomes
    <2>5. ws' \in 0..Len(readyState') BY <1>7, <2>2 DEF Close
    <2>6. timers' \subseteq Sockets' /\ reconnectTimer' \in {0} \cup Sockets' BY <1>7, <2>3 DEF Close
    <2> QED BY <1>7, <2>2, <2>3, <2>4, <2>5, <2>6 DEF Close, Outcomes, SocketStates
  <1>8. CASE Send /\ UNCHANGED <<socketVars, status>>
    BY <1>8, Sending DEF Send, socketVars, Sockets
  <1>9. CASE UNCHANGED wsVars
    BY <1>9 DEF wsVars, socketVars, requestVars, Sockets, Made
  <1> QED BY <1>1, <1>2, <1>3, <1>4, <1>5, <1>6, <1>7, <1>8, <1>9 DEF WSNext, Network

(***************************************************************************)
(* A request is in one place until it is settled.                          *)
(***************************************************************************)

\* What is queued after a request was made.
LEMMA QueuedAfterSend ==
  ASSUME WSTypeOK, Send
  PROVE  /\ IsOpen(ws) => Queued' = Queued
         /\ ~ IsOpen(ws) => Queued' = Queued \cup {Len(settled) + 1}
  <1>1. CASE IsOpen(ws) BY <1>1 DEF Send, Queued
  <1>2. CASE ~ IsOpen(ws)
    <2>1. requestQueue' = Append(requestQueue, Len(settled) + 1) BY <1>2 DEF Send
    <2>2. requestQueue \in Seq(Made \cup {Len(settled) + 1})
      BY SeqMonotonic DEF WSTypeOK
    <2>3. /\ DOMAIN requestQueue' = 1..(Len(requestQueue) + 1)
          /\ DOMAIN requestQueue = 1..Len(requestQueue) /\ Len(requestQueue) \in Nat
          /\ \A i \in DOMAIN requestQueue : requestQueue'[i] = requestQueue[i]
          /\ requestQueue'[Len(requestQueue) + 1] = Len(settled) + 1
      BY <2>1, <2>2, Appended, LenProperties
    <2>4. DOMAIN requestQueue' = DOMAIN requestQueue \cup {Len(requestQueue) + 1}
      BY <2>3
    <2> QED BY <1>2, <2>3, <2>4 DEF Queued
  <1> QED BY <1>1, <1>2

\* A settled request leaves the place it was in.
LEMMA AccountedAfterSettling ==
  ASSUME WSTypeOK, Accounted, NEW rs, NEW o \in {"resolved", "rejected"}, Settle(rs, o),
         \/ Queued' = Queued /\ pendingRequests' = pendingRequests \ rs /\ rs \cap Queued = {}
         \/ Queued' = Queued \ rs /\ UNCHANGED pendingRequests /\ rs \cap pendingRequests = {}
  PROVE  Accounted'
  <1>1. Made' = Made /\ \A r \in Made : settled'[r] = IF r \in rs THEN o ELSE settled[r]
    BY Settling DEF WSTypeOK, Outcomes
  <1> QED BY <1>1 DEF Accounted

\* Each step keeps every request in the one place that its state says.
LEMMA AccountedStep ==
  ASSUME WSTypeOK, Accounted, [WSNext]_wsVars
  PROVE  Accounted'
  <1>1. CASE UNCHANGED requestVars
    BY <1>1 DEF requestVars, Accounted, Made, Queued
  <1>2. ASSUME NEW s \in SocketIds, Opened(s) PROVE Accounted'
    <2>1. Queued' = {} BY <1>2 DEF Opened, Queued
    <2>2. CASE pendingRequests' = pendingRequests \cup Queued /\ UNCHANGED settled
      BY <2>1, <2>2 DEF Accounted, Made
    <2>3. CASE Settle(Queued, "rejected") /\ UNCHANGED pendingRequests
      <3>1. Queued \subseteq Made BY DEF WSTypeOK, Queued
      <3>2. Queued \cap pendingRequests = {} BY <3>1 DEF Accounted
      <3> QED BY <2>1, <2>3, <3>2, AccountedAfterSettling
    <2> QED BY <1>2, <2>2, <2>3 DEF Opened
  <1>3. ASSUME NEW r \in pendingRequests, NEW o \in {"resolved", "rejected"},
               pendingRequests' = pendingRequests \ {r}, Settle({r}, o),
               UNCHANGED requestQueue
        PROVE  Accounted'
    <2>1. r \in Made BY DEF WSTypeOK
    <2>2. {r} \cap Queued = {} /\ Queued' = Queued BY <1>3, <2>1 DEF Accounted, Queued
    <2> QED BY <1>3, <2>2, AccountedAfterSettling
  <1>4. ASSUME NEW r \in Requests, Timeout(r) PROVE Accounted'
    BY <1>3, <1>4 DEF Timeout
  <1>5. ASSUME NEW r \in Requests, NEW o \in {"resolved", "rejected"}, Response(r, o)
        PROVE  Accounted'
    BY <1>3, <1>5 DEF Response
  <1>6. CASE Close
    <2>1. pendingRequests \subseteq Made BY DEF WSTypeOK
    <2>2. pendingRequests \cap Queued = {} /\ Queued' = Queued
      BY <1>6, <2>1 DEF Accounted, Queued, Close
    <2> QED BY <1>6, <2>2, AccountedAfterSettling DEF Close
  <1>7. CASE Send
    <2> DEFINE r == Len(settled) + 1
    <2>1. r \notin Made /\ r \notin pendingRequests /\ r \notin Queued
      <3>1. r \notin Made BY <1>7, Sending
      <3> QED BY <3>1 DEF WSTypeOK, Queued
    <2>2. /\ Made' = Made \cup {r} /\ settled'[r] = "no"
          /\ \A x \in Made : settled'[x] = settled[x]
      BY <1>7, Sending
    <2>3. \/ Queued' = Queued /\ pendingRequests' = pendingRequests \cup {r}
          \/ Queued' = Queued \cup {r} /\ pendingRequests' = pendingRequests
      BY <1>7, QueuedAfterSend DEF Send
    <2> HIDE DEF r
    <2> QED BY <2>1, <2>2, <2>3 DEF Accounted
  <1> QED
    BY <1>1, <1>2, <1>4, <1>5, <1>6, <1>7
    DEF WSNext, Network, Connect, Reconnect, Dropped, wsVars

(***************************************************************************)
(* Requests are queued and written in order.                               *)
(***************************************************************************)

\* Nothing that is queued or written is greater than the last request made.
LEMMA Bounded ==
  ASSUME WSTypeOK
  PROVE  /\ Len(settled) \in Nat
         /\ \A i \in DOMAIN requestQueue : requestQueue[i] \in 1..Len(settled)
         /\ \A i \in DOMAIN sent : sent[i].request \in 1..Len(settled)
         /\ DOMAIN requestQueue = 1..Len(requestQueue) /\ Len(requestQueue) \in Nat
         /\ DOMAIN sent = 1..Len(sent) /\ Len(sent) \in Nat
  <1>1. Len(settled) \in Nat /\ Made = 1..Len(settled) BY DEF WSTypeOK, Made
  <1>2. /\ DOMAIN requestQueue = 1..Len(requestQueue) /\ Len(requestQueue) \in Nat
        /\ \A i \in DOMAIN requestQueue : requestQueue[i] \in Made
    BY LenProperties DEF WSTypeOK
  <1>3. /\ DOMAIN sent = 1..Len(sent) /\ Len(sent) \in Nat
        /\ \A i \in DOMAIN sent : sent[i] \in [request : Made, on : Sockets]
    <2> DEFINE T == [request : Made, on : Sockets]
    <2>1. sent \in Seq(T) BY DEF WSTypeOK
    <2> HIDE DEF T
    <2>2. /\ DOMAIN sent = 1..Len(sent) /\ Len(sent) \in Nat
          /\ \A i \in DOMAIN sent : sent[i] \in T
      BY <2>1, LenProperties, ElementOfSeq
    <2> QED BY <2>2 DEF T
  <1>4. \A i \in DOMAIN sent : sent[i].request \in Made BY <1>3
  <1> QED BY <1>1, <1>2, <1>3, <1>4

\* What Send does to the queue and to what was written.
LEMMA SendEffect ==
  ASSUME WSTypeOK, Send
  PROVE  \/ /\ IsOpen(ws) /\ UNCHANGED requestQueue
            /\ DOMAIN sent' = 1..(Len(sent) + 1)
            /\ \A i \in 1..Len(sent) : sent'[i] = sent[i]
            /\ sent'[Len(sent) + 1].request = Len(settled) + 1
         \/ /\ ~ IsOpen(ws) /\ UNCHANGED sent
            /\ DOMAIN requestQueue' = 1..(Len(requestQueue) + 1)
            /\ \A i \in 1..Len(requestQueue) : requestQueue'[i] = requestQueue[i]
            /\ requestQueue'[Len(requestQueue) + 1] = Len(settled) + 1
  <1> DEFINE r == Len(settled) + 1
             entry == [request |-> r, on |-> ws]
  <1>1. CASE IsOpen(ws)
    <2>1. sent' = Append(sent, entry) BY <1>1 DEF Send
    <2>2. sent \in Seq([request : Made \cup {r}, on : Sockets])
      <3>1. [request : Made, on : Sockets] \subseteq [request : Made \cup {r}, on : Sockets]
        OBVIOUS
      <3> HIDE DEF r
      <3> QED BY <3>1, SeqMonotonic DEF WSTypeOK
    <2>3. entry \in [request : Made \cup {r}, on : Sockets] BY <1>1 DEF IsOpen
    <2>4. /\ DOMAIN sent' = 1..(Len(sent) + 1) /\ sent'[Len(sent) + 1] = entry
          /\ \A i \in DOMAIN sent : sent'[i] = sent[i]
      <3> HIDE DEF r, entry
      <3> QED BY <2>1, <2>2, <2>3, Appended
    <2> QED BY <1>1, <2>4, Bounded DEF Send
  <1>2. CASE ~ IsOpen(ws)
    <2>1. requestQueue' = Append(requestQueue, r) BY <1>2 DEF Send
    <2>2. requestQueue \in Seq(Made \cup {r}) BY SeqMonotonic DEF WSTypeOK
    <2>3. /\ DOMAIN requestQueue' = 1..(Len(requestQueue) + 1)
          /\ requestQueue'[Len(requestQueue) + 1] = r
          /\ \A i \in DOMAIN requestQueue : requestQueue'[i] = requestQueue[i]
      <3> HIDE DEF r
      <3> QED BY <2>1, <2>2, Appended
    <2> QED BY <1>2, <2>3, Bounded DEF Send
  <1> QED BY <1>1, <1>2

\* The steps but Send and Opened keep the queue, and what was written.
LEMMA OthersKeepOrder ==
  ASSUME [WSNext]_wsVars
  PROVE  \/ UNCHANGED <<requestQueue, sent>>
         \/ Send /\ UNCHANGED <<socketVars, status>>
         \/ \E s \in SocketIds : Opened(s)
  BY DEF WSNext, Network, Connect, Reconnect, Dropped, Timeout, Response, Close,
         wsVars, requestVars

\* Each step keeps in order what was written and what is queued behind it.
LEMMA OrderStep ==
  ASSUME WSInv, [WSNext]_wsVars
  PROVE  QueueInOrder' /\ SentInOrder' /\ SentBeforeQueued'
  <1> USE DEF QueueInOrder, SentInOrder, SentBeforeQueued
  <1>0. WSTypeOK /\ QueueInOrder /\ SentInOrder /\ SentBeforeQueued /\ OpenHasNoQueue
    BY DEF WSInv
  <1>1. CASE UNCHANGED <<requestQueue, sent>>
    BY <1>0, <1>1
  <1>2. CASE Send
    <2> DEFINE r == Len(settled) + 1
    <2>1. /\ \A i \in DOMAIN requestQueue : requestQueue[i] < r
          /\ \A i \in DOMAIN sent : sent[i].request < r
      BY <1>0, Bounded
    <2>2. CASE IsOpen(ws)
      <3>1. requestQueue' = <<>> BY <1>0, <1>2, <2>2, SendEffect DEF OpenHasNoQueue
      <3>2. SentInOrder'
        BY <1>0, <1>2, <2>1, <2>2, SendEffect, Bounded
      <3> QED BY <3>1, <3>2
    <2>3. CASE ~ IsOpen(ws)
      <3> DEFINE n == Len(requestQueue)
      <3>1. /\ n \in Nat /\ DOMAIN requestQueue = 1..n /\ DOMAIN requestQueue' = 1..(n + 1)
            /\ \A i \in 1..n : requestQueue'[i] = requestQueue[i]
            /\ requestQueue'[n + 1] = r /\ sent' = sent
        BY <1>0, <1>2, <2>3, SendEffect, Bounded
      <3> HIDE DEF n, r
      <3>2. \A i \in DOMAIN requestQueue' : i \in DOMAIN requestQueue \/ i = n + 1
        BY <3>1
      <3>3. QueueInOrder'
        <4> SUFFICES ASSUME NEW i \in DOMAIN requestQueue', NEW j \in DOMAIN requestQueue', i < j
                     PROVE  requestQueue'[i] < requestQueue'[j]
          OBVIOUS
        <4>1. i \in 1..n BY <3>1
        <4>2. CASE j \in 1..n BY <1>0, <3>1, <4>1, <4>2
        <4>3. CASE j = n + 1 BY <2>1, <3>1, <4>1, <4>3
        <4> QED BY <3>1, <4>2, <4>3
      <3>4. SentBeforeQueued' BY <1>0, <2>1, <3>1, <3>2
      <3> QED BY <1>0, <3>1, <3>3, <3>4
    <2> QED BY <2>2, <2>3
  <1>3. ASSUME NEW s \in SocketIds, Opened(s)
        PROVE  QueueInOrder' /\ SentInOrder' /\ SentBeforeQueued'
    <2>1. requestQueue' = <<>> BY <1>3 DEF Opened
    <2>2. QueueInOrder' /\ SentBeforeQueued' BY <2>1
    <2>3. CASE Flushed(s)
      <3>1. /\ DOMAIN sent' = 1..(Len(sent) + Len(requestQueue))
            /\ \A i \in 1..Len(sent) : sent'[i].request = sent[i].request
            /\ \A i \in (Len(sent) + 1)..(Len(sent) + Len(requestQueue)) :
                 sent'[i].request = requestQueue[i - Len(sent)]
        BY <1>0, <1>3, <2>3, Flushing DEF Opened
      <3> DEFINE m == Len(sent)
                 n == Len(requestQueue)
      <3>2. m \in Nat /\ n \in Nat /\ DOMAIN sent = 1..m /\ DOMAIN requestQueue = 1..n
        BY <1>0, Bounded
      <3> HIDE DEF m, n
      <3>3. SentInOrder'
        <4> SUFFICES ASSUME NEW i \in DOMAIN sent', NEW j \in DOMAIN sent', i < j
                     PROVE  sent'[i].request < sent'[j].request
          OBVIOUS
        <4>1. i \in 1..(m + n) /\ j \in 1..(m + n) BY <3>1 DEF m, n
        <4>2. CASE j <= m
          <5>1. i \in 1..m /\ j \in 1..m BY <3>2, <4>1, <4>2
          <5>2. sent'[i].request = sent[i].request /\ sent'[j].request = sent[j].request
            BY <3>1, <5>1 DEF m
          <5> QED BY <1>0, <3>2, <5>1, <5>2
        <4>3. CASE i <= m /\ j > m
          <5>1. i \in 1..m /\ j \in (m + 1)..(m + n) /\ j - m \in 1..n BY <3>2, <4>1, <4>3
          <5>2. sent'[i].request = sent[i].request /\ sent'[j].request = requestQueue[j - m]
            BY <3>1, <5>1 DEF m, n
          <5> QED BY <1>0, <3>2, <5>1, <5>2
        <4>4. CASE i > m
          <5>1. /\ i \in (m + 1)..(m + n) /\ j \in (m + 1)..(m + n)
                /\ i - m \in 1..n /\ j - m \in 1..n /\ i - m < j - m
            BY <3>2, <4>1, <4>4
          <5>2. /\ sent'[i].request = requestQueue[i - m]
                /\ sent'[j].request = requestQueue[j - m]
            BY <3>1, <5>1 DEF m, n
          <5> QED BY <1>0, <3>2, <5>1, <5>2
        <4> QED BY <3>2, <4>1, <4>2, <4>3, <4>4
      <3> QED BY <2>2, <3>3
    <2>4. CASE UNCHANGED sent BY <1>0, <2>2, <2>4
    <2> QED BY <1>3, <2>3, <2>4 DEF Opened, Flushed
  <1> QED BY <1>1, <1>2, <1>3, OthersKeepOrder

\* this.ws is open only when the queue has been flushed.
LEMMA OpenStep ==
  ASSUME WSTypeOK, OpenHasNoQueue, [WSNext]_wsVars
  PROVE  OpenHasNoQueue'
  <1> USE DEF OpenHasNoQueue, IsOpen
  <1>1. CASE doConnect BY <1>1, Connecting
  <1>2. CASE UNCHANGED <<readyState, ws, requestQueue>> BY <1>2 DEF Sockets
  <1>3. ASSUME NEW s \in SocketIds, Reconnect(s) PROVE OpenHasNoQueue'
    BY <1>1, <1>2, <1>3 DEF Reconnect, requestVars
  <1>4. ASSUME NEW s \in SocketIds, Opened(s) PROVE OpenHasNoQueue'
    BY <1>4 DEF Opened
  <1>5. ASSUME NEW s \in SocketIds, Dropped(s) PROVE OpenHasNoQueue'
    BY <1>5 DEF Dropped, requestVars, Sockets
  <1>6. CASE Close
    <2>1. ws' = 0 /\ Sockets' = Sockets BY <1>6 DEF Close, Sockets
    <2>2. 0 \notin Sockets BY DEF WSTypeOK, Sockets
    <2> QED BY <2>1, <2>2
  <1>7. CASE Send /\ UNCHANGED <<socketVars, status>>
    BY <1>7 DEF Send, socketVars, Sockets
  <1> QED
    BY <1>1, <1>2, <1>3, <1>4, <1>5, <1>6, <1>7
    DEF WSNext, Network, Connect, Timeout, Response, wsVars, socketVars, requestVars

(***************************************************************************)
(* The theorems.                                                           *)
(***************************************************************************)

\* The invariant holds of a new client.
LEMMA WSInvInit == WSInit => WSInv
  <1> SUFFICES ASSUME WSInit PROVE WSInv OBVIOUS
  <1>1. WSTypeOK
    <2>1. Made = {} /\ Sockets = {} /\ Len(readyState) = 0 /\ 0 \in 0..0
      BY DEF WSInit, Made, Sockets
    <2>2. \A S : <<>> \in Seq(S) OBVIOUS
    <2> QED BY <2>1, <2>2 DEF WSInit, WSTypeOK
  <1>2. requestQueue = <<>> /\ sent = <<>> /\ settled = <<>> BY DEF WSInit
  <1>3. Accounted /\ QueueInOrder /\ SentInOrder /\ SentBeforeQueued /\ OpenHasNoQueue
    BY <1>2 DEF Accounted, QueueInOrder, SentInOrder, SentBeforeQueued, OpenHasNoQueue, Made
  <1> QED BY <1>1, <1>3 DEF WSInv

\* Every step keeps the invariant.
LEMMA WSInvStep == WSInv /\ [WSNext]_wsVars => WSInv'
  BY TypeStep, AccountedStep, OrderStep, OpenStep DEF WSInv

\* The client keeps its invariant, whatever requests, drops, timeouts and
\* answers there are.
THEOREM WSInvariant == WSSpec => []WSInv
  BY WSInvInit, WSInvStep, PTL DEF WSSpec

\* Every variable of the client has a value of its kind.
THEOREM WSTypeCorrect == WSSpec => []WSTypeOK
  <1>1. WSInv => WSTypeOK BY DEF WSInv
  <1> QED BY <1>1, WSInvariant, PTL

\* No request of the client is lost, settled twice, or in two places.
THEOREM RequestsAccounted == WSSpec => []RequestAccounted
  <1>1. WSInv => RequestAccounted
    <2> SUFFICES ASSUME WSInv PROVE RequestAccounted OBVIOUS
    <2>1. WSTypeOK /\ Accounted /\ QueueInOrder BY DEF WSInv
    <2>2. ASSUME NEW i \in DOMAIN requestQueue, NEW j \in DOMAIN requestQueue,
                 requestQueue[i] = requestQueue[j]
          PROVE  i = j
      <3>1. i \in Int /\ j \in Int /\ requestQueue[i] \in Int /\ requestQueue[j] \in Int
        BY <2>1, Bounded
      <3> QED BY <2>1, <2>2, <3>1 DEF QueueInOrder
    <2> QED BY <2>1, <2>2 DEF RequestAccounted, Accounted
  <1> QED BY <1>1, WSInvariant, PTL

\* The client writes its requests in the order in which they were made, and
\* none twice.
THEOREM RequestsInOrder == WSSpec => []SentInOrder
  <1>1. WSInv => SentInOrder BY DEF WSInv
  <1> QED BY <1>1, WSInvariant, PTL

(***************************************************************************)
(* The chat state drives the connection.                                   *)
(***************************************************************************)

\* sendInput makes one request, or none.
LEMMA CallStep ==
  ASSUME NEW others, NEW queue, NEW at, NEW by, Call(others, queue, at, by),
         UNCHANGED <<socketVars, status>>
  PROVE  [WSNext]_wsVars
  BY DEF Call, WSNext, wsVars

\* Each step of the page is one step of the connection, or none.
LEMMA ConnectionStep == [Next]_vars => [WSNext]_wsVars
  <1> SUFFICES ASSUME [Next]_vars PROVE [WSNext]_wsVars OBVIOUS
  <1>1. ASSUME NEW w \in Texts, Type(w) PROVE [WSNext]_wsVars
    <2>1. UNCHANGED <<socketVars, status>> BY <1>1 DEF Type
    <2>2. CASE UNCHANGED requestVars BY <2>1, <2>2 DEF wsVars
    <2>3. CASE Call(senders, <<Len(word')>>, 1, "box") BY <2>1, <2>3, CallStep
    <2> QED BY <1>1, <2>2, <2>3 DEF Type
  <1>2. ASSUME NEW x \in senders, Asked(x) PROVE [WSNext]_wsVars
    <2>1. UNCHANGED <<socketVars, status>> BY <1>2 DEF Asked
    <2>2. Send \/ UNCHANGED requestVars BY <1>2 DEF Asked, Failed
    <2> QED BY <2>1, <2>2 DEF WSNext, wsVars
  <1>3. ASSUME NEW x \in senders, Resume(x) PROVE [WSNext]_wsVars
    <2>1. UNCHANGED <<socketVars, status>> BY <1>3 DEF Resume
    <2>2. CASE UNCHANGED requestVars BY <2>1, <2>2 DEF wsVars
    <2>3. CASE Call(senders \ {x}, x.queue, x.at + 1, x.by) BY <2>1, <2>3, CallStep
    <2> QED BY <1>3, <2>2, <2>3 DEF Resume, Failed, GoesOn
  <1>4. CASE Render
    <2>1. UNCHANGED <<socketVars, status>> BY <1>4 DEF Render
    <2>2. CASE UNCHANGED requestVars BY <2>1, <2>2 DEF wsVars
    <2>3. CASE Call(senders, pendingQueue, 1, "flush") BY <2>1, <2>3, CallStep
    <2> QED BY <1>4, <2>2, <2>3 DEF Render
  <1>5. CASE Connection
    BY <1>5 DEF Connection, WSNext, Network
  <1>6. CASE UNCHANGED vars
    BY <1>6 DEF vars, wsVars
  <1> QED BY <1>1, <1>2, <1>3, <1>4, <1>5, <1>6 DEF Next

\* Refinement: whatever the user types and however texts fail, are queued
\* again and are flushed, the connection behaves as WSClient allows.
THEOREM UsesConnection == Spec => WSSpec
  <1>1. Init => WSInit BY DEF Init
  <1> QED BY <1>1, ConnectionStep, PTL DEF Spec, WSSpec

\* No request that carries a text is lost, settled twice, or in two places.
THEOREM TextRequestsAccounted == Spec => []RequestAccounted
  BY UsesConnection, RequestsAccounted, PTL

\* Requests that carry texts are written in the order in which they were
\* made, and none twice, across the drops.
THEOREM TextRequestsInOrder == Spec => []SentInOrder
  BY UsesConnection, RequestsInOrder, PTL

(***************************************************************************)
(* Where a text is until it is decided.  The invariant says that the queue *)
(* and what each caller has still to send hold the open texts, each once;  *)
(* and, for the order, that the texts of one outage stay together.         *)
(***************************************************************************)
Distinct == \A t, u \in Typed : word[t] = word[u] => t = u

Fates == {"open", "sent", "boxed", "dropped", "merged"}
SenderOf(S) == [queue : Seq(S), at : Nat \ {0}, request : Nat, by : {"box", "flush"}]
Sender == SenderOf(Typed)

TextTypeOK ==
  /\ word \in Seq(Nat)
  /\ fate \in Seq(Fates) /\ Len(fate) = Len(word)
  /\ outage \in Seq(Nat) /\ Len(outage) = Len(word)
  /\ outages \in Nat /\ \A t \in Typed : outage[t] <= outages + 1
  /\ pendingQueue \in Seq(Typed)
  /\ senders \subseteq Sender
  /\ \A x \in senders : x.at <= Len(x.queue) /\ (x.by = "box" => Len(x.queue) = 1)

Open(t) == fate[t] = "open"
Left(x) == x.at..Len(x.queue)
InQueue(t) == \E i \in DOMAIN pendingQueue : pendingQueue[i] = t
With(x, t) == \E i \in Left(x) : x.queue[i] = t

Once(q) == \A i, j \in DOMAIN q : q[i] = q[j] => i = j

HeldAreOpen == \A t \in Typed : InQueue(t) \/ (\E x \in senders : With(x, t)) => Open(t)
OpenAreHeld == \A t \in Typed : Open(t) => InQueue(t) \/ \E x \in senders : With(x, t)
HeldOnce ==
  /\ Once(pendingQueue)
  /\ \A x \in senders : Once(x.queue)
  /\ \A t \in Typed, x \in senders : With(x, t) =>
       ~ InQueue(t) /\ \A y \in senders : With(y, t) => y = x

QueuedBefore(t, u) ==
  \E i, j \in DOMAIN pendingQueue : i < j /\ pendingQueue[i] = t /\ pendingQueue[j] = u
SentBefore(x, t, u) ==
  \E i, j \in Left(x) : i < j /\ x.queue[i] = t /\ x.queue[j] = u

OutageIsQueued ==
  shown # "connected" =>
    \A t \in Typed : Open(t) /\ outage[t] = outages + 1 => InQueue(t)
OutageTogether ==
  \A t, u \in Typed :
    t < u /\ outage[t] = outage[u] /\ outage[t] # 0 /\ Open(t) /\ Open(u)
      => QueuedBefore(t, u) \/ \E x \in senders : SentBefore(x, t, u)

TextInv ==
  /\ TextTypeOK
  /\ HeldAreOpen /\ OpenAreHeld /\ HeldOnce
  /\ OutageIsQueued /\ OutageTogether /\ OutageInOrder
TextIInv == Distinct => TextInv

(***************************************************************************)
(* Induction.  The induction theorems of the library take an operator as a *)
(* parameter; of a set instead, induction is a first-order statement, and  *)
(* follows from the least element that every set of numbers has.           *)
(***************************************************************************)

\* A set of numbers that is not empty has a least one.
LEMMA Least ==
  ASSUME NEW T, T \subseteq Nat, T # {}
  PROVE  \E x \in T : \A y \in T : x <= y
  <1> DEFINE R == OpToRel(<, Nat)
  <1>1. IsWellFoundedOn(R, Nat) BY NatLessThanWellFounded
  <1>2. \A x, y \in Nat : x < y => <<x, y>> \in R BY DEF OpToRel
  <1> HIDE DEF R
  <1>3. PICK x \in T : \A y \in T : ~ (<<y, x>> \in R) BY <1>1, WFMin
  <1>4. \A y \in T : ~ (y < x) BY <1>2, <1>3
  <1> QED BY <1>3, <1>4

\* Induction over the numbers, stated of a set so that it is first order.
LEMMA Induction ==
  ASSUME NEW T, 0 \in T, \A n \in Nat : n \in T => n + 1 \in T
  PROVE  Nat \subseteq T
  <1> SUFFICES ASSUME Nat \ T # {} PROVE FALSE OBVIOUS
  <1>1. PICK x \in Nat \ T : \A y \in Nat \ T : x <= y
    <2> DEFINE U == Nat \ T
    <2>1. U \subseteq Nat /\ U # {} OBVIOUS
    <2> HIDE DEF U
    <2>2. \E x \in U : \A y \in U : x <= y BY <2>1, Least
    <2> QED BY <2>2 DEF U
  <1>2. x # 0 /\ x - 1 \in Nat BY <1>1
  <1>3. x - 1 \in T BY <1>1, <1>2
  <1> QED BY <1>1, <1>2, <1>3

(***************************************************************************)
(* Recursion, stated of a sequence of functions for the same reason: the   *)
(* values f[0], ..., f[n] of which each is computed from the one before.   *)
(***************************************************************************)
Computes(f, n, S, a, step) ==
  f \in [0..n -> S] /\ f[0] = a /\ \A i \in 1..n : f[i] = step[i][f[i - 1]]

\* What is computed step by step can be computed.
LEMMA Recursion ==
  ASSUME NEW n \in Nat, NEW S, NEW a \in S, NEW step \in [1..n -> [S -> S]]
  PROVE  \E f : Computes(f, n, S, a, step)
  <1> DEFINE T == {k \in Nat : k <= n => \E f : Computes(f, k, S, a, step)}
  <1>1. 0 \in T
    <2>1. Computes([i \in 0..0 |-> a], 0, S, a, step) BY DEF Computes
    <2> QED BY <2>1
  <1>2. ASSUME NEW k \in Nat, k \in T PROVE k + 1 \in T
    <2> SUFFICES ASSUME k + 1 <= n PROVE \E f : Computes(f, k + 1, S, a, step) OBVIOUS
    <2>1. PICK f : Computes(f, k, S, a, step) BY <1>2
    <2>2. k + 1 \in 1..n /\ k \in 0..k /\ f[k] \in S BY <2>1 DEF Computes
    <2>3. PICK v \in S : v = step[k + 1][f[k]] BY <2>2
    <2> DEFINE g == [i \in 0..(k + 1) |-> IF i = k + 1 THEN v ELSE f[i]]
    <2>4. \A i \in 0..k : g[i] = f[i] /\ f[i] \in S BY <2>1 DEF Computes
    <2>5. g[k + 1] = v OBVIOUS
    <2>6. g \in [0..(k + 1) -> S] BY <2>1, <2>3 DEF Computes
    <2> HIDE DEF g
    <2>7. g[0] = a BY <2>1, <2>4 DEF Computes
    <2>8. ASSUME NEW i \in 1..(k + 1) PROVE g[i] = step[i][g[i - 1]]
      <3>1. CASE i = k + 1 BY <2>2, <2>3, <2>4, <2>5, <3>1
      <3>2. CASE i # k + 1
        <4>1. i \in 1..k /\ i \in 0..k /\ i - 1 \in 0..k BY <3>2
        <4> QED BY <2>1, <2>4, <4>1 DEF Computes
      <3> QED BY <3>1, <3>2
    <2> QED BY <2>6, <2>7, <2>8 DEF Computes
  <1>3. n \in T
    <2> HIDE DEF T
    <2>1. Nat \subseteq T BY <1>1, <1>2, Induction
    <2> QED BY <2>1
  <1> QED BY <1>3

(***************************************************************************)
(* What is put back into the queue.                                        *)
(***************************************************************************)

\* A queue to which the first ones of a sequence are appended.
Joined(q, ts, k) == q \o SubSeq(ts, 1, k)

\* A queue to which one more of a sequence is appended.
LEMMA OneMore ==
  ASSUME NEW S, NEW q \in Seq(S), NEW ts \in Seq(S), NEW i \in 1..Len(ts)
  PROVE  /\ Joined(q, ts, i) = Append(Joined(q, ts, i - 1), ts[i])
         /\ Joined(q, ts, i) \in Seq(S)
         /\ Joined(q, ts, i - 1) \in Seq(S)
         /\ Len(Joined(q, ts, i - 1)) = Len(q) + i - 1
         /\ i = 1 /\ q # <<>> => Last(Joined(q, ts, i - 1)) = q[Len(q)]
         /\ i > 1 => Last(Joined(q, ts, i - 1)) = ts[i - 1]
  <1>1. /\ SubSeq(ts, 1, i) \in Seq(S) /\ Len(SubSeq(ts, 1, i)) = i
        /\ \A k \in 1..i : SubSeq(ts, 1, i)[k] = ts[k]
    OBVIOUS
  <1>2. /\ SubSeq(ts, 1, i - 1) \in Seq(S) /\ Len(SubSeq(ts, 1, i - 1)) = i - 1
        /\ \A k \in 1..(i - 1) : SubSeq(ts, 1, i - 1)[k] = ts[k]
    OBVIOUS
  <1>3. SubSeq(ts, 1, i) = Append(SubSeq(ts, 1, i - 1), ts[i])
    OBVIOUS
  <1> DEFINE p == SubSeq(ts, 1, i - 1)
             r == SubSeq(ts, 1, i)
  <1> HIDE DEF p, r
  <1>4. q \o r = Append(q \o p, ts[i])
    BY <1>1, <1>2, <1>3 DEF p, r
  <1>5. q \o r \in Seq(S) /\ q \o p \in Seq(S) /\ Len(q \o p) = Len(q) + i - 1
    BY <1>1, <1>2 DEF p, r
  <1>6. i = 1 /\ q # <<>> => Last(q \o p) = q[Len(q)]
    BY <1>1, <1>2 DEF p, r, Last
  <1>7. i > 1 => Last(q \o p) = ts[i - 1]
    BY <1>1, <1>2 DEF p, r, Last
  <1>8. Joined(q, ts, i) = q \o r /\ Joined(q, ts, i - 1) = q \o p
    BY DEF Joined, p, r
  <1> QED BY <1>4, <1>5, <1>6, <1>7, <1>8

\* As long as no two texts say the same, none is left out of what is queued
\* again.
LEMMA EnqueuedAll ==
  ASSUME Distinct, NEW q \in Seq(Typed), NEW ts \in Seq(Typed), Once(ts),
         \A i \in DOMAIN q, j \in DOMAIN ts : q[i] # ts[j]
  PROVE  EnqueueAll(q, ts) = q \o ts
  <1> DEFINE n == Len(ts)
             g == [i \in 0..n |-> Joined(q, ts, i)]
             step(f) == [i \in 0..n |-> IF i = 0 THEN q ELSE Enqueue(f[i - 1], ts[i])]
             put == CHOOSE f : f = step(f)
  <1>1. EnqueueAll(q, ts) = put[n] BY DEF EnqueueAll
  <1>2. n \in Nat OBVIOUS
  <1>3. \A i \in 1..n : g[i] = Enqueue(g[i - 1], ts[i])
    <2> SUFFICES ASSUME NEW i \in 1..n PROVE g[i] = Enqueue(g[i - 1], ts[i]) OBVIOUS
    <2>0. i \in 0..n /\ i - 1 \in 0..n OBVIOUS
    <2>1. g[i] = Joined(q, ts, i) /\ g[i - 1] = Joined(q, ts, i - 1)
      BY <2>0, Zenon
    <2> HIDE DEF g
    <2>2. /\ g[i] = Append(g[i - 1], ts[i])
          /\ Len(g[i - 1]) = Len(q) + i - 1
          /\ i = 1 /\ q # <<>> => Last(g[i - 1]) = q[Len(q)]
          /\ i > 1 => Last(g[i - 1]) = ts[i - 1]
      BY <2>1, OneMore
    <2>3. g[i - 1] # <<>> => Last(g[i - 1]) \in Typed /\ Last(g[i - 1]) # ts[i]
      <3>1. CASE i > 1
        <4>1. i - 1 \in DOMAIN ts /\ i \in DOMAIN ts /\ i - 1 # i BY <3>1
        <4> QED BY <2>2, <3>1, <4>1 DEF Once
      <3>2. CASE i = 1 /\ q # <<>>
        <4>1. Len(q) \in DOMAIN q /\ i \in DOMAIN ts BY <3>2
        <4> QED BY <2>2, <3>2, <4>1
      <3>3. CASE i = 1 /\ q = <<>>
        <4>1. Joined(q, ts, 0) = <<>>
          <5>1. SubSeq(ts, 1, 0) = <<>> OBVIOUS
          <5> QED BY <3>3, <5>1 DEF Joined
        <4>2. g[i - 1] = <<>> BY <2>1, <3>3, <4>1
        <4> QED BY <4>2
      <3> QED BY <3>1, <3>2, <3>3
    <2>4. ts[i] \in Typed OBVIOUS
    <2>5. ~ Repeats(g[i - 1], ts[i]) BY <2>3, <2>4 DEF Repeats, Distinct
    <2> QED BY <2>2, <2>5 DEF Enqueue
  <1>4. g[0] = q /\ g[n] = q \o ts
    <2>1. SubSeq(ts, 1, 0) = <<>> /\ q \o <<>> = q /\ SubSeq(ts, 1, n) = ts OBVIOUS
    <2>2. Joined(q, ts, 0) = q /\ Joined(q, ts, n) = q \o ts BY <2>1 DEF Joined
    <2> QED BY <1>2, <2>2
  <1>5. g = step(g)
    <2>1. g = [i \in 0..n |-> g[i]] OBVIOUS
    <2> HIDE DEF g, n
    <2>2. \A i \in 0..n : g[i] = IF i = 0 THEN q ELSE Enqueue(g[i - 1], ts[i])
      BY <1>2, <1>3, <1>4
    <2> QED BY <2>1, <2>2
  <1> HIDE DEF g
  <1>6. put = step(put) BY <1>5, Zenon
  <1> HIDE DEF put
  <1>7. \A i \in 0..n : put[i] = IF i = 0 THEN q ELSE Enqueue(put[i - 1], ts[i])
    BY <1>6
  <1> DEFINE T == {i \in Nat : i \in 0..n => put[i] = g[i]}
  <1>8. Nat \subseteq T
    <2>1. 0 \in T BY <1>2, <1>4, <1>7
    <2>2. ASSUME NEW k \in Nat, k \in T PROVE k + 1 \in T
      <3> SUFFICES ASSUME k + 1 \in 0..n PROVE put[k + 1] = g[k + 1] OBVIOUS
      <3>1. k \in 0..n /\ k + 1 \in 1..n /\ k + 1 # 0 /\ (k + 1) - 1 = k BY <1>2
      <3>2. put[k] = g[k] BY <2>2, <3>1
      <3>3. put[k + 1] = Enqueue(put[k], ts[k + 1]) BY <1>7, <3>1
      <3>4. g[k + 1] = Enqueue(g[k], ts[k + 1]) BY <1>3, <3>1
      <3> QED BY <3>2, <3>3, <3>4
    <2> HIDE DEF T
    <2> QED BY <2>1, <2>2, Induction
  <1>9. n \in 0..n /\ n \in T BY <1>2, <1>8
  <1>10. put[n] = g[n] BY <1>9
  <1> QED BY <1>1, <1>4, <1>10

\* indexOf finds the place of the caller.
LEMMA RemainingIsRest ==
  ASSUME Distinct, NEW q \in Seq(Typed), Once(q), NEW at \in 1..Len(q)
  PROVE  Remaining(q, at) = SubSeq(q, at + 1, Len(q))
  <1> DEFINE Found(i) == /\ word[q[i]] = word[q[at]]
                         /\ \A j \in 1..(i - 1) : word[q[j]] # word[q[at]]
             first == CHOOSE i \in 1..at : Found(i)
  <1>1. \A i \in 1..at : word[q[i]] = word[q[at]] => i = at
    <2> SUFFICES ASSUME NEW i \in 1..at, word[q[i]] = word[q[at]] PROVE i = at OBVIOUS
    <2>1. i \in DOMAIN q /\ at \in DOMAIN q /\ q[i] \in Typed /\ q[at] \in Typed OBVIOUS
    <2> QED BY <2>1 DEF Distinct, Once
  <1>2. at \in 1..at /\ Found(at) BY <1>1
  <1>3. first \in 1..at /\ Found(first)
    <2> HIDE DEF Found
    <2> QED BY <1>2
  <1>4. first = at BY <1>1, <1>3
  <1> QED BY <1>4 DEF Remaining

\* What is left of a queue behind the place of the caller.
LEMMA Rest ==
  ASSUME NEW S, NEW q \in Seq(S), NEW at \in 1..Len(q)
  PROVE  /\ SubSeq(q, at + 1, Len(q)) \in Seq(S)
         /\ Len(SubSeq(q, at + 1, Len(q))) = Len(q) - at
         /\ \A k \in 1..(Len(q) - at) : SubSeq(q, at + 1, Len(q))[k] = q[at + k]
  OBVIOUS
(***************************************************************************)
(* The moves of a text: each action decides one text, or moves some from   *)
(* one place to another.                                                   *)
(***************************************************************************)

\* The text of a caller is decided.
Decided(x, v) ==
  /\ v \in Fates \ {"open"}
  /\ fate' = [fate EXCEPT ![x.queue[x.at]] = v]

\* What a caller has left, but the text that is decided, is queued again.
GivenBack(x) ==
  /\ senders' = senders \ {x}
  /\ pendingQueue' = pendingQueue \o SubSeq(x.queue, x.at + 1, Len(x.queue))

\* A caller goes on with its queue.
Goes(x, y) ==
  /\ senders' = (senders \ {x}) \cup {y}
  /\ y \in Sender /\ y.queue = x.queue /\ y.by = x.by
  /\ UNCHANGED pendingQueue

\* What the steps but Type leave alone.
SameTexts == UNCHANGED <<word, outage, outages, shown>>

\* The text of a caller, and the facts about it that the moves need.
LEMMA CallersText ==
  ASSUME TextInv, NEW x \in senders
  PROVE  /\ x \in Sender /\ x.queue \in Seq(Typed) /\ x.at \in 1..Len(x.queue)
         /\ Len(x.queue) \in Nat /\ DOMAIN x.queue = 1..Len(x.queue)
         /\ x.queue[x.at] \in Typed /\ With(x, x.queue[x.at])
         /\ Once(x.queue) /\ Open(x.queue[x.at])
  <1>1. x \in Sender /\ x.at <= Len(x.queue) BY DEF TextInv, TextTypeOK
  <1>2. x.queue \in Seq(Typed) /\ x.at \in Nat \ {0} BY <1>1 DEF Sender, SenderOf
  <1>3. Len(x.queue) \in Nat /\ DOMAIN x.queue = 1..Len(x.queue) BY <1>2
  <1>4. x.at \in 1..Len(x.queue) /\ x.queue[x.at] \in Typed BY <1>1, <1>2, <1>3
  <1>5. x.at \in x.at..Len(x.queue) BY <1>4, <1>3
  <1>6. With(x, x.queue[x.at]) BY <1>5 DEF With, Left
  <1>7. Once(x.queue) /\ Open(x.queue[x.at])
    BY <1>4, <1>6 DEF TextInv, HeldOnce, HeldAreOpen
  <1> QED BY <1>1, <1>2, <1>3, <1>4, <1>6, <1>7

\* What a caller has left is the text it is at, and the rest.
LEMMA LeftOf ==
  ASSUME TextInv, NEW x \in senders
  PROVE  /\ \A i \in Left(x) : i \in 1..Len(x.queue) /\ i >= x.at
         /\ \A t \in Typed : With(x, t) /\ t # x.queue[x.at] <=>
              \E k \in 1..(Len(x.queue) - x.at) : x.queue[x.at + k] = t
         /\ \A t, u \in Typed : SentBefore(x, t, u) /\ t # x.queue[x.at] =>
              \E k, l \in 1..(Len(x.queue) - x.at) :
                k < l /\ x.queue[x.at + k] = t /\ x.queue[x.at + l] = u
         /\ \A t, u \in Typed : SentBefore(x, t, u) => u # x.queue[x.at]
  <1> DEFINE q == x.queue
             n == Len(q)
             a == x.at
  <1>1. a \in 1..n /\ n \in Nat /\ Once(q) /\ DOMAIN q = 1..n BY CallersText
  <1>2. Left(x) = a..n BY DEF Left
  <1>3. \A t : With(x, t) <=> \E i \in a..n : q[i] = t BY DEF With, Left
  <1>4. \A t, u : SentBefore(x, t, u) <=> \E i, j \in a..n : i < j /\ q[i] = t /\ q[j] = u
    BY DEF SentBefore, Left
  <1> HIDE DEF q, n, a
  <1>5. \A i \in Left(x) : i \in 1..n /\ i >= a BY <1>1, <1>2
  <1>6. \A i \in a..n : q[i] = q[a] => i = a
    BY <1>1 DEF Once
  <1>7. ASSUME NEW i \in a..n, i # a PROVE i - a \in 1..(n - a) /\ a + (i - a) = i
    BY <1>1, <1>7
  <1>8. ASSUME NEW k \in 1..(n - a) PROVE a + k \in a..n /\ a + k # a
    BY <1>1
  <1>9. ASSUME NEW t \in Typed
        PROVE  With(x, t) /\ t # q[a] <=> \E k \in 1..(n - a) : q[a + k] = t
    BY <1>3, <1>6, <1>7, <1>8
  <1>10. ASSUME NEW t \in Typed, NEW u \in Typed, SentBefore(x, t, u)
         PROVE  /\ u # q[a]
                /\ t # q[a] => \E k, l \in 1..(n - a) :
                                 k < l /\ q[a + k] = t /\ q[a + l] = u
    <2>1. PICK i, j \in a..n : i < j /\ q[i] = t /\ q[j] = u BY <1>4, <1>10
    <2>2. j # a /\ i \in Int /\ j \in Int /\ a \in Int BY <1>1, <2>1
    <2>3. u # q[a] BY <1>6, <2>1, <2>2
    <2>4. ASSUME t # q[a]
          PROVE  \E k, l \in 1..(n - a) : k < l /\ q[a + k] = t /\ q[a + l] = u
      <3>1. i # a BY <2>1, <2>4
      <3>2. i - a \in 1..(n - a) /\ j - a \in 1..(n - a) /\ i - a < j - a
            /\ a + (i - a) = i /\ a + (j - a) = j
        BY <1>7, <2>1, <2>2, <3>1
      <3> QED BY <2>1, <3>2
    <2> QED BY <2>3, <2>4
  <1> QED BY <1>5, <1>9, <1>10 DEF q, n, a

\* The queue after texts are given back.
LEMMA QueueGivenBack ==
  ASSUME TextInv, NEW x \in senders, GivenBack(x)
  PROVE  /\ pendingQueue' \in Seq(Typed)
         /\ Once(pendingQueue)'
         /\ \A t \in Typed : InQueue(t)' <=> InQueue(t) \/ (With(x, t) /\ t # x.queue[x.at])
         /\ \A t, u \in Typed : QueuedBefore(t, u) => QueuedBefore(t, u)'
         /\ \A t, u \in Typed : SentBefore(x, t, u) /\ t # x.queue[x.at] => QueuedBefore(t, u)'
  <1> DEFINE p == pendingQueue
             m == Len(p)
             k == Len(x.queue) - x.at
             r == SubSeq(x.queue, x.at + 1, Len(x.queue))
             s == pendingQueue'
  <1>1. p \in Seq(Typed) /\ Once(p) /\ x.queue \in Seq(Typed) /\ x.at \in 1..Len(x.queue)
        /\ Once(x.queue) /\ Len(x.queue) \in Nat /\ DOMAIN x.queue = 1..Len(x.queue)
    BY CallersText DEF TextInv, TextTypeOK, HeldOnce
  <1>2. m \in Nat /\ DOMAIN p = 1..m /\ k \in Nat BY <1>1
  <1>3. r \in Seq(Typed) /\ Len(r) = k /\ \A i \in 1..k : r[i] = x.queue[x.at + i]
    BY <1>1, Rest, Zenon
  <1>4. s = p \o r BY DEF GivenBack
  <1> HIDE DEF r
  <1>5. /\ s \in Seq(Typed) /\ DOMAIN s = 1..(m + k)
        /\ \A i \in 1..m : s[i] = p[i]
        /\ \A i \in 1..k : m + i \in 1..(m + k) /\ s[m + i] = x.queue[x.at + i]
    <2> HIDE DEF p, s, k
    <2>1. s \in Seq(Typed) /\ DOMAIN s = 1..(m + k) BY <1>1, <1>3, <1>4
    <2>2. \A i \in 1..m : s[i] = p[i] BY <1>1, <1>3, <1>4
    <2>3. \A i \in 1..k : m + i \in 1..(m + k) /\ s[m + i] = r[i] BY <1>1, <1>2, <1>3, <1>4
    <2> QED BY <1>3, <2>1, <2>2, <2>3
  <1>6. \A i \in 1..(m + k) : i \in 1..m \/ (i - m \in 1..k /\ m + (i - m) = i)
    BY <1>2
  <1>7. \A i \in 1..m : i \in 1..(m + k) BY <1>2
  <1>8. \A t : InQueue(t) <=> \E i \in 1..m : p[i] = t BY <1>2 DEF InQueue
  <1>9. \A t : InQueue(t)' <=> \E i \in 1..(m + k) : s[i] = t BY <1>5 DEF InQueue
  <1>10. \A t, u : QueuedBefore(t, u) <=> \E i, j \in 1..m : i < j /\ p[i] = t /\ p[j] = u
    BY <1>2 DEF QueuedBefore
  <1>11. \A t, u : QueuedBefore(t, u)' <=>
                     \E i, j \in 1..(m + k) : i < j /\ s[i] = t /\ s[j] = u
    BY <1>5 DEF QueuedBefore
  <1>12. \A t \in Typed : With(x, t) /\ t # x.queue[x.at] <=>
                            \E i \in 1..k : x.queue[x.at + i] = t
    BY LeftOf
  <1>13. \A t, u \in Typed : SentBefore(x, t, u) /\ t # x.queue[x.at] =>
            \E i, j \in 1..k : i < j /\ x.queue[x.at + i] = t /\ x.queue[x.at + j] = u
    BY LeftOf
  <1>14. \A t \in Typed : With(x, t) => ~ InQueue(t) BY DEF TextInv, HeldOnce
  <1>15. \A i \in 1..k : x.at + i \in DOMAIN x.queue /\ x.queue[x.at + i] \in Typed
    <2>1. \A i \in 1..k : x.at + i \in DOMAIN x.queue BY <1>1
    <2> QED BY <1>1, <2>1
  <1>16. \A i, j \in 1..k : x.queue[x.at + i] = x.queue[x.at + j] => i = j
    <2>1. \A i, j \in 1..k : x.queue[x.at + i] = x.queue[x.at + j] => x.at + i = x.at + j
      BY <1>1, <1>15 DEF Once
    <2> QED BY <1>1, <2>1
  <1>17. \A i, j \in 1..m : p[i] = p[j] => i = j BY <1>1, <1>2 DEF Once
  <1> HIDE DEF p, s, m, k
  <1>18. \A t \in Typed : InQueue(t)' <=> InQueue(t) \/ (With(x, t) /\ t # x.queue[x.at])
    <2> TAKE t \in Typed
    <2>1. ASSUME InQueue(t)' PROVE InQueue(t) \/ (With(x, t) /\ t # x.queue[x.at])
      <3>1. PICK i \in 1..(m + k) : s[i] = t BY <1>9, <2>1
      <3>2. CASE i \in 1..m BY <1>5, <1>8, <3>1, <3>2
      <3>3. CASE i - m \in 1..k /\ m + (i - m) = i BY <1>5, <1>12, <3>1, <3>3
      <3> QED BY <1>6, <3>2, <3>3
    <2>2. ASSUME InQueue(t) PROVE InQueue(t)'
      BY <1>5, <1>7, <1>8, <1>9, <2>2
    <2>3. ASSUME With(x, t), t # x.queue[x.at] PROVE InQueue(t)'
      BY <1>5, <1>9, <1>12, <2>3
    <2> QED BY <2>1, <2>2, <2>3
  <1>19. \A i, j \in 1..(m + k) : s[i] = s[j] => i = j
    <2> SUFFICES ASSUME NEW i \in 1..(m + k), NEW j \in 1..(m + k), s[i] = s[j] PROVE i = j
      OBVIOUS
    <2>1. \A a \in 1..m, b \in 1..k : p[a] # x.queue[x.at + b]
      BY <1>8, <1>12, <1>14, <1>15
    <2>2. CASE i \in 1..m /\ j \in 1..m BY <1>5, <1>17, <2>2
    <2>3. CASE i \in 1..m /\ ~ (j \in 1..m)
      BY <1>5, <1>6, <2>1, <2>3
    <2>4. CASE ~ (i \in 1..m) /\ j \in 1..m
      BY <1>5, <1>6, <2>1, <2>4
    <2>5. CASE ~ (i \in 1..m) /\ ~ (j \in 1..m)
      <3>1. /\ i - m \in 1..k /\ m + (i - m) = i
            /\ j - m \in 1..k /\ m + (j - m) = j
        BY <1>6, <2>5
      <3>2. i - m = j - m BY <1>5, <1>16, <3>1
      <3> QED BY <3>1, <3>2
    <2> QED BY <2>2, <2>3, <2>4, <2>5
  <1>20. Once(pendingQueue)' BY <1>5, <1>19 DEF Once, s
  <1>21. \A t, u \in Typed : QueuedBefore(t, u) => QueuedBefore(t, u)'
    BY <1>5, <1>7, <1>10, <1>11
  <1>22. \A t, u \in Typed : SentBefore(x, t, u) /\ t # x.queue[x.at] => QueuedBefore(t, u)'
    <2> SUFFICES ASSUME NEW t \in Typed, NEW u \in Typed, SentBefore(x, t, u),
                        t # x.queue[x.at]
                 PROVE  QueuedBefore(t, u)'
      OBVIOUS
    <2>1. PICK i \in 1..k, j \in 1..k :
            i < j /\ x.queue[x.at + i] = t /\ x.queue[x.at + j] = u
      BY <1>13
    <2>2. m + i < m + j BY <1>2, <2>1
    <2> QED BY <1>5, <1>11, <2>1, <2>2
  <1> QED BY <1>5, <1>18, <1>20, <1>21, <1>22 DEF s
\* What is put back into the queue is the rest, whether it is found by what
\* is said or by the place.
LEMMA PutBack ==
  ASSUME Distinct, TextInv, NEW x \in senders
  PROVE  /\ Remaining(x.queue, x.at) = SubSeq(x.queue, x.at + 1, Len(x.queue))
         /\ EnqueueAll(pendingQueue, SubSeq(x.queue, x.at + 1, Len(x.queue)))
              = pendingQueue \o SubSeq(x.queue, x.at + 1, Len(x.queue))
         /\ x.by = "box" \/ x.at = Len(x.queue) =>
              pendingQueue \o SubSeq(x.queue, x.at + 1, Len(x.queue)) = pendingQueue
  <1> DEFINE q == x.queue
             r == SubSeq(q, x.at + 1, Len(q))
             k == Len(q) - x.at
  <1>1. /\ q \in Seq(Typed) /\ x.at \in 1..Len(q) /\ Once(q) /\ Len(q) \in Nat
        /\ DOMAIN q = 1..Len(q) /\ pendingQueue \in Seq(Typed)
    BY CallersText DEF TextInv, TextTypeOK
  <1>2. Remaining(q, x.at) = r BY <1>1, RemainingIsRest, Zenon
  <1>3. r \in Seq(Typed) /\ Len(r) = k /\ \A i \in 1..k : r[i] = q[x.at + i]
    BY <1>1, Rest, Zenon
  <1>4. \A i \in 1..k : x.at + i \in DOMAIN q /\ x.at + i # x.at BY <1>1
  <1>5. \A i \in DOMAIN pendingQueue, j \in 1..k : pendingQueue[i] # q[x.at + j]
    <2>1. \A t \in Typed : With(x, t) => ~ InQueue(t) BY DEF TextInv, HeldOnce
    <2>2. \A j \in 1..k : q[x.at + j] \in Typed BY <1>1, <1>4
    <2>3. \A j \in 1..k : With(x, q[x.at + j]) BY <2>2, LeftOf
    <2> QED BY <2>1, <2>2, <2>3 DEF InQueue
  <1>6. x.by = "box" \/ x.at = Len(q) => k = 0
    <2>1. x.by = "box" => Len(q) = 1
      <3>1. \A z \in senders : z.by = "box" => Len(z.queue) = 1
        BY DEF TextInv, TextTypeOK
      <3> QED BY <3>1
    <2>2. x.at \in 1..Len(q) /\ Len(q) \in Nat BY <1>1
    <2> HIDE DEF q
    <2>3. CASE Len(q) = 1 BY <2>2, <2>3
    <2>4. CASE x.at = Len(q) BY <2>2, <2>4
    <2> QED BY <2>1, <2>3, <2>4
  <1> HIDE DEF r, q, k
  <1>7. DOMAIN r = 1..k BY <1>3
  <1>8. Once(r)
    <2> SUFFICES ASSUME NEW i \in 1..k, NEW j \in 1..k, q[x.at + i] = q[x.at + j]
                 PROVE  i = j
      BY <1>3, <1>7 DEF Once
    <2>1. x.at + i = x.at + j BY <1>1, <1>4 DEF Once
    <2> QED BY <1>1, <2>1
  <1>9. EnqueueAll(pendingQueue, r) = pendingQueue \o r
    <2>1. \A i \in DOMAIN pendingQueue, j \in DOMAIN r : pendingQueue[i] # r[j]
      BY <1>3, <1>5, <1>7
    <2> QED BY <1>1, <1>3, <1>8, <2>1, EnqueuedAll
  <1>10. k = 0 => pendingQueue \o r = pendingQueue
    BY <1>1, <1>3
  <1> QED BY <1>2, <1>6, <1>9, <1>10 DEF r, q

\* What a caller has left when it goes on, to the next text or not.
LEMMA GoesLeft ==
  ASSUME TextInv, NEW x \in senders, NEW y, y \in Sender, y.queue = x.queue
  PROVE  /\ y.at = x.at =>
              /\ \A t : With(y, t) <=> With(x, t)
              /\ \A t, u : SentBefore(x, t, u) => SentBefore(y, t, u)
         /\ y.at = x.at + 1 =>
              /\ \A t \in Typed : With(y, t) <=> With(x, t) /\ t # x.queue[x.at]
              /\ \A t, u \in Typed : SentBefore(x, t, u) /\ t # x.queue[x.at]
                                       => SentBefore(y, t, u)
  <1> DEFINE q == x.queue
             n == Len(q)
             a == x.at
             b == y.at
  <1>1. a \in 1..n /\ n \in Nat /\ Once(q) /\ DOMAIN q = 1..n /\ y.queue = q
    BY CallersText
  <1>2. \A t : With(x, t) <=> \E i \in a..n : q[i] = t BY DEF With, Left
  <1>3. \A t, u : SentBefore(x, t, u) <=> \E i, j \in a..n : i < j /\ q[i] = t /\ q[j] = u
    BY DEF SentBefore, Left
  <1>4. \A t : With(y, t) <=> \E i \in b..n : q[i] = t BY <1>1 DEF With, Left
  <1>5. \A t, u : SentBefore(y, t, u) <=> \E i, j \in b..n : i < j /\ q[i] = t /\ q[j] = u
    BY <1>1 DEF SentBefore, Left
  <1> HIDE DEF q, n, a, b
  <1>6. ASSUME b = a
        PROVE  /\ \A t : With(y, t) <=> With(x, t)
               /\ \A t, u : SentBefore(x, t, u) => SentBefore(y, t, u)
    BY <1>2, <1>3, <1>4, <1>5, <1>6
  <1>7. ASSUME b = a + 1
        PROVE  /\ \A t : With(y, t) <=> With(x, t) /\ t # q[a]
               /\ \A t, u : SentBefore(x, t, u) /\ t # q[a] => SentBefore(y, t, u)
    <2>1. \A i \in a..n : q[i] = q[a] => i = a BY <1>1 DEF Once
    <2>2. \A i \in a..n : i # a => i \in b..n BY <1>1, <1>7
    <2>3. \A i \in b..n : i \in a..n /\ i # a BY <1>1, <1>7
    <2>4. \A t : With(y, t) <=> With(x, t) /\ t # q[a]
      BY <1>2, <1>4, <2>1, <2>2, <2>3
    <2>5. ASSUME NEW t, NEW u, SentBefore(x, t, u), t # q[a] PROVE SentBefore(y, t, u)
      <3>1. PICK i \in a..n, j \in a..n : i < j /\ q[i] = t /\ q[j] = u BY <1>3, <2>5
      <3>2. i # a /\ j # a BY <1>1, <2>5, <3>1
      <3> QED BY <1>5, <2>2, <3>1, <3>2
    <2> QED BY <2>4, <2>5
  <1> QED BY <1>6, <1>7 DEF q, a, b

\* The text a caller is at is before every other of its outage that is open.
LEMMA NothingBefore ==
  ASSUME TextInv, NEW x \in senders, NEW t \in Typed
  PROVE  /\ ~ QueuedBefore(t, x.queue[x.at])
         /\ \A z \in senders : ~ SentBefore(z, t, x.queue[x.at])
  <1> DEFINE d == x.queue[x.at]
  <1>1. d \in Typed /\ With(x, d) BY CallersText
  <1>2. ~ InQueue(d) /\ \A z \in senders : With(z, d) => z = x
    BY <1>1 DEF TextInv, HeldOnce
  <1>3. ~ QueuedBefore(t, d) BY <1>2 DEF QueuedBefore, InQueue
  <1>4. ASSUME NEW z \in senders, SentBefore(z, t, d) PROVE FALSE
    <2>1. With(z, d) BY <1>4 DEF SentBefore, With
    <2>2. SentBefore(x, t, d) BY <1>2, <1>4, <2>1
    <2> QED BY <1>1, <2>2, LeftOf
  <1> QED BY <1>3, <1>4

\* A text is decided.
LEMMA Deciding ==
  ASSUME TextInv, NEW x \in senders, NEW v, Decided(x, v), UNCHANGED word
  PROVE  /\ fate' \in Seq(Fates) /\ Len(fate') = Len(word)
         /\ \A t \in Typed : fate'[t] = IF t = x.queue[x.at] THEN v ELSE fate[t]
         /\ v # "open"
  <1> DEFINE d == x.queue[x.at]
  <1>1. d \in Typed /\ word \in Seq(Nat) /\ fate \in Seq(Fates) /\ Len(fate) = Len(word)
    BY CallersText DEF TextInv, TextTypeOK
  <1>2. v \in Fates /\ v # "open" /\ fate' = [fate EXCEPT ![d] = v] BY DEF Decided
  <1> HIDE DEF d
  <1>3. d \in 1..Len(fate) /\ Typed = 1..Len(fate) BY <1>1 DEF Typed
  <1>4. fate' \in Seq(Fates) /\ Len(fate') = Len(fate) BY <1>1, <1>2, <1>3, ExceptSeq
  <1>5. \A t \in Typed : fate'[t] = IF t = d THEN v ELSE fate[t] BY <1>1, <1>2, <1>3
  <1> QED BY <1>1, <1>2, <1>4, <1>5 DEF d

\* A text is decided, and the order of its outage is kept.
LEMMA DecidedInOrder ==
  ASSUME TextInv, NEW x \in senders, NEW v, Decided(x, v), SameTexts
  PROVE  OutageInOrder'
  <1> DEFINE d == x.queue[x.at]
  <1>1. \A t \in Typed : fate'[t] = IF t = d THEN v ELSE fate[t]
    BY Deciding DEF SameTexts
  <1>2. v # "open" /\ d \in Typed /\ Open(d) BY CallersText DEF Decided
  <1>3. SUFFICES ASSUME NEW t \in Typed, NEW u \in Typed, t < u, outage[t] = outage[u],
                        outage[t] # 0, fate'[u] = "sent", fate'[t] = "open"
                 PROVE  FALSE
    BY DEF OutageInOrder, SameTexts, Typed
  <1>4. t # d /\ fate[t] = "open" BY <1>1, <1>2, <1>3
  <1>5. CASE u # d
    BY <1>1, <1>3, <1>4, <1>5 DEF TextInv, OutageInOrder
  <1>6. CASE u = d
    <2>1. QueuedBefore(t, d) \/ \E z \in senders : SentBefore(z, t, d)
      BY <1>2, <1>3, <1>4, <1>6 DEF TextInv, OutageTogether, Open
    <2> QED BY <2>1, NothingBefore
  <1> QED BY <1>5, <1>6

\* What is given back is in the queue, once, and in order.
LEMMA GivenBackStep ==
  ASSUME TextInv, NEW x \in senders, NEW v, Decided(x, v), GivenBack(x), SameTexts
  PROVE  TextInv'
  <1> DEFINE d == x.queue[x.at]
  <1>0. /\ TextTypeOK /\ HeldAreOpen /\ OpenAreHeld /\ HeldOnce
        /\ OutageIsQueued /\ OutageTogether
    BY DEF TextInv
  <1>1. /\ fate' \in Seq(Fates) /\ Len(fate') = Len(word) /\ v # "open"
        /\ \A t \in Typed : fate'[t] = IF t = d THEN v ELSE fate[t]
    BY Deciding DEF SameTexts
  <1>2. d \in Typed /\ Open(d) /\ With(x, d) BY CallersText
  <1>3. /\ pendingQueue' \in Seq(Typed) /\ Once(pendingQueue)'
        /\ \A t \in Typed : InQueue(t)' <=> InQueue(t) \/ (With(x, t) /\ t # d)
        /\ \A t, u \in Typed : QueuedBefore(t, u) => QueuedBefore(t, u)'
        /\ \A t, u \in Typed : SentBefore(x, t, u) /\ t # d => QueuedBefore(t, u)'
    BY QueueGivenBack
  <1>4. senders' = senders \ {x} /\ Typed' = Typed BY DEF GivenBack, SameTexts, Typed
  <1>5. /\ \A z, t : With(z, t)' <=> With(z, t)
        /\ \A z, t, u : SentBefore(z, t, u)' <=> SentBefore(z, t, u)
        /\ Left(x)' = Left(x)
    BY DEF With, SentBefore, Left
  <1>6. \A t \in Typed : Open(t)' <=> Open(t) /\ t # d BY <1>1 DEF Open
  <1>7. ~ InQueue(d) /\ \A y \in senders : With(y, d) => y = x
    BY <1>0, <1>2 DEF HeldOnce
  <1> HIDE DEF d
  <1>8. TextTypeOK'
    BY <1>0, <1>1, <1>3, <1>4 DEF TextTypeOK, SameTexts, Sender, SenderOf
  <1>9. HeldAreOpen'
    BY <1>0, <1>3, <1>4, <1>5, <1>6, <1>7 DEF HeldAreOpen
  <1>10. OpenAreHeld'
    BY <1>0, <1>3, <1>4, <1>5, <1>6 DEF OpenAreHeld
  <1>11. HeldOnce'
    BY <1>0, <1>3, <1>4, <1>5 DEF HeldOnce, Once
  <1>12. OutageIsQueued'
    BY <1>0, <1>3, <1>4, <1>6 DEF OutageIsQueued, SameTexts
  <1>13. OutageTogether'
    BY <1>0, <1>3, <1>4, <1>5, <1>6 DEF OutageTogether, SameTexts
  <1>14. OutageInOrder' BY DecidedInOrder
  <1> QED BY <1>8, <1>9, <1>10, <1>11, <1>12, <1>13, <1>14 DEF TextInv

\* A caller asks on for the text it is at, or for the next one.
LEMMA GoesStep ==
  ASSUME TextInv, NEW x \in senders, NEW y, Goes(x, y), SameTexts, y.at <= Len(y.queue),
         \/ y.at = x.at /\ UNCHANGED fate
         \/ y.at = x.at + 1 /\ \E v : Decided(x, v)
  PROVE  TextInv'
  <1> DEFINE d == x.queue[x.at]
  <1>0. /\ TextTypeOK /\ HeldAreOpen /\ OpenAreHeld /\ HeldOnce
        /\ OutageIsQueued /\ OutageTogether /\ OutageInOrder
    BY DEF TextInv
  <1>1. d \in Typed /\ Open(d) /\ With(x, d) BY CallersText
  <1>2. /\ senders' = (senders \ {x}) \cup {y} /\ Typed' = Typed /\ pendingQueue' = pendingQueue
        /\ y \in Sender /\ y.queue = x.queue /\ y.by = x.by
    BY DEF Goes, SameTexts, Typed
  <1>3. /\ \A z, t : With(z, t)' <=> With(z, t)
        /\ \A z, t, u : SentBefore(z, t, u)' <=> SentBefore(z, t, u)
        /\ \A t : InQueue(t)' <=> InQueue(t)
        /\ \A t, u : QueuedBefore(t, u)' <=> QueuedBefore(t, u)
    BY <1>2 DEF With, SentBefore, Left, InQueue, QueuedBefore
  <1>4. fate' \in Seq(Fates) /\ Len(fate') = Len(word) /\ OutageInOrder'
    <2>1. CASE UNCHANGED fate
      BY <1>0, <2>1 DEF TextTypeOK, OutageInOrder, SameTexts, Typed
    <2>2. ASSUME NEW v, Decided(x, v)
          PROVE  fate' \in Seq(Fates) /\ Len(fate') = Len(word) /\ OutageInOrder'
      BY <2>2, Deciding, DecidedInOrder DEF SameTexts
    <2> QED BY <2>1, <2>2
  <1>5. \/ /\ \A t \in Typed : Open(t)' <=> Open(t)
           /\ \A t \in Typed : With(y, t) <=> With(x, t)
           /\ \A t, u \in Typed : SentBefore(x, t, u) => SentBefore(y, t, u)
        \/ /\ \A t \in Typed : Open(t)' <=> Open(t) /\ t # d
           /\ \A t \in Typed : With(y, t) <=> With(x, t) /\ t # d
           /\ \A t, u \in Typed : SentBefore(x, t, u) /\ t # d => SentBefore(y, t, u)
    <2>1. CASE y.at = x.at /\ UNCHANGED fate
      BY <1>2, <2>1, GoesLeft DEF Open
    <2>2. ASSUME NEW v, y.at = x.at + 1, Decided(x, v)
          PROVE  /\ \A t \in Typed : Open(t)' <=> Open(t) /\ t # d
                 /\ \A t \in Typed : With(y, t) <=> With(x, t) /\ t # d
                 /\ \A t, u \in Typed : SentBefore(x, t, u) /\ t # d => SentBefore(y, t, u)
      <3>1. /\ v # "open"
            /\ \A t \in Typed : fate'[t] = IF t = d THEN v ELSE fate[t]
        BY <2>2, Deciding DEF SameTexts
      <3>2. \A t \in Typed : Open(t)' <=> Open(t) /\ t # d BY <3>1 DEF Open
      <3> QED BY <1>2, <2>2, <3>2, GoesLeft
    <2> QED BY <2>1, <2>2
  <1>6. ~ InQueue(d) /\ \A z \in senders : With(z, d) => z = x
    BY <1>0, <1>1 DEF HeldOnce
  <1>7. \A z : z \in senders' <=> z = y \/ (z \in senders /\ z # x) BY <1>2
  <1>8. y \in Sender' /\ Sender' = Sender /\ Once(y.queue) /\ y.at <= Len(y.queue)
        /\ (y.by = "box" => Len(y.queue) = 1)
    BY <1>0, <1>2, CallersText DEF Sender, SenderOf, TextTypeOK
  <1> HIDE DEF d
  <1>9. TextTypeOK'
    <2>1. senders' \subseteq Sender'
      BY <1>0, <1>7, <1>8 DEF TextTypeOK
    <2>2. \A z \in senders' : z.at <= Len(z.queue) /\ (z.by = "box" => Len(z.queue) = 1)
      BY <1>0, <1>7, <1>8 DEF TextTypeOK
    <2> QED BY <1>0, <1>2, <1>4, <2>1, <2>2 DEF TextTypeOK, SameTexts
  <1>10. HeldAreOpen'
    BY <1>0, <1>1, <1>2, <1>3, <1>5, <1>6, <1>7 DEF HeldAreOpen
  <1>11. OpenAreHeld'
    BY <1>0, <1>2, <1>3, <1>5, <1>7 DEF OpenAreHeld
  <1>12. HeldOnce'
    <2>1. ASSUME NEW t \in Typed, NEW z \in senders', With(z, t)
          PROVE  ~ InQueue(t) /\ \A w \in senders' : With(w, t) => w = z
      BY <1>0, <1>5, <1>7, <2>1 DEF HeldOnce
    <2>2. \A z \in senders' : Once(z.queue) BY <1>0, <1>7, <1>8 DEF HeldOnce
    <2>3. Once(pendingQueue)' BY <1>0, <1>2 DEF HeldOnce, Once
    <2> QED BY <1>2, <1>3, <2>1, <2>2, <2>3 DEF HeldOnce, Once
  <1>13. OutageIsQueued'
    BY <1>0, <1>2, <1>3, <1>5 DEF OutageIsQueued, SameTexts
  <1>14. OutageTogether'
    <2> SUFFICES ASSUME NEW t \in Typed, NEW u \in Typed, t < u, outage[t] = outage[u],
                        outage[t] # 0, Open(t)', Open(u)'
                 PROVE  QueuedBefore(t, u) \/ \E z \in senders' : SentBefore(z, t, u)
      BY <1>2, <1>3 DEF OutageTogether, SameTexts
    <2>1. Open(t) /\ Open(u) BY <1>5
    <2>2. QueuedBefore(t, u) \/ \E z \in senders : SentBefore(z, t, u)
      BY <1>0, <2>1 DEF OutageTogether
    <2> QED BY <1>5, <1>7, <2>2
  <1> QED BY <1>4, <1>9, <1>10, <1>11, <1>12, <1>13, <1>14 DEF TextInv
(***************************************************************************)
(* The actions.                                                            *)
(***************************************************************************)

\* A call of sendInput is a sender, with the request it made or without one.
LEMMA SenderIs ==
  ASSUME NEW S, NEW q \in Seq(S), NEW at \in Nat \ {0}, NEW r \in Nat,
         NEW by \in {"box", "flush"}, NEW y,
         y = [queue |-> q, at |-> at, request |-> r, by |-> by]
  PROVE  y \in SenderOf(S) /\ y.queue = q /\ y.at = at /\ y.by = by
  BY DEF SenderOf

\* A text that is typed has the next number.
LEMMA Typing ==
  ASSUME TextInv, NEW w \in Nat, word' = Append(word, w)
  PROVE  /\ word' \in Seq(Nat) /\ Len(word') = Len(word) + 1
         /\ Len(word') \notin Typed /\ Typed' = Typed \cup {Len(word')}
         /\ Typed \subseteq Nat /\ \A t \in Typed : t < Len(word')
         /\ word'[Len(word')] = w /\ \A t \in Typed : word'[t] = word[t]
         /\ Seq(Typed) \subseteq Seq(Typed')
         /\ Distinct' => Distinct
  <1>1. word \in Seq(Nat) /\ Len(word) \in Nat /\ Typed = 1..Len(word)
    BY DEF TextInv, TextTypeOK, Typed
  <1>2. /\ word' \in Seq(Nat) /\ Len(word') = Len(word) + 1
        /\ DOMAIN word' = 1..(Len(word) + 1) /\ word'[Len(word) + 1] = w
        /\ \A t \in Typed : word'[t] = word[t]
    BY <1>1, Appended
  <1>3. Typed' = 1..(Len(word) + 1) BY <1>2 DEF Typed
  <1>4. /\ Len(word') \notin Typed /\ Typed' = Typed \cup {Len(word')}
        /\ Typed \subseteq Nat /\ \A t \in Typed : t < Len(word')
    BY <1>1, <1>2, <1>3
  <1>5. Distinct' => Distinct
    <2> SUFFICES ASSUME Distinct', NEW t \in Typed, NEW u \in Typed, word[t] = word[u]
                 PROVE  t = u
      BY DEF Distinct
    <2>1. t \in Typed' /\ u \in Typed' /\ word'[t] = word'[u] BY <1>2, <1>4
    <2> QED BY <2>1 DEF Distinct
  <1>6. Seq(Typed) \subseteq Seq(Typed') BY <1>4, SeqMonotonic
  <1> QED BY <1>2, <1>4, <1>5, <1>6

\* One more value for a text that is typed.
LEMMA OneMoreOf ==
  ASSUME TextInv, NEW w \in Nat, word' = Append(word, w), NEW S, NEW f \in Seq(S),
         Len(f) = Len(word), NEW v \in S
  PROVE  /\ Append(f, v) \in Seq(S) /\ Len(Append(f, v)) = Len(word')
         /\ \A t \in Typed : Append(f, v)[t] = f[t]
         /\ Append(f, v)[Len(word')] = v
  <1>1. Len(word') = Len(word) + 1 /\ Typed = 1..Len(word)
    BY Typing DEF TextInv, TextTypeOK, Typed
  <1> QED BY <1>1

\* What a text that is typed leaves as it was.
TypedAs(t, o) ==
  /\ Typed' = Typed \cup {t} /\ t \notin Typed /\ t \in Nat
  /\ Typed \subseteq Nat /\ \A u \in Typed : u < t
  /\ fate'[t] = "open" /\ \A u \in Typed : fate'[u] = fate[u]
  /\ outage'[t] = o /\ o \in Nat /\ \A u \in Typed : outage'[u] = outage[u]
  /\ UNCHANGED <<shown, outages>>

\* A text that is typed while disconnected is put behind those that are queued.
LEMMA TypeQueued ==
  ASSUME TextInv, NEW t, TypedAs(t, outages + 1), shown # "connected",
         pendingQueue' = Append(pendingQueue, t), UNCHANGED senders
  PROVE  HeldAreOpen' /\ OpenAreHeld' /\ HeldOnce' /\ OutageIsQueued' /\ OutageTogether'
         /\ OutageInOrder'
  <1> DEFINE n == Len(pendingQueue)
  <1>0. /\ TextTypeOK /\ HeldAreOpen /\ OpenAreHeld /\ HeldOnce
        /\ OutageIsQueued /\ OutageTogether /\ OutageInOrder
    BY DEF TextInv
  <1>1. /\ n \in Nat /\ DOMAIN pendingQueue = 1..n /\ DOMAIN pendingQueue' = 1..(n + 1)
        /\ pendingQueue'[n + 1] = t
        /\ \A i \in 1..n : pendingQueue'[i] = pendingQueue[i] /\ pendingQueue[i] \in Typed
    BY <1>0 DEF TextTypeOK
  <1> HIDE DEF n
  <1>2. \A u : InQueue(u)' <=> InQueue(u) \/ u = t
    BY <1>1 DEF InQueue
  <1>3. \A u, v : QueuedBefore(u, v) => QueuedBefore(u, v)'
    BY <1>1 DEF QueuedBefore
  <1>4. \A u : InQueue(u) => QueuedBefore(u, t)'
    <2> SUFFICES ASSUME NEW u, InQueue(u) PROVE QueuedBefore(u, t)' OBVIOUS
    <2>1. PICK i \in 1..n : pendingQueue[i] = u BY <1>1 DEF InQueue
    <2>2. i \in 1..(n + 1) /\ n + 1 \in 1..(n + 1) /\ i < n + 1 BY <1>1, <2>1
    <2> QED BY <1>1, <2>1, <2>2 DEF QueuedBefore
  <1>5. \A u : InQueue(u) => u \in Typed BY <1>1 DEF InQueue
  <1>6. /\ \A z, u : With(z, u)' <=> With(z, u)
        /\ \A z, u, v : SentBefore(z, u, v)' <=> SentBefore(z, u, v)
    BY DEF With, SentBefore, Left
  <1>7. \A z \in senders : z.queue \in Seq(Typed) BY CallersText
  <1>8. \A z \in senders : \A u : With(z, u) => u \in Typed
    BY CallersText, LeftOf DEF With
  <1>9. \A u \in Typed : Open(u)' <=> Open(u) BY DEF TypedAs, Open
  <1>10. Open(t)' BY DEF TypedAs, Open
  <1>11. Once(pendingQueue)'
    <2>1. \A i, j \in 1..n : pendingQueue[i] = pendingQueue[j] => i = j
      BY <1>0, <1>1 DEF HeldOnce, Once
    <2>2. \A i \in 1..(n + 1) : i \in 1..n \/ i = n + 1 BY <1>1
    <2> QED BY <1>1, <2>1, <2>2 DEF Once, TypedAs
  <1>12. HeldAreOpen' BY <1>0, <1>2, <1>6, <1>9, <1>10 DEF HeldAreOpen, TypedAs
  <1>13. OpenAreHeld' BY <1>0, <1>2, <1>6, <1>9 DEF OpenAreHeld, TypedAs
  <1>14. HeldOnce'
    BY <1>0, <1>2, <1>6, <1>8, <1>11 DEF HeldOnce, TypedAs, Once
  <1>15. OutageIsQueued'
    BY <1>0, <1>2, <1>9 DEF OutageIsQueued, TypedAs
  <1>16. OutageTogether'
    <2> SUFFICES ASSUME NEW u \in Typed', NEW v \in Typed', u < v, outage'[u] = outage'[v],
                        outage'[u] # 0, Open(u)', Open(v)'
                 PROVE  QueuedBefore(u, v)' \/ \E z \in senders : SentBefore(z, u, v)
      BY <1>6 DEF OutageTogether
    <2>1. u \in Typed
      <3>1. u \in Nat /\ v \in Nat /\ t \in Nat BY DEF TypedAs
      <3>2. CASE u = t
        <4>1. v \in Typed \/ v = t BY DEF TypedAs
        <4>2. ~ (t < v) BY <3>1, <4>1 DEF TypedAs
        <4> QED BY <3>2, <4>2
      <3> QED BY <3>2 DEF TypedAs
    <2>2. CASE v \in Typed
      <3>1. Open(u) /\ Open(v) /\ outage[u] = outage[v] /\ outage[u] # 0
        BY <1>9, <2>1, <2>2 DEF TypedAs
      <3> QED BY <1>0, <1>3, <2>1, <2>2, <3>1 DEF OutageTogether
    <2>3. CASE v = t
      <3>1. Open(u) /\ outage[u] = outages + 1 BY <1>9, <2>1, <2>3 DEF TypedAs
      <3>2. InQueue(u) BY <1>0, <2>1, <3>1 DEF OutageIsQueued
      <3> QED BY <1>4, <2>3, <3>2
    <2> QED BY <2>2, <2>3 DEF TypedAs
  <1>17. OutageInOrder'
    <2> SUFFICES ASSUME NEW u \in Typed', NEW v \in Typed', u < v, outage'[u] = outage'[v],
                        outage'[u] # 0, fate'[v] = "sent"
                 PROVE  fate'[u] # "open"
      BY DEF OutageInOrder
    <2>1. v \in Typed BY DEF TypedAs
    <2>2. u \in Typed BY <2>1 DEF TypedAs
    <2> QED BY <1>0, <2>1, <2>2 DEF OutageInOrder, TypedAs
  <1> QED BY <1>12, <1>13, <1>14, <1>15, <1>16, <1>17

\* A text that is typed while connected is with a caller of its own.
LEMMA TypeCalls ==
  ASSUME TextInv, NEW t, TypedAs(t, 0), shown = "connected",
         NEW y, y.queue = <<t>>, y.at = 1, senders' = senders \cup {y},
         UNCHANGED pendingQueue
  PROVE  HeldAreOpen' /\ OpenAreHeld' /\ HeldOnce' /\ OutageIsQueued' /\ OutageTogether'
         /\ OutageInOrder'
  <1>0. /\ TextTypeOK /\ HeldAreOpen /\ OpenAreHeld /\ HeldOnce
        /\ OutageIsQueued /\ OutageTogether /\ OutageInOrder
    BY DEF TextInv
  <1>1. \A u : With(y, u) <=> u = t BY DEF With, Left
  <1>2. /\ \A z, u : With(z, u)' <=> With(z, u)
        /\ \A z, u, v : SentBefore(z, u, v)' <=> SentBefore(z, u, v)
        /\ \A u : InQueue(u)' <=> InQueue(u)
        /\ \A u, v : QueuedBefore(u, v)' <=> QueuedBefore(u, v)
    BY DEF With, SentBefore, Left, InQueue, QueuedBefore
  <1>3. \A u : InQueue(u) => u \in Typed BY <1>0 DEF InQueue, TextTypeOK
  <1>4. \A z \in senders : \A u : With(z, u) => u \in Typed
    BY CallersText, LeftOf DEF With
  <1>5. /\ \A u \in Typed : Open(u)' <=> Open(u)
        /\ Open(t)'
    BY DEF TypedAs, Open
  <1>6. HeldAreOpen' BY <1>0, <1>1, <1>2, <1>5 DEF HeldAreOpen, TypedAs
  <1>7. OpenAreHeld' BY <1>0, <1>1, <1>2, <1>5 DEF OpenAreHeld, TypedAs
  <1>8. HeldOnce'
    <2>1. Once(y.queue) BY DEF Once
    <2>2. \A z \in senders' : Once(z.queue) BY <1>0, <2>1 DEF HeldOnce
    <2>3. Once(pendingQueue)' BY <1>0 DEF HeldOnce, Once
    <2>4. ASSUME NEW u \in Typed', NEW z \in senders', With(z, u)
          PROVE  ~ InQueue(u) /\ \A x \in senders' : With(x, u) => x = z
      <3>1. CASE u = t
        BY <1>1, <1>3, <1>4, <2>4, <3>1 DEF TypedAs
      <3>2. CASE u \in Typed
        BY <1>0, <1>1, <2>4, <3>2 DEF HeldOnce, TypedAs
      <3> QED BY <3>1, <3>2 DEF TypedAs
    <2> QED BY <1>2, <2>2, <2>3, <2>4 DEF HeldOnce, Once
  <1>9. OutageIsQueued' BY DEF OutageIsQueued, TypedAs
  <1>10. OutageTogether'
    <2> SUFFICES ASSUME NEW v \in Typed', NEW u \in Typed', v < u,
                        outage'[v] = outage'[u], outage'[v] # 0, Open(v)', Open(u)'
                 PROVE  QueuedBefore(v, u)' \/ \E z \in senders' : SentBefore(z, v, u)'
      BY DEF OutageTogether
    <2>1. v # t /\ u # t /\ v \in Typed /\ u \in Typed BY DEF TypedAs
    <2>2. /\ outage[v] = outage[u] /\ outage[v] # 0 /\ Open(v) /\ Open(u)
      BY <1>5, <2>1 DEF TypedAs
    <2>3. QueuedBefore(v, u) \/ \E z \in senders : SentBefore(z, v, u)
      BY <1>0, <2>1, <2>2 DEF OutageTogether
    <2> QED BY <1>2, <2>3
  <1>11. OutageInOrder'
    BY <1>0 DEF OutageInOrder, TypedAs
  <1> QED BY <1>6, <1>7, <1>8, <1>9, <1>10, <1>11

\* The user sends what is in the box.
LEMMA TypeStepOf ==
  ASSUME Distinct', TextInv, WSTypeOK', NEW w \in Texts, Type(w)
  PROVE  TextInv'
  <1> DEFINE t == Len(word')
  <1>0. TextTypeOK BY DEF TextInv
  <1>1. word' = Append(word, w) /\ w \in Nat /\ UNCHANGED <<shown, outages>>
    BY InputAssumption DEF Type, Texts
  <1>2. /\ word' \in Seq(Nat) /\ t = Len(word) + 1 /\ t \notin Typed
        /\ Typed' = Typed \cup {t} /\ Typed \subseteq Nat /\ \A u \in Typed : u < t
        /\ word'[t] = w /\ \A u \in Typed : word'[u] = word[u]
        /\ Seq(Typed) \subseteq Seq(Typed') /\ t \in Nat
    <2>1. Len(word) \in Nat BY <1>0 DEF TextTypeOK
    <2>2. /\ word' \in Seq(Nat) /\ Len(word') = Len(word) + 1 /\ Len(word') \notin Typed
          /\ Typed' = Typed \cup {Len(word')} /\ Typed \subseteq Nat
          /\ \A u \in Typed : u < Len(word')
          /\ word'[Len(word')] = w /\ \A u \in Typed : word'[u] = word[u]
          /\ Seq(Typed) \subseteq Seq(Typed')
      BY <1>1, Typing, Zenon
    <2>3. Len(word') \in Nat BY <2>1, <2>2
    <2> QED BY <2>2, <2>3, Zenon
  <1>3. ~ (pendingQueue # <<>> /\ word[Last(pendingQueue)] = w)
    <2> SUFFICES ASSUME pendingQueue # <<>>, word[Last(pendingQueue)] = w PROVE FALSE
      OBVIOUS
    <2>1. Last(pendingQueue) \in Typed BY <1>0 DEF Last, TextTypeOK
    <2> QED BY <1>2, <2>1 DEF Distinct
  <1>4. \A v \in Fates : /\ Append(fate, v) \in Seq(Fates) /\ Len(Append(fate, v)) = t
                         /\ \A u \in Typed : Append(fate, v)[u] = fate[u]
                         /\ Append(fate, v)[t] = v
    <2>1. fate \in Seq(Fates) /\ Len(fate) = Len(word) BY <1>0 DEF TextTypeOK
    <2> QED BY <1>1, <2>1, OneMoreOf, Zenon
  <1>5. \A o \in Nat : /\ Append(outage, o) \in Seq(Nat) /\ Len(Append(outage, o)) = t
                       /\ \A u \in Typed : Append(outage, o)[u] = outage[u]
                       /\ Append(outage, o)[t] = o
    <2>1. outage \in Seq(Nat) /\ Len(outage) = Len(word) BY <1>0 DEF TextTypeOK
    <2> QED BY <1>1, <2>1, OneMoreOf, Zenon
  <1>6. /\ outages \in Nat /\ outages + 1 \in Nat /\ \A u \in Typed : outage[u] <= outages + 1
        /\ 0 <= outages + 1 /\ outages + 1 <= outages + 1
    BY <1>0 DEF TextTypeOK
  <1>7. senders \subseteq Sender'
    BY <1>0, <1>2 DEF TextTypeOK, Sender, SenderOf
  <1> HIDE DEF t
  <1>8. CASE shown # "connected"
    <2>1. /\ fate' = Append(fate, "open") /\ pendingQueue' = Append(pendingQueue, t)
          /\ outage' = Append(outage, outages + 1) /\ UNCHANGED senders
      BY <1>3, <1>8 DEF Type, t
    <2>2. TypedAs(t, outages + 1)
      <3>1. "open" \in Fates BY DEF Fates
      <3>2. fate'[t] = "open" /\ \A u \in Typed : fate'[u] = fate[u]
        BY <1>4, <2>1, <3>1, Zenon
      <3>3. outage'[t] = outages + 1 /\ \A u \in Typed : outage'[u] = outage[u]
        BY <1>5, <1>6, <2>1, Zenon
      <3> QED BY <1>1, <1>2, <1>6, <3>2, <3>3, Zenon DEF TypedAs
    <2>3. TextTypeOK'
      <3>1. pendingQueue \in Seq(Typed') BY <1>0, <1>2 DEF TextTypeOK
      <3>2. pendingQueue' \in Seq(Typed') BY <1>2, <2>1, <3>1
      <3>3. outage' \in Seq(Nat) /\ Len(outage') = t /\ \A u \in Typed' : outage'[u] <= outages + 1
        <4>1. /\ outage' \in Seq(Nat) /\ Len(outage') = t /\ outage'[t] = outages + 1
              /\ \A u \in Typed : outage'[u] = outage[u]
          BY <1>5, <1>6, <2>1, Zenon
        <4> QED BY <1>2, <1>6, <4>1, Zenon
      <3>4. fate' \in Seq(Fates) /\ Len(fate') = t BY <1>4, <2>1 DEF Fates
      <3> QED BY <1>0, <1>1, <1>2, <1>7, <2>1, <3>2, <3>3, <3>4 DEF TextTypeOK, t
    <2> QED BY <1>8, <2>1, <2>2, <2>3, TypeQueued DEF TextInv
  <1>9. CASE shown = "connected"
    <2>1. /\ fate' = Append(fate, "open") /\ outage' = Append(outage, 0)
          /\ Call(senders, <<t>>, 1, "box") /\ UNCHANGED pendingQueue
      BY <1>9 DEF Type, t
    <2>2. PICK y \in Sender' : /\ y.queue = <<t>> /\ y.at = 1 /\ y.by = "box"
                               /\ senders' = senders \cup {y}
      <3>1. <<t>> \in Seq(Typed') BY <1>2
      <3>2. 1 \in Nat \ {0} /\ "box" \in {"box", "flush"} OBVIOUS
      <3>3. Len(settled') \in Nat BY DEF WSTypeOK
      <3>4. PICK r \in Nat : senders' = senders \cup
              {[queue |-> <<t>>, at |-> 1, request |-> r, by |-> "box"]}
        BY <2>1, <3>3 DEF Call
      <3> DEFINE y == [queue |-> <<t>>, at |-> 1, request |-> r, by |-> "box"]
      <3>5. y \in SenderOf(Typed') /\ y.queue = <<t>> /\ y.at = 1 /\ y.by = "box"
        BY <3>1 DEF SenderOf
      <3>6. senders' = senders \cup {y} BY <3>4
      <3>7. y \in Sender' BY <3>5 DEF Sender
      <3> HIDE DEF y
      <3> QED BY <3>5, <3>6, <3>7, Zenon
    <2>3. TypedAs(t, 0)
      <3>1. "open" \in Fates /\ 0 \in Nat BY DEF Fates
      <3>2. fate'[t] = "open" /\ \A u \in Typed : fate'[u] = fate[u]
        BY <1>4, <2>1, <3>1, Zenon
      <3>3. outage'[t] = 0 /\ \A u \in Typed : outage'[u] = outage[u]
        BY <1>5, <2>1, <3>1, Zenon
      <3> QED BY <1>1, <1>2, <3>1, <3>2, <3>3 DEF TypedAs
    <2>4. TextTypeOK'
      <3>1. pendingQueue' \in Seq(Typed') BY <1>0, <1>2, <2>1 DEF TextTypeOK
      <3>2. outage' \in Seq(Nat) /\ Len(outage') = t /\ \A u \in Typed' : outage'[u] <= outages + 1
        <4>1. 0 \in Nat OBVIOUS
        <4>2. /\ outage' \in Seq(Nat) /\ Len(outage') = t /\ outage'[t] = 0
              /\ \A u \in Typed : outage'[u] = outage[u]
          BY <1>5, <2>1, <4>1, Zenon
        <4> QED BY <1>2, <1>6, <4>2, Zenon
      <3>3. fate' \in Seq(Fates) /\ Len(fate') = t BY <1>4, <2>1 DEF Fates
      <3>4. senders' \subseteq Sender' BY <1>7, <2>2
      <3>5. \A z \in senders' : z.at <= Len(z.queue) /\ (z.by = "box" => Len(z.queue) = 1)
        <4>1. y.at = 1 /\ Len(y.queue) = 1 BY <2>2
        <4>2. y.at <= Len(y.queue) BY <4>1
        <4>3. \A z \in senders : z.at <= Len(z.queue) /\ (z.by = "box" => Len(z.queue) = 1)
          BY <1>0 DEF TextTypeOK
        <4> QED BY <2>2, <4>1, <4>2, <4>3, Zenon
      <3> QED BY <1>0, <1>1, <1>2, <3>1, <3>2, <3>3, <3>4, <3>5 DEF TextTypeOK, t
    <2> QED BY <1>9, <2>1, <2>2, <2>3, <2>4, TypeCalls DEF TextInv
  <1> QED BY <1>8, <1>9

\* sendInput throws.
LEMMA FailedStep ==
  ASSUME Distinct, TextInv, NEW x \in senders, SameTexts,
         Failed(senders \ {x}, x.queue, x.at, x.by)
  PROVE  TextInv'
  <1> DEFINE v == IF x.by = "box" THEN "boxed" ELSE "dropped"
  <1>1. Decided(x, v) BY DEF Failed, Decided, Fates
  <1>2. GivenBack(x)
    <2>1. CASE x.by = "box" BY <2>1, PutBack DEF Failed, GivenBack
    <2>2. CASE x.by # "box" BY <2>2, PutBack DEF Failed, GivenBack
    <2> QED BY <2>1, <2>2
  <1> QED BY <1>1, <1>2, GivenBackStep

\* What was asked first is answered.
LEMMA AskedStep ==
  ASSUME Distinct, TextInv, WSTypeOK', NEW x \in senders, Asked(x)
  PROVE  TextInv'
  <1>1. UNCHANGED <<shown, word, outages>> BY DEF Asked
  <1>2. CASE Failed(senders \ {x}, x.queue, x.at, x.by)
    <2>1. SameTexts BY <1>1, <1>2 DEF SameTexts, Failed
    <2> QED BY <1>2, <2>1, FailedStep
  <1>3. CASE /\ senders' = (senders \ {x}) \cup {[x EXCEPT !.request = Len(settled')]}
             /\ UNCHANGED <<pendingQueue, fate, outage>>
    <2> DEFINE y == [x EXCEPT !.request = Len(settled')]
    <2>1. x \in Sender /\ x.at \in 1..Len(x.queue) /\ Len(x.queue) \in Nat BY CallersText
    <2>2. Len(settled') \in Nat BY DEF WSTypeOK
    <2>3. y \in Sender /\ y.queue = x.queue /\ y.by = x.by /\ y.at = x.at
      BY <2>1, <2>2 DEF Sender, SenderOf
    <2>4. Goes(x, y) BY <1>3, <2>3 DEF Goes
    <2>5. SameTexts BY <1>1, <1>3 DEF SameTexts
    <2>6. y.at <= Len(y.queue) BY <2>1, <2>3
    <2> HIDE DEF y
    <2> QED BY <1>3, <2>3, <2>4, <2>5, <2>6, GoesStep
  <1> QED BY <1>2, <1>3 DEF Asked

\* What awaits a request goes on.
LEMMA ResumeStep ==
  ASSUME Distinct, TextInv, WSTypeOK', NEW x \in senders, Resume(x)
  PROVE  TextInv'
  <1> DEFINE d == x.queue[x.at]
  <1>0. /\ x \in Sender /\ x.queue \in Seq(Typed) /\ x.at \in 1..Len(x.queue)
        /\ Len(x.queue) \in Nat /\ x.by \in {"box", "flush"}
    BY CallersText DEF Sender, SenderOf
  <1>1. UNCHANGED <<shown, word, outages>> BY DEF Resume
  <1>2. CASE Failed(senders \ {x}, x.queue, x.at, x.by)
    <2>1. SameTexts BY <1>1, <1>2 DEF SameTexts, Failed
    <2> QED BY <1>2, <2>1, FailedStep
  <1>3. CASE /\ fate' = [fate EXCEPT ![d] = "sent"] /\ GoesOn(x) /\ UNCHANGED outage
    <2>1. Decided(x, "sent") /\ SameTexts BY <1>1, <1>3 DEF Decided, SameTexts, Fates
    <2>2. CASE GivenBack(x) BY <2>1, <2>2, GivenBackStep
    <2>3. CASE /\ x.at < Len(x.queue) /\ UNCHANGED pendingQueue
               /\ Call(senders \ {x}, x.queue, x.at + 1, x.by)
      <3>1. PICK y \in Sender : /\ y.queue = x.queue /\ y.at = x.at + 1 /\ y.by = x.by
                                /\ senders' = (senders \ {x}) \cup {y}
        <4>1. x.at + 1 \in Nat \ {0} BY <1>0
        <4>2. Len(settled') \in Nat BY DEF WSTypeOK
        <4>3. PICK r \in Nat : senders' = (senders \ {x}) \cup
                {[queue |-> x.queue, at |-> x.at + 1, request |-> r, by |-> x.by]}
          BY <2>3, <4>2 DEF Call
        <4> DEFINE y == [queue |-> x.queue, at |-> x.at + 1, request |-> r, by |-> x.by]
        <4>4. y \in SenderOf(Typed) /\ y.queue = x.queue /\ y.at = x.at + 1 /\ y.by = x.by
          BY <1>0, <4>1, SenderIs
        <4>5. senders' = (senders \ {x}) \cup {y} BY <4>3
        <4> HIDE DEF y
        <4> QED BY <4>4, <4>5 DEF Sender
      <3>2. y.at <= Len(y.queue) BY <1>0, <2>3, <3>1
      <3>3. Goes(x, y) BY <2>3, <3>1 DEF Goes
      <3> QED BY <2>1, <3>1, <3>2, <3>3, GoesStep
    <2>4. CASE /\ x.at = Len(x.queue) /\ senders' = senders \ {x} /\ UNCHANGED pendingQueue
      BY <2>2, <2>4, PutBack DEF GivenBack
    <2>5. CASE /\ senders' = senders \ {x}
               /\ pendingQueue' = EnqueueAll(pendingQueue,
                                             SubSeq(x.queue, x.at + 1, Len(x.queue)))
      BY <2>2, <2>5, PutBack DEF GivenBack
    <2> QED BY <1>3, <2>3, <2>4, <2>5 DEF GoesOn
  <1> QED BY <1>2, <1>3 DEF Resume

\* The texts stay where they are, and no more of them are queued than were in
\* the outage before.
LEMMA NothingMoves ==
  ASSUME TextInv, UNCHANGED <<word, fate, outage, pendingQueue, senders>>,
         outages' \in {outages, outages + 1}, OutageIsQueued'
  PROVE  TextInv'
  <1>0. /\ TextTypeOK /\ HeldAreOpen /\ OpenAreHeld /\ HeldOnce
        /\ OutageTogether /\ OutageInOrder
    BY DEF TextInv
  <1>1. Typed' = Typed BY DEF Typed
  <1>2. /\ \A z, u : With(z, u)' <=> With(z, u)
        /\ \A z, u, v : SentBefore(z, u, v)' <=> SentBefore(z, u, v)
        /\ \A u : InQueue(u)' <=> InQueue(u)
        /\ \A u, v : QueuedBefore(u, v)' <=> QueuedBefore(u, v)
        /\ \A u : Open(u)' <=> Open(u)
    BY DEF With, SentBefore, Left, InQueue, QueuedBefore, Open
  <1>3. TextTypeOK'
    <2>1. outages' \in Nat /\ \A t \in Typed : outage[t] <= outages' + 1
      <3>1. outages \in Nat /\ \A t \in Typed : outage[t] \in Nat /\ outage[t] <= outages + 1
        BY <1>0 DEF TextTypeOK, Typed
      <3> QED BY <3>1
    <2> QED BY <1>0, <1>1, <2>1 DEF TextTypeOK, Sender, SenderOf
  <1>4. HeldAreOpen' /\ OpenAreHeld' BY <1>0, <1>1, <1>2 DEF HeldAreOpen, OpenAreHeld
  <1>5. HeldOnce' BY <1>0, <1>1, <1>2 DEF HeldOnce, Once
  <1>6. OutageTogether' BY <1>0, <1>1, <1>2 DEF OutageTogether
  <1>7. OutageInOrder' BY <1>0, <1>1 DEF OutageInOrder
  <1> QED BY <1>3, <1>4, <1>5, <1>6, <1>7 DEF TextInv

\* The queue is handed to a caller.
LEMMA FlushStep ==
  ASSUME TextInv, shown' = "connected", UNCHANGED <<word, fate, outage, outages>>,
         pendingQueue # <<>>, pendingQueue' = <<>>,
         NEW y \in Sender, y.queue = pendingQueue, y.at = 1, y.by = "flush",
         senders' = senders \cup {y}
  PROVE  TextInv'
  <1>0. /\ TextTypeOK /\ HeldAreOpen /\ OpenAreHeld /\ HeldOnce
        /\ OutageTogether /\ OutageInOrder
    BY DEF TextInv
  <1>1. Typed' = Typed /\ pendingQueue \in Seq(Typed) BY <1>0 DEF Typed, TextTypeOK
  <1>2. /\ \A z, u : With(z, u)' <=> With(z, u)
        /\ \A z, u, v : SentBefore(z, u, v)' <=> SentBefore(z, u, v)
        /\ \A u : Open(u)' <=> Open(u)
    BY DEF With, SentBefore, Left, Open
  <1>3. Left(y) = DOMAIN pendingQueue BY <1>1 DEF Left
  <1>4. /\ \A u : With(y, u) <=> InQueue(u)
        /\ \A u, v : SentBefore(y, u, v) <=> QueuedBefore(u, v)
    BY <1>3 DEF With, SentBefore, InQueue, QueuedBefore
  <1>5. \A u : ~ InQueue(u)' BY DEF InQueue
  <1>6. TextTypeOK'
    <2>1. y.at <= Len(y.queue) BY <1>1
    <2>2. senders' \subseteq Sender' BY <1>0, <1>1 DEF TextTypeOK, Sender, SenderOf
    <2>3. \A z \in senders' : z.at <= Len(z.queue) /\ (z.by = "box" => Len(z.queue) = 1)
      BY <1>0, <2>1 DEF TextTypeOK
    <2> QED BY <1>0, <1>1, <2>2, <2>3 DEF TextTypeOK
  <1>7. HeldAreOpen' /\ OpenAreHeld'
    BY <1>0, <1>1, <1>2, <1>4, <1>5 DEF HeldAreOpen, OpenAreHeld
  <1>8. HeldOnce'
    <2>1. Once(pendingQueue)' BY DEF Once
    <2>2. \A z \in senders' : Once(z.queue) BY <1>0 DEF HeldOnce
    <2>3. ASSUME NEW u \in Typed, NEW z \in senders', With(z, u)
          PROVE  \A x \in senders' : With(x, u) => x = z
      BY <1>0, <1>4, <2>3 DEF HeldOnce
    <2> QED BY <1>1, <1>2, <1>5, <2>1, <2>2, <2>3 DEF HeldOnce, Once
  <1>9. OutageIsQueued' BY DEF OutageIsQueued
  <1>10. OutageTogether'
    BY <1>0, <1>1, <1>2, <1>4 DEF OutageTogether
  <1>11. OutageInOrder' BY <1>0, <1>1 DEF OutageInOrder
  <1> QED BY <1>6, <1>7, <1>8, <1>9, <1>10, <1>11 DEF TextInv

\* A render and its effects.
LEMMA RenderStep ==
  ASSUME TextInv, WSTypeOK', Render
  PROVE  TextInv'
  <1>0. /\ TextTypeOK /\ OutageIsQueued BY DEF TextInv
  <1>1. /\ UNCHANGED <<word, fate, outage, status>> /\ shown' = status
        /\ outages' = IF shown = "connected" /\ status # "connected" THEN outages + 1
                      ELSE outages
    BY DEF Render
  <1>2. CASE UNCHANGED <<pendingQueue, senders>>
    <2>1. OutageIsQueued'
      <3>1. /\ Typed' = Typed /\ \A u : InQueue(u)' <=> InQueue(u)
            /\ \A u : Open(u)' <=> Open(u)
        BY <1>1, <1>2 DEF Typed, InQueue, Open
      <3>2. CASE status = "connected" BY <1>1, <3>2 DEF OutageIsQueued
      <3>3. CASE shown # "connected"
        BY <1>0, <1>1, <3>1, <3>3 DEF OutageIsQueued
      <3>4. CASE shown = "connected" /\ status # "connected"
        <4>1. outages \in Nat /\ \A t \in Typed : outage[t] \in Nat /\ outage[t] <= outages + 1
          BY <1>0 DEF TextTypeOK, Typed
        <4>2. \A t \in Typed : outage[t] # outages' + 1 BY <1>1, <3>4, <4>1
        <4> QED BY <1>1, <3>1, <4>2 DEF OutageIsQueued
      <3> QED BY <3>2, <3>3, <3>4
    <2> QED BY <1>1, <1>2, <2>1, NothingMoves
  <1>3. CASE /\ status = "connected" /\ pendingQueue # <<>> /\ pendingQueue' = <<>>
             /\ Call(senders, pendingQueue, 1, "flush")
    <2>1. PICK y \in Sender : /\ y.queue = pendingQueue /\ y.at = 1 /\ y.by = "flush"
                              /\ senders' = senders \cup {y}
      <3>1. pendingQueue \in Seq(Typed) BY <1>0 DEF TextTypeOK
      <3>2. 1 \in Nat \ {0} /\ "flush" \in {"box", "flush"} OBVIOUS
      <3>3. Len(settled') \in Nat BY DEF WSTypeOK
      <3>4. PICK r \in Nat : senders' = senders \cup
              {[queue |-> pendingQueue, at |-> 1, request |-> r, by |-> "flush"]}
        BY <1>3, <3>3 DEF Call
      <3> DEFINE y == [queue |-> pendingQueue, at |-> 1, request |-> r, by |-> "flush"]
      <3>5. y \in SenderOf(Typed) /\ y.queue = pendingQueue /\ y.at = 1 /\ y.by = "flush"
        BY <3>1, <3>2, SenderIs
      <3>6. senders' = senders \cup {y} BY <3>4
      <3> HIDE DEF y
      <3> QED BY <3>5, <3>6 DEF Sender
    <2> QED BY <1>1, <1>3, <2>1, FlushStep
  <1> QED BY <1>2, <1>3 DEF Render

(***************************************************************************)
(* The theorems about texts.                                               *)
(***************************************************************************)

\* What the user says is numbered.
LEMMA WordStep ==
  ASSUME word \in Seq(Nat), [Next]_vars
  PROVE  \/ UNCHANGED word
         \/ \E w \in Texts : /\ Type(w) /\ w \in Nat /\ word' = Append(word, w)
                             /\ word' \in Seq(Nat) /\ DOMAIN word' = 1..(Len(word) + 1)
                             /\ \A t \in Typed : t \in Typed' /\ word'[t] = word[t]
                             /\ word'[Len(word) + 1] = w
  <1>1. UNCHANGED vars \/ Render \/ Connection \/ (\E x \in senders : Asked(x) \/ Resume(x))
          => UNCHANGED word
    BY DEF vars, inputVars, Render, Connection, Asked, Resume
  <1>2. ASSUME NEW w \in Texts, Type(w)
        PROVE  /\ w \in Nat /\ word' = Append(word, w)
               /\ word' \in Seq(Nat) /\ DOMAIN word' = 1..(Len(word) + 1)
               /\ \A t \in Typed : t \in Typed' /\ word'[t] = word[t]
               /\ word'[Len(word) + 1] = w
    <2>1. w \in Nat /\ word' = Append(word, w)
      BY <1>2, InputAssumption DEF Type, Texts
    <2> QED BY <2>1 DEF Typed
  <1> QED BY <1>1, <1>2 DEF Next

\* No two texts said the same before they do not now.
LEMMA DistinctBefore ==
  ASSUME word \in Seq(Nat), [Next]_vars, Distinct'
  PROVE  Distinct
  <1>1. CASE UNCHANGED word BY <1>1 DEF Distinct, Typed
  <1>2. ASSUME \A t \in Typed : t \in Typed' /\ word'[t] = word[t] PROVE Distinct
    BY <1>2 DEF Distinct
  <1> QED BY <1>1, <1>2, WordStep

\* The invariant: what is proved of the connection, and of the texts as long
\* as no two say the same.
InputInv ==
  /\ WSTypeOK
  /\ word \in Seq(Nat)
  /\ Distinct => TextInv

\* Nothing is typed at first.
LEMMA InputInvInit == Init => InputInv
  <1> SUFFICES ASSUME Init PROVE InputInv OBVIOUS
  <1>1. WSTypeOK BY WSInvInit DEF Init, WSInv
  <1>2. /\ word = <<>> /\ fate = <<>> /\ outage = <<>> /\ pendingQueue = <<>>
        /\ senders = {} /\ outages = 0
    BY DEF Init
  <1>3. \A S : <<>> \in Seq(S) OBVIOUS
  <1>4. Typed = {} BY <1>2 DEF Typed
  <1>5. TextTypeOK BY <1>2, <1>3, <1>4 DEF TextTypeOK
  <1>6. HeldAreOpen /\ OpenAreHeld /\ OutageIsQueued /\ OutageTogether /\ OutageInOrder
    BY <1>4 DEF HeldAreOpen, OpenAreHeld, OutageIsQueued, OutageTogether, OutageInOrder
  <1>7. HeldOnce BY <1>2, <1>4 DEF HeldOnce, Once
  <1> QED BY <1>1, <1>2, <1>3, <1>5, <1>6, <1>7 DEF InputInv, TextInv

\* Every step keeps the texts where they belong.
LEMMA TextInvStep ==
  ASSUME Distinct, Distinct', WSTypeOK', TextInv, [Next]_vars
  PROVE  TextInv'
  <1>1. ASSUME NEW w \in Texts, Type(w) PROVE TextInv' BY <1>1, TypeStepOf
  <1>2. ASSUME NEW x \in senders, Asked(x) PROVE TextInv' BY <1>2, AskedStep
  <1>3. ASSUME NEW x \in senders, Resume(x) PROVE TextInv' BY <1>3, ResumeStep
  <1>4. CASE Render BY <1>4, RenderStep
  <1>5. CASE UNCHANGED inputVars
    <2>1. UNCHANGED <<word, fate, outage, pendingQueue, senders, outages, shown>>
      BY <1>5 DEF inputVars
    <2>2. OutageIsQueued'
      BY <2>1 DEF TextInv, OutageIsQueued, Typed, Open, InQueue
    <2> QED BY <2>1, <2>2, NothingMoves
  <1>6. Connection \/ UNCHANGED vars => UNCHANGED inputVars BY DEF Connection, vars
  <1> QED BY <1>1, <1>2, <1>3, <1>4, <1>5, <1>6 DEF Next

\* Every step keeps the invariant.
LEMMA InputInvStep == InputInv /\ [Next]_vars => InputInv'
  <1> SUFFICES ASSUME InputInv, [Next]_vars PROVE InputInv' OBVIOUS
  <1>1. WSTypeOK' BY ConnectionStep, TypeStep DEF InputInv
  <1>2. word' \in Seq(Nat) BY WordStep DEF InputInv
  <1>3. ASSUME Distinct' PROVE TextInv'
    <2>1. Distinct BY <1>3, DistinctBefore DEF InputInv
    <2> QED BY <1>1, <1>3, <2>1, TextInvStep DEF InputInv
  <1> QED BY <1>1, <1>2, <1>3 DEF InputInv

\* The invariant holds, whatever is typed and however often the connection
\* is lost.
LEMMA InputInvariant == Spec => []InputInv
  BY InputInvInit, InputInvStep, PTL DEF Spec

\* A text is in one place, the queue or with one caller, or in none.
LEMMA OnePlace ==
  ASSUME TextInv, NEW t \in Typed
  PROVE  Cardinality(Places(t).queue) + Cardinality(Places(t).sender)
           = (IF fate[t] = "open" THEN 1 ELSE 0)
  <1> DEFINE Q == {i \in DOMAIN pendingQueue : pendingQueue[i] = t}
             S == {x \in senders : \E i \in x.at..Len(x.queue) : x.queue[i] = t}
  <1>1. Places(t).queue = Q /\ Places(t).sender = S BY DEF Places
  <1>2. Q # {} <=> InQueue(t) BY DEF InQueue
  <1>3. \A x \in senders : x \in S <=> With(x, t) BY DEF With, Left
  <1>4. \A i, j \in Q : i = j BY DEF TextInv, HeldOnce, Once
  <1>5. \A x, y \in S : x = y BY <1>3 DEF TextInv, HeldOnce
  <1>6. S # {} => Q = {} BY <1>2, <1>3 DEF TextInv, HeldOnce
  <1>7. Open(t) <=> Q # {} \/ S # {}
    BY <1>2, <1>3 DEF TextInv, HeldAreOpen, OpenAreHeld
  <1> HIDE DEF Q, S
  <1>8. Cardinality({}) = 0 BY FS_EmptySet
  <1>9. ASSUME NEW U, U # {}, \A i, j \in U : i = j PROVE Cardinality(U) = 1
    <2>1. PICK i \in U : TRUE BY <1>9
    <2>2. U = {i} BY <1>9, <2>1
    <2> QED BY <2>2, FS_Singleton
  <1>10. CASE Q # {}
    BY <1>1, <1>4, <1>6, <1>7, <1>8, <1>9, <1>10 DEF Open
  <1>11. CASE S # {}
    BY <1>1, <1>5, <1>6, <1>7, <1>8, <1>9, <1>11 DEF Open
  <1>12. CASE Q = {} /\ S = {}
    BY <1>1, <1>7, <1>8, <1>12 DEF Open
  <1> QED BY <1>10, <1>11, <1>12

\* As long as no two texts say the same, none is lost, and none is in two
\* places: across drops, renders, failures and loops that outlive their
\* connection.
THEOREM TextsAccounted == Spec => [](Distinct => TextAccounted)
  <1>1. InputInv => (Distinct => TextAccounted)
    BY OnePlace DEF InputInv, TextAccounted
  <1> QED BY <1>1, InputInvariant, PTL

\* As long as no two texts say the same, those that are queued in one outage
\* are sent in the order in which they were typed.
THEOREM TextsInOutageOrder == Spec => [](Distinct => OutageInOrder)
  <1>1. InputInv => (Distinct => OutageInOrder) BY DEF InputInv, TextInv
  <1> QED BY <1>1, InputInvariant, PTL

\* Who never says the same twice types no two texts that say the same.
LEMMA NeverAgain ==
  ASSUME Repeating = FALSE
  PROVE  Spec => []Distinct
  <1> DEFINE Numbered == word \in Seq(Nat) /\ \A t \in Typed : word[t] = t
  <1>1. Init => Numbered BY DEF Init, Typed
  <1>2. Numbered /\ [Next]_vars => Numbered'
    <2> SUFFICES ASSUME Numbered, [Next]_vars PROVE Numbered' OBVIOUS
    <2>1. CASE UNCHANGED word BY <2>1 DEF Typed
    <2>2. ASSUME NEW w \in Texts, Type(w), w \in Nat,
                 word' \in Seq(Nat), DOMAIN word' = 1..(Len(word) + 1),
                 \A t \in Typed : t \in Typed' /\ word'[t] = word[t],
                 word'[Len(word) + 1] = w
          PROVE  Numbered'
      <3>1. w = Len(word) + 1 BY <2>2 DEF Type
      <3>2. Typed = 1..Len(word) /\ Len(word) \in Nat BY DEF Typed
      <3>3. Typed' = 1..(Len(word) + 1) BY <2>2 DEF Typed
      <3>4. \A t \in Typed' : t \in Typed \/ t = Len(word) + 1 BY <3>2, <3>3
      <3> QED BY <2>2, <3>1, <3>4
    <2> QED BY <2>1, <2>2, WordStep
  <1>3. Numbered => Distinct BY DEF Distinct
  <1> QED BY <1>1, <1>2, <1>3, PTL DEF Spec

\* Of a user who never says the same twice no text is lost, doubled, or sent
\* before another of its outage that was typed earlier.
THEOREM TextsOfOneWord ==
  ASSUME Repeating = FALSE
  PROVE  Spec => []TextAccounted /\ []OutageInOrder
  BY NeverAgain, TextsAccounted, TextsInOutageOrder, PTL

(***************************************************************************)
(* Bags of fetches.                                                        *)
(***************************************************************************)

\* The bag with each element of a set once.
LEMMA BagOfSet ==
  ASSUME NEW S
  PROVE  IsABag(SetToBag(S)) /\ DOMAIN SetToBag(S) = S
  BY DEF IsABag, SetToBag

\* The bag of all that two bags have.
LEMMA BagPlus ==
  ASSUME NEW B, NEW C, IsABag(B), IsABag(C)
  PROVE  IsABag(B (+) C) /\ DOMAIN (B (+) C) = DOMAIN B \cup DOMAIN C
  <1>1. \A e \in DOMAIN B : B[e] \in Nat /\ B[e] > 0 BY DEF IsABag
  <1>2. \A e \in DOMAIN C : C[e] \in Nat /\ C[e] > 0 BY DEF IsABag
  <1> DEFINE D == B (+) C
  <1>3. DOMAIN D = DOMAIN B \cup DOMAIN C BY DEF (+)
  <1>4. \A e \in DOMAIN D : D[e] \in {n \in Nat : n > 0} BY <1>1, <1>2 DEF (+)
  <1>5. D = [e \in DOMAIN D |-> D[e]] BY DEF (+)
  <1> HIDE DEF D
  <1>6. IsABag(D) BY <1>4, <1>5 DEF IsABag
  <1> QED BY <1>3, <1>6 DEF D

\* A bag without another: what is not in the other stays.
LEMMA BagMinus ==
  ASSUME NEW B, NEW C, IsABag(B), IsABag(C)
  PROVE  /\ IsABag(B (-) C) /\ DOMAIN (B (-) C) \subseteq DOMAIN B
         /\ DOMAIN B \ DOMAIN C \subseteq DOMAIN (B (-) C)
  <1>1. \A e \in DOMAIN B : B[e] \in Nat /\ B[e] > 0 BY DEF IsABag
  <1>2. \A e \in DOMAIN C : C[e] \in Nat /\ C[e] > 0 BY DEF IsABag
  <1> DEFINE F == [e \in DOMAIN B |-> IF e \in DOMAIN C THEN B[e] - C[e] ELSE B[e]]
             D == [e \in {d \in DOMAIN F : F[d] > 0} |-> F[e]]
  <1>3. \A e \in DOMAIN B : F[e] \in Int /\ (e \notin DOMAIN C => F[e] > 0) BY <1>1, <1>2
  <1>4. DOMAIN F = DOMAIN B OBVIOUS
  <1>5. B (-) C = D BY DEF (-)
  <1> HIDE DEF F
  <1>6. IsABag(D) BY <1>3, <1>4 DEF IsABag
  <1>7. DOMAIN D \subseteq DOMAIN B /\ DOMAIN B \ DOMAIN C \subseteq DOMAIN D BY <1>3, <1>4
  <1> QED BY <1>5, <1>6, <1>7

\* The part of a bag whose elements are in a set.
LEMMA BagRestricted ==
  ASSUME NEW B, NEW S, IsABag(B), S \subseteq DOMAIN B
  PROVE  IsABag(Restrict(B, S)) /\ DOMAIN Restrict(B, S) = S
  BY DEF Restrict, IsABag

\* A text is taken out of a history.
LEMMA WithoutTyping ==
  ASSUME NEW S, NEW history \in Seq(S), NEW text
  PROVE  Without(history, text) \in Seq(S)
  <1> DEFINE n == Len(history)
             step == [i \in 1..n |-> [h \in Seq(S) |->
                        IF history[i] = text THEN h ELSE Append(h, history[i])]]
             next(f) == [i \in 0..n |->
                          IF i = 0 THEN <<>>
                          ELSE IF history[i] = text THEN f[i - 1]
                          ELSE Append(f[i - 1], history[i])]
             kept == CHOOSE f : f = next(f)
  <1>1. Without(history, text) = kept[n] BY DEF Without
  <1>2. n \in Nat /\ \A i \in 1..n : history[i] \in S OBVIOUS
  <1> HIDE DEF n
  <1>3. step \in [1..n -> [Seq(S) -> Seq(S)]]
    <2>1. ASSUME NEW i \in 1..n, NEW h \in Seq(S)
          PROVE  (IF history[i] = text THEN h ELSE Append(h, history[i])) \in Seq(S)
      BY <1>2
    <2> QED BY <2>1
  <1>4. PICK g : Computes(g, n, Seq(S), <<>>, step)
    <2> DEFINE Q == Seq(S)
               e == <<>>
    <2>1. e \in Q OBVIOUS
    <2>2. step \in [1..n -> [Q -> Q]] BY <1>3
    <2>3. n \in Nat BY <1>2
    <2> HIDE DEF step, Q, e
    <2>4. \E f : Computes(f, n, Q, e, step) BY <2>1, <2>2, <2>3, Recursion
    <2> QED BY <2>4 DEF Q, e
  <1>5. \A i \in 1..n : g[i] = IF history[i] = text THEN g[i - 1]
                               ELSE Append(g[i - 1], history[i])
    <2> SUFFICES ASSUME NEW i \in 1..n
                 PROVE  g[i] = IF history[i] = text THEN g[i - 1]
                               ELSE Append(g[i - 1], history[i])
      OBVIOUS
    <2>1. i - 1 \in 0..n /\ g[i - 1] \in Seq(S) BY <1>2, <1>4 DEF Computes
    <2> QED BY <1>4, <2>1 DEF Computes
  <1>6. /\ \A i \in 0..n : i = 0 \/ i \in 1..n
        /\ \A i \in 1..n : i \in 0..n /\ i # 0
        /\ 0 \in 0..n
    BY <1>2
  <1>7. g = next(g)
    <2>1. g = [i \in 0..n |-> g[i]] /\ g[0] = <<>> BY <1>4 DEF Computes
    <2>2. \A i \in 0..n : g[i] = IF i = 0 THEN <<>>
                                 ELSE IF history[i] = text THEN g[i - 1]
                                 ELSE Append(g[i - 1], history[i])
      BY <2>1, <1>5, <1>6, Zenon
    <2> QED BY <2>1, <2>2, Zenon
  <1>8. kept = next(kept)
    <2> HIDE DEF next
    <2> QED BY <1>7, Zenon
  <1> HIDE DEF kept, next
  <1>9. /\ kept[0] = <<>>
        /\ \A i \in 1..n : kept[i] = IF history[i] = text THEN kept[i - 1]
                                     ELSE Append(kept[i - 1], history[i])
    <2>1. kept[0] = next(kept)[0] /\ \A i \in 1..n : kept[i] = next(kept)[i]
      BY <1>8, Zenon
    <2>2. next(kept)[0] = <<>> BY <1>6 DEF next
    <2>3. \A i \in 1..n : next(kept)[i] = IF history[i] = text THEN kept[i - 1]
                                          ELSE Append(kept[i - 1], history[i])
      BY <1>6 DEF next
    <2> QED BY <2>1, <2>2, <2>3, Zenon
  <1> DEFINE T == {i \in Nat : i <= n => kept[i] \in Seq(S)}
  <1>10. 0 \in T
    <2>1. <<>> \in Seq(S) OBVIOUS
    <2> QED BY <1>9, <2>1
  <1>11. ASSUME NEW i \in Nat, i \in T PROVE i + 1 \in T
    <2> SUFFICES ASSUME i + 1 <= n PROVE kept[i + 1] \in Seq(S) OBVIOUS
    <2>1. i <= n /\ i + 1 \in 1..n /\ (i + 1) - 1 = i BY <1>2
    <2>2. kept[i] \in Seq(S) BY <1>11, <2>1
    <2>3. kept[i + 1] = IF history[i + 1] = text THEN kept[i]
                        ELSE Append(kept[i], history[i + 1])
      BY <1>9, <2>1
    <2> QED BY <1>2, <2>1, <2>2, <2>3
  <1>12. n \in T
    <2> HIDE DEF T
    <2> QED BY <1>2, <1>10, <1>11, Induction
  <1> QED BY <1>1, <1>2, <1>12

(***************************************************************************)
(* The page.  The invariant: types, a request behind every spinner, the    *)
(* text of the history where the user stands in it, and what this needs:   *)
(* while a text is sent the user is not in the history.                    *)
(***************************************************************************)
Fetches ==
  [what : {"status"}, of : Cwds \cup {""}]
    \cup [what : {"diff"}, of : Files]
    \cup [what : {"settings", "models"}, of : Settings \cup {""}]

AskedTypeOK == IsABag(asked) /\ DOMAIN asked \subseteq Fetches

SidebarTypeOK ==
  sidebar \in [open : BOOLEAN, cwd : Cwds \cup {""}, loading : BOOLEAN,
               error : BOOLEAN, selected : Files \cup {""},
               diff : Files \cup {"", "failed"}, loadingDiff : BOOLEAN]

PickerTypeOK ==
  /\ picker \in [offered : SUBSET Settings, setting : Settings \cup {""},
                 models : Settings \cup {""}]
  /\ chosen \in Settings \cup {""}

BarTypeOK ==
  /\ bar \in [text : Words \cup {""}, sending : {<<>>} \cup (Sessions \X Words),
              history : Seq(Words), cursor : Nat, saved : Words \cup {""}]
  /\ storage \in [history : Seq(Words), drafts : [Sessions -> Words \cup {""}]]

PageTypeOK ==
  /\ page \in [session : Sessions, connected : BOOLEAN,
               args : Settings \cup {""}, cwd : Cwds \cup {""}]
  /\ AskedTypeOK /\ SidebarTypeOK /\ PickerTypeOK /\ BarTypeOK

\* While a text is sent the user is not in the history, so that the text that
\* comes back does not replace one that is shown from it.
SendingLeavesHistory == bar.sending # <<>> => bar.cursor = 0

PageInv ==
  /\ PageTypeOK
  /\ SpinnerHasRequest
  /\ SendingLeavesHistory
  /\ BrowsingShowsHistory

\* The bag of one fetch.
LEMMA BagOfOne ==
  ASSUME NEW r
  PROVE  IsABag(Single(r)) /\ DOMAIN Single(r) = {r}
  <1> DEFINE S == {r}
  <1>1. Single(r) = SetToBag(S) BY DEF Single
  <1> HIDE DEF S
  <1>2. IsABag(SetToBag(S)) /\ DOMAIN SetToBag(S) = S BY BagOfSet
  <1> QED BY <1>1, <1>2 DEF S

\* The bag of none.
LEMMA BagOfNone == IsABag(EmptyBag) /\ DOMAIN EmptyBag = {}
  BY DEF IsABag, EmptyBag, SetToBag

\* More is asked for.
LEMMA AskMore ==
  ASSUME AskedTypeOK, NEW B, IsABag(B), DOMAIN B \subseteq Fetches
  PROVE  /\ IsABag(asked (+) B) /\ DOMAIN (asked (+) B) = DOMAIN asked \cup DOMAIN B
         /\ DOMAIN (asked (+) B) \subseteq Fetches
  <1> PICK A : A = asked OBVIOUS
  <1>1. IsABag(A) /\ DOMAIN A \subseteq Fetches BY DEF AskedTypeOK
  <1>2. IsABag(A (+) B) /\ DOMAIN (A (+) B) = DOMAIN A \cup DOMAIN B BY <1>1, BagPlus
  <1> QED BY <1>1, <1>2

\* One fetch is answered.
LEMMA AskLess ==
  ASSUME AskedTypeOK, NEW r
  PROVE  /\ IsABag(asked (-) Single(r)) /\ DOMAIN (asked (-) Single(r)) \subseteq DOMAIN asked
         /\ DOMAIN asked \ {r} \subseteq DOMAIN (asked (-) Single(r))
  <1> PICK A : A = asked OBVIOUS
  <1> PICK B : B = Single(r) OBVIOUS
  <1>1. IsABag(A) /\ IsABag(B) /\ DOMAIN B = {r} BY BagOfOne DEF AskedTypeOK
  <1>2. /\ IsABag(A (-) B) /\ DOMAIN (A (-) B) \subseteq DOMAIN A
        /\ DOMAIN A \ DOMAIN B \subseteq DOMAIN (A (-) B)
    BY <1>1, BagMinus
  <1> QED BY <1>1, <1>2

\* What the picker fetches.
LEMMA PickerBags ==
  ASSUME PickerTypeOK, NEW s \in Settings \cup {""}
  PROVE  /\ IsABag(PickerFetches(s)) /\ DOMAIN PickerFetches(s) \subseteq Fetches
         /\ IsABag(ModelsFetch(s)) /\ DOMAIN ModelsFetch(s) \subseteq Fetches
  <1>1. Fetch("settings", s) \in Fetches /\ Fetch("models", "") \in Fetches
        /\ Fetch("models", s) \in Fetches
    BY DEF Fetch, Fetches
  <1>2. IsABag(PickerFetches(s)) /\ DOMAIN PickerFetches(s) \subseteq Fetches
    <2> DEFINE S == {Fetch("settings", s), Fetch("models", "")}
    <2>1. PickerFetches(s) = SetToBag(S) BY DEF PickerFetches
    <2>2. S \subseteq Fetches BY <1>1
    <2> HIDE DEF S
    <2>3. IsABag(SetToBag(S)) /\ DOMAIN SetToBag(S) = S BY BagOfSet
    <2> QED BY <2>1, <2>2, <2>3
  <1>3. IsABag(ModelsFetch(s)) /\ DOMAIN ModelsFetch(s) \subseteq Fetches
    <2> PICK r : r = Fetch("models", s) OBVIOUS
    <2>1. IsABag(Single(r)) /\ DOMAIN Single(r) = {r} BY BagOfOne
    <2>2. ModelsFetch(s) \in {EmptyBag, Single(r)} BY DEF ModelsFetch
    <2> QED BY <1>1, <2>1, <2>2, BagOfNone
  <1> QED BY <1>2, <1>3

\* The history with a text on top.
LEMMA OnTopTyping ==
  ASSUME NEW history \in Seq(Words), NEW text \in Words
  PROVE  OnTop(history, text) \in Seq(Words)
  <1> DEFINE w == Without(history, text)
  <1>1. w \in Seq(Words) BY WithoutTyping
  <1> HIDE DEF w
  <1> DEFINE h == <<text>> \o w
  <1>2. h \in Seq(Words) BY <1>1
  <1> HIDE DEF h
  <1>3. HISTORY_MAX \in Nat BY PageAssumption
  <1>4. ASSUME NEW n \in 0..Len(h) PROVE SubSeq(h, 1, n) \in Seq(Words) BY <1>2
  <1>5. (IF Len(h) < HISTORY_MAX THEN Len(h) ELSE HISTORY_MAX) \in 0..Len(h)
    BY <1>2, <1>3
  <1>6. OnTop(history, text) = SubSeq(h, 1, IF Len(h) < HISTORY_MAX THEN Len(h) ELSE HISTORY_MAX)
    BY DEF OnTop, h, w
  <1> QED BY <1>4, <1>5, <1>6

(***************************************************************************)
(* The operations, by the part of the page that they change.               *)
(***************************************************************************)

\* What is shown to load is still fetched when more is, and when what is
\* answered is something else.
LEMMA StillFetched ==
  ASSUME SpinnerHasRequest, DOMAIN asked \subseteq DOMAIN asked',
         sidebar'.loading => sidebar.loading,
         sidebar'.loadingDiff => sidebar.loadingDiff
  PROVE  SpinnerHasRequest'
  BY DEF SpinnerHasRequest, Outstanding

\* Outside the history there is nothing to be shown from it.
LEMMA OutOfHistory ==
  ASSUME bar.cursor = 0
  PROVE  SendingLeavesHistory /\ BrowsingShowsHistory
  BY DEF SendingLeavesHistory, BrowsingShowsHistory

\* The same of the next state.
LEMMA OutOfHistoryNow ==
  ASSUME bar'.cursor = 0
  PROVE  SendingLeavesHistory' /\ BrowsingShowsHistory'
  BY DEF SendingLeavesHistory, BrowsingShowsHistory

\* The key "default" is a session of the page.
LEMMA DefaultSession == 0 \in Sessions
  <1>1. MaxSessions \in Nat BY PageAssumption
  <1> QED BY <1>1 DEF Sessions

\* What the user does in the sidebar.
LEMMA SidebarStep ==
  ASSUME PageInv, ToggleFiles \/ RefreshFiles \/ CloseDiff \/ \E f \in Files : LoadDiff(f)
  PROVE  PageInv'
  <1>0. /\ PageTypeOK /\ SpinnerHasRequest /\ SendingLeavesHistory
        /\ BrowsingShowsHistory /\ AskedTypeOK /\ SidebarTypeOK
    BY DEF PageInv, PageTypeOK
  <1>1. UNCHANGED <<page, picker, bar, storage, chosen>>
    BY DEF ToggleFiles, RefreshFiles, CloseDiff, LoadDiff, sidebarOthers
  <1>2. SendingLeavesHistory' /\ BrowsingShowsHistory'
    BY <1>0, <1>1 DEF SendingLeavesHistory, BrowsingShowsHistory
  <1>3. SidebarTypeOK' /\ AskedTypeOK' /\ SpinnerHasRequest' => PageInv'
    BY <1>0, <1>1, <1>2 DEF PageInv, PageTypeOK, PickerTypeOK, BarTypeOK
  <1>4. ASSUME NEW what, NEW of, Fetch(what, of) \in Fetches,
               asked' = asked (+) Single(Fetch(what, of))
        PROVE  /\ AskedTypeOK' /\ DOMAIN asked \subseteq DOMAIN asked'
               /\ \E r \in DOMAIN asked' : r.what = what
    <2> PICK r : r = Fetch(what, of) OBVIOUS
    <2>1. IsABag(Single(r)) /\ DOMAIN Single(r) = {r} BY BagOfOne
    <2>2. IsABag(asked') /\ DOMAIN asked' = DOMAIN asked \cup {r} /\ DOMAIN asked' \subseteq Fetches
      BY <1>0, <1>4, <2>1, AskMore
    <2>3. r.what = what BY DEF Fetch
    <2> QED BY <2>2, <2>3 DEF AskedTypeOK
  <1>5. Fetch("status", page.cwd) \in Fetches /\ \A f \in Files : Fetch("diff", f) \in Fetches
    BY <1>0 DEF Fetch, Fetches, PageTypeOK
  <1>6. CASE RefreshFiles
    <2>1. /\ sidebar' = [sidebar EXCEPT !.loading = TRUE, !.error = FALSE]
          /\ asked' = asked (+) Single(Fetch("status", page.cwd))
      BY <1>6 DEF RefreshFiles, LoadGitStatus
    <2>2. AskedTypeOK' /\ DOMAIN asked \subseteq DOMAIN asked'
          /\ \E r \in DOMAIN asked' : r.what = "status"
      BY <1>4, <1>5, <2>1
    <2>3. SidebarTypeOK' /\ sidebar'.loadingDiff = sidebar.loadingDiff
      BY <1>0, <2>1 DEF SidebarTypeOK
    <2>4. SpinnerHasRequest' BY <1>0, <2>2, <2>3 DEF SpinnerHasRequest, Outstanding
    <2> QED BY <1>3, <2>2, <2>3, <2>4
  <1>7. CASE CloseDiff
    <2>1. sidebar' = [sidebar EXCEPT !.selected = ""] /\ asked' = asked
      BY <1>7 DEF CloseDiff
    <2>2. SidebarTypeOK' /\ sidebar'.loading = sidebar.loading
          /\ sidebar'.loadingDiff = sidebar.loadingDiff
      BY <1>0, <2>1 DEF SidebarTypeOK
    <2>3. AskedTypeOK' BY <1>0, <2>1 DEF AskedTypeOK
    <2>4. SpinnerHasRequest' BY <1>0, <2>1, <2>2, StillFetched
    <2> QED BY <1>3, <2>2, <2>3, <2>4
  <1>8. ASSUME NEW f \in Files, LoadDiff(f) PROVE PageInv'
    <2>1. /\ sidebar' = [sidebar EXCEPT !.selected = f, !.loadingDiff = TRUE]
          /\ asked' = asked (+) Single(Fetch("diff", f))
      BY <1>8 DEF LoadDiff
    <2>2. AskedTypeOK' /\ DOMAIN asked \subseteq DOMAIN asked'
          /\ \E r \in DOMAIN asked' : r.what = "diff"
      BY <1>4, <1>5, <2>1
    <2>3. SidebarTypeOK' /\ sidebar'.loading = sidebar.loading
      BY <1>0, <2>1 DEF SidebarTypeOK
    <2>4. SpinnerHasRequest' BY <1>0, <2>2, <2>3 DEF SpinnerHasRequest, Outstanding
    <2> QED BY <1>3, <2>2, <2>3, <2>4
  <1>9. CASE ToggleFiles
    <2>1. CASE sidebar' = openedSidebar /\ asked' = asked (+) Single(Fetch("status", page.cwd))
      <3>1. AskedTypeOK' /\ DOMAIN asked \subseteq DOMAIN asked'
            /\ \E r \in DOMAIN asked' : r.what = "status"
        BY <1>4, <1>5, <2>1
      <3>2. SidebarTypeOK' /\ sidebar'.loadingDiff = FALSE
        BY <2>1 DEF SidebarTypeOK, openedSidebar, closedSidebar
      <3>3. SpinnerHasRequest' BY <3>1, <3>2 DEF SpinnerHasRequest, Outstanding
      <3> QED BY <1>3, <3>1, <3>2, <3>3
    <2>2. CASE /\ sidebar' = closedSidebar
               /\ asked' = Restrict(asked, {r \in DOMAIN asked : OfPicker(r)})
      <3> DEFINE S == {r \in DOMAIN asked : OfPicker(r)}
      <3>1. S \subseteq DOMAIN asked /\ IsABag(asked) BY <1>0 DEF AskedTypeOK
      <3>2. asked' = Restrict(asked, S) BY <2>2
      <3> HIDE DEF S
      <3>3. IsABag(Restrict(asked, S)) /\ DOMAIN Restrict(asked, S) = S
        BY <3>1, BagRestricted
      <3>4. AskedTypeOK' BY <1>0, <3>1, <3>2, <3>3 DEF AskedTypeOK
      <3>5. SidebarTypeOK' /\ sidebar'.loadingDiff = FALSE /\ sidebar'.loading = FALSE
        BY <2>2 DEF SidebarTypeOK, closedSidebar
      <3>6. SpinnerHasRequest' BY <3>5 DEF SpinnerHasRequest
      <3> QED BY <1>3, <3>4, <3>5, <3>6
    <2> QED BY <1>9, <2>1, <2>2 DEF ToggleFiles
  <1> QED BY <1>6, <1>7, <1>8, <1>9

\* The box: typing, sending and going through the history.
LEMMA BarStep ==
  ASSUME PageInv,
         \/ \E t \in Words : Edit(t)
         \/ handleSend \/ Up \/ Down
         \/ \E ok \in BOOLEAN : SendEnds(ok)
  PROVE  PageInv'
  <1>0. /\ PageTypeOK /\ SpinnerHasRequest /\ SendingLeavesHistory
        /\ BrowsingShowsHistory /\ BarTypeOK /\ AskedTypeOK /\ SidebarTypeOK /\ PickerTypeOK
    BY DEF PageInv, PageTypeOK
  <1>1. UNCHANGED <<page, asked, sidebar, picker, chosen>>
    BY DEF Edit, handleSend, Up, Down, SendEnds, barOthers
  <1>2. SpinnerHasRequest' BY <1>0, <1>1 DEF SpinnerHasRequest, Outstanding
  <1>3. BarTypeOK' /\ SendingLeavesHistory' /\ BrowsingShowsHistory' => PageInv'
    BY <1>0, <1>1, <1>2 DEF PageInv, PageTypeOK, AskedTypeOK, SidebarTypeOK, PickerTypeOK
  <1>4. /\ bar \in [text : Words \cup {""}, sending : {<<>>} \cup (Sessions \X Words),
                    history : Seq(Words), cursor : Nat, saved : Words \cup {""}]
        /\ storage \in [history : Seq(Words), drafts : [Sessions -> Words \cup {""}]]
        /\ page.session \in Sessions
    BY <1>0 DEF BarTypeOK, PageTypeOK
  <1>a. PICK h : h = bar.history OBVIOUS
  <1>b. PICK c : c = bar.cursor OBVIOUS
  <1>c. h \in Seq(Words) /\ c \in Nat BY <1>4, <1>a, <1>b
  <1>d. Len(h) \in Nat /\ \A i \in 1..Len(h) : h[i] \in Words BY <1>c
  <1>5. ASSUME NEW t \in Words, Edit(t) PROVE PageInv'
    <2>1. /\ bar' = [bar EXCEPT !.text = t, !.cursor = 0]
          /\ storage' = [storage EXCEPT !.drafts[page.session] = t]
      BY <1>5 DEF Edit, Put, saveDraft
    <2>2. BarTypeOK' BY <1>4, <2>1 DEF BarTypeOK
    <2>3. bar'.cursor = 0 BY <1>4, <2>1
    <2> QED BY <1>3, <2>2, <2>3 DEF SendingLeavesHistory, BrowsingShowsHistory
  <1>6. CASE handleSend
    <2> DEFINE top == OnTop(bar.history, bar.text)
    <2>1. /\ bar' = [bar EXCEPT !.history = top, !.cursor = 0, !.text = "",
                                !.sending = <<page.session, bar.text>>]
          /\ storage' = [storage EXCEPT !.history = top, !.drafts[page.session] = ""]
          /\ bar.text # ""
      BY <1>6 DEF handleSend
    <2>2. bar.text \in Words /\ bar.history \in Seq(Words) BY <1>4, <2>1
    <2>3. top \in Seq(Words) BY <2>2, OnTopTyping
    <2> HIDE DEF top
    <2>4. BarTypeOK' BY <1>4, <2>1, <2>2, <2>3 DEF BarTypeOK
    <2>5. bar'.cursor = 0 BY <1>4, <2>1
    <2> QED BY <1>3, <2>4, <2>5 DEF SendingLeavesHistory, BrowsingShowsHistory
  <1>7. ASSUME NEW ok \in BOOLEAN, SendEnds(ok) PROVE PageInv'
    <2>1. bar.sending # <<>> /\ bar.sending \in Sessions \X Words
          /\ bar.sending[1] \in Sessions /\ bar.sending[2] \in Words
      BY <1>4, <1>7 DEF SendEnds, Free
    <2>2. bar.cursor = 0 BY <1>0, <2>1 DEF SendingLeavesHistory
    <2>3. CASE ok
      <3>1. bar' = [bar EXCEPT !.sending = <<>>] /\ storage' = storage
        BY <1>7, <2>3 DEF SendEnds
      <3>2. BarTypeOK' BY <1>4, <3>1 DEF BarTypeOK
      <3>3. bar'.cursor = 0 BY <1>4, <2>2, <3>1
      <3> QED BY <1>3, <3>2, <3>3 DEF SendingLeavesHistory, BrowsingShowsHistory
    <2>4. CASE ~ ok
      <3>1. /\ bar' = [bar EXCEPT !.sending = <<>>, !.text = bar.sending[2]]
            /\ storage' = [storage EXCEPT !.drafts[bar.sending[1]] = bar.sending[2]]
        BY <1>7, <2>4 DEF SendEnds, saveDraft
      <3>2. BarTypeOK' BY <1>4, <2>1, <3>1 DEF BarTypeOK
      <3>3. bar'.cursor = 0 BY <1>4, <2>2, <3>1
      <3> QED BY <1>3, <3>2, <3>3 DEF SendingLeavesHistory, BrowsingShowsHistory
    <2> QED BY <2>3, <2>4
  <1>8. CASE Up
    <2>1. /\ bar.sending = <<>> /\ bar.cursor < Len(bar.history) /\ storage' = storage
          /\ bar' = [bar EXCEPT !.cursor = @ + 1, !.text = bar.history[bar.cursor + 1],
                                !.saved = IF bar.cursor = 0 THEN bar.text ELSE @]
      BY <1>8 DEF Up, Free
    <2>2. c + 1 \in 1..Len(h) /\ h[c + 1] \in Words /\ c + 1 \in Nat /\ c + 1 > 0
      <3>1. c < Len(h) BY <2>1, <1>a, <1>b
      <3> QED BY <1>c, <1>d, <3>1
    <2>3. /\ bar'.cursor = c + 1 /\ bar'.history = h /\ bar'.text = h[c + 1]
          /\ bar'.sending = <<>>
      BY <1>4, <1>a, <1>b, <2>1
    <2>4. BarTypeOK'
      <3> PICK w \in Words : w = h[c + 1] BY <2>2
      <3> PICK d \in Nat : d = c + 1 BY <2>2
      <3> PICK v : v = IF bar.cursor = 0 THEN bar.text ELSE bar.saved OBVIOUS
      <3>1. bar' = [bar EXCEPT !.cursor = d, !.text = w, !.saved = v]
        BY <1>4, <1>a, <1>b, <2>1
      <3>2. v \in Words \cup {""} BY <1>4
      <3> QED BY <1>4, <2>1, <3>1, <3>2 DEF BarTypeOK
    <2>5. BrowsingShowsHistory' BY <2>2, <2>3 DEF BrowsingShowsHistory
    <2> QED BY <1>3, <2>3, <2>4, <2>5 DEF SendingLeavesHistory
  <1>9. CASE Down
    <2>1. /\ bar.sending = <<>> /\ bar.cursor > 0 /\ storage' = storage
          /\ bar' = [bar EXCEPT !.cursor = @ - 1,
                                !.text = IF bar.cursor = 1 THEN bar.saved
                                         ELSE bar.history[bar.cursor - 1]]
      BY <1>9 DEF Down, Free
    <2>2. c \in 1..Len(h) /\ c - 1 \in Nat
      <3>1. c > 0 /\ c <= Len(h) BY <1>0, <1>a, <1>b, <2>1 DEF BrowsingShowsHistory
      <3> QED BY <1>c, <1>d, <3>1
    <2>3. PICK v : v = IF c = 1 THEN bar.saved ELSE h[c - 1] OBVIOUS
    <2>4. v \in Words \cup {""}
      <3>1. c # 1 => c - 1 \in 1..Len(h) BY <1>c, <1>d, <2>2
      <3>2. c # 1 => h[c - 1] \in Words BY <1>d, <3>1
      <3>3. bar.saved \in Words \cup {""} BY <1>4
      <3> QED BY <2>3, <3>2, <3>3
    <2>5. PICK d \in Nat : d = c - 1 BY <2>2
    <2>6. bar' = [bar EXCEPT !.cursor = d, !.text = v]
      BY <1>4, <1>a, <1>b, <2>1, <2>3, <2>5
    <2>7. BarTypeOK' BY <1>4, <2>1, <2>4, <2>6 DEF BarTypeOK
    <2>8. bar'.cursor = d /\ bar'.history = h /\ bar'.text = v /\ bar'.sending = <<>>
      BY <1>4, <1>a, <2>1, <2>6
    <2>9. d > 0 => d <= Len(h) /\ v = h[d]
      BY <1>c, <1>d, <2>2, <2>3, <2>5
    <2>10. BrowsingShowsHistory' BY <2>8, <2>9 DEF BrowsingShowsHistory
    <2> QED BY <1>3, <2>7, <2>8, <2>10 DEF SendingLeavesHistory
  <1> QED BY <1>5, <1>6, <1>7, <1>8, <1>9

\* What the page is told, and what the picker then fetches.
LEMMA PageStep ==
  ASSUME PageInv,
         \/ \E s \in Settings : SelectSetting(s)
         \/ \E s \in Sessions : SessionChanges(s)
         \/ Connected \/ Disconnected \/ Reload
         \/ \E args \in Settings \cup {""}, cwd \in Cwds : RuntimeLoaded(args, cwd)
  PROVE  PageInv'
  <1>0. /\ PageTypeOK /\ SpinnerHasRequest /\ SendingLeavesHistory
        /\ BrowsingShowsHistory /\ BarTypeOK /\ AskedTypeOK /\ SidebarTypeOK /\ PickerTypeOK
        /\ page \in [session : Sessions, connected : BOOLEAN,
                     args : Settings \cup {""}, cwd : Cwds \cup {""}]
    BY DEF PageInv, PageTypeOK
  <1>1. ASSUME AskedTypeOK', DOMAIN asked \subseteq DOMAIN asked', UNCHANGED sidebar
        PROVE  SpinnerHasRequest' /\ SidebarTypeOK'
    BY <1>0, <1>1, StillFetched DEF SidebarTypeOK
  <1>2. ASSUME UNCHANGED <<bar, storage>>
        PROVE  BarTypeOK' /\ SendingLeavesHistory' /\ BrowsingShowsHistory'
    BY <1>0, <1>2 DEF BarTypeOK, SendingLeavesHistory, BrowsingShowsHistory
  <1>3. ASSUME UNCHANGED asked PROVE AskedTypeOK' /\ DOMAIN asked \subseteq DOMAIN asked'
    BY <1>0, <1>3 DEF AskedTypeOK
  <1>4. ASSUME UNCHANGED <<picker, chosen>> PROVE PickerTypeOK'
    BY <1>0, <1>4 DEF PickerTypeOK
  <1>5. ASSUME NEW B, IsABag(B), DOMAIN B \subseteq Fetches, asked' = asked (+) B
        PROVE  AskedTypeOK' /\ DOMAIN asked \subseteq DOMAIN asked'
    BY <1>0, <1>5, AskMore DEF AskedTypeOK
  <1>6. ASSUME NEW s \in Settings, SelectSetting(s) PROVE PageInv'
    <2>1. /\ picker' = [picker EXCEPT !.setting = s] /\ chosen' = s
          /\ asked' = asked (+) ModelsFetch(s)
          /\ UNCHANGED <<page, sidebar, bar, storage>>
      BY <1>6 DEF SelectSetting
    <2>2. AskedTypeOK' /\ DOMAIN asked \subseteq DOMAIN asked'
      <3>1. IsABag(ModelsFetch(s)) /\ DOMAIN ModelsFetch(s) \subseteq Fetches
        BY <1>0, PickerBags
      <3> QED BY <1>5, <2>1, <3>1
    <2>3. PickerTypeOK' BY <1>0, <2>1 DEF PickerTypeOK
    <2> QED BY <1>0, <1>1, <1>2, <2>1, <2>2, <2>3 DEF PageInv, PageTypeOK
  <1>7. ASSUME NEW s \in Sessions, SessionChanges(s) PROVE PageInv'
    <2>1. /\ page' = [page EXCEPT !.session = s]
          /\ bar' = [bar EXCEPT !.text = storage.drafts[s], !.cursor = 0]
          /\ UNCHANGED <<asked, sidebar, picker, storage, chosen>>
      BY <1>7 DEF SessionChanges
    <2>2. BarTypeOK' /\ bar'.cursor = 0 BY <1>0, <2>1 DEF BarTypeOK
    <2>3. SendingLeavesHistory' /\ BrowsingShowsHistory'
      BY <2>2, OutOfHistoryNow
    <2>4. page' \in [session : Sessions, connected : BOOLEAN,
                     args : Settings \cup {""}, cwd : Cwds \cup {""}]
      BY <1>0, <2>1
    <2> QED BY <1>1, <1>3, <1>4, <2>1, <2>2, <2>3, <2>4 DEF PageInv, PageTypeOK
  <1>8. CASE Connected
    <2>1. /\ page' = [page EXCEPT !.connected = TRUE]
          /\ asked' = asked (+) PickerFetches(page.args)
          /\ UNCHANGED <<sidebar, picker, bar, storage, chosen>>
      BY <1>8 DEF Connected
    <2>2. AskedTypeOK' /\ DOMAIN asked \subseteq DOMAIN asked'
      <3>1. PICK s \in Settings \cup {""} : s = page.args BY <1>0
      <3>2. IsABag(PickerFetches(s)) /\ DOMAIN PickerFetches(s) \subseteq Fetches
        BY <1>0, PickerBags
      <3> QED BY <1>5, <2>1, <3>1, <3>2
    <2>3. page' \in [session : Sessions, connected : BOOLEAN,
                     args : Settings \cup {""}, cwd : Cwds \cup {""}]
      BY <1>0, <2>1
    <2> QED BY <1>1, <1>2, <1>4, <2>1, <2>2, <2>3 DEF PageInv, PageTypeOK
  <1>9. CASE Disconnected
    <2>1. /\ page' = [page EXCEPT !.connected = FALSE]
          /\ UNCHANGED <<asked, sidebar, picker, bar, storage, chosen>>
      BY <1>9 DEF Disconnected
    <2>2. page' \in [session : Sessions, connected : BOOLEAN,
                     args : Settings \cup {""}, cwd : Cwds \cup {""}]
      BY <1>0, <2>1
    <2> QED BY <1>1, <1>2, <1>3, <1>4, <2>1, <2>2 DEF PageInv, PageTypeOK
  <1>10. CASE Reload
    <2>1. /\ page' = newPage /\ asked' = EmptyBag
          /\ sidebar' = closedSidebar /\ picker' = newPicker
          /\ bar' = newBar(storage.history, storage.drafts[0])
          /\ chosen' = "" /\ storage' = storage
      BY <1>10 DEF Reload
    <2>2. 0 \in Sessions BY DefaultSession
    <2>3. BarTypeOK' /\ bar'.cursor = 0 BY <1>0, <2>1, <2>2 DEF BarTypeOK, newBar
    <2>4. AskedTypeOK' BY <2>1, BagOfNone DEF AskedTypeOK
    <2>5. SidebarTypeOK' /\ SpinnerHasRequest'
      BY <2>1 DEF SidebarTypeOK, SpinnerHasRequest, closedSidebar
    <2>6. PickerTypeOK' BY <2>1 DEF PickerTypeOK, newPicker
    <2>7. page' \in [session : Sessions, connected : BOOLEAN,
                     args : Settings \cup {""}, cwd : Cwds \cup {""}]
      BY <2>1, <2>2 DEF newPage
    <2>8. SendingLeavesHistory' /\ BrowsingShowsHistory' BY <2>3, OutOfHistoryNow
    <2> QED BY <2>3, <2>4, <2>5, <2>6, <2>7, <2>8 DEF PageInv, PageTypeOK
  <1>11. ASSUME NEW args \in Settings \cup {""}, NEW cwd \in Cwds, RuntimeLoaded(args, cwd)
         PROVE  PageInv'
    <2> DEFINE moved == sidebar.open /\ cwd # page.cwd
               P == IF page.connected THEN PickerFetches(args) ELSE EmptyBag
               Q == IF moved THEN Single(Fetch("status", cwd)) ELSE EmptyBag
    <2>1. /\ page' = [page EXCEPT !.args = args, !.cwd = cwd]
          /\ sidebar' = IF moved THEN LoadGitStatus(sidebar) ELSE sidebar
          /\ asked' = asked (+) P (+) Q
          /\ UNCHANGED <<picker, bar, storage, chosen>>
      BY <1>11 DEF RuntimeLoaded
    <2>2. IsABag(P) /\ DOMAIN P \subseteq Fetches
      <3>1. IsABag(PickerFetches(args)) /\ DOMAIN PickerFetches(args) \subseteq Fetches
        BY <1>0, PickerBags
      <3> QED BY <3>1, BagOfNone
    <2>3. IsABag(Q) /\ DOMAIN Q \subseteq Fetches
          /\ (moved => \E r \in DOMAIN Q : r.what = "status")
      <3> PICK r : r = Fetch("status", cwd) OBVIOUS
      <3>1. r \in Fetches /\ r.what = "status" BY DEF Fetch, Fetches
      <3>2. IsABag(Single(r)) /\ DOMAIN Single(r) = {r} BY BagOfOne
      <3> QED BY <3>1, <3>2, BagOfNone
    <2>4. AskedTypeOK' /\ DOMAIN asked \subseteq DOMAIN asked' /\ DOMAIN Q \subseteq DOMAIN asked'
      <3> HIDE DEF P, Q, moved
      <3>1. PICK A : A = asked (+) P OBVIOUS
      <3>2. IsABag(A) /\ DOMAIN A = DOMAIN asked \cup DOMAIN P /\ DOMAIN A \subseteq Fetches
        BY <1>0, <2>2, <3>1, AskMore
      <3>3. IsABag(A (+) Q) /\ DOMAIN (A (+) Q) = DOMAIN A \cup DOMAIN Q
        BY <2>3, <3>2, BagPlus
      <3>4. asked' = A (+) Q BY <2>1, <3>1
      <3> QED BY <2>3, <3>2, <3>3, <3>4 DEF AskedTypeOK
    <2>5. SidebarTypeOK' /\ sidebar'.loadingDiff = sidebar.loadingDiff
          /\ (~ moved => sidebar'.loading = sidebar.loading)
      <3> HIDE DEF moved
      <3> QED BY <1>0, <2>1 DEF SidebarTypeOK, LoadGitStatus
    <2>6. SpinnerHasRequest'
      <3> HIDE DEF P, Q, moved
      <3> QED BY <1>0, <2>3, <2>4, <2>5 DEF SpinnerHasRequest, Outstanding
    <2>7. page' \in [session : Sessions, connected : BOOLEAN,
                     args : Settings \cup {""}, cwd : Cwds \cup {""}]
      BY <1>0, <2>1
    <2> HIDE DEF P, Q, moved
    <2> QED BY <1>2, <1>4, <2>1, <2>4, <2>5, <2>6, <2>7 DEF PageInv, PageTypeOK
  <1> QED BY <1>6, <1>7, <1>8, <1>9, <1>10, <1>11

\* An answer takes away the spinner of what it answers, and the request of no
\* other one.
LEMMA AnswerStep ==
  ASSUME PageInv, NEW ok \in BOOLEAN, NEW r \in DOMAIN asked, Answer(r, ok)
  PROVE  PageInv'
  <1>0. /\ PageTypeOK /\ SpinnerHasRequest /\ SendingLeavesHistory
        /\ BrowsingShowsHistory /\ BarTypeOK /\ AskedTypeOK /\ SidebarTypeOK /\ PickerTypeOK
    BY DEF PageInv, PageTypeOK
  <1>1. UNCHANGED <<page, bar, storage, chosen>> BY DEF Answer
  <1>2. SidebarTypeOK' /\ PickerTypeOK' /\ AskedTypeOK' /\ SpinnerHasRequest' => PageInv'
    BY <1>0, <1>1 DEF PageInv, PageTypeOK, BarTypeOK, SendingLeavesHistory, BrowsingShowsHistory
  <1> DEFINE rest == asked (-) Single(r)
  <1>3. /\ IsABag(rest) /\ DOMAIN rest \subseteq DOMAIN asked
        /\ DOMAIN asked \ {r} \subseteq DOMAIN rest
        /\ DOMAIN asked \subseteq Fetches
    BY <1>0, AskLess DEF AskedTypeOK
  <1>4. /\ r.what = "status" => r.of \in Cwds \cup {""}
        /\ r.what = "diff" => r.of \in Files
        /\ r.what \in {"settings", "models"} => r.of \in Settings \cup {""}
    BY <1>3 DEF Fetches
  <1>5. CASE r.what = "status" /\ sidebar' = StatusAnswered(r.of, ok) /\ asked' = rest
             /\ UNCHANGED picker
    <2>1. PICK c \in Cwds \cup {""} : c = IF ok THEN r.of ELSE sidebar.cwd
      BY <1>0, <1>4, <1>5 DEF SidebarTypeOK
    <2>2. sidebar' = [sidebar EXCEPT !.loading = FALSE, !.cwd = c, !.error = @ \/ ~ ok]
      BY <1>5, <2>1 DEF StatusAnswered
    <2>3. PICK e \in BOOLEAN : e = (sidebar.error \/ ~ ok) OBVIOUS
    <2>4. sidebar' = [sidebar EXCEPT !.loading = FALSE, !.cwd = c, !.error = e]
      BY <2>2, <2>3
    <2>5. SidebarTypeOK' BY <1>0, <2>4 DEF SidebarTypeOK
    <2>6. ~ sidebar'.loading /\ sidebar'.loadingDiff = sidebar.loadingDiff
      BY <1>0, <2>4 DEF SidebarTypeOK
    <2>7. \A q \in DOMAIN asked : q.what = "diff" => q \in DOMAIN rest BY <1>3, <1>5
    <2> HIDE DEF rest
    <2>8. SpinnerHasRequest' BY <1>0, <1>5, <2>6, <2>7 DEF SpinnerHasRequest, Outstanding
    <2>9. AskedTypeOK' BY <1>3, <1>5 DEF AskedTypeOK
    <2>10. PickerTypeOK' BY <1>0, <1>1, <1>5 DEF PickerTypeOK
    <2> QED BY <1>2, <2>5, <2>8, <2>9, <2>10
  <1>6. CASE r.what = "diff" /\ sidebar' = DiffAnswered(r.of, ok) /\ asked' = rest
             /\ UNCHANGED picker
    <2>1. PICK d \in Files \cup {"", "failed"} : d = IF ok THEN r.of ELSE "failed"
      BY <1>4, <1>6
    <2>2. sidebar' = [sidebar EXCEPT !.loadingDiff = FALSE, !.diff = d]
      BY <1>6, <2>1 DEF DiffAnswered
    <2>3. SidebarTypeOK' BY <1>0, <2>2 DEF SidebarTypeOK
    <2>4. ~ sidebar'.loadingDiff /\ sidebar'.loading = sidebar.loading
      BY <1>0, <2>2 DEF SidebarTypeOK
    <2>5. \A q \in DOMAIN asked : q.what = "status" => q \in DOMAIN rest BY <1>3, <1>6
    <2> HIDE DEF rest
    <2>6. SpinnerHasRequest' BY <1>0, <1>6, <2>4, <2>5 DEF SpinnerHasRequest, Outstanding
    <2>7. AskedTypeOK' BY <1>3, <1>6 DEF AskedTypeOK
    <2>8. PickerTypeOK' BY <1>0, <1>1, <1>6 DEF PickerTypeOK
    <2> QED BY <1>2, <2>3, <2>6, <2>7, <2>8
  <1>7. ASSUME r.what \in {"settings", "models"}, UNCHANGED sidebar,
               DOMAIN rest \subseteq DOMAIN asked'
        PROVE  SidebarTypeOK' /\ SpinnerHasRequest'
    <2>1. \A q \in DOMAIN asked : q.what \in {"status", "diff"} => q \in DOMAIN asked'
      BY <1>3, <1>7
    <2> HIDE DEF rest
    <2> QED BY <1>0, <1>7, <2>1 DEF SidebarTypeOK, SpinnerHasRequest, Outstanding
  <1>8. CASE r.what = "models" /\ asked' = rest /\ UNCHANGED sidebar
             /\ picker' = IF ok THEN [picker EXCEPT !.models = r.of] ELSE picker
    <2>1. PickerTypeOK' BY <1>0, <1>1, <1>4, <1>8 DEF PickerTypeOK
    <2>2. AskedTypeOK' BY <1>3, <1>8 DEF AskedTypeOK
    <2> QED BY <1>2, <1>7, <1>8, <2>1, <2>2
  <1>9. CASE r.what = "settings" /\ asked' = rest /\ UNCHANGED <<sidebar, picker>>
    <2>1. PickerTypeOK' BY <1>0, <1>1, <1>9 DEF PickerTypeOK
    <2>2. AskedTypeOK' BY <1>3, <1>9 DEF AskedTypeOK
    <2> QED BY <1>2, <1>7, <1>9, <2>1, <2>2
  <1>10. ASSUME NEW data \in SUBSET Settings, NEW first \in Settings,
                data # {} => first \in data, UNCHANGED sidebar, r.what = "settings",
                picker' = [picker EXCEPT !.offered = Offered(data, r.of),
                                         !.setting = SettingAfter(data, r.of, first)],
                asked' = rest (+) ModelsFetch(SettingAfter(data, r.of, first))
         PROVE  PageInv'
    <2>1. PICK s \in Settings \cup {""} : s = SettingAfter(data, r.of, first)
      BY <1>0, <1>4, <1>10 DEF SettingAfter, PickerTypeOK
    <2>2. PICK o \in SUBSET Settings : o = Offered(data, r.of)
      BY <1>4, <1>10 DEF Offered
    <2>3. picker' = [picker EXCEPT !.offered = o, !.setting = s]
      BY <1>10, <2>1, <2>2
    <2>4. PickerTypeOK' BY <1>0, <1>1, <2>3 DEF PickerTypeOK
    <2>5. PICK B : B = ModelsFetch(s) OBVIOUS
    <2>6. IsABag(B) /\ DOMAIN B \subseteq Fetches BY <1>0, <2>5, PickerBags
    <2>7. asked' = rest (+) B BY <1>10, <2>1, <2>5
    <2> HIDE DEF rest
    <2>8. IsABag(asked') /\ DOMAIN asked' = DOMAIN rest \cup DOMAIN B
      BY <1>3, <2>6, <2>7, BagPlus
    <2>9. AskedTypeOK' BY <1>3, <2>6, <2>8 DEF AskedTypeOK
    <2>10. DOMAIN rest \subseteq DOMAIN asked' BY <2>8
    <2> QED BY <1>2, <1>7, <1>10, <2>4, <2>9, <2>10
  <1> QED BY <1>5, <1>6, <1>8, <1>9, <1>10 DEF Answer

\* The invariant of the page holds of every behaviour.
LEMMA PageInvariant == PageSpec => []PageInv
  <1>1. PageInit => PageInv
    <2> SUFFICES ASSUME PageInit PROVE PageInv OBVIOUS
    <2>1. PICK history \in Histories :
            /\ bar = newBar(history, "")
            /\ storage = [history |-> history, drafts |-> [s \in Sessions |-> ""]]
      BY DEF PageInit
    <2>2. history \in Seq(Words) /\ 0 \in Sessions BY PageAssumption, DefaultSession
    <2>3. BarTypeOK /\ bar.cursor = 0 BY <2>1, <2>2 DEF BarTypeOK, newBar
    <2>4. AskedTypeOK BY BagOfNone DEF PageInit, AskedTypeOK
    <2>5. SidebarTypeOK /\ SpinnerHasRequest
      BY DEF PageInit, SidebarTypeOK, SpinnerHasRequest, closedSidebar
    <2>6. PickerTypeOK BY DEF PageInit, PickerTypeOK, newPicker
    <2>7. page \in [session : Sessions, connected : BOOLEAN,
                    args : Settings \cup {""}, cwd : Cwds \cup {""}]
      BY <2>2 DEF PageInit, newPage
    <2>8. SendingLeavesHistory /\ BrowsingShowsHistory BY <2>3, OutOfHistory
    <2> QED BY <2>3, <2>4, <2>5, <2>6, <2>7, <2>8 DEF PageInv, PageTypeOK
  <1>2. PageInv /\ [PageNext]_pageVars => PageInv'
    <2> SUFFICES ASSUME PageInv, [PageNext]_pageVars PROVE PageInv' OBVIOUS
    <2>1. CASE UNCHANGED pageVars
      <3>1. UNCHANGED <<page, asked, sidebar, picker, bar, storage, chosen>>
        BY <2>1 DEF pageVars
      <3>2. AskedTypeOK' <=> AskedTypeOK BY <3>1 DEF AskedTypeOK
      <3>3. SidebarTypeOK' <=> SidebarTypeOK BY <3>1 DEF SidebarTypeOK
      <3>4. PickerTypeOK' <=> PickerTypeOK BY <3>1 DEF PickerTypeOK
      <3>5. BarTypeOK' <=> BarTypeOK BY <3>1 DEF BarTypeOK
      <3>6. SpinnerHasRequest' <=> SpinnerHasRequest
        BY <3>1 DEF SpinnerHasRequest, Outstanding
      <3>7. /\ SendingLeavesHistory' <=> SendingLeavesHistory
            /\ BrowsingShowsHistory' <=> BrowsingShowsHistory
        BY <3>1 DEF SendingLeavesHistory, BrowsingShowsHistory
      <3> QED BY <3>1, <3>2, <3>3, <3>4, <3>5, <3>6, <3>7 DEF PageInv, PageTypeOK
    <2>2. CASE PageNext BY <2>2, SidebarStep, BarStep, PageStep, AnswerStep DEF PageNext
    <2> QED BY <2>1, <2>2
  <1> QED BY <1>1, <1>2, PTL DEF PageSpec

\* Whatever is fetched, answered, opened and closed: every variable of the page
\* keeps its type, and what is asked for is a bag of fetches.
THEOREM PageTypeCorrect == PageSpec => []PageTypeOK
  <1>1. PageInv => PageTypeOK BY DEF PageInv
  <1> QED BY <1>1, PageInvariant, PTL

\* The page shows nothing to load without a request that will end it.
THEOREM SpinnersHaveRequests == PageSpec => []SpinnerHasRequest
  <1>1. PageInv => SpinnerHasRequest BY DEF PageInv
  <1> QED BY <1>1, PageInvariant, PTL

\* A user who goes through the history sees what stands there.
THEOREM HistoryIsShown == PageSpec => []BrowsingShowsHistory
  <1>1. PageInv => BrowsingShowsHistory BY DEF PageInv
  <1> QED BY <1>1, PageInvariant, PTL
=============================================================================
