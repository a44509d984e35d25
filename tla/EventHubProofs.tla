--------------------------- MODULE EventHubProofs ---------------------------
(***************************************************************************)
(* Proofs about EventHub, for any number of connections and of events, and *)
(* for any capacities.                                                     *)
(***************************************************************************)
EXTENDS EventHub, FiniteSetTheorems, SequenceTheorems, TLAPS

(***************************************************************************)
(* The inductive invariant.  What a connection carries is in its four      *)
(* parts, each in order, and each before those behind it; and all of it    *)
(* has been broadcast.                                                     *)
(***************************************************************************)
EventsOf(q) == {e \in ToSet(q) : IsEvent(e)}

Shown(c) == EventsOf(shown[c])
Sent(c) == EventsOf(send[c])
Hand(c) == IF bridge[c] = "holding" THEN {held[c]} ELSE {}
Queue(c) == EventsOf(subCh[c])

Before(A, B) == \A a \in A, b \in B : a < b

\* The parts of a connection, each in order.
PartsInOrder(c) == InOrder(shown[c]) /\ InOrder(send[c]) /\ InOrder(subCh[c])

\* What is further on was broadcast before what is behind it.
PartsInLine(c) ==
  /\ Before(Shown(c), Sent(c) \cup Hand(c) \cup Queue(c))
  /\ Before(Sent(c), Hand(c) \cup Queue(c))
  /\ Before(Hand(c), Queue(c))

AllCarried(c) == Shown(c) \cup Sent(c) \cup Hand(c) \cup Queue(c)

AllBroadcast(c) == AllCarried(c) \subseteq 1..published

InLine(c) == PartsInOrder(c) /\ PartsInLine(c) /\ AllBroadcast(c)

\* The replay buffer is in order, and holds what was broadcast.
ReplayInOrder == InOrder(replayBuf) /\ EventsOf(replayBuf) \subseteq 1..published

\* A connection that has not been used carries nothing.
Unused(c) ==
  reader[c] = "off" =>
    /\ c \notin subscribers /\ dropped[c] = 0
    /\ shown[c] = <<>> /\ send[c] = <<>> /\ bridge[c] = "off"

\* A connection that has not been healthy all the time may have lost more.
Counted(c) ==
  c \in subscribers /\ ~ canceled[c] /\ writer[c] = "running" =>
    published - joined[c]
      = dropped[c] + Cardinality({e \in AllCarried(c) : e > joined[c]})

\* What keeps the counters within their types.
CountersBounded == \A c \in Conns : dropped[c] <= published /\ joined[c] <= published

HubInv ==
  /\ TypeOK
  /\ CountersBounded
  /\ ReplayInOrder
  /\ \A c \in Conns : InLine(c) /\ Unused(c) /\ Counted(c)

(***************************************************************************)
(* Queues.                                                                 *)
(***************************************************************************)

\* What Append does to the events of a queue and to their order.
LEMMA Appended ==
  ASSUME NEW q \in Seq(Nat), NEW e \in Nat
  PROVE  /\ IsEvent(e) => EventsOf(Append(q, e)) = EventsOf(q) \cup {e}
         /\ ~ IsEvent(e) => EventsOf(Append(q, e)) = EventsOf(q)
         /\ InOrder(q) /\ (IsEvent(e) => \A a \in EventsOf(q) : a < e)
              => InOrder(Append(q, e))
<1>1. /\ Len(q) \in Nat /\ DOMAIN q = 1..Len(q)
      /\ DOMAIN Append(q, e) = 1..(Len(q) + 1)
      /\ \A i \in 1..Len(q) : Append(q, e)[i] = q[i]
      /\ Append(q, e)[Len(q) + 1] = e
  OBVIOUS
<1>2. 1..(Len(q) + 1) = 1..Len(q) \cup {Len(q) + 1}
  BY <1>1
<1>3. ToSet(Append(q, e)) = ToSet(q) \cup {e}
  BY <1>1, <1>2 DEF ToSet
<1>4. ASSUME InOrder(q), IsEvent(e) => \A a \in EventsOf(q) : a < e
      PROVE  InOrder(Append(q, e))
  <2> SUFFICES ASSUME NEW i \in 1..(Len(q) + 1), NEW j \in 1..(Len(q) + 1), i < j,
                      IsEvent(Append(q, e)[i]), IsEvent(Append(q, e)[j])
               PROVE  Append(q, e)[i] < Append(q, e)[j]
    BY <1>1 DEF InOrder
  <2>1. i \in 1..Len(q) /\ Append(q, e)[i] = q[i] /\ q[i] \in EventsOf(q)
    <3>1. i \in 1..Len(q)
      BY <1>1
    <3>2. Append(q, e)[i] = q[i] /\ IsEvent(q[i])
      BY <1>1, <3>1
    <3> QED
      BY <1>1, <3>1, <3>2 DEF EventsOf, ToSet
  <2>2. CASE j \in 1..Len(q)
    BY <1>1, <1>4, <2>1, <2>2 DEF InOrder
  <2>3. CASE j = Len(q) + 1
    BY <1>1, <1>4, <2>1, <2>3
  <2> QED
    BY <1>2, <2>2, <2>3
<1> QED
  BY <1>3, <1>4 DEF EventsOf

\* What Head and Tail leave of a queue.
LEMMA Taken ==
  ASSUME NEW q \in Seq(Nat), q # <<>>
  PROVE  /\ Head(q) \in Nat /\ Tail(q) \in Seq(Nat)
         /\ EventsOf(Tail(q)) \subseteq EventsOf(q)
         /\ EventsOf(q) = EventsOf(Tail(q)) \cup {x \in {Head(q)} : IsEvent(x)}
         /\ InOrder(q) => InOrder(Tail(q))
         /\ InOrder(q) /\ IsEvent(Head(q)) => \A a \in EventsOf(Tail(q)) : Head(q) < a
<1>1. /\ Len(q) \in Nat /\ Len(q) >= 1 /\ DOMAIN q = 1..Len(q)
      /\ Tail(q) \in Seq(Nat) /\ DOMAIN Tail(q) = 1..(Len(q) - 1)
      /\ \A i \in 1..(Len(q) - 1) : Tail(q)[i] = q[i + 1]
      /\ Head(q) = q[1] /\ Head(q) \in Nat
  OBVIOUS
<1>2. \A i \in 1..(Len(q) - 1) : i + 1 \in 1..Len(q) /\ i + 1 > 1
  BY <1>1
<1>3. \A i \in 1..Len(q) : i = 1 \/ (i - 1 \in 1..(Len(q) - 1) /\ (i - 1) + 1 = i)
  BY <1>1
<1>4. ToSet(q) = ToSet(Tail(q)) \cup {Head(q)}
  <2>1. ToSet(Tail(q)) \cup {Head(q)} \subseteq ToSet(q)
    BY <1>1, <1>2 DEF ToSet
  <2>2. ASSUME NEW i \in 1..Len(q), i # 1 PROVE q[i] \in ToSet(Tail(q))
    <3>1. i - 1 \in 1..(Len(q) - 1) /\ Tail(q)[i - 1] = q[i]
      BY <1>1, <1>3, <2>2
    <3> QED
      BY <1>1, <3>1 DEF ToSet
  <2> QED
    BY <1>1, <2>1, <2>2 DEF ToSet
<1>5. EventsOf(q) = EventsOf(Tail(q)) \cup {x \in {Head(q)} : IsEvent(x)}
  BY <1>4 DEF EventsOf
<1>6. ASSUME InOrder(q) PROVE InOrder(Tail(q))
  BY <1>1, <1>2, <1>6, SMTT(30) DEF InOrder
<1>7. ASSUME InOrder(q), IsEvent(Head(q)), NEW a \in EventsOf(Tail(q)) PROVE Head(q) < a
  <2>1. PICK i \in 1..(Len(q) - 1) : a = q[i + 1]
    BY <1>1 DEF EventsOf, ToSet
  <2> QED
    BY <1>1, <1>2, <1>7, <2>1 DEF InOrder, EventsOf
<1> QED
  BY <1>1, <1>5, <1>6, <1>7

\* A part of a queue is in order.
LEMMA PartInOrder ==
  ASSUME NEW q \in Seq(Nat), NEW m \in Nat, NEW n \in Nat, 1 <= m, n <= Len(q)
  PROVE  /\ SubSeq(q, m, n) \in Seq(Nat)
         /\ Len(SubSeq(q, m, n)) = IF m <= n THEN n - m + 1 ELSE 0
         /\ EventsOf(SubSeq(q, m, n)) \subseteq EventsOf(q)
         /\ InOrder(q) => InOrder(SubSeq(q, m, n))
<1>1. /\ SubSeq(q, m, n) \in Seq(Nat)
      /\ Len(SubSeq(q, m, n)) = IF m <= n THEN n - m + 1 ELSE 0
      /\ \A i \in 1..(n - m + 1) : SubSeq(q, m, n)[i] = q[m + i - 1]
  <2>1. \A i \in m..n : q[i] \in Nat
    OBVIOUS
  <2> QED
    BY <2>1, SubSeqProperties
<1>2. Len(q) \in Nat /\ DOMAIN q = 1..Len(q)
  OBVIOUS
<1>3. DOMAIN SubSeq(q, m, n) = 1..(n - m + 1)
  BY <1>1
<1>4. \A i \in 1..(n - m + 1) : m + i - 1 \in 1..Len(q)
  BY <1>2
<1>5. EventsOf(SubSeq(q, m, n)) \subseteq EventsOf(q)
  BY <1>1, <1>2, <1>3, <1>4 DEF EventsOf, ToSet
<1>6. ASSUME InOrder(q) PROVE InOrder(SubSeq(q, m, n))
  <2> SUFFICES ASSUME NEW i \in 1..(n - m + 1), NEW j \in 1..(n - m + 1), i < j,
                      IsEvent(q[m + i - 1]), IsEvent(q[m + j - 1])
               PROVE  q[m + i - 1] < q[m + j - 1]
    BY <1>1, <1>3 DEF InOrder
  <2>1. m + i - 1 < m + j - 1
    OBVIOUS
  <2> QED
    BY <1>2, <1>4, <1>6, <2>1 DEF InOrder
<1> QED
  BY <1>1, <1>5, <1>6

\* Two queues one behind the other, in r.
LEMMA JoinedIn ==
  ASSUME NEW p \in Seq(Nat), NEW q \in Seq(Nat), NEW r \in Seq(Nat),
         Len(r) = Len(p) + Len(q),
         \A i \in 1..Len(p) : r[i] = p[i],
         \A i \in 1..Len(q) : r[i + Len(p)] = q[i]
  PROVE  /\ EventsOf(r) = EventsOf(p) \cup EventsOf(q)
         /\ InOrder(p) /\ InOrder(q) /\ Before(EventsOf(p), EventsOf(q)) => InOrder(r)
<1>1. /\ Len(p) \in Nat /\ Len(q) \in Nat /\ Len(r) \in Nat
      /\ DOMAIN p = 1..Len(p) /\ DOMAIN q = 1..Len(q) /\ DOMAIN r = 1..Len(r)
  OBVIOUS
<1>2. ASSUME NEW i \in 1..Len(r)
      PROVE  \/ i \in 1..Len(p) /\ r[i] = p[i]
             \/ i > Len(p) /\ i - Len(p) \in 1..Len(q) /\ r[i] = q[i - Len(p)]
  <2>1. CASE i <= Len(p)
    BY <1>1, <2>1
  <2>2. CASE i > Len(p)
    <3>1. i - Len(p) \in 1..Len(q) /\ (i - Len(p)) + Len(p) = i
      BY <1>1, <2>2
    <3> QED
      BY <2>2, <3>1
  <2> QED
    BY <1>1, <2>1, <2>2
<1>3. ToSet(r) = ToSet(p) \cup ToSet(q)
  <2>1. ToSet(r) \subseteq ToSet(p) \cup ToSet(q)
    BY <1>1, <1>2 DEF ToSet
  <2>2. ASSUME NEW i \in 1..Len(p) PROVE p[i] \in ToSet(r)
    <3>1. i \in 1..Len(r) /\ r[i] = p[i]
      BY <1>1
    <3> QED
      BY <1>1, <3>1 DEF ToSet
  <2>3. ASSUME NEW i \in 1..Len(q) PROVE q[i] \in ToSet(r)
    <3>1. i + Len(p) \in 1..Len(r) /\ r[i + Len(p)] = q[i]
      BY <1>1
    <3> QED
      BY <1>1, <3>1 DEF ToSet
  <2>4. ToSet(p) \subseteq ToSet(r)
    <3>1. \A x \in ToSet(p) : \E i \in 1..Len(p) : x = p[i]
      BY <1>1 DEF ToSet
    <3> QED
      BY <2>2, <3>1
  <2>5. ToSet(q) \subseteq ToSet(r)
    <3>1. \A x \in ToSet(q) : \E i \in 1..Len(q) : x = q[i]
      BY <1>1 DEF ToSet
    <3> QED
      BY <2>3, <3>1
  <2> QED
    BY <2>1, <2>4, <2>5
<1>4. ASSUME InOrder(p), InOrder(q), Before(EventsOf(p), EventsOf(q))
      PROVE  InOrder(r)
  <2> SUFFICES ASSUME NEW i \in 1..Len(r), NEW j \in 1..Len(r), i < j,
                      IsEvent(r[i]), IsEvent(r[j])
               PROVE  r[i] < r[j]
    BY <1>1 DEF InOrder
  <2>1. CASE i \in 1..Len(p) /\ j \in 1..Len(p)
    BY <1>1, <1>4, <2>1 DEF InOrder
  <2>2. CASE i \in 1..Len(p) /\ j > Len(p)
    <3>1. r[i] = p[i] /\ r[i] \in EventsOf(p)
      BY <1>1, <2>2 DEF EventsOf, ToSet
    <3>2. j - Len(p) \in 1..Len(q) /\ r[j] = q[j - Len(p)]
      BY <1>1, <1>2, <2>2, SMTT(30)
    <3>3. r[j] \in EventsOf(q)
      BY <1>1, <3>2 DEF EventsOf, ToSet
    <3> QED
      BY <1>4, <3>1, <3>3 DEF Before
  <2>3. CASE i > Len(p) /\ j > Len(p)
    <3>1. i - Len(p) < j - Len(p)
      BY <1>1
    <3>2. /\ i - Len(p) \in 1..Len(q) /\ r[i] = q[i - Len(p)]
          /\ j - Len(p) \in 1..Len(q) /\ r[j] = q[j - Len(p)]
      BY <1>1, <1>2, <2>3, SMTT(30)
    <3> QED
      BY <1>1, <1>4, <3>1, <3>2 DEF InOrder
  <2> QED
    BY <1>1, <2>1, <2>2, <2>3, SMTT(30)
<1> QED
  BY <1>3, <1>4 DEF EventsOf

LEMMA Joined ==
  ASSUME NEW p \in Seq(Nat), NEW q \in Seq(Nat)
  PROVE  /\ p \o q \in Seq(Nat)
         /\ EventsOf(p \o q) = EventsOf(p) \cup EventsOf(q)
         /\ InOrder(p) /\ InOrder(q) /\ Before(EventsOf(p), EventsOf(q)) => InOrder(p \o q)
<1>1. PICK r : r = p \o q
  OBVIOUS
<1>2. /\ r \in Seq(Nat) /\ Len(r) = Len(p) + Len(q)
      /\ \A i \in 1..Len(p) : r[i] = p[i]
      /\ \A i \in 1..Len(q) : r[i + Len(p)] = q[i]
  BY <1>1
<1>3. /\ EventsOf(r) = EventsOf(p) \cup EventsOf(q)
      /\ InOrder(p) /\ InOrder(q) /\ Before(EventsOf(p), EventsOf(q)) => InOrder(r)
  BY <1>2, JoinedIn
<1> QED
  BY <1>1, <1>2, <1>3

\* Numbers of events are natural numbers.
LEMMA EventQueue ==
  ASSUME NEW q \in Seq(Events) \cup Seq(0..MaxEvents)
  PROVE  q \in Seq(Nat)
<1>1. Events \subseteq Nat /\ 0..MaxEvents \subseteq Nat
  BY HubAssumption DEF Events
<1> QED
  BY <1>1, SeqMonotonic

\* What is taken of the replay buffer, and what is kept of it.
LEMMA ReplayParts ==
  ASSUME NEW q \in Seq(Events), NEW n \in Nat \ {0}
  PROVE  /\ FirstOf(q, n) \in Seq(Events) /\ Len(FirstOf(q, n)) <= n
         /\ LastOf(q, n) \in Seq(Events) /\ Len(LastOf(q, n)) <= n
         /\ EventsOf(FirstOf(q, n)) \subseteq EventsOf(q)
         /\ EventsOf(LastOf(q, n)) \subseteq EventsOf(q)
         /\ InOrder(q) => InOrder(FirstOf(q, n)) /\ InOrder(LastOf(q, n))
<1>1. Len(q) \in Nat /\ \A i \in 1..Len(q) : q[i] \in Events
  OBVIOUS
<1>2. PICK f \in Nat : f = IF Len(q) < n THEN Len(q) ELSE n
  BY <1>1
<1>3. PICK l \in Nat : l = IF Len(q) < n THEN 1 ELSE Len(q) - n + 1
  BY <1>1, SMTT(30)
<1>4. FirstOf(q, n) = SubSeq(q, 1, f) /\ LastOf(q, n) = SubSeq(q, l, Len(q))
  BY <1>2, <1>3 DEF FirstOf, LastOf
<1>5. f <= n /\ f <= Len(q) /\ 1 <= l /\ Len(q) - l + 1 <= n
  BY <1>1, <1>2, <1>3
<1>6. q \in Seq(Nat)
  BY EventQueue
<1>7. SubSeq(q, 1, f) \in Seq(Events) /\ SubSeq(q, l, Len(q)) \in Seq(Events)
  <2>1. \A i \in 1..f : q[i] \in Events
    BY <1>1, <1>5
  <2>2. \A i \in l..Len(q) : q[i] \in Events
    BY <1>1, <1>5
  <2> QED
    BY <1>1, <2>1, <2>2, SubSeqProperties
<1>8. /\ Len(SubSeq(q, 1, f)) = IF 1 <= f THEN f - 1 + 1 ELSE 0
      /\ EventsOf(SubSeq(q, 1, f)) \subseteq EventsOf(q)
      /\ InOrder(q) => InOrder(SubSeq(q, 1, f))
  BY <1>5, <1>6, PartInOrder
<1>9. /\ Len(SubSeq(q, l, Len(q))) = IF l <= Len(q) THEN Len(q) - l + 1 ELSE 0
      /\ EventsOf(SubSeq(q, l, Len(q))) \subseteq EventsOf(q)
      /\ InOrder(q) => InOrder(SubSeq(q, l, Len(q)))
  BY <1>1, <1>5, <1>6, PartInOrder
<1>10. Len(SubSeq(q, 1, f)) <= n /\ Len(SubSeq(q, l, Len(q))) <= n
  BY <1>1, <1>5, <1>8, <1>9
<1> QED
  BY <1>4, <1>7, <1>8, <1>9, <1>10

(***************************************************************************)
(* Type correctness.                                                       *)
(***************************************************************************)
LEMMA TypeStep == TypeOK /\ CountersBounded /\ [Next]_vars => TypeOK' /\ CountersBounded'
<1> SUFFICES ASSUME TypeOK, CountersBounded, [Next]_vars PROVE TypeOK' /\ CountersBounded'
  OBVIOUS
<1>0. /\ Events \subseteq 0..MaxEvents /\ Response \in 0..MaxEvents /\ MaxEvents \in Nat
      /\ {SubCap, SendCap, ReplayBufferSize} \subseteq Nat \ {0}
  BY HubAssumption DEF Events, Response
<1>1. CASE Broadcast
  <2> USE DEF TypeOK, hub, pump, conn, wire
  <2>1. /\ published + 1 \in Events /\ published' = published + 1 /\ published \in Nat
        /\ published' \in 0..MaxEvents
    BY <1>0, <1>1 DEF Broadcast, Events
  <2>2. Append(replayBuf, published + 1) \in Seq(Events)
    BY <2>1
  <2>3. replayBuf' \in Seq(Events) /\ Len(replayBuf') <= ReplayBufferSize
    BY <1>0, <1>1, <2>1, <2>2, ReplayParts DEF Broadcast
  <2>4. ASSUME NEW c \in Conns
        PROVE  /\ subCh'[c] \in Seq(Events) /\ Len(subCh'[c]) <= SubCap
               /\ dropped'[c] \in 0..MaxEvents /\ dropped'[c] <= published'
               /\ joined'[c] <= published'
    <3>1. /\ subCh[c] \in Seq(Events) /\ Len(subCh[c]) <= SubCap
          /\ dropped[c] \in Nat /\ dropped[c] <= published
          /\ joined[c] \in Nat /\ joined[c] <= published
      BY <1>0 DEF CountersBounded
    <3>2. subCh'[c] = IF c \in subscribers /\ ~ Len(subCh[c]) >= SubCap
                        THEN Append(subCh[c], published + 1) ELSE subCh[c]
      BY <1>1 DEF Broadcast, Deliver
    <3>3. dropped'[c] \in {dropped[c], dropped[c] + 1} /\ joined'[c] = joined[c]
      BY <1>1 DEF Broadcast, Deliver
    <3>4. subCh'[c] \in Seq(Events) /\ Len(subCh'[c]) <= SubCap
      BY <1>0, <2>1, <3>1, <3>2
    <3>5. dropped'[c] \in Nat /\ dropped'[c] <= published + 1 /\ joined'[c] <= published + 1
      BY <2>1, <3>1, <3>3
    <3>6. dropped'[c] \in 0..MaxEvents
      BY <1>0, <2>1, <3>5, SMTT(30)
    <3> QED
      BY <2>1, <3>4, <3>5, <3>6
  <2>5. /\ subCh' \in [Conns -> Seq(Events)]
        /\ dropped' \in [Conns -> 0..MaxEvents]
    BY <1>1, <2>4 DEF Broadcast, Deliver
  <2>6. panicked' \in BOOLEAN
    BY <1>1 DEF Broadcast, Deliver
  <2>7. CountersBounded'
    BY <2>4 DEF CountersBounded
  <2>8. \A c \in Conns : Len(subCh'[c]) <= SubCap /\ Len(send'[c]) <= SendCap
    BY <1>1, <2>4 DEF Broadcast
  <2> QED
    BY <1>1, <2>1, <2>3, <2>5, <2>6, <2>7, <2>8 DEF Broadcast
<1>2. ASSUME NEW c \in Conns,
             Subscribe(c) \/ ReadRequest(c) \/ Network(c) \/ BridgeStep(c)
               \/ WriterStep(c) \/ ReaderStep(c)
      PROVE  TypeOK' /\ CountersBounded'
  <2> USE DEF TypeOK, CountersBounded, hub, pump, conn, wire
  <2>0. /\ subCh[c] \in Seq(Events) /\ Len(subCh[c]) <= SubCap /\ Len(subCh[c]) \in Nat
        /\ send[c] \in Seq(0..MaxEvents) /\ Len(send[c]) <= SendCap /\ Len(send[c]) \in Nat
        /\ shown[c] \in Seq(Events) /\ held[c] \in 0..MaxEvents
    OBVIOUS
  <2>1. CASE Subscribe(c)
    <3>1. FirstOf(replayBuf, SubCap) \in Seq(Events) /\ Len(FirstOf(replayBuf, SubCap)) <= SubCap
      BY <1>0, ReplayParts
    <3> QED
      BY <2>1, <3>1 DEF Subscribe
  <2>2. CASE ReadRequest(c) \/ Network(c)
    <3>1. CASE ReadRequest(c)
      BY <3>1 DEF ReadRequest
    <3>2. CASE Network(c)
      <4>1. socket' \in [Conns -> {"none", "up", "stalled", "down"}]
        <5>1. PICK v \in {"stalled", "up", "down"} : socket' = [socket EXCEPT ![c] = v]
          BY <3>2, Zenon DEF Network
        <5> QED
          BY <5>1
      <4> QED
        BY <3>2, <4>1 DEF Network
    <3> QED
      BY <2>2, <3>1, <3>2
  <2>3. CASE BridgeTake(c)
    <3>1. /\ Head(subCh[c]) \in Events /\ Tail(subCh[c]) \in Seq(Events)
          /\ Len(Tail(subCh[c])) <= SubCap
      BY <1>0, <2>0, <2>3 DEF BridgeTake
    <3>2. held' \in [Conns -> 0..MaxEvents] /\ subCh' \in [Conns -> Seq(Events)]
      BY <1>0, <2>3, <3>1 DEF BridgeTake
    <3>3. \A d \in Conns : Len(subCh'[d]) <= SubCap
      BY <2>3, <3>1 DEF BridgeTake
    <3> QED
      BY <2>3, <3>2, <3>3 DEF BridgeTake
  <2>4. CASE BridgeSend(c)
    <3>1. Append(send[c], held[c]) \in Seq(0..MaxEvents) /\ Len(Append(send[c], held[c])) <= SendCap
      BY <1>0, <2>0, <2>4 DEF BridgeSend
    <3>2. send' \in [Conns -> Seq(0..MaxEvents)] /\ \A d \in Conns : Len(send'[d]) <= SendCap
      BY <2>4, <3>1 DEF BridgeSend
    <3>3. held' \in [Conns -> 0..MaxEvents]
      BY <1>0, <2>4 DEF BridgeSend
    <3> QED
      BY <2>4, <3>2, <3>3 DEF BridgeSend
  <2>5. CASE BridgeEnd(c)
    <3>1. held' \in [Conns -> 0..MaxEvents]
      BY <1>0, <2>5 DEF BridgeEnd
    <3> QED
      BY <2>5, <3>1 DEF BridgeEnd
  <2>6. CASE Write(c)
    <3>1. /\ Head(send[c]) \in 0..MaxEvents /\ Tail(send[c]) \in Seq(0..MaxEvents)
          /\ Len(Tail(send[c])) <= SendCap
      <4>1. send[c] # <<>>
        BY <2>6 DEF Write
      <4>2. Len(Tail(send[c])) = Len(send[c]) - 1
        BY <2>0, <4>1, HeadTailProperties
      <4> QED
        BY <1>0, <2>0, <4>1, <4>2, HeadTailProperties, SMTT(30)
    <3>2. send' \in [Conns -> Seq(0..MaxEvents)] /\ \A d \in Conns : Len(send'[d]) <= SendCap
      BY <2>6, <3>1 DEF Write
    <3>3. Head(send[c]) # Response => Head(send[c]) \in Events
      BY <1>0, <3>1, SMTT(30) DEF Response, Events
    <3>4. Head(send[c]) # Response => Append(shown[c], Head(send[c])) \in Seq(Events)
      BY <2>0, <3>3
    <3>5. shown' \in [Conns -> Seq(Events)]
      BY <2>6, <3>4 DEF Write
    <3> QED
      BY <2>6, <3>2, <3>5 DEF Write
  <2>7. CASE WriteFails(c)
    <3>1. Tail(send[c]) \in Seq(0..MaxEvents) /\ Len(Tail(send[c])) <= SendCap
      BY <1>0, <2>0, <2>7 DEF WriteFails
    <3>2. send' \in [Conns -> Seq(0..MaxEvents)] /\ \A d \in Conns : Len(send'[d]) <= SendCap
      BY <2>7, <3>1 DEF WriteFails
    <3> QED
      BY <2>7, <3>2 DEF WriteFails
  <2>8. CASE Reply(c)
    <3>1. Append(send[c], Response) \in Seq(0..MaxEvents) /\ Len(Append(send[c], Response)) <= SendCap
      BY <1>0, <2>0, <2>8 DEF Reply
    <3>2. send' \in [Conns -> Seq(0..MaxEvents)] /\ \A d \in Conns : Len(send'[d]) <= SendCap
      BY <2>8, <3>1 DEF Reply
    <3> QED
      BY <2>8, <3>2 DEF Reply
  <2>9. CASE ReadFails(c)
    BY <2>9 DEF ReadFails
  <2>10. CASE Unsubscribe(c)
    BY <2>10 DEF Unsubscribe
  <2> QED
    BY <1>2, <2>1, <2>2, <2>3, <2>4, <2>5, <2>6, <2>7, <2>8, <2>9,
       <2>10
    DEF BridgeStep, WriterStep, ReaderStep
<1>3. CASE UNCHANGED vars
  BY <1>3 DEF vars, TypeOK, CountersBounded, hub, pump, conn, wire
<1> QED
  BY <1>1, <1>2, <1>3 DEF Next

(***************************************************************************)
(* Safety.                                                                 *)
(***************************************************************************)
Healthy(c) == c \in subscribers /\ ~ canceled[c] /\ writer[c] = "running"

\* A step that leaves the parts of c alone, and heals nothing.
LEMMA Unmoved ==
  ASSUME HubInv, NEW c \in Conns,
         published' = published, joined'[c] = joined[c], dropped'[c] = dropped[c],
         shown'[c] = shown[c], send'[c] = send[c], subCh'[c] = subCh[c],
         bridge'[c] = bridge[c], held'[c] = held[c],
         Healthy(c)' => Healthy(c),
         reader'[c] = "off" => reader[c] = "off" /\ (c \in subscribers' => c \in subscribers)
  PROVE  InLine(c)' /\ Unused(c)' /\ Counted(c)'
<1>1. /\ Shown(c)' = Shown(c) /\ Sent(c)' = Sent(c) /\ Hand(c)' = Hand(c)
      /\ Queue(c)' = Queue(c)
  BY DEF Shown, Sent, Hand, Queue
<1>2. AllCarried(c)' = AllCarried(c)
  BY <1>1 DEF AllCarried
<1>3. InLine(c) /\ Unused(c) /\ Counted(c)
  BY DEF HubInv
<1>4. InLine(c)'
  BY <1>1, <1>2, <1>3 DEF InLine, PartsInOrder, PartsInLine, AllBroadcast
<1>5. Unused(c)'
  BY <1>3 DEF Unused
<1>6. Counted(c)'
  BY <1>2, <1>3 DEF Counted, Healthy
<1> QED
  BY <1>4, <1>5, <1>6

\* A step of c that moves events from one part to the next.
LEMMA Moved ==
  ASSUME HubInv, NEW c \in Conns, PartsInOrder(c)', PartsInLine(c)',
         AllCarried(c)' \subseteq AllCarried(c),
         published' = published, joined'[c] = joined[c], dropped'[c] = dropped[c],
         Healthy(c)' => Healthy(c) /\ AllCarried(c)' = AllCarried(c),
         reader'[c] # "off"
  PROVE  InLine(c)' /\ Unused(c)' /\ Counted(c)'
<1>1. InLine(c) /\ Counted(c)
  BY DEF HubInv
<1>2. InLine(c)'
  BY <1>1 DEF InLine, AllBroadcast
<1>3. Unused(c)'
  BY DEF Unused
<1>4. Counted(c)'
  BY <1>1 DEF Counted, Healthy
<1> QED
  BY <1>2, <1>3, <1>4

\* The queues of c are sequences of numbers.
LEMMA QueueTypes ==
  ASSUME TypeOK, NEW c \in Conns
  PROVE  /\ shown[c] \in Seq(Nat) /\ send[c] \in Seq(Nat) /\ subCh[c] \in Seq(Nat)
         /\ Shown(c) \subseteq Nat /\ Sent(c) \subseteq Nat /\ Queue(c) \subseteq Nat
         /\ held[c] \in Nat /\ published \in Nat /\ joined[c] \in Nat /\ dropped[c] \in Nat
<1>1. shown[c] \in Seq(Nat) /\ send[c] \in Seq(Nat) /\ subCh[c] \in Seq(Nat)
  BY EventQueue DEF TypeOK
<1>2. Shown(c) \subseteq Nat /\ Sent(c) \subseteq Nat /\ Queue(c) \subseteq Nat
  BY <1>1 DEF Shown, Sent, Queue, EventsOf, ToSet
<1>3. held[c] \in Nat /\ published \in Nat /\ joined[c] \in Nat /\ dropped[c] \in Nat
  BY HubAssumption DEF TypeOK
<1> QED
  BY <1>1, <1>2, <1>3

\* The bridge goroutine of c takes an event, sends it on, or ends.
LEMMA BridgeStepKeeps ==
  ASSUME HubInv, NEW c \in Conns, BridgeStep(c)
  PROVE  InLine(c)' /\ Unused(c)' /\ Counted(c)'
<1>1. /\ TypeOK /\ InLine(c) /\ Unused(c) /\ bridge[c] \in {"waiting", "holding"}
      /\ bridge[c] # "off" /\ reader[c] # "off"
  BY DEF HubInv, BridgeStep, BridgeTake, BridgeSend, BridgeEnd, Unused
<1>2. /\ published' = published /\ joined' = joined /\ dropped' = dropped
      /\ reader' = reader /\ shown' = shown
      /\ Healthy(c)' => Healthy(c)
  BY DEF BridgeStep, BridgeTake, BridgeSend, BridgeEnd, hub, conn, wire, Healthy
<1>3. Shown(c)' = Shown(c)
  BY <1>2 DEF Shown
<1>4. CASE BridgeTake(c)
  <2>1. /\ bridge[c] = "waiting" /\ bridge'[c] = "holding" /\ subCh[c] # <<>>
        /\ held'[c] = Head(subCh[c]) /\ subCh'[c] = Tail(subCh[c]) /\ send' = send
    BY <1>1, <1>4 DEF BridgeTake, TypeOK
  <2>2. Head(subCh[c]) \in Events /\ IsEvent(Head(subCh[c]))
    <3>1. subCh[c] \in Seq(Events)
      BY <1>1 DEF TypeOK
    <3>2. Head(subCh[c]) \in Events
      BY <2>1, <3>1, HeadTailProperties
    <3> QED
      BY <3>2, HubAssumption DEF Events, IsEvent, Response
  <2>3. /\ Sent(c)' = Sent(c) /\ Hand(c) = {} /\ Hand(c)' = {Head(subCh[c])}
        /\ Queue(c) = Queue(c)' \cup {Head(subCh[c])}
        /\ Before(Hand(c)', Queue(c)') /\ InOrder(subCh'[c])
    <3>1. /\ EventsOf(subCh[c]) = EventsOf(Tail(subCh[c])) \cup {Head(subCh[c])}
          /\ InOrder(Tail(subCh[c]))
          /\ \A a \in EventsOf(Tail(subCh[c])) : Head(subCh[c]) < a
      <4>1. /\ EventsOf(subCh[c]) = EventsOf(Tail(subCh[c])) \cup {x \in {Head(subCh[c])} : IsEvent(x)}
            /\ InOrder(subCh[c])
        BY <1>1, <2>1, Taken, QueueTypes DEF InLine, PartsInOrder
      <4>2. {x \in {Head(subCh[c])} : IsEvent(x)} = {Head(subCh[c])}
        BY <2>2
      <4>3. /\ InOrder(Tail(subCh[c]))
            /\ \A a \in EventsOf(Tail(subCh[c])) : Head(subCh[c]) < a
        BY <1>1, <2>1, <2>2, <4>1, Taken, QueueTypes
      <4> QED
        BY <4>1, <4>2, <4>3
    <3> QED
      BY <2>1, <3>1 DEF Sent, Hand, Queue, Before
  <2>4. PartsInOrder(c)'
    BY <1>1, <1>2, <2>1, <2>3 DEF InLine, PartsInOrder
  <2>5. PartsInLine(c)'
    BY <1>1, <1>3, <2>3 DEF InLine, PartsInLine, Before
  <2>6. AllCarried(c)' = AllCarried(c)
    BY <1>3, <2>3 DEF AllCarried
  <2> QED
    BY <1>1, <1>2, <2>4, <2>5, <2>6, Moved
<1>5. CASE BridgeSend(c)
  <2>1. /\ bridge[c] = "holding" /\ bridge'[c] = "waiting"
        /\ send'[c] = Append(send[c], held[c]) /\ subCh' = subCh
    BY <1>1, <1>5 DEF BridgeSend, TypeOK
  <2>2. Hand(c) = {held[c]} /\ Hand(c)' = {} /\ IsEvent(held[c])
    BY <1>1, <2>1, SMTT(30) DEF Hand, InLine, AllBroadcast, AllCarried, IsEvent, Response
  <2>3. /\ Sent(c)' = Sent(c) \cup {held[c]} /\ InOrder(send'[c])
        /\ Queue(c)' = Queue(c)
    <3>1. /\ EventsOf(Append(send[c], held[c])) = EventsOf(send[c]) \cup {held[c]}
          /\ InOrder(Append(send[c], held[c]))
      <4>1. InOrder(send[c]) /\ \A a \in EventsOf(send[c]) : a < held[c]
        BY <1>1, <2>2 DEF InLine, PartsInOrder, PartsInLine, Before, Sent
      <4> QED
        BY <1>1, <2>2, <4>1, Appended, QueueTypes
    <3> QED
      BY <2>1, <3>1 DEF Sent, Queue
  <2>4. PartsInOrder(c)'
    BY <1>1, <1>2, <2>1, <2>3 DEF InLine, PartsInOrder
  <2>5. PartsInLine(c)'
    BY <1>1, <1>3, <2>2, <2>3 DEF InLine, PartsInLine, Before
  <2>6. AllCarried(c)' = AllCarried(c)
    BY <1>3, <2>2, <2>3 DEF AllCarried
  <2> QED
    BY <1>1, <1>2, <2>4, <2>5, <2>6, Moved
<1>6. CASE BridgeEnd(c)
  <2>1. /\ bridge'[c] = "done" /\ send' = send /\ subCh' = subCh /\ canceled[c]
        /\ canceled' = canceled
    BY <1>1, <1>6 DEF BridgeEnd, TypeOK, conn
  <2>2. /\ Sent(c)' = Sent(c) /\ Hand(c)' = {} /\ Queue(c)' = Queue(c)
        /\ ~ Healthy(c)'
    BY <2>1 DEF Sent, Hand, Queue, Healthy
  <2>3. PartsInOrder(c)' /\ PartsInLine(c)'
    BY <1>1, <1>2, <1>3, <2>1, <2>2 DEF InLine, PartsInOrder, PartsInLine, Before
  <2>4. AllCarried(c)' \subseteq AllCarried(c)
    BY <1>3, <2>2 DEF AllCarried
  <2> QED
    BY <1>1, <1>2, <2>2, <2>3, <2>4, Moved
<1> QED
  BY <1>4, <1>5, <1>6 DEF BridgeStep

\* The writeLoop of c writes what is first in c.send, or fails to.
LEMMA WriterStepKeeps ==
  ASSUME HubInv, NEW c \in Conns, WriterStep(c)
  PROVE  InLine(c)' /\ Unused(c)' /\ Counted(c)'
<1>1. /\ TypeOK /\ InLine(c) /\ Unused(c) /\ send[c] # <<>> /\ reader[c] # "off"
  BY DEF HubInv, WriterStep, Write, WriteFails, Unused
<1>2. /\ published' = published /\ joined' = joined /\ dropped' = dropped
      /\ reader' = reader /\ subCh' = subCh /\ bridge' = bridge /\ held' = held
      /\ send'[c] = Tail(send[c])
      /\ Healthy(c)' => Healthy(c)
  BY <1>1 DEF WriterStep, Write, WriteFails, hub, conn, pump, Healthy, TypeOK
<1>3. Hand(c)' = Hand(c) /\ Queue(c)' = Queue(c)
  BY <1>2 DEF Hand, Queue
<1>4. /\ Sent(c) = Sent(c)' \cup {x \in {Head(send[c])} : IsEvent(x)}
      /\ InOrder(send'[c])
      /\ IsEvent(Head(send[c])) => \A a \in Sent(c)' : Head(send[c]) < a
      /\ Head(send[c]) \in Nat
  <2>1. send[c] \in Seq(Nat) /\ InOrder(send[c])
    BY <1>1, QueueTypes DEF InLine, PartsInOrder
  <2>2. /\ EventsOf(send[c]) = EventsOf(Tail(send[c])) \cup {x \in {Head(send[c])} : IsEvent(x)}
        /\ InOrder(Tail(send[c])) /\ Head(send[c]) \in Nat
        /\ IsEvent(Head(send[c])) => \A a \in EventsOf(Tail(send[c])) : Head(send[c]) < a
    BY <1>1, <2>1, Taken
  <2> QED
    BY <1>2, <2>2 DEF Sent
<1>5. CASE shown'[c] = shown[c] /\ (Healthy(c)' => ~ IsEvent(Head(send[c])))
  <2>1. Shown(c)' = Shown(c) /\ Sent(c)' \subseteq Sent(c)
    BY <1>4, <1>5 DEF Shown
  <2>2. PartsInOrder(c)' /\ PartsInLine(c)'
    BY <1>1, <1>2, <1>3, <1>4, <1>5, <2>1 DEF InLine, PartsInOrder, PartsInLine, Before
  <2>3. AllCarried(c)' \subseteq AllCarried(c)
    BY <1>3, <2>1 DEF AllCarried
  <2>4. Healthy(c)' => AllCarried(c)' = AllCarried(c)
    BY <1>3, <1>4, <1>5, <2>1 DEF AllCarried
  <2> QED
    BY <1>1, <1>2, <2>2, <2>3, <2>4, Moved
<1>6. CASE Write(c) /\ IsEvent(Head(send[c]))
  <2>1. shown'[c] = Append(shown[c], Head(send[c]))
    BY <1>1, <1>6 DEF Write, IsEvent, TypeOK
  <2>2. Sent(c) = Sent(c)' \cup {Head(send[c])}
    <3>1. {x \in {Head(send[c])} : IsEvent(x)} = {Head(send[c])}
      BY <1>6
    <3> QED
      BY <1>4, <3>1
  <2>3. Shown(c)' = Shown(c) \cup {Head(send[c])} /\ InOrder(shown'[c])
    <3>1. InOrder(shown[c]) /\ shown[c] \in Seq(Nat)
      BY <1>1, QueueTypes DEF InLine, PartsInOrder
    <3>2. \A a \in EventsOf(shown[c]) : a < Head(send[c])
      BY <1>1, <2>2 DEF InLine, PartsInLine, Before, Shown
    <3>3. /\ EventsOf(Append(shown[c], Head(send[c]))) = EventsOf(shown[c]) \cup {Head(send[c])}
          /\ InOrder(Append(shown[c], Head(send[c])))
      BY <1>4, <1>6, <3>1, <3>2, Appended
    <3> QED
      BY <2>1, <3>3 DEF Shown
  <2>4. PartsInOrder(c)'
    BY <1>1, <1>2, <1>4, <2>3 DEF InLine, PartsInOrder
  <2>5. PartsInLine(c)'
    BY <1>1, <1>3, <1>4, <1>6, <2>2, <2>3 DEF InLine, PartsInLine, Before
  <2>6. AllCarried(c)' = AllCarried(c)
    BY <1>3, <2>2, <2>3 DEF AllCarried
  <2> QED
    BY <1>1, <1>2, <2>4, <2>5, <2>6, Moved
<1>7. Write(c) /\ ~ IsEvent(Head(send[c])) => shown' = shown
  BY DEF Write, IsEvent
<1>8. WriteFails(c) => shown' = shown /\ ~ Healthy(c)'
  BY <1>1 DEF WriteFails, Healthy, TypeOK
<1> QED
  BY <1>5, <1>6, <1>7, <1>8 DEF WriterStep

\* A response is put into c.send.
LEMMA ReplyKeeps ==
  ASSUME HubInv, NEW c \in Conns, Reply(c)
  PROVE  InLine(c)' /\ Unused(c)' /\ Counted(c)'
<1>1. TypeOK /\ InLine(c)
  BY DEF HubInv
<1>2. /\ published' = published /\ joined' = joined /\ dropped' = dropped
      /\ reader'[c] # "off" /\ subCh' = subCh /\ bridge' = bridge /\ held' = held
      /\ shown' = shown /\ send'[c] = Append(send[c], Response)
      /\ Healthy(c)' => Healthy(c)
  BY <1>1 DEF Reply, hub, pump, wire, Healthy, TypeOK
<1>3. Sent(c)' = Sent(c) /\ InOrder(send'[c])
  <2>1. Response \in Nat /\ ~ IsEvent(Response)
    BY DEF Response, IsEvent
  <2>2. send[c] \in Seq(Nat) /\ InOrder(send[c])
    BY <1>1, QueueTypes DEF InLine, PartsInOrder
  <2>3. /\ EventsOf(Append(send[c], Response)) = EventsOf(send[c])
        /\ InOrder(Append(send[c], Response))
    BY <2>1, <2>2, Appended
  <2> QED
    BY <1>2, <2>3 DEF Sent
<1>4. Shown(c)' = Shown(c) /\ Hand(c)' = Hand(c) /\ Queue(c)' = Queue(c)
  BY <1>2 DEF Shown, Hand, Queue
<1>5. PartsInOrder(c)' /\ PartsInLine(c)'
  BY <1>1, <1>2, <1>3, <1>4 DEF InLine, PartsInOrder, PartsInLine
<1>6. AllCarried(c)' = AllCarried(c)
  BY <1>3, <1>4 DEF AllCarried
<1> QED
  BY <1>2, <1>5, <1>6, Moved

\* A connection that begins carries what the replay buffer gives it.
LEMMA SubscribeKeeps ==
  ASSUME HubInv, NEW c \in Conns, Subscribe(c)
  PROVE  InLine(c)' /\ Unused(c)' /\ Counted(c)'
<1>1. TypeOK /\ Unused(c) /\ ReplayInOrder
  BY DEF HubInv
<1>2. /\ published' = published /\ joined'[c] = published /\ dropped'[c] = 0
      /\ reader'[c] = "read" /\ bridge'[c] = "waiting"
      /\ shown'[c] = <<>> /\ send'[c] = <<>> /\ subCh'[c] = FirstOf(replayBuf, SubCap)
  BY <1>1 DEF Subscribe, TypeOK, Unused
<1>3. Shown(c)' = {} /\ Sent(c)' = {} /\ Hand(c)' = {}
  BY <1>2 DEF Shown, Sent, Hand, EventsOf, ToSet
<1>4. Queue(c)' \subseteq 1..published /\ InOrder(subCh'[c])
  <2>1. replayBuf \in Seq(Events) /\ SubCap \in Nat \ {0}
    BY <1>1, HubAssumption DEF TypeOK
  <2> QED
    BY <1>1, <1>2, <2>1, ReplayParts DEF ReplayInOrder, Queue
<1>5. InLine(c)'
  BY <1>2, <1>3, <1>4 DEF InLine, PartsInOrder, PartsInLine, AllBroadcast, AllCarried,
     Before, InOrder
<1>6. Unused(c)'
  BY <1>2 DEF Unused
<1>7. published \in Nat
  BY <1>1, QueueTypes
<1>8. {e \in AllCarried(c)' : e > joined'[c]} = {}
  BY <1>2, <1>3, <1>4, <1>7 DEF AllCarried
<1>9. Counted(c)'
  <2>1. Cardinality({e \in AllCarried(c) : e > joined[c]})' = 0
    BY <1>8, FS_EmptySet
  <2> QED
    BY <1>2, <1>7, <2>1 DEF Counted
<1> QED
  BY <1>5, <1>6, <1>9

\* What one connection does leaves another one as it is.
LEMMA OthersUnmoved ==
  ASSUME HubInv, NEW c \in Conns, NEW d \in Conns, c # d,
         Subscribe(c) \/ ReadRequest(c) \/ Network(c) \/ BridgeStep(c)
           \/ WriterStep(c) \/ ReaderStep(c)
  PROVE  InLine(d)' /\ Unused(d)' /\ Counted(d)'
<1>1. TypeOK
  BY DEF HubInv
<1>2. /\ published' = published /\ joined'[d] = joined[d] /\ dropped'[d] = dropped[d]
      /\ shown'[d] = shown[d] /\ send'[d] = send[d] /\ subCh'[d] = subCh[d]
      /\ bridge'[d] = bridge[d] /\ held'[d] = held[d]
      /\ reader'[d] = reader[d] /\ canceled'[d] = canceled[d] /\ writer'[d] = writer[d]
      /\ d \in subscribers' => d \in subscribers
  <2> USE <1>1 DEF TypeOK, hub, pump, conn, wire
  <2>1. CASE Subscribe(c) BY <2>1 DEF Subscribe
  <2>2. CASE ReadRequest(c) \/ Network(c) BY <2>2 DEF ReadRequest, Network
  <2>3. CASE BridgeTake(c) BY <2>3 DEF BridgeTake
  <2>4. CASE BridgeSend(c) \/ BridgeEnd(c) BY <2>4 DEF BridgeSend, BridgeEnd
  <2>5. CASE Write(c) BY <2>5 DEF Write
  <2>6. CASE WriteFails(c) BY <2>6 DEF WriteFails
  <2>7. CASE Reply(c) \/ ReadFails(c) \/ Unsubscribe(c)
    BY <2>7 DEF Reply, ReadFails, Unsubscribe
  <2> QED
    BY <2>1, <2>2, <2>3, <2>4, <2>5, <2>6, <2>7 DEF BridgeStep, WriterStep, ReaderStep
<1> QED
  BY <1>2, Unmoved DEF Healthy

\* A broadcast puts the event into the channel of c, or counts it.
LEMMA BroadcastKeeps ==
  ASSUME HubInv, NEW c \in Conns, Broadcast
  PROVE  InLine(c)' /\ Unused(c)' /\ Counted(c)'
<1>1. TypeOK /\ InLine(c) /\ Unused(c) /\ Counted(c) /\ joined[c] <= published
  BY DEF HubInv, CountersBounded
<1>2. /\ published' = published + 1 /\ joined' = joined /\ subscribers' = subscribers
      /\ shown' = shown /\ send' = send /\ bridge' = bridge /\ held' = held
      /\ reader' = reader /\ canceled' = canceled /\ writer' = writer
  BY DEF Broadcast, conn, pump, wire
<1>3. Shown(c)' = Shown(c) /\ Sent(c)' = Sent(c) /\ Hand(c)' = Hand(c)
  BY <1>2 DEF Shown, Sent, Hand
<1>4. /\ published \in Nat /\ published + 1 \in Nat /\ IsEvent(published + 1)
      /\ published \notin {published + 1} /\ joined[c] \in Nat /\ dropped[c] \in Nat
  BY <1>1, QueueTypes DEF IsEvent, Response
<1>5. AllCarried(c) \subseteq 1..published
  BY <1>1 DEF InLine, AllBroadcast
<1>6. \A a \in AllCarried(c) : a < published + 1
  BY <1>4, <1>5
<1>7. CASE subCh'[c] = Append(subCh[c], published + 1) /\ dropped'[c] = dropped[c]
  <2>1. Queue(c)' = Queue(c) \cup {published + 1} /\ InOrder(subCh'[c])
    <3>1. subCh[c] \in Seq(Nat) /\ InOrder(subCh[c])
      BY <1>1, QueueTypes DEF InLine, PartsInOrder
    <3>2. \A a \in EventsOf(subCh[c]) : a < published + 1
      BY <1>6 DEF AllCarried, Queue
    <3>3. /\ EventsOf(Append(subCh[c], published + 1)) = EventsOf(subCh[c]) \cup {published + 1}
          /\ InOrder(Append(subCh[c], published + 1))
      BY <1>4, <3>1, <3>2, Appended
    <3> QED
      BY <1>7, <3>3 DEF Queue
  <2>2. AllCarried(c)' = AllCarried(c) \cup {published + 1}
    BY <1>3, <2>1 DEF AllCarried
  <2>3. PartsInLine(c)'
    BY <1>1, <1>3, <1>6, <2>1 DEF InLine, PartsInLine, AllCarried, Before
  <2>4. AllBroadcast(c)'
    BY <1>2, <1>4, <1>5, <2>2 DEF AllBroadcast
  <2>5. InLine(c)'
    BY <1>1, <1>2, <2>1, <2>3, <2>4 DEF InLine, PartsInOrder
  <2>6. Counted(c)'
    <3> SUFFICES ASSUME Healthy(c)'
                 PROVE  published' - joined'[c]
                          = dropped'[c] + Cardinality({e \in AllCarried(c) : e > joined[c]})'
      BY DEF Counted, Healthy
    <3>1. PICK L : L = {e \in AllCarried(c) : e > joined[c]}
      OBVIOUS
    <3>2. {e \in AllCarried(c) : e > joined[c]}' = L \cup {published + 1}
      BY <1>1, <1>2, <1>4, <2>2, <3>1
    <3>3. IsFiniteSet(L) /\ published + 1 \notin L
      <4>1. L \subseteq 1..published /\ published + 1 \notin L
        BY <1>4, <1>5, <3>1
      <4>2. IsFiniteSet(1..published)
        BY <1>4, FS_Interval
      <4> QED
        BY <4>1, <4>2, FS_Subset
    <3>4. Cardinality(L \cup {published + 1}) = Cardinality(L) + 1 /\ Cardinality(L) \in Nat
      BY <3>3, FS_AddElement, FS_CardinalityType
    <3>5. published - joined[c] = dropped[c] + Cardinality(L)
      BY <1>1, <1>2, <3>1 DEF Counted, Healthy
    <3>6. /\ Cardinality({e \in AllCarried(c) : e > joined[c]})' = Cardinality(L) + 1
          /\ published' = published + 1 /\ joined'[c] = joined[c] /\ dropped'[c] = dropped[c]
      BY <1>2, <1>7, <3>2, <3>4
    <3> QED
      <4>1. \A k \in Nat : published - joined[c] = dropped[c] + k
                            => (published + 1) - joined[c] = dropped[c] + (k + 1)
        BY <1>4
      <4> QED
        BY <3>4, <3>5, <3>6, <4>1
  <2>7. Unused(c)'
    BY <1>1, <1>2, <1>7 DEF Unused
  <2> QED
    BY <2>5, <2>6, <2>7
<1>8. CASE /\ subCh'[c] = subCh[c]
           /\ dropped'[c] = IF c \in subscribers THEN dropped[c] + 1 ELSE dropped[c]
  <2>1. Queue(c)' = Queue(c)
    BY <1>8 DEF Queue
  <2>2. AllCarried(c)' = AllCarried(c)
    BY <1>3, <2>1 DEF AllCarried
  <2>3. AllBroadcast(c)'
    BY <1>2, <1>4, <1>5, <2>2 DEF AllBroadcast
  <2>4. InLine(c)'
    BY <1>1, <1>2, <1>3, <1>8, <2>1, <2>3 DEF InLine, PartsInOrder, PartsInLine
  <2>5. Counted(c)'
    <3> SUFFICES ASSUME Healthy(c)'
                 PROVE  published' - joined'[c]
                          = dropped'[c] + Cardinality({e \in AllCarried(c) : e > joined[c]})'
      BY DEF Counted, Healthy
    <3>1. PICK L : L = {e \in AllCarried(c) : e > joined[c]}
      OBVIOUS
    <3>2. {e \in AllCarried(c) : e > joined[c]}' = L
      BY <1>2, <2>2, <3>1
    <3>3. IsFiniteSet(L)
      <4>1. L \subseteq 1..published
        BY <1>4, <1>5, <3>1
      <4>2. IsFiniteSet(1..published)
        BY <1>4, FS_Interval
      <4> QED
        BY <4>1, <4>2, FS_Subset
    <3>4. Cardinality(L) \in Nat
      BY <3>3, FS_CardinalityType
    <3>5. published - joined[c] = dropped[c] + Cardinality(L) /\ c \in subscribers
      BY <1>1, <1>2, <3>1 DEF Counted, Healthy
    <3> QED
      BY <1>2, <1>4, <1>8, <3>2, <3>4, <3>5
  <2>6. Unused(c)'
    BY <1>1, <1>2, <1>8 DEF Unused
  <2> QED
    BY <2>4, <2>5, <2>6
<1> QED
  BY <1>1, <1>7, <1>8 DEF Broadcast, Deliver, TypeOK

\* Every step keeps the inductive invariant.
LEMMA InvStep == HubInv /\ [Next]_vars => HubInv'
<1> SUFFICES ASSUME HubInv, [Next]_vars PROVE HubInv'
  OBVIOUS
<1>1. TypeOK' /\ CountersBounded'
  BY TypeStep DEF HubInv
<1>2. ReplayInOrder'
  <2>1. TypeOK /\ ReplayInOrder /\ published \in Nat
    BY HubAssumption DEF HubInv, TypeOK
  <2>2. CASE Broadcast
    <3>1. PICK q : q = Append(replayBuf, published + 1)
      OBVIOUS
    <3>2. replayBuf \in Seq(Events) /\ published + 1 \in Events
      BY <2>1, <2>2, HubAssumption DEF TypeOK, Broadcast, Events
    <3>3. replayBuf \in Seq(Nat) /\ q \in Seq(Events)
      BY <3>1, <3>2, EventQueue
    <3>4. IsEvent(published + 1) /\ \A a \in EventsOf(replayBuf) : a < published + 1
      BY <2>1 DEF ReplayInOrder, IsEvent, Response
    <3>5. EventsOf(q) = EventsOf(replayBuf) \cup {published + 1} /\ InOrder(q)
      BY <2>1, <3>1, <3>3, <3>4, Appended DEF ReplayInOrder
    <3>6. /\ EventsOf(LastOf(q, ReplayBufferSize)) \subseteq EventsOf(q)
          /\ InOrder(LastOf(q, ReplayBufferSize))
      BY <3>3, <3>5, ReplayParts, HubAssumption
    <3>7. replayBuf' = LastOf(q, ReplayBufferSize) /\ published' = published + 1
      BY <2>2, <3>1 DEF Broadcast
    <3>8. EventsOf(q) \subseteq 1..(published + 1)
      BY <2>1, <3>5 DEF ReplayInOrder
    <3> QED
      BY <3>6, <3>7, <3>8 DEF ReplayInOrder
  <2>3. ~ Broadcast => UNCHANGED <<replayBuf, published>>
    BY DEF Next, vars, hub, Subscribe, ReadRequest, Network, BridgeStep, BridgeTake,
       BridgeSend, BridgeEnd, WriterStep, Write, WriteFails, ReaderStep, Reply,
       ReadFails, Unsubscribe
  <2> QED
    BY <2>1, <2>2, <2>3 DEF ReplayInOrder
<1>3. ASSUME NEW d \in Conns PROVE InLine(d)' /\ Unused(d)' /\ Counted(d)'
  <2>1. CASE Broadcast
    BY <2>1, BroadcastKeeps
  <2>2. ASSUME NEW c \in Conns,
               Subscribe(c) \/ ReadRequest(c) \/ Network(c) \/ BridgeStep(c)
                 \/ WriterStep(c) \/ ReaderStep(c)
        PROVE  InLine(d)' /\ Unused(d)' /\ Counted(d)'
    <3>1. CASE c # d
      BY <2>2, <3>1, OthersUnmoved
    <3>2. CASE c = d
      <4>1. ReadRequest(c) \/ Network(c) \/ ReadFails(c) \/ Unsubscribe(c)
              => InLine(c)' /\ Unused(c)' /\ Counted(c)'
        <5> SUFFICES ASSUME ReadRequest(c) \/ Network(c) \/ ReadFails(c) \/ Unsubscribe(c)
                     PROVE  InLine(c)' /\ Unused(c)' /\ Counted(c)'
          OBVIOUS
        <5>1. TypeOK
          BY DEF HubInv
        <5>2. /\ published' = published /\ joined' = joined /\ dropped' = dropped
              /\ shown' = shown /\ send' = send /\ subCh' = subCh
              /\ bridge' = bridge /\ held' = held /\ writer' = writer
              /\ subscribers' \subseteq subscribers
              /\ reader'[c] # "off" \/ reader'[c] = reader[c]
              /\ canceled[c] => canceled'[c]
          BY <5>1 DEF ReadRequest, Network, ReadFails, Unsubscribe, hub, pump, conn, wire, TypeOK
        <5>3. /\ joined'[c] = joined[c] /\ dropped'[c] = dropped[c]
              /\ shown'[c] = shown[c] /\ send'[c] = send[c] /\ subCh'[c] = subCh[c]
              /\ bridge'[c] = bridge[c] /\ held'[c] = held[c]
              /\ reader'[c] = "off" => reader[c] = "off"
              /\ c \in subscribers' => c \in subscribers
          BY <5>2
        <5>4. Healthy(c)' => Healthy(c)
          BY <5>1, <5>2 DEF Healthy, TypeOK
        <5> QED
          BY <5>2, <5>3, <5>4, Unmoved
      <4> QED
        BY <2>2, <3>2, <4>1, SubscribeKeeps, BridgeStepKeeps, WriterStepKeeps, ReplyKeeps
        DEF ReaderStep
    <3> QED
      BY <3>1, <3>2
  <2>3. CASE UNCHANGED vars
    BY <2>3, Unmoved DEF vars, hub, pump, conn, wire, Healthy
  <2> QED
    BY <2>1, <2>2, <2>3 DEF Next
<1> QED
  BY <1>1, <1>2, <1>3 DEF HubInv

\* The inductive invariant holds of every reachable state.
LEMMA Invariance == Spec => []HubInv
<1>1. Init => HubInv
  <2> SUFFICES ASSUME Init PROVE HubInv
    OBVIOUS
  <2>1. TypeOK
    <3>1. {MaxEvents, SubCap, SendCap, ReplayBufferSize} \subseteq Nat
      BY HubAssumption
    <3>2. panicked \in BOOLEAN /\ subClosed \in [Conns -> BOOLEAN] /\ canceled \in [Conns -> BOOLEAN]
      BY Zenon DEF Init
    <3>3. \A c \in Conns : Len(subCh[c]) <= SubCap /\ Len(send[c]) <= SendCap
      BY <3>1 DEF Init
    <3>4. replayBuf \in Seq(Events) /\ Len(replayBuf) <= ReplayBufferSize
      BY <3>1 DEF Init
    <3>5. /\ subCh \in [Conns -> Seq(Events)] /\ shown \in [Conns -> Seq(Events)]
          /\ send \in [Conns -> Seq(0..MaxEvents)]
      BY DEF Init
    <3> QED
      BY <3>1, <3>2, <3>3, <3>4, <3>5 DEF Init, TypeOK
  <2>2. CountersBounded
    BY DEF Init, CountersBounded
  <2>3. EventsOf(<<>>) = {} /\ InOrder(<<>>)
    BY DEF EventsOf, ToSet, InOrder
  <2>4. ReplayInOrder
    BY <2>3 DEF Init, ReplayInOrder
  <2>5. ASSUME NEW c \in Conns PROVE InLine(c) /\ Unused(c) /\ Counted(c)
    <3>1. shown[c] = <<>> /\ send[c] = <<>> /\ subCh[c] = <<>> /\ bridge[c] = "off"
      BY DEF Init
    <3>2. Shown(c) = {} /\ Sent(c) = {} /\ Hand(c) = {} /\ Queue(c) = {}
      BY <2>3, <3>1 DEF Shown, Sent, Hand, Queue
    <3>3. InLine(c)
      BY <2>3, <3>1, <3>2 DEF InLine, PartsInOrder, PartsInLine, AllBroadcast, AllCarried, Before
    <3> QED
      BY <3>1, <3>3 DEF Init, Unused, Counted
  <2> QED
    BY <2>1, <2>2, <2>4, <2>5 DEF HubInv
<1> QED
  BY <1>1, InvStep, PTL DEF Spec

\* Every variable keeps its type: no channel and no c.send holds more than
\* its capacity, nor the replay buffer more than its size.
THEOREM TypeCorrect == Spec => []TypeOK
<1>1. HubInv => TypeOK
  BY DEF HubInv
<1> QED
  BY <1>1, Invariance, PTL

\* What a connection carries, from the four parts of the pipeline.
LEMMA PipelineParts ==
  ASSUME HubInv, NEW c \in Conns
  PROVE  /\ InOrder(Pipeline(c))
         /\ Carried(c) = AllCarried(c)
<1>1. TypeOK /\ InLine(c)
  BY DEF HubInv
<1>2. shown[c] \in Seq(Nat) /\ send[c] \in Seq(Nat) /\ subCh[c] \in Seq(Nat) /\ held[c] \in Nat
  BY <1>1, QueueTypes
<1>3. PICK h : h = IF bridge[c] = "holding" THEN <<held[c]>> ELSE <<>>
  OBVIOUS
<1>4. h \in Seq(Nat) /\ InOrder(h) /\ EventsOf(h) = Hand(c)
  <2>1. bridge[c] = "holding" => IsEvent(held[c])
    BY <1>1 DEF InLine, AllBroadcast, AllCarried, Hand, IsEvent, Response
  <2> QED
    BY <1>2, <1>3, <2>1 DEF InOrder, EventsOf, ToSet, Hand
<1>5. PICK a : a = shown[c] \o send[c]
  OBVIOUS
<1>6. a \in Seq(Nat) /\ EventsOf(a) = Shown(c) \cup Sent(c) /\ InOrder(a)
  <2>1. Before(EventsOf(shown[c]), EventsOf(send[c])) /\ InOrder(shown[c]) /\ InOrder(send[c])
    BY <1>1 DEF InLine, PartsInOrder, PartsInLine, Before, Shown, Sent
  <2> QED
    BY <1>2, <1>5, <2>1, Joined DEF Shown, Sent
<1>7. PICK b : b = a \o h
  OBVIOUS
<1>8. b \in Seq(Nat) /\ EventsOf(b) = Shown(c) \cup Sent(c) \cup Hand(c) /\ InOrder(b)
  <2>1. Before(EventsOf(a), EventsOf(h))
    BY <1>1, <1>4, <1>6 DEF InLine, PartsInLine, Before
  <2> QED
    BY <1>4, <1>6, <1>7, <2>1, Joined
<1>9. EventsOf(b \o subCh[c]) = AllCarried(c) /\ InOrder(b \o subCh[c])
  <2>1. Before(EventsOf(b), EventsOf(subCh[c])) /\ InOrder(subCh[c])
    BY <1>1, <1>8 DEF InLine, PartsInOrder, PartsInLine, Before, Queue
  <2> QED
    BY <1>2, <1>8, <2>1, Joined DEF AllCarried, Queue
<1>10. Pipeline(c) = b \o subCh[c]
  BY <1>3, <1>5, <1>7 DEF Pipeline
<1> QED
  BY <1>9, <1>10 DEF Carried, EventsOf

\* hub.go, conn.go: whatever the network does, and whatever is dropped, each
\* client is shown events in the order in which they were broadcast and none
\* twice, across the seam between the replay buffer and the channel.
THEOREM ShownInOrder == Spec => []InOrderOnce
<1>1. HubInv => InOrderOnce
  BY PipelineParts DEF InOrderOnce
<1> QED
  BY <1>1, Invariance, PTL

\* hub.go:68, dropCount: of the events broadcast while a healthy connection
\* is subscribed, those it does not carry are all counted.
THEOREM LossCounted == Spec => []LossIsCounted
<1>1. HubInv => LossIsCounted
  <2> SUFFICES ASSUME HubInv, NEW c \in subscribers, ~ canceled[c], writer[c] = "running"
               PROVE  published - joined[c]
                        = dropped[c] + Cardinality({e \in Carried(c) : e > joined[c]})
    BY DEF LossIsCounted
  <2>1. c \in Conns
    BY DEF HubInv, TypeOK
  <2>2. Carried(c) = AllCarried(c)
    BY <2>1, PipelineParts
  <2> QED
    BY <2>1, <2>2 DEF HubInv, Counted
<1> QED
  BY <1>1, Invariance, PTL
=============================================================================
