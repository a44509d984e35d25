------------------------ MODULE EventPipelineProofs ------------------------
(***************************************************************************)
(* Proofs about EventPipeline, for any capacities, any number of sessions, *)
(* of events and of times the server is started; and about ChatTimeline,   *)
(* where the events end up: what the web client makes of them, for any     *)
(* kinds of events, sizes of buffers and pages, and numbers of sessions,   *)
(* events, connections and requests under way.                             *)
(***************************************************************************)
EXTENDS EventPipeline, ChatTimeline, FiniteSetTheorems, SequenceTheorems,
        WellFoundedInduction, TLAPS

(***************************************************************************)
(* The inductive invariant.                                                *)
(*                                                                         *)
(* An event goes along two ways that part at saveCh: it is in m.out, then  *)
(* in hand, then broadcast; and it is queued, then being saved, then a     *)
(* row.  OneOrder holds because whatever is further on either way was      *)
(* emitted before everything that is behind it.                            *)
(***************************************************************************)
Out == ToSet(out)
InHand == IF forwarder = "receive" THEN {} ELSE {held}
Unqueued == IF forwarder = "save" THEN {held} ELSE {}
Queued == ToSet(saveCh)
Saving == IF writer = "save" THEN {saving} ELSE {}
Rows == UNION {ToSet(stored[s]) : s \in MaybeSession}

Ahead(A, B) == \A a \in A, b \in B : a < b

\* Events are numbered as they are emitted.
Numbered == \E n \in 0..MaxEvents : Emitted = 1..n

AllEmitted == Out \cup InHand \cup Queued \cup Saving \cup Rows \cup PublishedEvents \subseteq Emitted

BroadcastInLine ==
  /\ Ahead(PublishedEvents, InHand \cup Out)
  /\ Ahead(InHand, Out)

SavesInLine ==
  /\ Ahead(Rows, Saving \cup Queued \cup Unqueued \cup Out)
  /\ Ahead(Saving, Queued \cup Unqueued \cup Out)
  /\ Ahead(Queued, Unqueued \cup Out)

QueuesInOrder == Increasing(out) /\ Increasing(saveCh)

\* What the two goroutines work on; the row that waits for its number to be
\* filled back is the last of its session.
Busy ==
  /\ forwarder # "receive" => held \in Events
  /\ IF writer = "receive" THEN saving = 0 ELSE saving \in Events
  /\ writer = "fill" =>
       LET rows == stored[sid[saving]] IN
       rows # <<>> /\ rows[Len(rows)] = saving

\* The Seq field of an event, once it is set, is true, sent or not.
SeqFieldIsTrue == \A e \in Events :
  seq[e] # 0 =>
    /\ seq[e] \in DOMAIN stored[sid[e]]
    /\ stored[sid[e]][seq[e]] = e

\* The event in hand has been handed over before it is broadcast.
Saved == Rows \cup Queued \cup {saving} \cup unsaved \cup lost
HandedOver == forwarder = "broadcast" => held \in Saved

OrderInv ==
  /\ Numbered /\ AllEmitted /\ BroadcastInLine /\ SavesInLine /\ QueuesInOrder
  /\ OneOrder
  /\ Busy

IInv ==
  /\ TypeOK /\ OrderInv
  /\ SeqFieldIsTrue /\ SeqIsTrue
  /\ HandedOver /\ BroadcastIsSaved

(***************************************************************************)
(* Sequences.                                                              *)
(***************************************************************************)

\* What Append adds.
LEMMA Appended ==
  ASSUME NEW S, NEW q \in Seq(S), NEW e \in S
  PROVE  /\ Append(q, e) \in Seq(S)
         /\ Len(Append(q, e)) = Len(q) + 1
         /\ DOMAIN Append(q, e) = 1..(Len(q) + 1)
         /\ \A i \in 1..Len(q) : Append(q, e)[i] = q[i]
         /\ Append(q, e)[Len(q) + 1] = e
         /\ ToSet(Append(q, e)) = ToSet(q) \cup {e}
  <1>1. /\ Append(q, e) \in Seq(S)
        /\ Len(Append(q, e)) = Len(q) + 1
        /\ DOMAIN Append(q, e) = 1..(Len(q) + 1)
        /\ \A i \in 1..Len(q) : Append(q, e)[i] = q[i]
        /\ Append(q, e)[Len(q) + 1] = e
    OBVIOUS
  <1>2. DOMAIN q = 1..Len(q) /\ Len(q) \in Nat
    OBVIOUS
  <1>3. 1..(Len(q) + 1) = 1..Len(q) \cup {Len(q) + 1}
    BY <1>2
  <1>4. ToSet(Append(q, e)) = ToSet(q) \cup {e}
    BY <1>1, <1>2, <1>3 DEF ToSet
  <1>5. QED
    BY <1>1, <1>4

LEMMA ElementsInSet ==
  ASSUME NEW S, NEW q \in Seq(S)
  PROVE  ToSet(q) \subseteq S
  BY DEF ToSet

\* What Head and Tail leave.
LEMMA Taken ==
  ASSUME NEW S, NEW q \in Seq(S), q # <<>>
  PROVE  /\ Tail(q) \in Seq(S) /\ Len(Tail(q)) = Len(q) - 1 /\ Len(q) >= 1
         /\ Head(q) \in S /\ Head(q) \in ToSet(q)
         /\ ToSet(Tail(q)) \subseteq ToSet(q)
         /\ ToSet(q) \subseteq ToSet(Tail(q)) \cup {Head(q)}
  <1>1. /\ Tail(q) \in Seq(S) /\ Len(Tail(q)) = Len(q) - 1 /\ Len(q) \in Nat /\ Len(q) >= 1
        /\ DOMAIN q = 1..Len(q) /\ DOMAIN Tail(q) = 1..(Len(q) - 1)
        /\ \A i \in 1..(Len(q) - 1) : Tail(q)[i] = q[i + 1]
        /\ Head(q) = q[1]
    OBVIOUS
  <1>2. Head(q) \in ToSet(q) /\ Head(q) \in S
    BY <1>1 DEF ToSet
  <1>3. ToSet(Tail(q)) \subseteq ToSet(q)
    BY <1>1 DEF ToSet
  <1>4. ASSUME NEW x \in ToSet(q), x # Head(q)
        PROVE  x \in ToSet(Tail(q))
    <2>1. PICK i \in 1..Len(q) : q[i] = x
      BY <1>1 DEF ToSet
    <2>2. i - 1 \in 1..(Len(q) - 1)
      BY <2>1, <1>1, <1>4
    <2>3. Tail(q)[i - 1] = x
      BY <2>1, <2>2, <1>1
    <2>4. QED
      BY <2>2, <2>3, <1>1 DEF ToSet
  <1>5. QED
    BY <1>1, <1>2, <1>3, <1>4

\* An element that is larger than all others keeps a sequence increasing.
LEMMA IncreasingAppend ==
  ASSUME NEW q \in Seq(Nat), Increasing(q), NEW e \in Nat, \A a \in ToSet(q) : a < e
  PROVE  Increasing(Append(q, e))
  <1>1. ASSUME NEW i \in 1..(Len(q) + 1), NEW j \in 1..(Len(q) + 1), i < j
        PROVE  Append(q, e)[i] < Append(q, e)[j]
    <2>1. i \in 1..Len(q) /\ q[i] \in ToSet(q) /\ Append(q, e)[i] = q[i]
      BY <1>1 DEF ToSet
    <2>2. CASE j \in 1..Len(q)
      BY <2>1, <2>2, <1>1 DEF Increasing
    <2>3. CASE j = Len(q) + 1
      BY <2>1, <2>3
    <2>4. QED
      BY <2>2, <2>3
  <1>2. QED
    BY <1>1, Len(Append(q, e)) = Len(q) + 1 DEF Increasing

\* The head of an increasing sequence is its least element.
LEMMA IncreasingTail ==
  ASSUME NEW q \in Seq(Nat), Increasing(q), q # <<>>
  PROVE  Increasing(Tail(q)) /\ \A a \in ToSet(Tail(q)) : Head(q) < a
  <1>1. /\ Len(Tail(q)) = Len(q) - 1 /\ Len(q) \in Nat /\ Len(q) >= 1
        /\ DOMAIN Tail(q) = 1..(Len(q) - 1)
        /\ \A i \in 1..(Len(q) - 1) : Tail(q)[i] = q[i + 1]
        /\ Head(q) = q[1]
    OBVIOUS
  <1>2. Increasing(Tail(q))
    BY <1>1 DEF Increasing
  <1>3. \A i \in 1..(Len(q) - 1) : Head(q) < Tail(q)[i]
    BY <1>1 DEF Increasing
  <1>4. QED
    BY <1>1, <1>2, <1>3 DEF ToSet

\* An increasing sequence of numbers from 1 to n is not longer than n.
LEMMA IncreasingIsShort ==
  ASSUME NEW n \in Nat, NEW q \in Seq(1..n), Increasing(q)
  PROVE  Len(q) <= n
  <1>1. Len(q) \in Nat /\ q \in [1..Len(q) -> 1..n]
    OBVIOUS
  <1>2. IsFiniteSet(1..Len(q)) /\ Cardinality(1..Len(q)) = Len(q)
    <2>1. Len(q) \in Int /\ 1 \in Int
      BY <1>1
    <2>2. IsFiniteSet(1..Len(q))
          /\ Cardinality(1..Len(q)) = IF 1 > Len(q) THEN 0 ELSE Len(q) - 1 + 1
      BY <2>1, FS_Interval
    <2>3. QED
      BY <1>1, <2>2
  <1>3. IsFiniteSet(1..n) /\ Cardinality(1..n) = n
    <2>1. IsFiniteSet(1..n) /\ Cardinality(1..n) = IF 1 > n THEN 0 ELSE n - 1 + 1
      BY n \in Int, 1 \in Int, FS_Interval
    <2>2. QED
      BY <2>1
  <1>4. q \in Injection(1..Len(q), 1..n)
    <2>1. ASSUME NEW i \in 1..Len(q), NEW j \in 1..Len(q), q[i] = q[j]
          PROVE  i = j
      <3>1. q[i] \in Nat /\ ~ (q[i] < q[j]) /\ ~ (q[j] < q[i])
        BY <1>1, <2>1
      <3>2. ~ (i < j) /\ ~ (j < i)
        BY <3>1, <1>1 DEF Increasing
      <3>3. QED
        BY <3>2, <1>1
    <2>2. QED
      BY <1>1, <2>1 DEF Injection, IsInjective
  <1>5. QED
    BY <1>2, <1>3, <1>4, FS_Injection

(***************************************************************************)
(* Type correctness.                                                       *)
(***************************************************************************)
LEMMA Constants ==
  /\ OutCap \in Nat /\ SaveCap \in Nat /\ MaxSessions \in Nat /\ MaxEvents \in Nat
  /\ MaxBoots \in Nat /\ MaxBoots >= 1
  /\ Events \subseteq Nat /\ 0 \notin Events /\ MaybeEvent = Events \cup {0}
  /\ Sessions \subseteq Nat /\ 0 \notin Sessions /\ MaybeSession = Sessions \cup {0}
  BY PipelineAssumption DEF Events, MaybeEvent, Sessions, MaybeSession

\* The initial state satisfies the invariant.
LEMMA Initial == Init => IInv
  <1> SUFFICES ASSUME Init PROVE IInv
    OBVIOUS
  <1>1. TypeOK
    BY Constants DEF Init, TypeOK
  <1>2. /\ Out = {} /\ InHand = {} /\ Unqueued = {} /\ Queued = {} /\ Saving = {}
        /\ Rows = {} /\ PublishedEvents = {} /\ Emitted = {}
    BY DEF Init, Out, InHand, Unqueued, Queued, Saving, Rows, PublishedEvents, Emitted, ToSet
  <1>3. Numbered /\ AllEmitted /\ BroadcastInLine /\ SavesInLine
    <2>1. 0 \in 0..MaxEvents /\ 1..0 = {}
      BY Constants
    <2>2. QED
      BY <1>2, <2>1 DEF Numbered, AllEmitted, BroadcastInLine, SavesInLine, Ahead
  <1>4. QueuesInOrder /\ OneOrder /\ Busy /\ SeqFieldIsTrue /\ SeqIsTrue
    BY DEF Init, QueuesInOrder, OneOrder, Increasing, Busy, SeqFieldIsTrue, SeqIsTrue
  <1>5. HandedOver /\ BroadcastIsSaved
    BY <1>2 DEF Init, HandedOver, BroadcastIsSaved
  <1>6. QED
    BY <1>1, <1>3, <1>4, <1>5 DEF IInv, OrderInv

\* The number of the next event.
LEMMA NextNumber ==
  ASSUME TypeOK, Numbered, Emitted # Events
  PROVE  LET e == Cardinality(Emitted) + 1 IN
         e \in Events /\ e \notin Emitted /\ Emitted = 1..(e - 1)
  <1>1. PICK n \in 0..MaxEvents : Emitted = 1..n
    BY DEF Numbered
  <1>2. Cardinality(Emitted) = n /\ n \in Nat
    <2>1. Cardinality(1..n) = IF 1 > n THEN 0 ELSE n - 1 + 1
      BY n \in Int, 1 \in Int, FS_Interval
    <2>2. QED
      BY <1>1, <2>1
  <1>3. n # MaxEvents
    BY <1>1 DEF Events
  <1>4. QED
    BY <1>1, <1>2, <1>3, Constants DEF Events

\* Rows are in order, so that a session has no more rows than there are events.
LEMMA RowsBounded ==
  ASSUME TypeOK, OneOrder, NEW s \in MaybeSession
  PROVE  Len(stored[s]) \in 0..MaxEvents
  <1>1. stored[s] \in Seq(1..MaxEvents) /\ Increasing(stored[s])
    BY DEF TypeOK, OneOrder, Events
  <1>2. QED
    BY <1>1, Constants, IncreasingIsShort

LEMMA TypeStep ==
  ASSUME TypeOK, OrderInv, [Next]_vars
  PROVE  TypeOK'
  <1> USE DEF TypeOK, runners, forward, writing, boot
  <1>1. ASSUME NEW s \in Sessions, StartSession(s) PROVE TypeOK'
    BY <1>1, Constants DEF StartSession
  <1>2. CASE StopSession
    BY <1>2, Constants DEF StopSession
  <1>3. ASSUME NEW s \in Sessions, RunnerEnds(s) PROVE TypeOK'
    BY <1>3, Constants DEF RunnerEnds
  <1>4. ASSUME NEW s \in Sessions, Emit(s) PROVE TypeOK'
    <2> DEFINE e == Cardinality(Emitted) + 1
    <2>1. e \in Events
      BY <1>4, NextNumber DEF Emit, OrderInv
    <2>2. Append(out, e) \in Seq(Events) /\ Len(Append(out, e)) = Len(out) + 1
      BY <2>1, Appended
    <2>3. out' \in Seq(Events) /\ Len(out') <= OutCap
      BY <1>4, <2>2, Constants DEF Emit
    <2>4. owner' \in [Events -> MaybeSession]
      BY <1>4, Constants DEF Emit
    <2>5. QED
      BY <1>4, <2>3, <2>4 DEF Emit
  <1>5. CASE Take
    <2>1. /\ Tail(out) \in Seq(Events) /\ Len(Tail(out)) = Len(out) - 1
          /\ Head(out) \in Events
      BY <1>5, Taken DEF Take
    <2>2. Len(out') <= OutCap
      BY <2>1, <1>5, Constants DEF Take
    <2>3. QED
      BY <1>5, <2>1, <2>2, Constants DEF Take
  <1>6. CASE QueueForSave
    <2>1. held \in Events
      BY <1>6 DEF QueueForSave, OrderInv, Busy
    <2>2. Append(saveCh, held) \in Seq(Events) /\ Len(Append(saveCh, held)) = Len(saveCh) + 1
      BY <2>1, Appended
    <2>3. saveCh' \in Seq(Events) /\ Len(saveCh') <= SaveCap
      BY <1>6, <2>2, Constants DEF QueueForSave
    <2>4. QED
      BY <1>6, <2>3 DEF QueueForSave
  <1>7. CASE Broadcast
    <2>1. [event |-> held, seq |-> seq[held]] \in [event : Events, seq : 0..MaxEvents]
      BY <1>7 DEF Broadcast, OrderInv, Busy
    <2>2. published' \in Seq([event : Events, seq : 0..MaxEvents])
      BY <1>7, <2>1 DEF Broadcast
    <2>3. QED
      BY <1>7, <2>2, Constants DEF Broadcast
  <1>8. CASE WriterTakes
    <2>1. /\ Tail(saveCh) \in Seq(Events) /\ Len(Tail(saveCh)) = Len(saveCh) - 1
          /\ Head(saveCh) \in Events
      BY <1>8, Taken DEF WriterTakes
    <2>2. saveCh' \in Seq(Events) /\ Len(saveCh') <= SaveCap
      BY <1>8, <2>1, Constants DEF WriterTakes
    <2>3. QED
      BY <1>8, <2>1, <2>2, Constants DEF WriterTakes
  <1>9. CASE SaveMessage
    <2>1. saving \in Events
      BY <1>9 DEF SaveMessage, OrderInv, Busy
    <2>2. Append(stored[sid[saving]], saving) \in Seq(Events)
      BY <2>1, Appended
    <2>3. QED
      BY <1>9, <2>2 DEF SaveMessage
  <1>10. CASE SaveFails
    BY <1>10, Constants DEF SaveFails, OrderInv, Busy
  <1>11. CASE FillSeq
    <2>1. Len(stored[sid[saving]]) \in 0..MaxEvents
      BY <1>11, RowsBounded DEF FillSeq, OrderInv, Busy
    <2>2. QED
      BY <1>11, <2>1, Constants DEF FillSeq
  <1>12. CASE Reboot
    <2>1. lost' \in SUBSET Events
      <3>1. ToSet(out) \subseteq Events /\ ToSet(saveCh) \subseteq Events
        BY ElementsInSet
      <3>2. {held, saving} \ {0} \subseteq Events
        BY Constants
      <3>3. QED
        BY <1>12, <3>1, <3>2 DEF Reboot
    <2>2. boots' \in 1..MaxBoots
      BY <1>12, Constants DEF Reboot
    <2>3. current' \in MaybeSession /\ runner' \in [Sessions -> {"none", "live", "ending", "gone"}]
      BY <1>12, Constants DEF Reboot
    <2>4. /\ out' = <<>> /\ saveCh' = <<>> /\ Len(<<>>) = 0
          /\ <<>> \in Seq(Events)
      BY <1>12 DEF Reboot
    <2>5. msgStore' \in BOOLEAN
      BY <1>12, Zenon DEF Reboot
    <2>6. /\ held' \in MaybeEvent /\ saving' \in MaybeEvent
          /\ forwarder' \in {"receive", "save", "broadcast"}
          /\ writer' \in {"receive", "save", "fill"}
      BY <1>12, Constants DEF Reboot
    <2>7. /\ owner' \in [Events -> MaybeSession] /\ sid' \in [Events -> MaybeSession]
          /\ seq' \in [Events -> 0..MaxEvents] /\ stored' \in [MaybeSession -> Seq(Events)]
          /\ published' \in Seq([event : Events, seq : 0..MaxEvents])
          /\ unsaved' \in SUBSET Events
      BY <1>12 DEF Reboot
    <2>8. Len(out') <= OutCap /\ Len(saveCh') <= SaveCap
      BY <2>4, Constants
    <2>9. QED
      BY <2>1, <2>2, <2>3, <2>4, <2>5, <2>6, <2>7, <2>8
  <1>13. CASE UNCHANGED vars
    BY <1>13 DEF vars
  <1>14. CASE GoesUnsaved
    BY <1>14, Constants DEF GoesUnsaved, OrderInv, Busy
  <1>15. QED
    BY <1>1, <1>2, <1>3, <1>4, <1>5, <1>6, <1>7, <1>8, <1>9, <1>10, <1>11, <1>12, <1>13, <1>14
    DEF Next, Forwarder, Writer

(***************************************************************************)
(* The order of events.                                                    *)
(***************************************************************************)
LEMMA OrderUnchanged ==
  ASSUME OrderInv, UNCHANGED <<owner, out, forward, saveCh, writing, published>>
  PROVE  OrderInv'
  <1> USE DEF forward, writing
  <1>1. /\ Out' = Out /\ InHand' = InHand /\ Unqueued' = Unqueued /\ Queued' = Queued
        /\ Saving' = Saving /\ Rows' = Rows /\ PublishedEvents' = PublishedEvents
        /\ Emitted' = Emitted
    BY DEF Out, InHand, Unqueued, Queued, Saving, Rows, PublishedEvents, Emitted
  <1>2. (Numbered /\ AllEmitted /\ BroadcastInLine /\ SavesInLine)'
    BY <1>1 DEF OrderInv, Numbered, AllEmitted, BroadcastInLine, SavesInLine, Ahead
  <1>3. QueuesInOrder' /\ OneOrder' /\ Busy'
    BY DEF OrderInv, QueuesInOrder, OneOrder, Increasing, Busy
  <1>4. QED
    BY <1>2, <1>3 DEF OrderInv

\* The sequences of the model, as sequences of numbers, and what is in them.
LEMMA Lines ==
  ASSUME TypeOK, OrderInv
  PROVE  /\ out \in Seq(Nat) /\ saveCh \in Seq(Nat)
         /\ \A s \in MaybeSession : stored[s] \in Seq(Nat)
         /\ Out \cup InHand \cup Unqueued \cup Queued \cup Saving \cup Rows \cup PublishedEvents
              \subseteq Nat
         /\ Emitted \subseteq Nat
  <1>1. Emitted \subseteq Nat
    BY Constants DEF Emitted
  <1>2. Unqueued \subseteq InHand
    BY DEF Unqueued, InHand
  <1>3. \A q \in Seq(Events) : q \in Seq(Nat)
    BY Constants, SeqMonotonic
  <1>4. QED
    BY <1>1, <1>2, <1>3 DEF TypeOK, OrderInv, AllEmitted

\* A new row comes after the others of its session.
LEMMA NewRow ==
  ASSUME TypeOK, OrderInv, SaveMessage
  PROVE  /\ Rows' = Rows \cup {saving}
         /\ \A s \in MaybeSession : Increasing(stored'[s])
         /\ LET rows == stored'[sid[saving]] IN
              rows # <<>> /\ rows[Len(rows)] = saving
  <1> DEFINE s0 == sid[saving]
  <1>1. saving \in Events /\ s0 \in MaybeSession /\ stored[s0] \in Seq(Events)
    BY DEF SaveMessage, OrderInv, Busy, TypeOK
  <1>2. stored' = [stored EXCEPT ![s0] = Append(stored[s0], saving)]
    BY DEF SaveMessage
  <1>3. /\ stored'[s0] = Append(stored[s0], saving)
        /\ \A s \in MaybeSession : s # s0 => stored'[s] = stored[s]
    BY <1>1, <1>2 DEF TypeOK
  <1>4. ToSet(stored'[s0]) = ToSet(stored[s0]) \cup {saving}
    BY <1>1, <1>3, Appended
  <1>5. Rows' = Rows \cup {saving}
    <2>1. ASSUME NEW x \in Rows' PROVE x \in Rows \cup {saving}
      <3>1. PICK s \in MaybeSession : x \in ToSet(stored'[s])
        BY DEF Rows
      <3>2. CASE s = s0
        BY <1>1, <1>4, <3>1, <3>2 DEF Rows
      <3>3. CASE s # s0
        BY <1>3, <3>1, <3>3 DEF Rows
      <3>4. QED
        BY <3>2, <3>3
    <2>2. ASSUME NEW x \in Rows PROVE x \in Rows'
      <3>1. PICK s \in MaybeSession : x \in ToSet(stored[s])
        BY DEF Rows
      <3>2. x \in ToSet(stored'[s])
        BY <1>3, <1>4, <3>1
      <3>3. QED
        BY <3>2 DEF Rows
    <2>3. saving \in Rows'
      BY <1>1, <1>4 DEF Rows
    <2>4. QED
      BY <2>1, <2>2, <2>3
  <1>6. \A a \in ToSet(stored[s0]) : a < saving
    BY <1>1 DEF SaveMessage, OrderInv, SavesInLine, Ahead, Rows, Saving
  <1>7. stored[s0] \in Seq(Nat) /\ saving \in Nat /\ Increasing(stored[s0])
    BY <1>1, Lines, Constants DEF OrderInv, OneOrder
  <1>8. Increasing(stored'[s0])
    BY <1>3, <1>6, <1>7, IncreasingAppend
  <1>9. \A s \in MaybeSession : Increasing(stored'[s])
    BY <1>3, <1>8 DEF OrderInv, OneOrder
  <1>10. stored'[s0] # <<>> /\ stored'[s0][Len(stored'[s0])] = saving
    BY <1>1, <1>3
  <1>11. QED
    BY <1>5, <1>9, <1>10

\* What is broadcast comes after everything that was.
LEMMA NewBroadcast ==
  ASSUME TypeOK, OrderInv, Broadcast
  PROVE  /\ PublishedEvents' = PublishedEvents \cup {held}
         /\ Increasing([i \in 1..Len(published) |-> published[i].event])'
  <1> DEFINE r == [event |-> held, seq |-> seq[held]]
             n == Len(published)
  <1>1. held \in Events /\ n \in Nat
    BY DEF Broadcast, OrderInv, Busy, TypeOK
  <1>2. /\ Len(published') = n + 1
        /\ \A i \in 1..n : published'[i] = published[i]
        /\ published'[n + 1].event = held
    BY <1>1 DEF Broadcast, TypeOK
  <1>3. 1..(n + 1) = 1..n \cup {n + 1}
    BY <1>1
  <1>4. PublishedEvents' = PublishedEvents \cup {held}
    BY <1>2, <1>3 DEF PublishedEvents
  <1>5. \A i \in 1..n : published[i].event < held
    BY <1>1 DEF Broadcast, OrderInv, BroadcastInLine, Ahead, PublishedEvents, InHand
  <1>6. \A i, j \in 1..n : i < j => published[i].event < published[j].event
    BY <1>1 DEF OrderInv, OneOrder, Increasing
  <1>7. \A i, j \in 1..(n + 1) : i < j => published'[i].event < published'[j].event
    <2>1. ASSUME NEW i \in 1..(n + 1), NEW j \in 1..(n + 1), i < j
          PROVE  published'[i].event < published'[j].event
      <3>1. i \in 1..n
        BY <2>1, <1>1
      <3>2. CASE j \in 1..n
        BY <3>1, <3>2, <2>1, <1>2, <1>6
      <3>3. CASE j = n + 1
        BY <3>1, <3>3, <1>2, <1>5
      <3>4. QED
        BY <3>2, <3>3, <1>1
    <2>2. QED
      BY <2>1
  <1>8. Increasing([i \in 1..Len(published) |-> published[i].event])'
    <2> DEFINE f == [i \in 1..(n + 1) |-> published'[i].event]
    <2>1. Len(f) = n + 1
      BY <1>1
    <2>2. \A i \in 1..(n + 1) : f[i] = published'[i].event
      OBVIOUS
    <2>3. Increasing(f)
      BY <2>1, <2>2, <1>7 DEF Increasing
    <2>4. QED
      BY <2>3, <1>2
  <1>9. QED
    BY <1>4, <1>8

LEMMA OrderStep ==
  ASSUME TypeOK, TypeOK', OrderInv, [Next]_vars
  PROVE  OrderInv'
  <1> USE DEF runners, forward, writing, boot
  <1>1. CASE \/ StopSession \/ UNCHANGED vars
             \/ \E s \in Sessions : StartSession(s) \/ RunnerEnds(s)
    BY <1>1, OrderUnchanged DEF StartSession, StopSession, RunnerEnds, vars
  <1>2. ASSUME NEW s \in Sessions, Emit(s) PROVE OrderInv'
    <2>1. PICK e \in Events :
            /\ e \notin Emitted /\ Emitted = 1..(e - 1) /\ e \in Nat
            /\ owner' = [owner EXCEPT ![e] = s] /\ out' \in {out, Append(out, e)}
      BY <1>2, NextNumber, Constants DEF Emit, OrderInv
    <2>2. /\ InHand' = InHand /\ Unqueued' = Unqueued /\ Queued' = Queued
          /\ Saving' = Saving /\ Rows' = Rows /\ PublishedEvents' = PublishedEvents
      BY <1>2 DEF Emit, InHand, Unqueued, Queued, Saving, Rows, PublishedEvents
    <2>3. Emitted' = Emitted \cup {e}
      <3>1. s # 0 /\ \A x \in Events : owner'[x] = IF x = e THEN s ELSE owner[x]
        BY <2>1, Constants DEF TypeOK
      <3>2. QED
        BY <2>1, <3>1 DEF Emitted
    <2>4. Append(out, e) \in Seq(Events) /\ ToSet(Append(out, e)) = ToSet(out) \cup {e}
      <3>1. out \in Seq(Events) /\ e \in Events
        BY <2>1 DEF TypeOK
      <3>2. QED
        BY <3>1, Appended
    <2>5. Out' \subseteq Out \cup {e}
      BY <2>1, <2>4 DEF Out
    <2>6. Numbered'
      <3>1. Emitted' = 1..e
        <4>1. 1..e = 1..(e - 1) \cup {e}
          BY <2>1, Constants
        <4>2. QED
          BY <2>1, <2>3, <4>1
      <3>2. e \in 0..MaxEvents
        BY <2>1 DEF Events
      <3>3. QED
        BY <3>1, <3>2 DEF Numbered
    <2>7. \A a \in Emitted : a < e
      BY <2>1
    <2>8. /\ Out \cup InHand \cup Queued \cup Saving \cup Rows \cup PublishedEvents \subseteq Emitted
          /\ Unqueued \subseteq InHand
      BY DEF OrderInv, AllEmitted, Unqueued, InHand
    <2>9. AllEmitted' /\ BroadcastInLine' /\ SavesInLine'
      BY <2>2, <2>3, <2>5, <2>7, <2>8
      DEF OrderInv, AllEmitted, BroadcastInLine, SavesInLine, Ahead
    <2>10. Increasing(out')
      BY <2>1, <2>7, <2>8, Lines, IncreasingAppend DEF OrderInv, QueuesInOrder, Out
    <2>11. QueuesInOrder' /\ OneOrder' /\ Busy'
      <3>1. OneOrder'
        BY <1>2 DEF Emit, OrderInv, OneOrder
      <3>2. QueuesInOrder'
        BY <1>2, <2>10 DEF Emit, OrderInv, QueuesInOrder
      <3>3. Busy'
        BY <1>2 DEF Emit, OrderInv, Busy
      <3>4. QED
        BY <3>1, <3>2, <3>3
    <2>12. QED
      BY <2>6, <2>9, <2>11 DEF OrderInv
  <1>3. CASE Take
    <2> DEFINE h == Head(out)
    <2>1. /\ h \in Events /\ h \in Out /\ Out' \subseteq Out
          /\ Increasing(out') /\ \A a \in Out' : h < a
      BY <1>3, Taken, IncreasingTail, Lines DEF Take, Out, TypeOK, OrderInv, QueuesInOrder
    <2>2. /\ InHand' = {h} /\ Unqueued' = {h}
          /\ Queued' = Queued /\ Saving' = Saving /\ Rows' = Rows
          /\ PublishedEvents' = PublishedEvents /\ Emitted' = Emitted
      BY <1>3 DEF Take, InHand, Unqueued, Queued, Saving, Rows, PublishedEvents, Emitted
    <2>3. (Numbered /\ AllEmitted /\ BroadcastInLine /\ SavesInLine)'
      BY <2>1, <2>2 DEF OrderInv, Numbered, AllEmitted, BroadcastInLine, SavesInLine, Ahead
    <2>4. writer = "fill" => sid'[saving] = sid[saving]
      <3>1. SUFFICES ASSUME writer = "fill" PROVE saving # h
        BY <1>3 DEF Take, TypeOK, OrderInv, Busy
      <3>2. saving \in Rows
        <4> DEFINE rows == stored[sid[saving]]
        <4>1. /\ sid[saving] \in MaybeSession /\ rows \in Seq(Events)
              /\ rows # <<>> /\ rows[Len(rows)] = saving
          BY <3>1 DEF OrderInv, Busy, TypeOK
        <4>2. saving \in ToSet(rows)
          BY <4>1 DEF ToSet
        <4>3. QED
          BY <4>1, <4>2 DEF Rows
      <3>3. h \in Nat
        BY <2>1, Constants
      <3>4. QED
        BY <2>1, <3>2, <3>3 DEF OrderInv, SavesInLine, Ahead
    <2>5. Busy'
      BY <1>3, <2>1, <2>4 DEF Take, OrderInv, Busy
    <2>6. QueuesInOrder' /\ OneOrder'
      BY <1>3, <2>1 DEF Take, OrderInv, QueuesInOrder, OneOrder, Increasing
    <2>7. QED
      BY <2>3, <2>5, <2>6 DEF OrderInv
  <1>4. CASE QueueForSave
    <2>1. held \in Events /\ Unqueued = {held} /\ InHand = {held}
      BY <1>4 DEF QueueForSave, OrderInv, Busy, Unqueued, InHand
    <2>2. /\ Out' = Out /\ InHand' = {held} /\ Unqueued' = {}
          /\ Saving' = Saving /\ Rows' = Rows
          /\ PublishedEvents' = PublishedEvents /\ Emitted' = Emitted
      BY <1>4 DEF QueueForSave, Out, InHand, Unqueued, Saving, Rows, PublishedEvents, Emitted
    <2>3. Queued' = Queued \cup {held}
      BY <1>4, <2>1, Appended DEF QueueForSave, Queued, TypeOK
    <2>4. (Numbered /\ AllEmitted /\ BroadcastInLine /\ SavesInLine)'
      BY <2>1, <2>2, <2>3 DEF OrderInv, Numbered, AllEmitted, BroadcastInLine, SavesInLine, Ahead
    <2>5. Increasing(saveCh')
      BY <1>4, <2>1, Lines, Constants, IncreasingAppend
      DEF QueueForSave, OrderInv, QueuesInOrder, SavesInLine, Ahead, Queued
    <2>6. QueuesInOrder' /\ OneOrder' /\ Busy'
      BY <1>4, <2>5 DEF QueueForSave, OrderInv, QueuesInOrder, OneOrder, Increasing, Busy
    <2>7. QED
      BY <2>4, <2>6 DEF OrderInv
  <1>5. CASE Broadcast
    <2>1. held \in Events /\ Unqueued = {} /\ InHand = {held}
      BY <1>5 DEF Broadcast, OrderInv, Busy, Unqueued, InHand
    <2>2. /\ Out' = Out /\ InHand' = {} /\ Unqueued' = {} /\ Queued' = Queued
          /\ Saving' = Saving /\ Rows' = Rows /\ Emitted' = Emitted
      BY <1>5 DEF Broadcast, Out, InHand, Unqueued, Queued, Saving, Rows, Emitted
    <2>3. (Numbered /\ AllEmitted /\ BroadcastInLine /\ SavesInLine)'
      BY <1>5, <2>1, <2>2, NewBroadcast
      DEF OrderInv, Numbered, AllEmitted, BroadcastInLine, SavesInLine, Ahead
    <2>4. OneOrder'
      BY <1>5, NewBroadcast DEF Broadcast, OrderInv, OneOrder, Increasing
    <2>5. QueuesInOrder' /\ Busy'
      BY <1>5 DEF Broadcast, OrderInv, QueuesInOrder, Increasing, Busy
    <2>6. QED
      BY <2>3, <2>4, <2>5 DEF OrderInv
  <1>6. CASE WriterTakes
    <2> DEFINE h == Head(saveCh)
    <2>1. /\ h \in Events /\ h \in Queued /\ Queued' \subseteq Queued
          /\ Increasing(saveCh') /\ \A a \in Queued' : h < a
      BY <1>6, Taken, IncreasingTail, Lines DEF WriterTakes, Queued, TypeOK, OrderInv, QueuesInOrder
    <2>2. /\ Out' = Out /\ InHand' = InHand /\ Unqueued' = Unqueued
          /\ Saving' = {h} /\ Rows' = Rows
          /\ PublishedEvents' = PublishedEvents /\ Emitted' = Emitted
      BY <1>6 DEF WriterTakes, Out, InHand, Unqueued, Saving, Rows, PublishedEvents, Emitted
    <2>3. (Numbered /\ AllEmitted /\ BroadcastInLine /\ SavesInLine)'
      BY <2>1, <2>2 DEF OrderInv, Numbered, AllEmitted, BroadcastInLine, SavesInLine, Ahead
    <2>4. QueuesInOrder' /\ OneOrder' /\ Busy'
      <3>1. QueuesInOrder'
        BY <1>6, <2>1 DEF WriterTakes, OrderInv, QueuesInOrder
      <3>2. OneOrder'
        BY <1>6 DEF WriterTakes, OrderInv, OneOrder
      <3>3. Busy'
        BY <1>6, <2>1 DEF WriterTakes, OrderInv, Busy
      <3>4. QED
        BY <3>1, <3>2, <3>3
    <2>5. QED
      BY <2>3, <2>4 DEF OrderInv
  <1>7. CASE SaveMessage
    <2>1. saving \in Events /\ Saving = {saving}
      BY <1>7 DEF SaveMessage, OrderInv, Busy, Saving
    <2>2. /\ Out' = Out /\ InHand' = InHand /\ Unqueued' = Unqueued /\ Queued' = Queued
          /\ Saving' = {} /\ PublishedEvents' = PublishedEvents /\ Emitted' = Emitted
      BY <1>7 DEF SaveMessage, Out, InHand, Unqueued, Queued, Saving, PublishedEvents, Emitted
    <2>3. (Numbered /\ AllEmitted /\ BroadcastInLine /\ SavesInLine)'
      BY <1>7, <2>1, <2>2, NewRow
      DEF OrderInv, Numbered, AllEmitted, BroadcastInLine, SavesInLine, Ahead
    <2>4. OneOrder'
      <3>1. \A s \in MaybeSession : Increasing(stored'[s])
        BY <1>7, NewRow
      <3>2. published' = published
        BY <1>7 DEF SaveMessage
      <3>3. QED
        BY <3>1, <3>2 DEF OrderInv, OneOrder
    <2>5. QueuesInOrder' /\ Busy'
      BY <1>7, <2>1, NewRow DEF SaveMessage, OrderInv, QueuesInOrder, Increasing, Busy
    <2>6. QED
      BY <2>3, <2>4, <2>5 DEF OrderInv
  <1>8. CASE SaveFails \/ FillSeq
    <2>1. /\ Out' = Out /\ InHand' = InHand /\ Unqueued' = Unqueued /\ Queued' = Queued
          /\ Saving' = {} /\ Rows' = Rows /\ PublishedEvents' = PublishedEvents
          /\ Emitted' = Emitted
      BY <1>8 DEF SaveFails, FillSeq, Out, InHand, Unqueued, Queued, Saving, Rows,
                  PublishedEvents, Emitted
    <2>2. (Numbered /\ AllEmitted /\ BroadcastInLine /\ SavesInLine)'
      BY <2>1 DEF OrderInv, Numbered, AllEmitted, BroadcastInLine, SavesInLine, Ahead
    <2>3. QueuesInOrder' /\ OneOrder' /\ Busy'
      BY <1>8 DEF SaveFails, FillSeq, OrderInv, QueuesInOrder, OneOrder, Increasing, Busy
    <2>4. QED
      BY <2>2, <2>3 DEF OrderInv
  <1>9. CASE Reboot
    <2>1. /\ Out' = {} /\ InHand' = {} /\ Unqueued' = {} /\ Queued' = {} /\ Saving' = {}
          /\ Rows' = Rows /\ PublishedEvents' = PublishedEvents /\ Emitted' = Emitted
      BY <1>9 DEF Reboot, Out, InHand, Unqueued, Queued, Saving, Rows, PublishedEvents,
                  Emitted, ToSet
    <2>2. (Numbered /\ AllEmitted /\ BroadcastInLine /\ SavesInLine)'
      BY <2>1 DEF OrderInv, Numbered, AllEmitted, BroadcastInLine, SavesInLine, Ahead
    <2>3. QueuesInOrder' /\ OneOrder' /\ Busy'
      <3>1. Increasing(out') /\ Increasing(saveCh')
        BY <1>9 DEF Reboot, Increasing
      <3>2. OneOrder'
        BY <1>9 DEF Reboot, OrderInv, OneOrder
      <3>3. Busy'
        BY <1>9 DEF Reboot, OrderInv, Busy
      <3>4. QED
        BY <3>1, <3>2, <3>3 DEF QueuesInOrder
    <2>4. QED
      BY <2>2, <2>3 DEF OrderInv
  <1>10. CASE GoesUnsaved
    <2>1. held \in Events /\ Unqueued = {held} /\ InHand = {held}
      BY <1>10 DEF GoesUnsaved, OrderInv, Busy, Unqueued, InHand
    <2>2. /\ Out' = Out /\ InHand' = {held} /\ Unqueued' = {} /\ Queued' = Queued
          /\ Saving' = Saving /\ Rows' = Rows
          /\ PublishedEvents' = PublishedEvents /\ Emitted' = Emitted
      BY <1>10 DEF GoesUnsaved, Out, InHand, Unqueued, Queued, Saving, Rows,
                   PublishedEvents, Emitted
    <2>3. (Numbered /\ AllEmitted /\ BroadcastInLine /\ SavesInLine)'
      BY <2>1, <2>2 DEF OrderInv, Numbered, AllEmitted, BroadcastInLine, SavesInLine, Ahead
    <2>4. QueuesInOrder' /\ OneOrder' /\ Busy'
      BY <1>10 DEF GoesUnsaved, OrderInv, QueuesInOrder, OneOrder, Increasing, Busy
    <2>5. QED
      BY <2>3, <2>4 DEF OrderInv
  <1>11. QED
    BY <1>1, <1>2, <1>3, <1>4, <1>5, <1>6, <1>7, <1>8, <1>9, <1>10 DEF Next, Forwarder, Writer

(***************************************************************************)
(* The numbers of events.                                                  *)
(***************************************************************************)

\* A row that there is stays where it is, and an event that has one keeps its
\* session.
LEMMA RowsStay ==
  ASSUME TypeOK, OrderInv, [Next]_vars,
         NEW e \in Rows \cup PublishedEvents
  PROVE  /\ sid'[e] = sid[e]
         /\ \A s \in MaybeSession : \A k \in DOMAIN stored[s] :
              k \in DOMAIN stored'[s] /\ stored'[s][k] = stored[s][k]
  <1> USE DEF runners, forward, writing, boot
  <1>1. sid'[e] = sid[e]
    <2>1. CASE Take
      <3>1. Head(out) \in Out /\ Head(out) \in Events
        BY <2>1, Taken DEF Take, Out, TypeOK
      <3>2. e < Head(out) /\ e \in Nat /\ Head(out) \in Nat
        BY <3>1, Lines DEF OrderInv, SavesInLine, BroadcastInLine, Ahead
      <3>3. e # Head(out)
        BY <3>2
      <3>4. QED
        BY <2>1, <3>1, <3>3 DEF Take, TypeOK
    <2>2. CASE ~ Take
      <3>1. sid' = sid
        BY <2>2 DEF Next, Forwarder, Writer, StopSession, StartSession, RunnerEnds, Emit,
           QueueForSave, GoesUnsaved, Broadcast, WriterTakes, SaveMessage, SaveFails, FillSeq, Reboot, vars
      <3>2. QED
        BY <3>1
    <2>3. QED
      BY <2>1, <2>2
  <1>2. ASSUME NEW s \in MaybeSession, NEW k \in DOMAIN stored[s]
        PROVE  k \in DOMAIN stored'[s] /\ stored'[s][k] = stored[s][k]
    <2>1. CASE SaveMessage
      <3>1. saving \in Events /\ stored[s] \in Seq(Events)
        BY <2>1 DEF SaveMessage, OrderInv, Busy, TypeOK
      <3>2. stored'[s] \in {stored[s], Append(stored[s], saving)}
        BY <2>1 DEF SaveMessage, TypeOK
      <3>3. QED
        BY <3>1, <3>2, Appended, SMTT(30)
    <2>2. CASE ~ SaveMessage
      <3>1. stored' = stored
        BY <2>2 DEF Next, Forwarder, Writer, StopSession, StartSession, RunnerEnds, Emit,
           Take, QueueForSave, GoesUnsaved, Broadcast, WriterTakes, SaveFails, FillSeq, Reboot, vars
      <3>2. QED
        BY <3>1
    <2>3. QED
      BY <2>1, <2>2
  <1>3. QED
    BY <1>1, <1>2

\* The event of an entry of a row.
LEMMA RowOf ==
  ASSUME TypeOK, NEW s \in MaybeSession, NEW k \in DOMAIN stored[s]
  PROVE  stored[s][k] \in Rows
  BY DEF Rows, ToSet

\* A number that is true of an event stays true.
LEMMA TrueStays ==
  ASSUME TypeOK, OrderInv, [Next]_vars, NEW e \in Events, NEW k,
         k \in DOMAIN stored[sid[e]], stored[sid[e]][k] = e
  PROVE  k \in DOMAIN stored'[sid'[e]] /\ stored'[sid'[e]][k] = e
  <1>1. sid[e] \in MaybeSession
    BY DEF TypeOK
  <1>2. e \in Rows
    BY <1>1, RowOf
  <1>3. QED
    BY <1>1, <1>2, RowsStay

LEMMA SeqFieldStep ==
  ASSUME TypeOK, OrderInv, SeqFieldIsTrue, [Next]_vars
  PROVE  SeqFieldIsTrue'
  <1> USE DEF runners, forward, writing, boot
  <1> SUFFICES ASSUME NEW e \in Events, seq'[e] # 0
               PROVE  /\ seq'[e] \in DOMAIN stored'[sid'[e]]
                      /\ stored'[sid'[e]][seq'[e]] = e
    BY DEF SeqFieldIsTrue
  <1>1. CASE seq'[e] = seq[e]
    BY <1>1, TrueStays DEF SeqFieldIsTrue
  <1>2. CASE seq'[e] # seq[e]
    <2>1. FillSeq
      BY <1>2 DEF Next, Forwarder, Writer, StopSession, StartSession, RunnerEnds, Emit,
         Take, QueueForSave, GoesUnsaved, Broadcast, WriterTakes, SaveMessage, SaveFails, Reboot, vars
    <2> DEFINE rows == stored[sid[e]]
    <2>2. e = saving /\ seq'[e] = Len(rows)
      BY <2>1, <1>2 DEF FillSeq, TypeOK
    <2>3. rows \in Seq(Events) /\ rows # <<>> /\ rows[Len(rows)] = e
      BY <2>1, <2>2 DEF FillSeq, OrderInv, Busy, TypeOK
    <2>4. Len(rows) \in DOMAIN rows
      BY <2>3
    <2>5. QED
      BY <2>2, <2>3, <2>4, TrueStays
  <1>3. QED
    BY <1>1, <1>2

LEMMA SeqStep ==
  ASSUME TypeOK, OrderInv, SeqFieldIsTrue, SeqIsTrue, [Next]_vars
  PROVE  SeqIsTrue'
  <1> USE DEF runners, forward, writing, boot
  <1> DEFINE n == Len(published)
  <1>1. n \in Nat /\ \A i \in 1..n : published[i].event \in Events
    <2>0. published \in Seq([event : Events, seq : 0..MaxEvents])
      BY DEF TypeOK
    <2>1. \A i \in 1..n : published[i] \in [event : Events, seq : 0..MaxEvents]
      BY <2>0, ElementOfSeq
    <2>2. QED
      BY <2>1
  <1>2. ASSUME NEW i \in 1..n, published'[i] = published[i], published[i].seq # 0
        PROVE  LET p == published'[i] IN
               /\ p.seq \in DOMAIN stored'[sid'[p.event]]
               /\ stored'[sid'[p.event]][p.seq] = p.event
    <2>1. PICK e \in Events : e = published[i].event
      BY <1>1
    <2>2. PICK k : k = published[i].seq
      OBVIOUS
    <2>3. k \in DOMAIN stored[sid[e]] /\ stored[sid[e]][k] = e
      BY <1>2, <2>1, <2>2 DEF SeqIsTrue
    <2>4. k \in DOMAIN stored'[sid'[e]] /\ stored'[sid'[e]][k] = e
      BY <2>3, TrueStays
    <2>5. QED
      BY <1>2, <2>1, <2>2, <2>4
  <1>3. CASE Broadcast
    <2> DEFINE r == [event |-> held, seq |-> seq[held]]
    <2>1. held \in Events
      BY <1>3 DEF Broadcast, OrderInv, Busy
    <2>2. /\ Len(published') = n + 1
          /\ \A i \in 1..n : published'[i] = published[i]
          /\ published'[n + 1] = r
      BY <1>1, <1>3 DEF Broadcast, TypeOK
    <2>3. r.seq # 0 =>
            /\ r.seq \in DOMAIN stored'[sid'[r.event]]
            /\ stored'[sid'[r.event]][r.seq] = r.event
      BY <2>1, TrueStays DEF SeqFieldIsTrue
    <2>4. ASSUME NEW i \in 1..(n + 1), published'[i].seq # 0
          PROVE  LET p == published'[i] IN
                 /\ p.seq \in DOMAIN stored'[sid'[p.event]]
                 /\ stored'[sid'[p.event]][p.seq] = p.event
      <3>1. CASE i \in 1..n
        BY <3>1, <2>2, <2>4, <1>2
      <3>2. CASE i = n + 1
        BY <3>2, <2>2, <2>3, <2>4
      <3>3. QED
        BY <3>1, <3>2, <1>1
    <2>5. QED
      BY <2>2, <2>4 DEF SeqIsTrue
  <1>4. CASE ~ Broadcast
    <2>1. published' = published
      BY <1>4 DEF Next, Forwarder, Writer, StopSession, StartSession, RunnerEnds, Emit,
         Take, QueueForSave, GoesUnsaved, WriterTakes, SaveMessage, SaveFails, FillSeq, Reboot, vars
    <2>2. QED
      BY <2>1, <1>2 DEF SeqIsTrue
  <1>5. QED
    BY <1>3, <1>4

(***************************************************************************)
(* What is broadcast is saved.                                             *)
(***************************************************************************)
LEMMA SavedStep ==
  ASSUME TypeOK, OrderInv, HandedOver, BroadcastIsSaved, [Next]_vars
  PROVE  HandedOver' /\ BroadcastIsSaved'
  <1> USE DEF runners, forward, writing, boot
  <1>1. \A s \in MaybeSession : stored[s] \in Seq(Events)
    BY DEF TypeOK
  <1>2. BroadcastIsSaved <=> (PublishedEvents \subseteq Saved)
    BY DEF BroadcastIsSaved, Saved, Rows, Queued
  <1>3. BroadcastIsSaved' <=> (PublishedEvents' \subseteq Saved')
    BY DEF BroadcastIsSaved, Saved, Rows, Queued
  <1>4. Saved \ {0} \subseteq Saved'
    <2>1. CASE QueueForSave
      <3>1. held \in Events
        BY <2>1 DEF QueueForSave, OrderInv, Busy
      <3>2. Queued' = Queued \cup {held}
        BY <2>1, <3>1, Appended DEF QueueForSave, Queued, TypeOK
      <3>3. Rows' = Rows
        BY <2>1 DEF QueueForSave, Rows
      <3>4. QED
        BY <2>1, <3>2, <3>3 DEF QueueForSave, Saved
    <2>2. CASE WriterTakes
      <3>1. Queued \subseteq Queued' \cup {Head(saveCh)}
        BY <2>2, Taken DEF WriterTakes, Queued, TypeOK
      <3>2. Rows' = Rows
        BY <2>2 DEF WriterTakes, Rows
      <3>3. saving = 0
        BY <2>2 DEF WriterTakes, OrderInv, Busy
      <3>4. QED
        BY <2>2, <3>1, <3>2, <3>3 DEF WriterTakes, Saved
    <2>3. CASE SaveMessage
      <3>1. Rows \subseteq Rows' /\ Queued' = Queued
        BY <2>3, NewRow DEF SaveMessage, Queued
      <3>2. QED
        BY <2>3, <3>1 DEF SaveMessage, Saved
    <2>4. CASE SaveFails
      <3>1. Rows' = Rows /\ Queued' = Queued
        BY <2>4 DEF SaveFails, Rows, Queued
      <3>2. QED
        BY <2>4, <3>1 DEF SaveFails, Saved
    <2>5. CASE FillSeq
      <3> DEFINE rows == stored[sid[saving]]
      <3>1. /\ sid[saving] \in MaybeSession /\ rows \in Seq(Events)
            /\ rows # <<>> /\ rows[Len(rows)] = saving
        BY <2>5 DEF FillSeq, OrderInv, Busy, TypeOK
      <3>2. Len(rows) \in DOMAIN rows
        BY <3>1
      <3>3. saving \in Rows
        BY <3>1, <3>2, RowOf
      <3>4. Rows' = Rows /\ Queued' = Queued
        BY <2>5 DEF FillSeq, Rows, Queued
      <3>5. QED
        BY <2>5, <3>3, <3>4 DEF FillSeq, Saved
    <2>6. CASE Reboot
      <3>1. Rows' = Rows
        BY <2>6 DEF Reboot, Rows
      <3>2. QED
        BY <2>6, <3>1 DEF Reboot, Saved, Queued
    <2>7. CASE GoesUnsaved
      <3>1. Rows' = Rows /\ Queued' = Queued
        BY <2>7 DEF GoesUnsaved, Rows, Queued
      <3>2. QED
        BY <2>7, <3>1 DEF GoesUnsaved, Saved
    <2>8. CASE ~ (QueueForSave \/ GoesUnsaved \/ Writer \/ Reboot)
      <3>1. UNCHANGED <<stored, saveCh, saving, unsaved, lost>>
        BY <2>8 DEF Next, Forwarder, StopSession, StartSession, RunnerEnds, Emit, Take,
                    Broadcast, vars
      <3>2. QED
        BY <3>1 DEF Saved, Rows, Queued
    <2>9. QED
      BY <2>1, <2>2, <2>3, <2>4, <2>5, <2>6, <2>7, <2>8 DEF Writer
  <1>5. HandedOver'
    <2>1. CASE QueueForSave
      <3>1. held \in Events
        BY <2>1 DEF QueueForSave, OrderInv, Busy
      <3>2. held \in Queued'
        BY <2>1, <3>1, Appended DEF QueueForSave, Queued, TypeOK
      <3>3. QED
        BY <2>1, <3>2 DEF QueueForSave, HandedOver, Saved
    <2>2. CASE GoesUnsaved
      BY <2>2 DEF GoesUnsaved, HandedOver, Saved
    <2>3. CASE ~ (QueueForSave \/ GoesUnsaved)
      <3>1. SUFFICES ASSUME forwarder' = "broadcast" PROVE held' \in Saved'
        BY DEF HandedOver
      <3>2. forwarder = "broadcast" /\ held' = held
        BY <2>3, <3>1 DEF Next, Forwarder, Writer, StopSession, StartSession, RunnerEnds, Emit,
           Take, Broadcast, WriterTakes, SaveMessage, SaveFails, FillSeq, Reboot, vars
      <3>3. held # 0
        BY <3>2, Constants DEF OrderInv, Busy
      <3>4. QED
        BY <3>2, <3>3, <1>4 DEF HandedOver
    <2>4. QED
      BY <2>1, <2>2, <2>3
  <1>6. PublishedEvents' \subseteq Saved'
    <2>1. 0 \notin PublishedEvents /\ PublishedEvents \subseteq Saved
      BY <1>2, Constants DEF OrderInv, AllEmitted, Emitted
    <2>2. PublishedEvents \subseteq Saved'
      BY <1>4, <2>1
    <2>3. CASE Broadcast
      <3>1. held \in Saved /\ held # 0
        BY <2>3, Constants DEF Broadcast, HandedOver, OrderInv, Busy
      <3>2. QED
        BY <2>2, <2>3, <3>1, <1>4, NewBroadcast
    <2>4. CASE ~ Broadcast
      <3>1. published' = published
        BY <2>4 DEF Next, Forwarder, Writer, StopSession, StartSession, RunnerEnds, Emit,
           Take, QueueForSave, GoesUnsaved, WriterTakes, SaveMessage, SaveFails, FillSeq, Reboot, vars
      <3>2. QED
        BY <2>2, <3>1 DEF PublishedEvents
    <2>5. QED
      BY <2>3, <2>4
  <1>7. QED
    BY <1>3, <1>5, <1>6

(***************************************************************************)
(* The theorems.                                                           *)
(***************************************************************************)
LEMMA Invariant == Spec => []IInv
  <1>1. Init => IInv
    BY Initial
  <1>2. IInv /\ [Next]_vars => IInv'
    <2> SUFFICES ASSUME IInv, [Next]_vars PROVE IInv'
      OBVIOUS
    <2>1. TypeOK'
      BY TypeStep DEF IInv
    <2>2. OrderInv'
      BY <2>1, OrderStep DEF IInv
    <2>3. SeqFieldIsTrue' /\ SeqIsTrue'
      BY SeqFieldStep, SeqStep DEF IInv
    <2>4. HandedOver' /\ BroadcastIsSaved'
      BY SavedStep DEF IInv
    <2>5. QED
      BY <2>1, <2>2, <2>3, <2>4 DEF IInv
  <1>3. QED
    BY <1>1, <1>2, PTL DEF Spec

\* Every variable keeps its type: among others, no channel holds more than
\* its capacity, and no session more rows than there are events.
THEOREM TypeCorrect == Spec => []TypeOK
  <1>1. IInv => TypeOK
    BY DEF IInv
  <1>2. QED
    BY <1>1, Invariant, PTL

\* Rows and broadcasts are in the order in which the events were emitted,
\* whatever saves fail and however often the server ends (manager.go:203,
\* main.go:471, message.go:31).
THEOREM Ordered == Spec => []OneOrder
  <1>1. IInv => OneOrder
    BY DEF IInv, OrderInv
  <1>2. QED
    BY <1>1, Invariant, PTL

\* A number that was sent with an event is that of its row, though the
\* writer fills it back into the event while that is being sent (main.go:454).
THEOREM NumbersAreTrue == Spec => []SeqIsTrue
  <1>1. IInv => SeqIsTrue
    BY DEF IInv
  <1>2. QED
    BY <1>1, Invariant, PTL

\* No event is broadcast and then forgotten without a failed save or the end
\* of the server.
THEOREM NothingUnsaved == Spec => []BroadcastIsSaved
  <1>1. IInv => BroadcastIsSaved
    BY DEF IInv
  <1>2. QED
    BY <1>1, Invariant, PTL

(***************************************************************************)
(* Induction and recursion.  The theorems of the library take an operator  *)
(* as a parameter; stated of a set and of a sequence of functions instead, *)
(* both are first order, and follow from the least element that every set  *)
(* of numbers has.                                                         *)
(***************************************************************************)

\* A set of numbers that is not empty has a least one.
LEMMA Least ==
  ASSUME NEW T, T \subseteq Nat, T # {}
  PROVE  \E x \in T : \A y \in T : x <= y
  <1> DEFINE R == OpToRel(<, Nat)
  <1>1. IsWellFoundedOn(R, Nat) BY NatLessThanWellFounded
  <1>2. \A x, y \in Nat : x < y => <<x, y>> \in R BY DEF OpToRel
  <1> HIDE DEF R
  <1>3. PICK x \in T : \A y \in T : ~ (<<y, x>> \in R) BY <1>1, WFMin
  <1>4. \A y \in T : ~ (y < x) BY <1>2, <1>3
  <1> QED BY <1>3, <1>4

\* Induction over the numbers.
LEMMA Induction ==
  ASSUME NEW T, 0 \in T, \A n \in Nat : n \in T => n + 1 \in T
  PROVE  Nat \subseteq T
  <1> SUFFICES ASSUME Nat \ T # {} PROVE FALSE OBVIOUS
  <1>1. PICK x \in Nat \ T : \A y \in Nat \ T : x <= y
    <2> DEFINE U == Nat \ T
    <2>1. U \subseteq Nat /\ U # {} OBVIOUS
    <2> HIDE DEF U
    <2>2. \E x \in U : \A y \in U : x <= y BY <2>1, Least
    <2> QED BY <2>2 DEF U
  <1>2. x # 0 /\ x - 1 \in Nat BY <1>1
  <1>3. x - 1 \in T BY <1>1, <1>2
  <1> QED BY <1>1, <1>2, <1>3

\* The values f[0], ..., f[n] of which each is computed from the one before.
Computes(f, n, S, a, step) ==
  f \in [0..n -> S] /\ f[0] = a /\ \A i \in 1..n : f[i] = step[i][f[i - 1]]

\* What is computed step by step can be computed.
LEMMA Recursion ==
  ASSUME NEW n \in Nat, NEW S, NEW a \in S, NEW step \in [1..n -> [S -> S]]
  PROVE  \E f : Computes(f, n, S, a, step)
  <1> DEFINE T == {k \in Nat : k <= n => \E f : Computes(f, k, S, a, step)}
  <1>1. 0 \in T
    <2>1. Computes([i \in 0..0 |-> a], 0, S, a, step) BY DEF Computes
    <2> QED BY <2>1
  <1>2. ASSUME NEW k \in Nat, k \in T PROVE k + 1 \in T
    <2> SUFFICES ASSUME k + 1 <= n PROVE \E f : Computes(f, k + 1, S, a, step) OBVIOUS
    <2>1. PICK f : Computes(f, k, S, a, step) BY <1>2
    <2>2. k + 1 \in 1..n /\ k \in 0..k /\ f[k] \in S BY <2>1 DEF Computes
    <2>3. PICK v \in S : v = step[k + 1][f[k]] BY <2>2
    <2> DEFINE g == [i \in 0..(k + 1) |-> IF i = k + 1 THEN v ELSE f[i]]
    <2>4. \A i \in 0..k : g[i] = f[i] /\ f[i] \in S BY <2>1 DEF Computes
    <2>5. g[k + 1] = v OBVIOUS
    <2>6. g \in [0..(k + 1) -> S] BY <2>1, <2>3 DEF Computes
    <2> HIDE DEF g
    <2>7. g[0] = a BY <2>1, <2>4 DEF Computes
    <2>8. ASSUME NEW i \in 1..(k + 1) PROVE g[i] = step[i][g[i - 1]]
      <3>1. CASE i = k + 1 BY <2>2, <2>3, <2>4, <2>5, <3>1
      <3>2. CASE i # k + 1
        <4>1. i \in 1..k /\ i \in 0..k /\ i - 1 \in 0..k BY <3>2
        <4> QED BY <2>1, <2>4, <4>1 DEF Computes
      <3> QED BY <3>1, <3>2
    <2> QED BY <2>6, <2>7, <2>8 DEF Computes
  <1>3. n \in T
    <2> HIDE DEF T
    <2>1. Nat \subseteq T BY <1>1, <1>2, Induction
    <2> QED BY <2>1
  <1> QED BY <1>3

(***************************************************************************)
(* The timeline of the client.  Each card stands under the id of an event  *)
(* that was put into it, or is the user's; all questions apart, no two     *)
(* under the same; and, while none was cut off, the cards show all events  *)
(* that were put into it, or what took their place.                        *)
(***************************************************************************)
Card ==
  [kind : Kinds \cup {"user"}, id : 0..Len(log), parts : Seq(Published),
   replaced : SUBSET Published]

Timelines ==
  [cards : Seq(Card), sessionId : SessionIds, lastSeq : 0..MaxBroadcasts,
   taken : SUBSET Published, excused : SUBSET Published]

OwnId(card, events) ==
  IF card.kind = "user" THEN card.id = 0
  ELSE card.id \in events /\ card.kind = log[card.id].kind

OneCardOf(cs) ==
  \A i, j \in DOMAIN cs :
    cs[i].id = cs[j].id /\ i # j => cs[i].kind \in Asks \cup {"user"}

Says(card) == ToSet(card.parts) \cup card.replaced
SaysAll(cs, events) == \A e \in events : \E i \in DOMAIN cs : e \in Says(cs[i])

TimelineInv(c) ==
  /\ c \in Timelines
  /\ Len(c.cards) <= MaxMessages
  /\ \A i \in DOMAIN c.cards : OwnId(c.cards[i], c.taken)
  /\ OneCardOf(c.cards)
  /\ Len(c.cards) < MaxMessages => SaysAll(c.cards, c.taken)

\* What becomes of the cards a: nothing but the last one changes, until they
\* are cut.
Grown(a, b) ==
  \/ a = <<>> \/ Len(b) = MaxMessages
  \/ Len(b) >= Len(a) /\ \A i \in 1..(Len(a) - 1) : b[i] = a[i]

LogOK ==
  /\ log \in Seq([kind : Kinds, session : SessionIds, seq : 0..MaxBroadcasts])
  /\ Len(log) <= MaxBroadcasts
  /\ saved \in 0..Len(log)
  /\ session \in SessionIds

\* The numbers of the module.
LEMMA ChatNumbers ==
  /\ {ReplaySize, WireCap, PageSize, MaxMessages, MaxBroadcasts, MaxStarts,
      MaxConnects, MaxFetches, MaxUser} \subseteq Nat
  /\ MaxMessages > 0 /\ WireCap > 0 /\ ReplaySize > 0
  /\ Kinds \subseteq {"delta", "text", "other"} \cup Asks /\ "user" \notin Kinds
  /\ 0 \in SessionIds
  <1>1. {ReplaySize, WireCap, PageSize, MaxMessages, MaxBroadcasts, MaxStarts,
         MaxConnects, MaxFetches} \subseteq Nat \ {0} /\ MaxUser \in Nat
    BY ChatAssumption
  <1>2. Kinds \subseteq {"delta", "text", "other"} \cup Asks /\ "user" \notin Kinds
    BY ChatAssumption DEF Asks
  <1>3. MaxStarts \in Nat BY <1>1
  <1>4. 0 \in SessionIds BY <1>3 DEF SessionIds
  <1> QED BY <1>1, <1>2, <1>4

\* What is known of an event that was broadcast.
LEMMA EventOf ==
  ASSUME LogOK, NEW e \in Published
  PROVE  /\ log[e].kind \in Kinds /\ log[e].session \in SessionIds
         /\ log[e].seq \in 0..MaxBroadcasts
         /\ e \in 0..Len(log) /\ e \in Nat /\ e # 0
         /\ NewCard(e) \in Card /\ NewCard(e).kind = log[e].kind /\ NewCard(e).id = e
         /\ Says(NewCard(e)) = {e}
  <1>1. e \in DOMAIN log /\ Len(log) \in Nat BY DEF LogOK, Published
  <1>2. log[e] \in [kind : Kinds, session : SessionIds, seq : 0..MaxBroadcasts]
    <2> DEFINE R == [kind : Kinds, session : SessionIds, seq : 0..MaxBroadcasts]
    <2>1. log \in Seq(R) BY DEF LogOK
    <2> HIDE DEF R
    <2>2. log[e] \in R BY <1>1, <2>1
    <2> QED BY <2>2 DEF R
  <1>3. e \in 0..Len(log) /\ e \in Nat /\ e # 0 BY <1>1 DEF Published
  <1>4. <<e>> \in Seq(Published) /\ ToSet(<<e>>) = {e} BY DEF ToSet
  <1>5. NewCard(e) \in Card BY <1>2, <1>3, <1>4 DEF NewCard, Card
  <1>6. NewCard(e).kind = log[e].kind /\ NewCard(e).id = e /\ Says(NewCard(e)) = {e}
    BY <1>4 DEF NewCard, Says
  <1> QED BY <1>2, <1>3, <1>5, <1>6

\* The first k elements of a sequence.
LEMMA FirstOnes ==
  ASSUME NEW S, NEW q \in Seq(S), NEW k \in 0..Len(q)
  PROVE  /\ SubSeq(q, 1, k) \in Seq(S) /\ Len(SubSeq(q, 1, k)) = k
         /\ \A i \in 1..k : SubSeq(q, 1, k)[i] = q[i]
  OBVIOUS

\* The last element of a sequence is replaced.
LEMMA LastSet ==
  ASSUME NEW S, NEW q \in Seq(S), q # <<>>, NEW x \in S
  PROVE  /\ Append(Front(q), x) \in Seq(S) /\ Len(Append(Front(q), x)) = Len(q)
         /\ \A i \in 1..(Len(q) - 1) : Append(Front(q), x)[i] = q[i]
         /\ Append(Front(q), x)[Len(q)] = x
         /\ Last(q) = q[Len(q)] /\ Last(q) \in S /\ Len(q) \in Nat /\ Len(q) >= 1
  <1>1. Len(q) \in Nat /\ Len(q) >= 1 OBVIOUS
  <1>2. Last(q) = q[Len(q)] /\ Last(q) \in S BY <1>1 DEF Last
  <1>3. /\ SubSeq(q, 1, Len(q) - 1) \in Seq(S) /\ Len(SubSeq(q, 1, Len(q) - 1)) = Len(q) - 1
        /\ \A i \in 1..(Len(q) - 1) : SubSeq(q, 1, Len(q) - 1)[i] = q[i]
    <2> PICK k : k = Len(q) - 1 OBVIOUS
    <2>1. k \in 0..Len(q) BY <1>1
    <2>2. /\ SubSeq(q, 1, k) \in Seq(S) /\ Len(SubSeq(q, 1, k)) = k
          /\ \A i \in 1..k : SubSeq(q, 1, k)[i] = q[i]
      BY <2>1, FirstOnes
    <2> QED BY <2>2
  <1> PICK f : f = Front(q) OBVIOUS
  <1>4. /\ f \in Seq(S) /\ Len(f) = Len(q) - 1 /\ \A i \in 1..(Len(q) - 1) : f[i] = q[i]
    BY <1>3 DEF Front
  <1>5. /\ Append(f, x) \in Seq(S) /\ Len(Append(f, x)) = Len(q)
        /\ \A i \in 1..(Len(q) - 1) : Append(f, x)[i] = q[i]
        /\ Append(f, x)[Len(q)] = x
    BY <1>1, <1>4
  <1> QED BY <1>1, <1>2, <1>5

(***************************************************************************)
(* The cards after an event: the last one says more, or a card more, with  *)
(* the first one cut when there are too many.                              *)
(***************************************************************************)
SetsLast(cs, e, q) ==
  /\ Len(cs) >= 1 /\ Len(q) = Len(cs)
  /\ \A i \in 1..(Len(cs) - 1) : q[i] = cs[i]
  /\ \/ q[Len(cs)].kind = cs[Len(cs)].kind /\ q[Len(cs)].id = cs[Len(cs)].id
     \/ q[Len(cs)].kind = log[e].kind /\ q[Len(cs)].id = e
  /\ Says(cs[Len(cs)]) \cup {e} \subseteq Says(q[Len(cs)])

Adds(cs, e, q) ==
  /\ Len(cs) < MaxMessages /\ Len(q) = Len(cs) + 1
  /\ \A i \in 1..Len(cs) : q[i] = cs[i]
  /\ q[Len(cs) + 1] = NewCard(e)

Shifts(cs, e, q) ==
  /\ Len(cs) = MaxMessages /\ Len(q) = MaxMessages
  /\ \A i \in 1..(MaxMessages - 1) : q[i] = cs[i + 1]
  /\ q[MaxMessages] = NewCard(e)

\* A card more.
LEMMA CardMore ==
  ASSUME NEW cs \in Seq(Card), Len(cs) <= MaxMessages, NEW x \in Card
  PROVE  /\ Kept(Append(cs, x)) \in Seq(Card)
         /\ Len(cs) < MaxMessages =>
              /\ Len(Kept(Append(cs, x))) = Len(cs) + 1
              /\ \A i \in 1..Len(cs) : Kept(Append(cs, x))[i] = cs[i]
              /\ Kept(Append(cs, x))[Len(cs) + 1] = x
         /\ Len(cs) = MaxMessages =>
              /\ Len(Kept(Append(cs, x))) = MaxMessages
              /\ \A i \in 1..(MaxMessages - 1) : Kept(Append(cs, x))[i] = cs[i + 1]
              /\ Kept(Append(cs, x))[MaxMessages] = x
  <1>0. MaxMessages \in Nat /\ MaxMessages > 0 BY ChatNumbers
  <1> PICK n : n = Len(cs) OBVIOUS
  <1> PICK q : q = Append(cs, x) OBVIOUS
  <1>1. n \in Nat /\ q \in Seq(Card) /\ Len(q) = n + 1 /\ q # <<>>
        /\ (\A i \in 1..n : q[i] = cs[i]) /\ q[n + 1] = x
    OBVIOUS
  <1>2. CASE n < MaxMessages
    <2>1. Kept(q) = q BY <1>0, <1>1, <1>2 DEF Kept
    <2> QED BY <1>0, <1>1, <1>2, <2>1
  <1>3. CASE n = MaxMessages
    <2>1. Kept(q) = Tail(q) BY <1>0, <1>1, <1>3 DEF Kept
    <2>2. Tail(q) \in Seq(Card) /\ Len(Tail(q)) = n
          /\ \A i \in 1..n : Tail(q)[i] = q[i + 1]
      BY <1>1
    <2>3. \A i \in 1..(n - 1) : q[i + 1] = cs[i + 1] BY <1>1
    <2>4. \A i \in 1..(n - 1) : Tail(q)[i] = cs[i + 1] BY <1>1, <2>2, <2>3
    <2>5. Tail(q)[n] = x BY <1>0, <1>1, <1>3, <2>2
    <2> QED BY <1>0, <1>1, <1>3, <2>1, <2>2, <2>4, <2>5
  <1> QED BY <1>0, <1>1, <1>2, <1>3

LEMMA EventPut ==
  ASSUME LogOK, NEW cs \in Seq(Card), Len(cs) <= MaxMessages, NEW e \in Published
  PROVE  /\ WithEvent(cs, e) \in Seq(Card)
         /\ \/ SetsLast(cs, e, WithEvent(cs, e))
            \/ Adds(cs, e, WithEvent(cs, e))
            \/ Shifts(cs, e, WithEvent(cs, e))
  <1>0. /\ NewCard(e) \in Card /\ NewCard(e).kind = log[e].kind /\ NewCard(e).id = e
        /\ Says(NewCard(e)) = {e} /\ log[e].kind \in Kinds /\ e \in 0..Len(log)
    BY EventOf
  <1> PICK n : n = Len(cs) OBVIOUS
  <1>1. n \in Nat OBVIOUS
  <1>2. CASE cs # <<>> /\ Merges(Last(cs), e)
    <2> PICK last \in Card : last = Last(cs) BY <1>2, LastSet
    <2> PICK p : p = Append(last.parts, e) OBVIOUS
    <2>1. last.parts \in Seq(Published) /\ last.replaced \subseteq Published BY DEF Card
    <2>2. p \in Seq(Published) /\ ToSet(p) = ToSet(last.parts) \cup {e}
      BY <2>1, Appended
    <2> PICK x : x = [last EXCEPT !.parts = p] OBVIOUS
    <2>3. /\ x \in Card /\ x.kind = last.kind /\ x.id = last.id
          /\ x.parts = p /\ x.replaced = last.replaced
      BY <2>2 DEF Card
    <2>4. Says(x) = Says(last) \cup {e} BY <2>2, <2>3 DEF Says
    <2>5. ~ Replaces(Last(cs), e) BY <1>2 DEF Merges, Replaces, Asks
    <2>6. WithEvent(cs, e) = Append(Front(cs), x)
      BY <1>2, <2>5 DEF WithEvent
    <2> PICK q : q = WithEvent(cs, e) OBVIOUS
    <2>7. /\ q \in Seq(Card) /\ Len(q) = n /\ \A i \in 1..(n - 1) : q[i] = cs[i]
          /\ q[n] = x /\ last = cs[n] /\ n >= 1
      BY <1>2, <2>3, <2>6, LastSet
    <2> QED BY <2>3, <2>4, <2>7 DEF SetsLast
  <1>3. CASE cs # <<>> /\ ~ Merges(Last(cs), e) /\ Replaces(Last(cs), e)
    <2> PICK last \in Card : last = Last(cs) BY <1>3, LastSet
    <2>1. last.parts \in Seq(Published) /\ last.replaced \subseteq Published BY DEF Card
    <2> PICK r : r = ToSet(last.parts) \cup last.replaced OBVIOUS
    <2>2. r \in SUBSET Published BY <2>1, ElementsInSet
    <2> PICK new \in Card : new = NewCard(e) BY <1>0
    <2> PICK x : x = [new EXCEPT !.replaced = r] OBVIOUS
    <2>3. /\ x \in Card /\ x.kind = log[e].kind /\ x.id = e
          /\ x.parts = new.parts /\ x.replaced = r
      BY <1>0, <2>2 DEF Card
    <2>4. new.replaced = {} BY DEF NewCard
    <2>5. Says(last) \cup {e} \subseteq Says(x) BY <1>0, <2>3, <2>4 DEF Says
    <2>6. WithEvent(cs, e) = Append(Front(cs), x)
      BY <1>3 DEF WithEvent
    <2> PICK q : q = WithEvent(cs, e) OBVIOUS
    <2>7. /\ q \in Seq(Card) /\ Len(q) = n /\ \A i \in 1..(n - 1) : q[i] = cs[i]
          /\ q[n] = x /\ last = cs[n] /\ n >= 1
      BY <1>3, <2>3, <2>6, LastSet
    <2> QED BY <2>3, <2>5, <2>7 DEF SetsLast
  <1>4. CASE cs = <<>> \/ ~ (Merges(Last(cs), e) \/ Replaces(Last(cs), e))
    <2>1. WithEvent(cs, e) = Kept(Append(cs, NewCard(e))) BY <1>4 DEF WithEvent
    <2> PICK new \in Card : new = NewCard(e) BY <1>0
    <2>2. Len(cs) < MaxMessages \/ Len(cs) = MaxMessages BY ChatNumbers, <1>1
    <2> PICK q : q = Kept(Append(cs, new)) OBVIOUS
    <2>3. q \in Seq(Card) BY CardMore
    <2>4. Len(cs) < MaxMessages => Adds(cs, e, q) BY CardMore DEF Adds
    <2>5. Len(cs) = MaxMessages => Shifts(cs, e, q) BY CardMore DEF Shifts
    <2>6. WithEvent(cs, e) = q BY <2>1
    <2> QED BY <2>2, <2>3, <2>4, <2>5, <2>6
  <1> QED BY <1>2, <1>3, <1>4

\* What is known of the cards and of the events they were made from.
CardsInv(cs, events) ==
  /\ Len(cs) <= MaxMessages
  /\ \A i \in DOMAIN cs : OwnId(cs[i], events)
  /\ OneCardOf(cs)
  /\ Len(cs) < MaxMessages => SaysAll(cs, events)

LEMMA CardsStep ==
  ASSUME LogOK, NEW cs \in Seq(Card), NEW events \in SUBSET Published,
         NEW e \in Published, CardsInv(cs, events), ~ Known(cs, e),
         NEW q \in Seq(Card), SetsLast(cs, e, q) \/ Adds(cs, e, q) \/ Shifts(cs, e, q)
  PROVE  CardsInv(q, events \cup {e})
  <1>0. MaxMessages \in Nat /\ MaxMessages > 0 /\ "user" \notin Kinds BY ChatNumbers
  <1>1. /\ NewCard(e).kind = log[e].kind /\ NewCard(e).id = e /\ Says(NewCard(e)) = {e}
        /\ log[e].kind \in Kinds /\ e # 0
    BY EventOf
  <1>2. PICK n \in Nat : n = Len(cs) OBVIOUS
  <1>3. DOMAIN cs = 1..n /\ DOMAIN q = 1..Len(q) BY <1>2
  <1>4. \A i \in 1..n : OwnId(cs[i], events) BY <1>3 DEF CardsInv
  <1>5. \A i, j \in 1..n : cs[i].id = cs[j].id /\ i # j => cs[i].kind \in Asks \cup {"user"}
    BY <1>3 DEF CardsInv, OneCardOf
  <1>6. n < MaxMessages => SaysAll(cs, events) BY <1>2 DEF CardsInv
  <1>7. \A i \in 1..n : cs[i].id = e => cs[i].kind = log[e].kind /\ log[e].kind \in Asks
    <2> SUFFICES ASSUME NEW i \in 1..n, cs[i].id = e
                 PROVE  cs[i].kind = log[e].kind /\ log[e].kind \in Asks
      OBVIOUS
    <2>1. log[e].kind \in Asks BY <1>3 DEF Known
    <2>2. cs[i].kind = log[e].kind BY <1>1, <1>4 DEF OwnId
    <2> QED BY <2>1, <2>2
  <1>8. n <= MaxMessages BY <1>2 DEF CardsInv
  <1>9. OwnId(NewCard(e), events \cup {e}) BY <1>0, <1>1 DEF OwnId
  <1>10. \A i \in 1..n : OwnId(cs[i], events \cup {e}) BY <1>4 DEF OwnId
  <1>11. CASE SetsLast(cs, e, q)
    <2>1. /\ n >= 1 /\ Len(q) = n /\ \A i \in 1..(n - 1) : q[i] = cs[i]
          /\ \/ q[n].kind = cs[n].kind /\ q[n].id = cs[n].id
             \/ q[n].kind = log[e].kind /\ q[n].id = e
          /\ Says(cs[n]) \cup {e} \subseteq Says(q[n])
      BY <1>2, <1>11 DEF SetsLast
    <2>2. \A i \in 1..n : i = n \/ i \in 1..(n - 1) BY <1>2
    <2>3. OwnId(q[n], events \cup {e})
      <3>1. n \in 1..n BY <1>2, <2>1
      <3> QED BY <1>0, <1>1, <1>10, <2>1, <3>1 DEF OwnId
    <2>4. \A i \in DOMAIN q : OwnId(q[i], events \cup {e})
      BY <1>3, <1>10, <2>1, <2>2, <2>3
    <2>5. OneCardOf(q)
      <3> SUFFICES ASSUME NEW i \in 1..n, NEW j \in 1..n, q[i].id = q[j].id, i # j
                   PROVE  q[i].kind \in Asks \cup {"user"}
        BY <1>3, <2>1 DEF OneCardOf
      <3>1. CASE q[n].kind = cs[n].kind /\ q[n].id = cs[n].id
        <4>1. \A k \in 1..n : q[k].kind = cs[k].kind /\ q[k].id = cs[k].id
          BY <2>1, <2>2, <3>1
        <4> QED BY <1>5, <4>1
      <3>2. CASE q[n].kind = log[e].kind /\ q[n].id = e
        <4>1. CASE i = n
          <5>1. j \in 1..(n - 1) /\ q[j] = cs[j] BY <2>1, <2>2, <4>1
          <5>2. log[e].kind \in Asks BY <1>7, <3>2, <4>1, <5>1
          <5> QED BY <3>2, <4>1, <5>2
        <4>2. CASE i # n /\ j = n
          <5>1. i \in 1..(n - 1) /\ q[i] = cs[i] BY <2>1, <2>2, <4>2
          <5> QED BY <1>7, <3>2, <4>2, <5>1
        <4>3. CASE i # n /\ j # n
          <5>1. q[i] = cs[i] /\ q[j] = cs[j] BY <2>1, <2>2, <4>3
          <5> QED BY <1>5, <5>1
        <4> QED BY <4>1, <4>2, <4>3
      <3> QED BY <2>1, <3>1, <3>2
    <2>6. Len(q) < MaxMessages => SaysAll(q, events \cup {e})
      <3> SUFFICES ASSUME n < MaxMessages, NEW d \in events \cup {e}
                   PROVE  \E i \in 1..n : d \in Says(q[i])
        BY <1>3, <2>1 DEF SaysAll
      <3>1. n \in 1..n BY <1>2, <2>1
      <3>2. CASE d = e BY <2>1, <3>1, <3>2
      <3>3. CASE d \in events
        <4>1. PICK i \in 1..n : d \in Says(cs[i]) BY <1>3, <1>6, <3>3 DEF SaysAll
        <4>2. d \in Says(q[i]) BY <2>1, <2>2, <4>1
        <4> QED BY <4>2
      <3> QED BY <3>2, <3>3
    <2> QED BY <1>8, <2>1, <2>4, <2>5, <2>6 DEF CardsInv
  <1>12. CASE Adds(cs, e, q)
    <2>1. /\ n < MaxMessages /\ Len(q) = n + 1 /\ \A i \in 1..n : q[i] = cs[i]
          /\ q[n + 1] = NewCard(e)
      BY <1>2, <1>12 DEF Adds
    <2>2. \A i \in 1..(n + 1) : i = n + 1 \/ i \in 1..n BY <1>2
    <2>3. \A i \in DOMAIN q : OwnId(q[i], events \cup {e})
      BY <1>3, <1>9, <1>10, <2>1, <2>2
    <2>4. OneCardOf(q)
      <3> SUFFICES ASSUME NEW i \in 1..(n + 1), NEW j \in 1..(n + 1), q[i].id = q[j].id, i # j
                   PROVE  q[i].kind \in Asks \cup {"user"}
        BY <1>3, <2>1 DEF OneCardOf
      <3>1. CASE i = n + 1
        <4>1. j \in 1..n BY <2>2, <3>1
        <4> QED BY <1>1, <1>7, <2>1, <3>1, <4>1
      <3>2. CASE i \in 1..n /\ j = n + 1 BY <1>1, <1>7, <2>1, <3>2
      <3>3. CASE i \in 1..n /\ j \in 1..n BY <1>5, <2>1, <3>3
      <3> QED BY <2>2, <3>1, <3>2, <3>3
    <2>5. SaysAll(q, events \cup {e})
      <3> SUFFICES ASSUME NEW d \in events \cup {e}
                   PROVE  \E i \in 1..(n + 1) : d \in Says(q[i])
        BY <1>3, <2>1 DEF SaysAll
      <3>1. n + 1 \in 1..(n + 1) /\ \A i \in 1..n : i \in 1..(n + 1) BY <1>2
      <3>2. CASE d = e BY <1>1, <2>1, <3>1, <3>2
      <3>3. CASE d \in events
        <4>1. PICK i \in 1..n : d \in Says(cs[i])
          BY <1>3, <1>6, <2>1, <3>3 DEF SaysAll
        <4> QED BY <2>1, <3>1, <4>1
      <3> QED BY <3>2, <3>3
    <2>6. Len(q) <= MaxMessages BY <1>0, <1>2, <2>1
    <2> QED BY <2>3, <2>4, <2>5, <2>6 DEF CardsInv
  <1>13. CASE Shifts(cs, e, q)
    <2> PICK m \in Nat : m = MaxMessages BY <1>0
    <2>1. /\ n = m /\ Len(q) = m /\ m > 0 /\ \A i \in 1..(m - 1) : q[i] = cs[i + 1]
          /\ q[m] = NewCard(e)
      BY <1>0, <1>2, <1>13 DEF Shifts
    <2>2. \A i \in 1..m : i = m \/ (i \in 1..(m - 1) /\ i + 1 \in 1..n) BY <2>1
    <2>3. \A i \in DOMAIN q : OwnId(q[i], events \cup {e})
      BY <1>3, <1>9, <1>10, <2>1, <2>2
    <2>4. OneCardOf(q)
      <3> SUFFICES ASSUME NEW i \in 1..m, NEW j \in 1..m, q[i].id = q[j].id, i # j
                   PROVE  q[i].kind \in Asks \cup {"user"}
        BY <1>3, <2>1 DEF OneCardOf
      <3>1. CASE i = m
        <4>1. j \in 1..(m - 1) /\ j + 1 \in 1..n BY <2>2, <3>1
        <4> QED BY <1>1, <1>7, <2>1, <3>1, <4>1
      <3>2. CASE i # m /\ j = m
        <4>1. i \in 1..(m - 1) /\ i + 1 \in 1..n BY <2>2, <3>2
        <4> QED BY <1>1, <1>7, <2>1, <3>2, <4>1
      <3>3. CASE i # m /\ j # m
        <4>1. /\ i \in 1..(m - 1) /\ i + 1 \in 1..n /\ j \in 1..(m - 1) /\ j + 1 \in 1..n
              /\ i + 1 # j + 1
          BY <2>2, <3>3
        <4>2. cs[i + 1].id = cs[j + 1].id BY <2>1, <4>1
        <4>3. cs[i + 1].kind \in Asks \cup {"user"} BY <1>5, <4>1, <4>2
        <4> QED BY <2>1, <4>1, <4>3
      <3> QED BY <3>1, <3>2, <3>3
    <2>5. Len(q) <= MaxMessages /\ ~ (Len(q) < MaxMessages) BY <2>1
    <2> QED BY <2>3, <2>4, <2>5 DEF CardsInv
  <1> QED BY <1>11, <1>12, <1>13

\* The cards but the last stay as they were.
LEMMA GrownStep ==
  ASSUME NEW a \in Seq(Card), NEW cs \in Seq(Card), NEW e, NEW q \in Seq(Card), Grown(a, cs),
         Len(cs) <= MaxMessages,
         SetsLast(cs, e, q) \/ Adds(cs, e, q) \/ Shifts(cs, e, q)
  PROVE  Grown(a, q)
  <1>0. MaxMessages \in Nat /\ MaxMessages > 0 BY ChatNumbers
  <1>1. PICK n \in Nat : n = Len(cs) OBVIOUS
  <1>2. PICK k \in Nat : k = Len(a) OBVIOUS
  <1>3. CASE a = <<>> BY <1>3 DEF Grown
  <1>4. CASE n = MaxMessages
    <2>1. Len(q) = MaxMessages BY <1>0, <1>1, <1>4 DEF SetsLast, Adds, Shifts
    <2> QED BY <2>1 DEF Grown
  <1>5. CASE n # MaxMessages /\ n >= k /\ \A i \in 1..(k - 1) : cs[i] = a[i]
    <2>1. ~ Shifts(cs, e, q) BY <1>1, <1>5 DEF Shifts
    <2>2. Len(q) >= n /\ \A i \in 1..(n - 1) : q[i] = cs[i]
      BY <1>1, <2>1 DEF SetsLast, Adds
    <2>3. \A i \in 1..(k - 1) : i \in 1..(n - 1) BY <1>1, <1>2, <1>5
    <2>4. \A i \in 1..(k - 1) : q[i] = a[i] BY <1>5, <2>2, <2>3
    <2>5. Len(q) >= k BY <1>1, <1>2, <1>5, <2>2
    <2> QED BY <1>2, <2>4, <2>5 DEF Grown
  <1> QED BY <1>1, <1>2, <1>3, <1>4, <1>5 DEF Grown

\* An event that is received is put into the timeline, is there already, or is
\* ignored because it is of the session that was stopped.
LEMMA EventStep ==
  ASSUME LogOK, NEW c, TimelineInv(c), NEW e \in Published, NEW sq \in 0..MaxBroadcasts,
         NEW s \in SessionIds
  PROVE  /\ TimelineInv(EventReceived(c, e, sq, s))
         /\ c.taken \subseteq EventReceived(c, e, sq, s).taken
         /\ c.excused \subseteq EventReceived(c, e, sq, s).excused
         /\ e \in EventReceived(c, e, sq, s).taken
                    \cup EventReceived(c, e, sq, s).excused
         /\ \A a \in Seq(Card) :
              Grown(a, c.cards) => Grown(a, EventReceived(c, e, sq, s).cards)
  <1> PICK d : d = EventReceived(c, e, sq, s) OBVIOUS
  <1>1. /\ c \in [cards : Seq(Card), sessionId : SessionIds, lastSeq : 0..MaxBroadcasts,
                  taken : SUBSET Published, excused : SUBSET Published]
        /\ CardsInv(c.cards, c.taken)
    BY DEF TimelineInv, CardsInv, Timelines
  <1>2. CASE s # 0 /\ s = stoppedSessionId
    <2> PICK x \in SUBSET Published : x = c.excused \cup {e} BY <1>1
    <2>1. d = [c EXCEPT !.excused = x] BY <1>2 DEF EventReceived
    <2>2. /\ d \in [cards : Seq(Card), sessionId : SessionIds, lastSeq : 0..MaxBroadcasts,
                    taken : SUBSET Published, excused : SUBSET Published]
          /\ d.cards = c.cards /\ d.taken = c.taken /\ d.excused = x
      BY <1>1, <2>1
    <2>3. TimelineInv(d) BY <1>1, <2>2 DEF TimelineInv, CardsInv, Timelines
    <2> QED BY <2>2, <2>3
  <1>3. CASE ~ (s # 0 /\ s = stoppedSessionId) /\ Known(c.cards, e)
    <2>1. d = c BY <1>3 DEF EventReceived
    <2>2. PICK i \in DOMAIN c.cards : c.cards[i].id = e BY <1>3 DEF Known
    <2>3. OwnId(c.cards[i], c.taken) BY DEF TimelineInv
    <2>4. e # 0 BY EventOf
    <2>5. e \in c.taken BY <2>2, <2>3, <2>4 DEF OwnId
    <2> QED BY <2>1, <2>5
  <1>4. CASE ~ (s # 0 /\ s = stoppedSessionId) /\ ~ Known(c.cards, e)
    <2> PICK cs \in Seq(Card) : cs = c.cards BY <1>1
    <2> PICK events \in SUBSET Published : events = c.taken BY <1>1
    <2> PICK q : q = WithEvent(cs, e) OBVIOUS
    <2>1. CardsInv(cs, events) /\ ~ Known(cs, e) /\ Len(cs) <= MaxMessages
      BY <1>1, <1>4 DEF CardsInv
    <2>2. /\ q \in Seq(Card)
          /\ SetsLast(cs, e, q) \/ Adds(cs, e, q) \/ Shifts(cs, e, q)
      BY <2>1, EventPut
    <2>3. CardsInv(q, events \cup {e}) BY <2>1, <2>2, CardsStep
    <2>4. \A a \in Seq(Card) : Grown(a, cs) => Grown(a, q) BY <2>1, <2>2, GrownStep
    <2> PICK t \in SUBSET Published : t = events \cup {e} OBVIOUS
    <2> PICK i \in SessionIds : i = IF c.sessionId = 0 THEN s ELSE c.sessionId BY <1>1
    <2> PICK l \in 0..MaxBroadcasts : l = IF sq > c.lastSeq THEN sq ELSE c.lastSeq BY <1>1
    <2>5. d = [cards |-> q, sessionId |-> i, lastSeq |-> l, taken |-> t, excused |-> c.excused]
      BY <1>4 DEF EventReceived
    <2>6. /\ d \in [cards : Seq(Card), sessionId : SessionIds, lastSeq : 0..MaxBroadcasts,
                    taken : SUBSET Published, excused : SUBSET Published]
          /\ d.cards = q /\ d.taken = t /\ d.excused = c.excused
      BY <1>1, <2>2, <2>5
    <2>7. TimelineInv(d) BY <2>3, <2>6 DEF TimelineInv, CardsInv, Timelines
    <2> QED BY <2>4, <2>6, <2>7
  <1> QED BY <1>2, <1>3, <1>4

(***************************************************************************)
(* Pages.                                                                  *)
(***************************************************************************)

\* The rows of a page are put into the timeline one after the other.
LEMMA RowsPut ==
  ASSUME LogOK, TimelineInv(State), NEW rows \in Seq(Published), NEW s \in SessionIds
  PROVE  /\ TimelineInv(WithRows(rows, s))
         /\ taken \subseteq WithRows(rows, s).taken
         /\ excused \subseteq WithRows(rows, s).excused
         /\ Grown(State.cards, WithRows(rows, s).cards)
  <1> DEFINE n == Len(rows)
             S == {c \in Timelines : TimelineInv(c)}
             step == [i \in 1..n |-> [c \in S |-> EventReceived(c, rows[i], 0, s)]]
             next(f) == [i \in 0..n |->
                          IF i = 0 THEN State ELSE EventReceived(f[i - 1], rows[i], 0, s)]
             put == CHOOSE f : f = next(f)
  <1>1. WithRows(rows, s) = put[n] BY DEF WithRows
  <1>2. n \in Nat /\ \A i \in 1..n : rows[i] \in Published OBVIOUS
  <1> HIDE DEF n
  <1>3. 0 \in 0..MaxBroadcasts BY ChatNumbers
  <1>4. ASSUME NEW c, TimelineInv(c), NEW i \in 1..n
        PROVE  LET d == EventReceived(c, rows[i], 0, s) IN
               /\ TimelineInv(d) /\ d \in S
               /\ c.taken \subseteq d.taken /\ c.excused \subseteq d.excused
               /\ \A a \in Seq(Card) : Grown(a, c.cards) => Grown(a, d.cards)
    <2> PICK e \in Published : e = rows[i] BY <1>2
    <2> PICK d : d = EventReceived(c, e, 0, s) OBVIOUS
    <2>1. /\ TimelineInv(d)
          /\ c.taken \subseteq d.taken /\ c.excused \subseteq d.excused
          /\ \A a \in Seq(Card) : Grown(a, c.cards) => Grown(a, d.cards)
      BY <1>3, <1>4, EventStep
    <2>2. d \in S BY <2>1 DEF TimelineInv
    <2> QED BY <2>1, <2>2
  <1>5. State \in S BY DEF TimelineInv
  <1>6. step \in [1..n -> [S -> S]]
    <2>1. ASSUME NEW i \in 1..n, NEW c \in S
          PROVE  EventReceived(c, rows[i], 0, s) \in S
      BY <1>4
    <2> HIDE DEF S
    <2> QED BY <2>1
  <1>7. PICK g : Computes(g, n, S, State, step)
    <2> DEFINE a == State
    <2>1. a \in S BY <1>5
    <2> HIDE DEF step, S, a
    <2>2. \E f : Computes(f, n, S, a, step) BY <1>2, <1>6, <2>1, Recursion
    <2> QED BY <2>2 DEF a
  <1>8. \A i \in 1..n : g[i] = EventReceived(g[i - 1], rows[i], 0, s)
    <2> SUFFICES ASSUME NEW i \in 1..n
                 PROVE  g[i] = EventReceived(g[i - 1], rows[i], 0, s)
      OBVIOUS
    <2> HIDE DEF S
    <2>1. i - 1 \in 0..n BY <1>2
    <2>2. g[i - 1] \in S /\ g[i] = step[i][g[i - 1]] BY <1>7, <2>1 DEF Computes
    <2> QED BY <2>2
  <1>9. /\ \A i \in 0..n : i = 0 \/ i \in 1..n
        /\ \A i \in 1..n : i \in 0..n /\ i # 0
        /\ 0 \in 0..n
    BY <1>2
  <1>10. put = next(put)
    <2>1. g = [i \in 0..n |-> g[i]] /\ g[0] = State
      <3> HIDE DEF S, step
      <3> QED BY <1>7 DEF Computes
    <2>2. \A i \in 0..n : g[i] = IF i = 0 THEN State
                                 ELSE EventReceived(g[i - 1], rows[i], 0, s)
      BY <2>1, <1>8, <1>9, Zenon
    <2>3. g = next(g) BY <2>1, <2>2, Zenon
    <2> HIDE DEF next
    <2> QED BY <2>3, Zenon
  <1> HIDE DEF put, next
  <1>11. /\ put[0] = State
         /\ \A i \in 1..n : put[i] = EventReceived(put[i - 1], rows[i], 0, s)
    <2>1. put[0] = next(put)[0] /\ \A i \in 1..n : put[i] = next(put)[i]
      BY <1>10, Zenon
    <2>2. next(put)[0] = State BY <1>9, Zenon DEF next
    <2>3. \A i \in 1..n : next(put)[i] = EventReceived(put[i - 1], rows[i], 0, s)
      BY <1>9, Zenon DEF next
    <2> QED BY <2>1, <2>2, <2>3, Zenon
  <1> DEFINE Good(c) == /\ TimelineInv(c)
                        /\ taken \subseteq c.taken /\ excused \subseteq c.excused
                        /\ Grown(State.cards, c.cards)
             T == {i \in Nat : i <= n => Good(put[i])}
  <1>12. 0 \in T
    <2>1. State.taken = taken /\ State.excused = excused BY DEF State
    <2>2. Grown(State.cards, State.cards) BY DEF Grown, TimelineInv, Timelines
    <2>3. Good(State) BY <2>1, <2>2
    <2> QED BY <1>11, <2>3
  <1>13. ASSUME NEW i \in Nat, i \in T PROVE i + 1 \in T
    <2> SUFFICES ASSUME i + 1 <= n PROVE Good(put[i + 1]) OBVIOUS
    <2>1. i + 1 \in 1..n /\ (i + 1) - 1 = i BY <1>2
    <2>2. Good(put[i]) BY <1>2, <1>13
    <2> PICK c : c = put[i] OBVIOUS
    <2> PICK d : d = EventReceived(c, rows[i + 1], 0, s) OBVIOUS
    <2>3. put[i + 1] = d BY <1>11, <2>1
    <2>4. State.cards \in Seq(Card) BY DEF TimelineInv, Timelines
    <2>5. /\ TimelineInv(d)
          /\ c.taken \subseteq d.taken /\ c.excused \subseteq d.excused
          /\ \A a \in Seq(Card) : Grown(a, c.cards) => Grown(a, d.cards)
      BY <1>4, <2>1, <2>2
    <2> QED BY <2>2, <2>3, <2>4, <2>5
  <1>14. n \in T
    <2> HIDE DEF T
    <2>1. Nat \subseteq T BY <1>12, <1>13, Induction
    <2> QED BY <1>2, <2>1
  <1> QED BY <1>1, <1>2, <1>14

\* A page has events that were broadcast.
LEMMA RowsFound ==
  ASSUME LogOK, NEW s, NEW after
  PROVE  MessagesAfter(s, after) \in Seq(Published)
  <1> DEFINE n == saved
             S == Seq(Published)
             Wanted(e) == log[e].session = s /\ Row(e) \in (after + 1)..(after + PageSize)
             step == [i \in 1..n |-> [h \in S |-> IF Wanted(i) THEN Append(h, i) ELSE h]]
             next(f) == [e \in 0..n |->
                          IF e = 0 THEN <<>>
                          ELSE IF Wanted(e) THEN Append(f[e - 1], e)
                          ELSE f[e - 1]]
             kept == CHOOSE f : f = next(f)
  <1>1. MessagesAfter(s, after) = kept[n] BY DEF MessagesAfter
  <1>2. n \in Nat /\ \A i \in 1..n : i \in Published BY DEF LogOK, Published
  <1> HIDE DEF n, Wanted
  <1>3. step \in [1..n -> [S -> S]]
    <2>1. ASSUME NEW i \in 1..n, NEW h \in S
          PROVE  (IF Wanted(i) THEN Append(h, i) ELSE h) \in S
      <3>1. Append(h, i) \in S BY <1>2
      <3> QED BY <3>1
    <2> HIDE DEF S
    <2> QED BY <2>1
  <1>4. PICK g : Computes(g, n, S, <<>>, step)
    <2> DEFINE a == <<>>
    <2>1. a \in S OBVIOUS
    <2> HIDE DEF step, S, a
    <2>2. \E f : Computes(f, n, S, a, step) BY <1>2, <1>3, <2>1, Recursion
    <2> QED BY <2>2 DEF a
  <1>5. \A i \in 1..n : g[i] = IF Wanted(i) THEN Append(g[i - 1], i) ELSE g[i - 1]
    <2> SUFFICES ASSUME NEW i \in 1..n
                 PROVE  g[i] = IF Wanted(i) THEN Append(g[i - 1], i) ELSE g[i - 1]
      OBVIOUS
    <2> HIDE DEF S
    <2>1. i - 1 \in 0..n BY <1>2
    <2>2. g[i - 1] \in S /\ g[i] = step[i][g[i - 1]] BY <1>4, <2>1 DEF Computes
    <2> QED BY <2>2
  <1>6. /\ \A i \in 0..n : i = 0 \/ i \in 1..n
        /\ \A i \in 1..n : i \in 0..n /\ i # 0
        /\ 0 \in 0..n
    BY <1>2
  <1>7. kept = next(kept)
    <2>1. g = [i \in 0..n |-> g[i]] /\ g[0] = <<>>
      <3> HIDE DEF S, step
      <3> QED BY <1>4 DEF Computes
    <2>2. \A i \in 0..n : g[i] = IF i = 0 THEN <<>>
                                 ELSE IF Wanted(i) THEN Append(g[i - 1], i)
                                 ELSE g[i - 1]
      BY <2>1, <1>5, <1>6, Zenon
    <2>3. g = next(g) BY <2>1, <2>2, Zenon
    <2> HIDE DEF next
    <2> QED BY <2>3, Zenon
  <1> HIDE DEF kept, next
  <1>8. /\ kept[0] = <<>>
        /\ \A i \in 1..n : kept[i] = IF Wanted(i) THEN Append(kept[i - 1], i) ELSE kept[i - 1]
    <2>1. kept[0] = next(kept)[0] /\ \A i \in 1..n : kept[i] = next(kept)[i]
      BY <1>7, Zenon
    <2>2. next(kept)[0] = <<>> BY <1>6 DEF next
    <2>3. \A i \in 1..n : next(kept)[i] = IF Wanted(i) THEN Append(kept[i - 1], i)
                                          ELSE kept[i - 1]
      BY <1>6, Zenon DEF next
    <2> QED BY <2>1, <2>2, <2>3, Zenon
  <1> DEFINE T == {i \in Nat : i <= n => kept[i] \in S}
  <1>9. 0 \in T
    <2>1. <<>> \in S OBVIOUS
    <2> QED BY <1>8, <2>1
  <1>10. ASSUME NEW i \in Nat, i \in T PROVE i + 1 \in T
    <2> SUFFICES ASSUME i + 1 <= n PROVE kept[i + 1] \in S OBVIOUS
    <2>1. i + 1 \in 1..n /\ (i + 1) - 1 = i /\ kept[i] \in S BY <1>2, <1>10
    <2>2. i + 1 \in Published BY <1>2, <2>1
    <2>3. kept[i + 1] = IF Wanted(i + 1) THEN Append(kept[i], i + 1) ELSE kept[i]
      BY <1>8, <2>1
    <2>4. Append(kept[i], i + 1) \in S BY <2>1, <2>2
    <2> QED BY <2>1, <2>3, <2>4
  <1>11. n \in T
    <2> HIDE DEF T
    <2>1. Nat \subseteq T BY <1>9, <1>10, Induction
    <2> QED BY <1>2, <2>1
  <1> QED BY <1>1, <1>2, <1>11

\* The user's text is a card more.
LEMMA UserStep ==
  ASSUME LogOK, NEW cs \in Seq(Card), NEW events \in SUBSET Published,
         CardsInv(cs, events), NEW x \in Card, x.kind = "user", x.id = 0
  PROVE  /\ Kept(Append(cs, x)) \in Seq(Card)
         /\ CardsInv(Kept(Append(cs, x)), events)
         /\ Grown(cs, Kept(Append(cs, x)))
  <1>0. MaxMessages \in Nat /\ MaxMessages > 0 /\ "user" \notin Kinds BY ChatNumbers
  <1>a. Len(cs) <= MaxMessages BY DEF CardsInv
  <1>b. /\ Kept(Append(cs, x)) \in Seq(Card)
        /\ Len(cs) < MaxMessages =>
             /\ Len(Kept(Append(cs, x))) = Len(cs) + 1
             /\ \A i \in 1..Len(cs) : Kept(Append(cs, x))[i] = cs[i]
             /\ Kept(Append(cs, x))[Len(cs) + 1] = x
        /\ Len(cs) = MaxMessages =>
             /\ Len(Kept(Append(cs, x))) = MaxMessages
             /\ \A i \in 1..(MaxMessages - 1) : Kept(Append(cs, x))[i] = cs[i + 1]
             /\ Kept(Append(cs, x))[MaxMessages] = x
    BY <1>a, CardMore, Zenon
  <1> PICK q : q = Kept(Append(cs, x)) OBVIOUS
  <1> PICK n \in Nat : n = Len(cs) OBVIOUS
  <1> PICK m \in Nat : m = MaxMessages BY <1>0
  <1>1. n <= m BY <1>a
  <1>2. q \in Seq(Card) BY <1>b
  <1>3. n < m => /\ Len(q) = n + 1 /\ q[n + 1] = x
                 /\ \A i \in 1..n : q[i] = cs[i]
    BY <1>b
  <1>4. n = m => /\ Len(q) = m /\ q[m] = x
                 /\ \A i \in 1..(m - 1) : q[i] = cs[i + 1]
    BY <1>b
  <1>5. DOMAIN cs = 1..n /\ DOMAIN q = 1..Len(q) /\ Len(q) \in Nat BY <1>2
  <1>6. \A i \in 1..n : OwnId(cs[i], events) BY <1>5 DEF CardsInv
  <1>7. \A i, j \in 1..n : cs[i].id = cs[j].id /\ i # j => cs[i].kind \in Asks \cup {"user"}
    BY <1>5 DEF CardsInv, OneCardOf
  <1>8. \A i \in 1..n : cs[i].id = 0 => cs[i].kind = "user" BY <1>6 DEF OwnId, Published
  <1>9. OwnId(x, events) BY DEF OwnId
  <1>10. CASE n < m
    <2>1. \A i \in 1..(n + 1) : i = n + 1 \/ i \in 1..n OBVIOUS
    <2>2. \A i \in DOMAIN q : OwnId(q[i], events)
      BY <1>3, <1>5, <1>6, <1>9, <1>10, <2>1
    <2>3. OneCardOf(q)
      <3> SUFFICES ASSUME NEW i \in 1..(n + 1), NEW j \in 1..(n + 1), q[i].id = q[j].id, i # j
                   PROVE  q[i].kind \in Asks \cup {"user"}
        BY <1>3, <1>5, <1>10 DEF OneCardOf
      <3>1. CASE i = n + 1 BY <1>3, <1>10, <3>1
      <3>2. CASE i \in 1..n /\ j = n + 1 BY <1>3, <1>8, <1>10, <3>2
      <3>3. CASE i \in 1..n /\ j \in 1..n BY <1>3, <1>7, <1>10, <3>3
      <3> QED BY <2>1, <3>1, <3>2, <3>3
    <2>4. SaysAll(q, events)
      <3> SUFFICES ASSUME NEW d \in events PROVE \E i \in 1..(n + 1) : d \in Says(q[i])
        BY <1>3, <1>5, <1>10 DEF SaysAll
      <3>1. PICK i \in 1..n : d \in Says(cs[i])
        BY <1>5, <1>10 DEF CardsInv, SaysAll
      <3>2. i \in 1..(n + 1) /\ d \in Says(q[i]) BY <1>3, <1>10, <3>1
      <3> QED BY <3>2
    <2>5. Len(q) <= MaxMessages BY <1>3, <1>10
    <2>6. Grown(cs, q)
      <3>1. Len(q) >= n /\ \A i \in 1..(n - 1) : q[i] = cs[i] BY <1>3, <1>10
      <3> QED BY <3>1 DEF Grown
    <2> QED BY <1>2, <2>2, <2>3, <2>4, <2>5, <2>6 DEF CardsInv
  <1>11. CASE n = m
    <2>1. \A i \in 1..m : i = m \/ (i \in 1..(m - 1) /\ i + 1 \in 1..n) BY <1>11
    <2>2. \A i \in DOMAIN q : OwnId(q[i], events)
      BY <1>4, <1>5, <1>6, <1>9, <1>11, <2>1
    <2>3. OneCardOf(q)
      <3> SUFFICES ASSUME NEW i \in 1..m, NEW j \in 1..m, q[i].id = q[j].id, i # j
                   PROVE  q[i].kind \in Asks \cup {"user"}
        BY <1>4, <1>5, <1>11 DEF OneCardOf
      <3>1. CASE i = m BY <1>4, <1>11, <3>1
      <3>2. CASE i # m /\ j = m
        <4>1. i \in 1..(m - 1) /\ i + 1 \in 1..n BY <2>1, <3>2
        <4> QED BY <1>4, <1>8, <1>11, <3>2, <4>1
      <3>3. CASE i # m /\ j # m
        <4>1. /\ i \in 1..(m - 1) /\ i + 1 \in 1..n /\ j \in 1..(m - 1) /\ j + 1 \in 1..n
              /\ i + 1 # j + 1
          BY <2>1, <3>3
        <4>2. cs[i + 1].id = cs[j + 1].id BY <1>4, <1>11, <4>1
        <4>3. cs[i + 1].kind \in Asks \cup {"user"} BY <1>7, <4>1, <4>2
        <4> QED BY <1>4, <1>11, <4>1, <4>3
      <3> QED BY <3>1, <3>2, <3>3
    <2>4. Len(q) <= MaxMessages /\ ~ (Len(q) < MaxMessages) BY <1>4, <1>11
    <2>5. Grown(cs, q) BY <1>4, <1>11 DEF Grown
    <2> QED BY <1>2, <2>2, <2>3, <2>4, <2>5 DEF CardsInv
  <1> QED BY <1>1, <1>10, <1>11

(***************************************************************************)
(* The inductive invariant.                                                *)
(***************************************************************************)
WireOK ==
  /\ up \in BOOLEAN
  /\ wire \in Seq(Published) /\ Len(wire) <= WireCap
  /\ joined \in 0..Len(log)
  /\ connects \in 0..MaxConnects

ClientOK ==
  /\ stoppedSessionId \in SessionIds
  /\ starting \in BOOLEAN /\ refreshing \in BOOLEAN /\ due \in BOOLEAN
  /\ failed \in BOOLEAN
  /\ fetches \in [Slots -> {Idle} \cup Fetch]

\* What the client has, is about to get, or was dropped, ignored or cleared.
HasOrLost == taken \cup ToSet(wire) \cup excused

Window ==
  up => \A e \in Published : e + ReplaySize > joined => e \in HasOrLost

ChatInv == LogOK /\ WireOK /\ ClientOK /\ TimelineInv(State) /\ Window

\* The fields of the state.
LEMMA StateIs ==
  /\ State.cards = cards /\ State.sessionId = sessionId /\ State.lastSeq = lastSeq
  /\ State.taken = taken /\ State.excused = excused
  BY DEF State

LEMMA StateThen ==
  ASSUME NEW c \in Timelines, Becomes(c)
  PROVE  /\ State' = c
         /\ cards' = c.cards /\ sessionId' = c.sessionId /\ lastSeq' = c.lastSeq
         /\ taken' = c.taken /\ excused' = c.excused
  BY DEF Becomes, State, Timelines

\* A timeline is judged by the log alone.
LEMMA TimelineMoved ==
  ASSUME NEW c, TimelineInv(c), log' = log, State' = c
  PROVE  TimelineInv(State)'
  BY DEF TimelineInv, Timelines, Card, OwnId, OneCardOf, SaysAll, Says, Published

LEMMA TimelineSame ==
  ASSUME TimelineInv(State), log' = log, UNCHANGED timeline
  PROVE  TimelineInv(State)'
  <1> PICK c : c = State OBVIOUS
  <1>1. State' = c BY DEF State, timeline
  <1>2. TimelineInv(c) OBVIOUS
  <1> QED BY <1>1, <1>2, TimelineMoved

LEMMA LogSame ==
  ASSUME LogOK, UNCHANGED server
  PROVE  LogOK'
  BY DEF LogOK, server

LEMMA WireSame ==
  ASSUME WireOK, UNCHANGED <<log, up, wire, joined, connects>>
  PROVE  WireOK'
  BY DEF WireOK, Published

LEMMA FetchesSame ==
  ASSUME log' = log
  PROVE  Fetch' = Fetch /\ Published' = Published
  BY DEF Fetch, Published

LEMMA ClientSame ==
  ASSUME ClientOK, log' = log,
         UNCHANGED <<stoppedSessionId, starting, refreshing, due, fetches, failed>>
  PROVE  ClientOK'
  BY FetchesSame DEF ClientOK

LEMMA WindowSame ==
  ASSUME Window, log' = log, up' = up, joined' = joined, HasOrLost \subseteq HasOrLost'
  PROVE  Window'
  BY DEF Window, Published

LEMMA EffectIsBoolean ==
  ASSUME EffectDue
  PROVE  due' \in BOOLEAN
  BY DEF EffectDue

\* The timeline is cleared for a session.
LEMMA ClearedOK ==
  ASSUME LogOK, TimelineInv(State), NEW s \in SessionIds
  PROVE  TimelineInv(Cleared(s))
  <1>1. taken \in SUBSET Published /\ excused \in SUBSET Published
    BY StateIs DEF TimelineInv, Timelines
  <1> PICK x \in SUBSET Published : x = excused \cup taken BY <1>1
  <1> PICK d : d = Cleared(s) OBVIOUS
  <1>2. d = [cards |-> <<>>, sessionId |-> s, lastSeq |-> 0, taken |-> {}, excused |-> x]
    BY DEF Cleared
  <1>3. 0 \in 0..MaxBroadcasts BY ChatNumbers
  <1>4. <<>> \in Seq(Card) /\ {} \in SUBSET Published OBVIOUS
  <1>5. /\ d \in [cards : Seq(Card), sessionId : SessionIds, lastSeq : 0..MaxBroadcasts,
                  taken : SUBSET Published, excused : SUBSET Published]
        /\ d.cards = <<>> /\ d.taken = {}
    BY <1>2, <1>3, <1>4
  <1>6. Len(d.cards) <= MaxMessages BY <1>5, ChatNumbers
  <1>7. \A i \in DOMAIN d.cards : OwnId(d.cards[i], d.taken) BY <1>5
  <1>8. OneCardOf(d.cards) BY <1>5 DEF OneCardOf
  <1>9. SaysAll(d.cards, d.taken) BY <1>5 DEF SaysAll
  <1> QED BY <1>5, <1>6, <1>7, <1>8, <1>9 DEF TimelineInv, Timelines

\* Only the session changes.
LEMMA OtherSession ==
  ASSUME NEW c, TimelineInv(c), NEW s \in SessionIds
  PROVE  TimelineInv([c EXCEPT !.sessionId = s])
  <1> PICK d : d = [c EXCEPT !.sessionId = s] OBVIOUS
  <1>1. d \in Timelines /\ d.cards = c.cards /\ d.taken = c.taken
    <2>1. c \in [cards : Seq(Card), sessionId : SessionIds, lastSeq : 0..MaxBroadcasts,
                 taken : SUBSET Published, excused : SUBSET Published]
      BY DEF TimelineInv, Timelines
    <2> QED BY <2>1 DEF Timelines
  <1> QED BY <1>1 DEF TimelineInv

(***************************************************************************)
(* The steps.                                                              *)
(***************************************************************************)
LEMMA StartsStep == ASSUME ChatInv, ServerStarts PROVE ChatInv'
  <1>1. LogOK'
    <2>1. MaxStarts \in Nat BY ChatNumbers
    <2> QED BY <2>1 DEF ChatInv, LogOK, ServerStarts, SessionIds
  <1>2. WireOK' BY WireSame DEF ChatInv, ServerStarts
  <1>3. ClientOK'
    <2>1. starting' \in BOOLEAN
      BY Zenon DEF ChatInv, ClientOK, WireOK, ServerStarts
    <2> QED BY <2>1, FetchesSame DEF ChatInv, ClientOK, ServerStarts
  <1>4. TimelineInv(State)' BY TimelineSame DEF ChatInv, ServerStarts
  <1>5. Window'
    <2>1. HasOrLost' = HasOrLost BY DEF HasOrLost, ServerStarts, timeline
    <2> QED BY <2>1, WindowSame DEF ChatInv, ServerStarts
  <1> QED BY <1>1, <1>2, <1>3, <1>4, <1>5 DEF ChatInv

LEMMA SaveStep == ASSUME ChatInv, Save PROVE ChatInv'
  <1>1. LogOK'
    <2>1. Len(log) \in Nat BY DEF ChatInv, LogOK
    <2> QED BY <2>1 DEF ChatInv, LogOK, Save
  <1>2. WireOK' BY WireSame DEF ChatInv, Save
  <1>3. ClientOK' BY ClientSame DEF ChatInv, Save
  <1>4. TimelineInv(State)' BY TimelineSame DEF ChatInv, Save
  <1>5. Window'
    <2>1. HasOrLost' = HasOrLost BY DEF HasOrLost, Save, timeline
    <2> QED BY <2>1, WindowSame DEF ChatInv, Save
  <1> QED BY <1>1, <1>2, <1>3, <1>4, <1>5 DEF ChatInv

LEMMA DisconnectStep == ASSUME ChatInv, Disconnect PROVE ChatInv'
  <1>1. log' = log BY DEF Disconnect, server
  <1>2. LogOK' BY LogSame DEF ChatInv, Disconnect
  <1>3. WireOK'
    <2>1. Len(wire') <= WireCap BY ChatNumbers DEF Disconnect
    <2>2. wire' \in Seq(Published') BY DEF Disconnect
    <2> QED BY <1>1, <2>1, <2>2 DEF ChatInv, WireOK, Disconnect, Published
  <1>4. ClientOK' BY <1>1, FetchesSame DEF ChatInv, ClientOK, Disconnect
  <1>5. TimelineInv(State)' BY <1>1, TimelineSame DEF ChatInv, Disconnect
  <1>6. Window' BY DEF Window, Disconnect
  <1> QED BY <1>2, <1>3, <1>4, <1>5, <1>6 DEF ChatInv

\* What a page or an event makes of the timeline, and what stays.
LEMMA ReceiveStep == ASSUME ChatInv, Receive PROVE ChatInv' /\ Grown(cards, cards')
  <1> PICK e : e = Head(wire) OBVIOUS
  <1>1. wire \in Seq(Published) /\ wire # <<>> /\ Len(wire) <= WireCap /\ LogOK
    BY DEF ChatInv, WireOK, Receive
  <1>2. /\ Tail(wire) \in Seq(Published) /\ Len(Tail(wire)) = Len(wire) - 1
        /\ e \in Published /\ ToSet(wire) \subseteq ToSet(Tail(wire)) \cup {e}
    BY <1>1, Taken
  <1> PICK sq \in 0..MaxBroadcasts : sq = log[e].seq BY <1>1, <1>2, EventOf
  <1> PICK s \in SessionIds : s = log[e].session BY <1>1, <1>2, EventOf
  <1> PICK c : c = State OBVIOUS
  <1> PICK d : d = EventReceived(c, e, sq, s) OBVIOUS
  <1>3. TimelineInv(c) BY DEF ChatInv
  <1>4. /\ TimelineInv(d) /\ c.taken \subseteq d.taken /\ c.excused \subseteq d.excused
        /\ e \in d.taken \cup d.excused
        /\ \A a \in Seq(Card) : Grown(a, c.cards) => Grown(a, d.cards)
    BY <1>1, <1>2, <1>3, EventStep
  <1>5. Becomes(d) BY DEF Receive
  <1>6. d \in Timelines BY <1>4 DEF TimelineInv
  <1>7. /\ State' = d /\ cards' = d.cards /\ taken' = d.taken /\ excused' = d.excused
    BY <1>5, <1>6, StateThen
  <1>8. log' = log /\ UNCHANGED server BY DEF Receive, server
  <1>9. LogOK' BY <1>8, LogSame DEF ChatInv
  <1>10. WireOK'
    <2>1. wire' = Tail(wire) BY DEF Receive
    <2> PICK w : w = Tail(wire) OBVIOUS
    <2>2. w \in Seq(Published) /\ Len(w) <= WireCap
      <3>1. Len(wire) \in Nat /\ WireCap \in Nat BY <1>1, ChatNumbers
      <3> QED BY <1>1, <1>2, <3>1
    <2>3. wire' = w BY <2>1
    <2> QED BY <1>8, <2>2, <2>3 DEF ChatInv, WireOK, Receive, Published
  <1>11. ClientOK'
    <2>1. due' \in BOOLEAN BY EffectIsBoolean DEF Receive
    <2> QED BY <1>8, <2>1, FetchesSame DEF ChatInv, ClientOK, Receive
  <1>12. TimelineInv(State)' BY <1>4, <1>7, <1>8, TimelineMoved
  <1>13. Window'
    <2>1. HasOrLost \subseteq HasOrLost'
      <3>1. wire' = Tail(wire) BY DEF Receive
      <3>2. c.taken = taken /\ c.excused = excused BY StateIs
      <3>3. HasOrLost' = taken' \cup ToSet(Tail(wire)) \cup excused' BY <3>1 DEF HasOrLost
      <3>4. taken \subseteq taken' /\ excused \subseteq excused' /\ e \in taken' \cup excused'
        BY <1>4, <1>7, <3>2
      <3> QED BY <1>2, <3>3, <3>4 DEF HasOrLost
    <2> QED BY <1>8, <2>1, WindowSame DEF ChatInv, Receive
  <1>14. Grown(cards, cards')
    <2>1. c.cards = cards /\ cards \in Seq(Card) BY <1>3, StateIs DEF TimelineInv, Timelines
    <2>2. Grown(cards, cards) BY <2>1 DEF Grown
    <2> QED BY <1>4, <1>7, <2>1, <2>2
  <1> QED BY <1>9, <1>10, <1>11, <1>12, <1>13, <1>14 DEF ChatInv

LEMMA StartedStep == ASSUME ChatInv, SessionStarted PROVE ChatInv' /\ cards' = <<>>
  <1> PICK d : d = Cleared(session) OBVIOUS
  <1>1. LogOK /\ TimelineInv(State) /\ session \in SessionIds BY DEF ChatInv, LogOK
  <1>2. TimelineInv(d) BY <1>1, ClearedOK
  <1>3. Becomes(d) BY DEF SessionStarted
  <1>4. d \in Timelines BY <1>2 DEF TimelineInv
  <1>5. /\ State' = d /\ cards' = d.cards /\ taken' = d.taken /\ excused' = d.excused
    BY <1>3, <1>4, StateThen
  <1>6. d.cards = <<>> /\ d.taken = {} /\ d.excused = excused \cup taken BY DEF Cleared
  <1>7. log' = log /\ UNCHANGED server BY DEF SessionStarted, server
  <1>8. LogOK' BY <1>1, <1>7, LogSame
  <1>9. WireOK' BY <1>7, WireSame DEF ChatInv, SessionStarted
  <1>10. ClientOK'
    <2>1. due' \in BOOLEAN BY EffectIsBoolean DEF SessionStarted
    <2>2. 0 \in SessionIds BY ChatNumbers
    <2> QED BY <1>7, <2>1, <2>2, FetchesSame DEF ChatInv, ClientOK, SessionStarted
  <1>11. TimelineInv(State)' BY <1>2, <1>5, <1>7, TimelineMoved
  <1>12. Window'
    <2>1. HasOrLost \subseteq HasOrLost'
      BY <1>5, <1>6 DEF HasOrLost, SessionStarted
    <2> QED BY <1>7, <2>1, WindowSame DEF ChatInv, SessionStarted
  <1> QED BY <1>5, <1>6, <1>8, <1>9, <1>10, <1>11, <1>12 DEF ChatInv

LEMMA DetectedStep ==
  ASSUME ChatInv, SessionDetected
  PROVE  ChatInv' /\ (cards' = <<>> \/ Grown(cards, cards'))
  <1>1. LogOK /\ TimelineInv(State) /\ session \in SessionIds BY DEF ChatInv, LogOK
  <1>2. log' = log /\ UNCHANGED server BY DEF SessionDetected, server
  <1>3. LogOK' BY <1>1, <1>2, LogSame
  <1>4. WireOK' BY <1>2, WireSame DEF ChatInv, SessionDetected
  <1>5. ClientOK'
    <2>1. due' \in BOOLEAN BY EffectIsBoolean DEF SessionDetected
    <2>2. 0 \in SessionIds BY ChatNumbers
    <2>3. stoppedSessionId' \in SessionIds
      BY <2>2 DEF ChatInv, ClientOK, SessionDetected
    <2> QED BY <1>2, <2>1, <2>3, FetchesSame DEF ChatInv, ClientOK, SessionDetected
  <1>6. cards \in Seq(Card) BY <1>1, StateIs DEF TimelineInv, Timelines
  <1>7. CASE UNCHANGED timeline
    <2>1. TimelineInv(State)' BY <1>1, <1>2, <1>7, TimelineSame
    <2>2. HasOrLost' = HasOrLost BY <1>7 DEF HasOrLost, timeline, SessionDetected
    <2>3. Window' BY <1>2, <2>2, WindowSame DEF ChatInv, SessionDetected
    <2>4. Grown(cards, cards') BY <1>6, <1>7 DEF timeline, Grown
    <2> QED BY <1>3, <1>4, <1>5, <2>1, <2>3, <2>4 DEF ChatInv
  <1>8. CASE sessionId \notin {0, session} /\ Becomes(Cleared(session))
    <2> PICK d : d = Cleared(session) OBVIOUS
    <2>1. TimelineInv(d) BY <1>1, ClearedOK
    <2>2. Becomes(d) BY <1>8
    <2>3. d \in Timelines BY <2>1 DEF TimelineInv
    <2>4. /\ State' = d /\ cards' = d.cards /\ taken' = d.taken /\ excused' = d.excused
      BY <2>2, <2>3, StateThen
    <2>5. d.cards = <<>> /\ d.taken = {} /\ d.excused = excused \cup taken BY DEF Cleared
    <2>6. TimelineInv(State)' BY <1>2, <2>1, <2>4, TimelineMoved
    <2>7. HasOrLost \subseteq HasOrLost'
      BY <2>4, <2>5 DEF HasOrLost, SessionDetected
    <2>8. Window' BY <1>2, <2>7, WindowSame DEF ChatInv, SessionDetected
    <2> QED BY <1>3, <1>4, <1>5, <2>4, <2>5, <2>6, <2>8 DEF ChatInv
  <1>9. CASE Becomes([State EXCEPT !.sessionId = session])
    <2> PICK c : c = State OBVIOUS
    <2> PICK d : d = [c EXCEPT !.sessionId = session] OBVIOUS
    <2>1. TimelineInv(c) BY <1>1
    <2>2. TimelineInv(d) BY <1>1, <2>1, OtherSession
    <2>3. Becomes(d) BY <1>9
    <2>4. d \in Timelines BY <2>2 DEF TimelineInv
    <2>5. /\ State' = d /\ cards' = d.cards /\ taken' = d.taken /\ excused' = d.excused
      BY <2>3, <2>4, StateThen
    <2>6. d.cards = cards /\ d.taken = taken /\ d.excused = excused
      <3>1. c.cards = cards /\ c.taken = taken /\ c.excused = excused BY StateIs
      <3>2. d.cards = c.cards /\ d.taken = c.taken /\ d.excused = c.excused
        BY <2>1 DEF TimelineInv, Timelines
      <3> QED BY <3>1, <3>2
    <2>7. TimelineInv(State)' BY <1>2, <2>2, <2>5, TimelineMoved
    <2>8. HasOrLost' = HasOrLost BY <2>5, <2>6 DEF HasOrLost, SessionDetected
    <2>9. Window' BY <1>2, <2>8, WindowSame DEF ChatInv, SessionDetected
    <2>10. Grown(cards, cards') BY <1>6, <2>5, <2>6 DEF Grown
    <2> QED BY <1>3, <1>4, <1>5, <2>7, <2>9, <2>10 DEF ChatInv
  <1> QED BY <1>7, <1>8, <1>9 DEF SessionDetected

LEMMA StoppedStep == ASSUME ChatInv, SessionStopped PROVE ChatInv'
  <1> PICK c : c = State OBVIOUS
  <1> PICK d : d = [c EXCEPT !.sessionId = 0] OBVIOUS
  <1>1. LogOK /\ TimelineInv(c) BY DEF ChatInv
  <1>2. log' = log /\ UNCHANGED server BY DEF SessionStopped, server
  <1>3. 0 \in SessionIds BY ChatNumbers
  <1>4. TimelineInv(d) BY <1>1, <1>3, OtherSession
  <1>5. State' = d
    <2>1. State' = [cards |-> cards, sessionId |-> 0, lastSeq |-> lastSeq, taken |-> taken,
                    excused |-> excused]
      BY DEF State, SessionStopped
    <2>2. c = [cards |-> cards, sessionId |-> sessionId, lastSeq |-> lastSeq, taken |-> taken,
               excused |-> excused]
      BY DEF State
    <2> QED BY <2>1, <2>2
  <1>6. TimelineInv(State)' BY <1>2, <1>4, <1>5, TimelineMoved
  <1>7. LogOK' BY <1>1, <1>2, LogSame
  <1>8. WireOK' BY <1>2, WireSame DEF ChatInv, SessionStopped
  <1>9. ClientOK'
    <2>1. due' \in BOOLEAN BY EffectIsBoolean DEF SessionStopped
    <2>2. sessionId \in SessionIds BY StateIs DEF ChatInv, TimelineInv, Timelines
    <2> QED BY <1>2, <2>1, <2>2, FetchesSame DEF ChatInv, ClientOK, SessionStopped
  <1>10. Window'
    <2>1. HasOrLost' = HasOrLost BY DEF HasOrLost, SessionStopped
    <2> QED BY <1>2, <2>1, WindowSame DEF ChatInv, SessionStopped
  <1> QED BY <1>6, <1>7, <1>8, <1>9, <1>10 DEF ChatInv

LEMMA UserSentStep == ASSUME ChatInv, UserMessageSent PROVE ChatInv' /\ Grown(cards, cards')
  <1> PICK c : c = State OBVIOUS
  <1> PICK x : x = [kind |-> "user", id |-> 0, parts |-> <<>>, replaced |-> {}] OBVIOUS
  <1>1. LogOK /\ TimelineInv(c) BY DEF ChatInv
  <1>2. c.cards = cards /\ c.taken = taken BY StateIs
  <1> PICK cs \in Seq(Card) : cs = c.cards BY <1>1 DEF TimelineInv, Timelines
  <1> PICK events \in SUBSET Published : events = c.taken BY <1>1 DEF TimelineInv, Timelines
  <1>3. CardsInv(cs, events) BY <1>1 DEF TimelineInv, CardsInv
  <1>4. x \in Card /\ x.kind = "user" /\ x.id = 0
    <2>1. 0 \in 0..Len(log) BY <1>1 DEF LogOK
    <2>2. <<>> \in Seq(Published) /\ {} \in SUBSET Published OBVIOUS
    <2> QED BY <2>1, <2>2 DEF Card
  <1> PICK q : q = Kept(Append(cs, x)) OBVIOUS
  <1>5. q \in Seq(Card) /\ CardsInv(q, events) /\ Grown(cs, q)
    BY <1>1, <1>3, <1>4, UserStep
  <1> PICK d : d = [c EXCEPT !.cards = q] OBVIOUS
  <1>6. c \in [cards : Seq(Card), sessionId : SessionIds, lastSeq : 0..MaxBroadcasts,
               taken : SUBSET Published, excused : SUBSET Published]
    BY <1>1 DEF TimelineInv, Timelines
  <1>7. d \in Timelines /\ d.cards = q /\ d.taken = c.taken BY <1>5, <1>6 DEF Timelines
  <1>8. TimelineInv(d) BY <1>5, <1>7 DEF TimelineInv, CardsInv
  <1>9. cards' = q BY <1>2 DEF UserMessageSent
  <1>10. State' = d
    <2>1. State' = [cards |-> q, sessionId |-> sessionId, lastSeq |-> lastSeq, taken |-> taken,
                    excused |-> excused]
      BY <1>9 DEF State, UserMessageSent
    <2>2. c = [cards |-> cards, sessionId |-> sessionId, lastSeq |-> lastSeq, taken |-> taken,
               excused |-> excused]
      BY DEF State
    <2> QED BY <2>1, <2>2
  <1>11. log' = log /\ UNCHANGED server BY DEF UserMessageSent, server
  <1>12. TimelineInv(State)' BY <1>8, <1>10, <1>11, TimelineMoved
  <1>13. LogOK' BY <1>1, <1>11, LogSame
  <1>14. WireOK' BY <1>11, WireSame DEF ChatInv, UserMessageSent
  <1>15. ClientOK' BY <1>11, ClientSame DEF ChatInv, UserMessageSent
  <1>16. Window'
    <2>1. HasOrLost' = HasOrLost BY DEF HasOrLost, UserMessageSent
    <2> QED BY <1>11, <2>1, WindowSame DEF ChatInv, UserMessageSent
  <1>17. Grown(cards, cards') BY <1>2, <1>5, <1>9
  <1> QED BY <1>12, <1>13, <1>14, <1>15, <1>16, <1>17 DEF ChatInv

\* One request changes.
LEMMA OneFetch ==
  ASSUME ClientOK, log' = log, UNCHANGED <<stoppedSessionId, starting, refreshing>>,
         due' \in BOOLEAN, failed' \in BOOLEAN,
         NEW f \in Slots, NEW r \in {Idle} \cup Fetch, fetches' = [fetches EXCEPT ![f] = r]
  PROVE  ClientOK'
  <1>1. fetches' \in [Slots -> {Idle} \cup Fetch] BY DEF ClientOK
  <1>2. Slots' = Slots /\ Idle' = Idle BY DEF Slots, Idle
  <1> QED BY <1>1, <1>2, FetchesSame DEF ClientOK

\* What is known of a request.
LEMMA FetchOf ==
  ASSUME ClientOK, NEW f \in Slots
  PROVE  /\ fetches[f].state = "asked" => fetches[f].session \in SessionIds
         /\ fetches[f].state = "answered" =>
              fetches[f].session \in SessionIds /\ fetches[f].rows \in Seq(Published)
  <1> PICK r : r = fetches[f] OBVIOUS
  <1>1. r \in {Idle} \cup Fetch BY DEF ClientOK
  <1>2. CASE r = Idle BY <1>2 DEF Idle
  <1>3. CASE r \in Fetch BY <1>3 DEF Fetch
  <1> QED BY <1>1, <1>2, <1>3

LEMMA MissedStep == ASSUME ChatInv, FetchMissed PROVE ChatInv'
  <1>1. log' = log /\ UNCHANGED server BY DEF FetchMissed, server
  <1>2. LogOK' BY <1>1, LogSame DEF ChatInv
  <1>3. WireOK' BY <1>1, WireSame DEF ChatInv, FetchMissed
  <1>4. TimelineInv(State)' BY <1>1, TimelineSame DEF ChatInv, FetchMissed
  <1>5. Window'
    <2>1. HasOrLost' = HasOrLost BY DEF HasOrLost, FetchMissed, timeline
    <2> QED BY <1>1, <2>1, WindowSame DEF ChatInv, FetchMissed
  <1>6. ClientOK'
    <2>1. CASE UNCHANGED fetches
      BY <1>1, <2>1, FetchesSame DEF ChatInv, ClientOK, FetchMissed
    <2>2. CASE \E f \in Slots : fetches' = [fetches EXCEPT ![f] =
                 [state |-> "asked", session |-> sessionId, after |-> lastSeq]]
      <3> PICK r : r = [state |-> "asked", session |-> sessionId, after |-> lastSeq] OBVIOUS
      <3>1. sessionId \in SessionIds /\ lastSeq \in 0..MaxBroadcasts
        BY StateIs DEF ChatInv, TimelineInv, Timelines
      <3>2. lastSeq \in Nat BY <3>1, ChatNumbers
      <3>3. r \in {Idle} \cup Fetch BY <3>1, <3>2 DEF Fetch
      <3>4. PICK f \in Slots : fetches' = [fetches EXCEPT ![f] = r] BY <2>2
      <3>5. ClientOK /\ due' \in BOOLEAN /\ failed' \in BOOLEAN
            /\ UNCHANGED <<stoppedSessionId, starting, refreshing>>
        BY DEF ChatInv, ClientOK, FetchMissed
      <3> QED BY <1>1, <3>3, <3>4, <3>5, OneFetch
    <2> QED BY <2>1, <2>2 DEF FetchMissed
  <1> QED BY <1>2, <1>3, <1>4, <1>5, <1>6 DEF ChatInv

LEMMA AnsweredStep ==
  ASSUME ChatInv, NEW f \in Slots, FetchAnswered(f)
  PROVE  ChatInv'
  <1>1. log' = log /\ UNCHANGED server BY DEF FetchAnswered, server
  <1>2. LogOK' BY <1>1, LogSame DEF ChatInv
  <1>3. WireOK' BY <1>1, WireSame DEF ChatInv, FetchAnswered
  <1>4. TimelineInv(State)' BY <1>1, TimelineSame DEF ChatInv, FetchAnswered
  <1>5. Window'
    <2>1. HasOrLost' = HasOrLost BY DEF HasOrLost, FetchAnswered, timeline
    <2> QED BY <1>1, <2>1, WindowSame DEF ChatInv, FetchAnswered
  <1>6. ClientOK'
    <2> PICK s : s = fetches[f].session OBVIOUS
    <2> PICK rows : rows = MessagesAfter(s, fetches[f].after) OBVIOUS
    <2> PICK r : r = [state |-> "answered", session |-> s, rows |-> rows] OBVIOUS
    <2>1. s \in SessionIds BY FetchOf DEF ChatInv, FetchAnswered
    <2>2. rows \in Seq(Published)
      <3> PICK after : after = fetches[f].after OBVIOUS
      <3>1. LogOK BY DEF ChatInv
      <3>2. MessagesAfter(s, after) \in Seq(Published) BY <3>1, RowsFound
      <3> QED BY <3>2
    <2>3. r \in {Idle} \cup Fetch BY <2>1, <2>2 DEF Fetch
    <2>4. fetches' = [fetches EXCEPT ![f] = r]
      BY DEF ChatInv, ClientOK, FetchAnswered
    <2>5. ClientOK /\ due' \in BOOLEAN /\ failed' \in BOOLEAN
          /\ UNCHANGED <<stoppedSessionId, starting, refreshing>>
      BY DEF ChatInv, ClientOK, FetchAnswered
    <2> QED BY <1>1, <2>3, <2>4, <2>5, OneFetch
  <1> QED BY <1>2, <1>3, <1>4, <1>5, <1>6 DEF ChatInv

LEMMA FailsStep ==
  ASSUME ChatInv, NEW f \in Slots, FetchFails(f)
  PROVE  ChatInv'
  <1>1. log' = log /\ UNCHANGED server BY DEF FetchFails, server
  <1>2. LogOK' BY <1>1, LogSame DEF ChatInv
  <1>3. WireOK' BY <1>1, WireSame DEF ChatInv, FetchFails
  <1>4. TimelineInv(State)' BY <1>1, TimelineSame DEF ChatInv, FetchFails
  <1>5. Window'
    <2>1. HasOrLost' = HasOrLost BY DEF HasOrLost, FetchFails, timeline
    <2> QED BY <1>1, <2>1, WindowSame DEF ChatInv, FetchFails
  <1>6. ClientOK'
    <2>1. ClientOK /\ due' \in BOOLEAN /\ failed' \in BOOLEAN
          /\ UNCHANGED <<stoppedSessionId, starting, refreshing>>
      BY DEF ChatInv, ClientOK, FetchFails
    <2>2. fetches' = [fetches EXCEPT ![f] = Idle] BY DEF FetchFails
    <2>3. Idle \in {Idle} \cup Fetch OBVIOUS
    <2> PICK r \in {Idle} \cup Fetch : r = Idle BY <2>3
    <2> QED BY <1>1, <2>1, <2>2, OneFetch
  <1> QED BY <1>2, <1>3, <1>4, <1>5, <1>6 DEF ChatInv

LEMMA AppliedStep ==
  ASSUME ChatInv, NEW f \in Slots, FetchApplied(f)
  PROVE  ChatInv' /\ Grown(cards, cards')
  <1> PICK s : s = fetches[f].session OBVIOUS
  <1> PICK rows : rows = fetches[f].rows OBVIOUS
  <1> PICK d : d = WithRows(rows, s) OBVIOUS
  <1>1. LogOK /\ TimelineInv(State) /\ ClientOK BY DEF ChatInv
  <1>2. s \in SessionIds /\ rows \in Seq(Published) BY <1>1, FetchOf DEF FetchApplied
  <1>3. /\ TimelineInv(d) /\ taken \subseteq d.taken /\ excused \subseteq d.excused
        /\ Grown(State.cards, d.cards)
    BY <1>1, <1>2, RowsPut
  <1>4. Becomes(d) BY DEF FetchApplied
  <1>5. d \in Timelines BY <1>3 DEF TimelineInv
  <1>6. /\ State' = d /\ cards' = d.cards /\ taken' = d.taken /\ excused' = d.excused
    BY <1>4, <1>5, StateThen
  <1>7. log' = log /\ UNCHANGED server BY DEF FetchApplied, server
  <1>8. LogOK' BY <1>1, <1>7, LogSame
  <1>9. WireOK' BY <1>7, WireSame DEF ChatInv, FetchApplied
  <1>10. ClientOK'
    <2>1. due' \in BOOLEAN BY EffectIsBoolean DEF FetchApplied
    <2>2. failed' \in BOOLEAN /\ UNCHANGED <<stoppedSessionId, starting, refreshing>>
      BY <1>1 DEF ClientOK, FetchApplied
    <2>3. fetches' = [fetches EXCEPT ![f] = Idle] BY DEF FetchApplied
    <2>4. Idle \in {Idle} \cup Fetch OBVIOUS
    <2> PICK r \in {Idle} \cup Fetch : r = Idle BY <2>4
    <2> QED BY <1>1, <1>7, <2>1, <2>2, <2>3, OneFetch
  <1>11. TimelineInv(State)' BY <1>3, <1>6, <1>7, TimelineMoved
  <1>12. Window'
    <2>1. HasOrLost \subseteq HasOrLost'
      BY <1>3, <1>6 DEF HasOrLost, FetchApplied
    <2> QED BY <1>7, <2>1, WindowSame DEF ChatInv, FetchApplied
  <1>13. Grown(cards, cards') BY <1>3, <1>6, StateIs
  <1> QED BY <1>8, <1>9, <1>10, <1>11, <1>12, <1>13 DEF ChatInv

\* An event more is broadcast.
LEMMA PublishStep ==
  ASSUME ChatInv, NEW k \in Kinds, NEW early \in BOOLEAN, Publish(k, early)
  PROVE  ChatInv'
  <1> PICK n \in Nat : n = Len(log) BY DEF ChatInv, LogOK
  <1> PICK row : row = Cardinality(OfSession(session)) + 1 OBVIOUS
  <1> PICK r : r = [kind |-> k, session |-> session, seq |-> IF early THEN row ELSE 0] OBVIOUS
  <1> DEFINE R == [kind : Kinds, session : SessionIds, seq : 0..MaxBroadcasts]
  <1>1. /\ LogOK /\ WireOK /\ ClientOK /\ TimelineInv(State) /\ Window BY DEF ChatInv
  <1>2. log \in Seq(R) /\ n <= MaxBroadcasts /\ saved \in 0..n /\ session \in SessionIds
    BY <1>1 DEF LogOK
  <1>3. n < MaxBroadcasts /\ log' = Append(log, r) /\ session' = session
    BY DEF Publish
  <1>4. row \in 0..MaxBroadcasts
    <2>1. IsFiniteSet(1..n) /\ Cardinality(1..n) = n
      <3>1. IsFiniteSet(1..n) /\ Cardinality(1..n) = IF 1 > n THEN 0 ELSE n - 1 + 1
        BY n \in Int, 1 \in Int, FS_Interval
      <3> QED BY <3>1
    <2> DEFINE O == OfSession(session)
    <2>2. O \subseteq 1..n /\ row = Cardinality(O) + 1 BY DEF OfSession, Published
    <2> HIDE DEF O
    <2>3. IsFiniteSet(O) /\ Cardinality(O) <= n BY <2>1, <2>2, FS_Subset
    <2>4. Cardinality(O) \in Nat BY <2>3, FS_CardinalityType
    <2>5. MaxBroadcasts \in Nat BY ChatNumbers
    <2> QED BY <1>3, <2>2, <2>3, <2>4, <2>5
  <1>5. r \in R
    <2>1. 0 \in 0..MaxBroadcasts BY ChatNumbers
    <2> QED BY <1>2, <1>4, <2>1
  <1> HIDE DEF R
  <1>6. /\ log' \in Seq(R) /\ Len(log') = n + 1
        /\ \A i \in 1..n : log'[i] = log[i]
    BY <1>2, <1>3, <1>5
  <1>7. /\ Published = 1..n /\ Published' = 1..(n + 1) /\ Published \subseteq Published'
    BY <1>6 DEF Published
  <1>8. \A q \in Seq(Published) : q \in Seq(Published') BY <1>7
  <1>9. LogOK'
    <2>1. saved' \in 0..Len(log') BY <1>2, <1>6 DEF Publish
    <2>2. Len(log') <= MaxBroadcasts BY <1>3, <1>6, ChatNumbers
    <2> QED BY <1>2, <1>3, <1>6, <2>1, <2>2 DEF LogOK, R
  <1>10. WireOK'
    <2> PICK w \in Seq(Published') : w = wire BY <1>1, <1>8 DEF WireOK
    <2>1. Append(w, n + 1) \in Seq(Published') /\ Len(Append(w, n + 1)) = Len(w) + 1
      BY <1>7
    <2>2. WireCap \in Nat /\ Len(w) \in Nat BY ChatNumbers
    <2>3. wire' = w \/ (wire' = Append(w, n + 1) /\ Len(w) < WireCap) BY DEF Publish
    <2>4. Len(w) <= WireCap BY <1>1 DEF WireOK
    <2>5. wire' \in Seq(Published') /\ Len(wire') <= WireCap
      <3>1. CASE wire' = w BY <2>4, <3>1
      <3>2. CASE wire' = Append(w, n + 1) /\ Len(w) < WireCap
        <4> PICK v : v = Append(w, n + 1) OBVIOUS
        <4>1. v \in Seq(Published') /\ Len(v) <= WireCap BY <2>1, <2>2, <3>2
        <4> QED BY <3>2, <4>1
      <3> QED BY <2>3, <3>1, <3>2
    <2>6. joined' \in 0..Len(log') BY <1>1, <1>6 DEF WireOK, Publish
    <2> QED BY <1>1, <2>5, <2>6 DEF WireOK, Publish
  <1>11. ClientOK'
    <2>1. Fetch \subseteq Fetch' BY <1>8 DEF Fetch
    <2>2. Slots' = Slots /\ Idle' = Idle BY DEF Slots, Idle
    <2>3. fetches' \in [Slots -> {Idle} \cup Fetch'] BY <1>1, <2>1 DEF ClientOK, Publish
    <2> QED BY <1>1, <2>2, <2>3 DEF ClientOK, Publish
  <1>12. /\ cards' = cards /\ sessionId' = sessionId /\ lastSeq' = lastSeq /\ taken' = taken
         /\ joined' = joined /\ up' = up
    BY DEF Publish
  <1>13. excused' \in SUBSET Published' /\ excused \subseteq excused'
    <2>1. excused \in SUBSET Published BY <1>1, StateIs DEF TimelineInv, Timelines
    <2>2. excused' = excused \/ excused' = excused \cup {n + 1} BY DEF Publish
    <2>3. n + 1 \in Published' /\ Published \subseteq Published' BY <1>7
    <2> HIDE DEF Published
    <2> QED BY <2>1, <2>2, <2>3
  <1>14. TimelineInv(State)'
    <2>1. /\ cards \in Seq(Card) /\ sessionId \in SessionIds /\ lastSeq \in 0..MaxBroadcasts
          /\ taken \in SUBSET Published
          /\ Len(cards) <= MaxMessages
          /\ \A i \in DOMAIN cards : OwnId(cards[i], taken)
          /\ OneCardOf(cards)
          /\ Len(cards) < MaxMessages => SaysAll(cards, taken)
      BY <1>1, StateIs DEF TimelineInv, Timelines
    <2>2. Card \subseteq Card'
      <3> SUFFICES ASSUME NEW x \in Card PROVE x \in Card' OBVIOUS
      <3>1. x \in [kind : Kinds \cup {"user"}, id : 0..n, parts : Seq(Published),
                   replaced : SUBSET Published]
        BY DEF Card
      <3>2. x.parts \in Seq(Published') BY <1>8, <3>1
      <3>3. x.id \in 0..(n + 1) /\ x.replaced \in SUBSET Published' BY <1>7, <3>1
      <3> HIDE DEF Published
      <3>4. x \in [kind : Kinds \cup {"user"}, id : 0..(n + 1), parts : Seq(Published'),
                   replaced : SUBSET Published']
        BY <3>1, <3>2, <3>3
      <3> QED BY <1>6, <3>4 DEF Card
    <2>3. cards \in Seq(Card') BY <2>1, <2>2
    <2>4. taken \in SUBSET Published' BY <1>7, <2>1
    <2>5. State' \in Timelines'
      BY <1>12, <1>13, <2>1, <2>3, <2>4 DEF State, Timelines
    <2>6. State'.cards = cards /\ State'.taken = taken BY <1>12 DEF State
    <2>7. \A i \in DOMAIN cards : OwnId(cards[i], taken)'
      <3> SUFFICES ASSUME NEW i \in DOMAIN cards PROVE OwnId(cards[i], taken)'
        OBVIOUS
      <3> PICK x : x = cards[i] OBVIOUS
      <3> PICK t : t = taken OBVIOUS
      <3>1. OwnId(x, t) /\ t \subseteq 1..n BY <1>7, <2>1
      <3>2. x.id \in t => log'[x.id] = log[x.id] BY <1>6, <3>1
      <3>3. cards'[i] = x /\ taken' = t BY <1>12
      <3> QED BY <3>1, <3>2, <3>3 DEF OwnId
    <2>8. TimelineInv(State)'
      BY <1>12, <2>1, <2>5, <2>6, <2>7 DEF TimelineInv, OneCardOf, SaysAll, Says
    <2> QED BY <2>8
  <1>15. Window'
    <2> SUFFICES ASSUME up, NEW e \in Published', e + ReplaySize > joined
                 PROVE  e \in HasOrLost'
      BY <1>12 DEF Window
    <2>1. ToSet(wire) \subseteq ToSet(wire') /\ (n + 1 \in ToSet(wire') \cup excused')
      <3>1. wire \in Seq(Published) BY <1>1 DEF WireOK
      <3> PICK w \in Seq(Published') : w = wire BY <1>1, <1>8 DEF WireOK
      <3>2. n + 1 \in Published' BY <1>7
      <3>3. ToSet(Append(w, n + 1)) = ToSet(w) \cup {n + 1} BY <3>2, Appended
      <3>4. \/ wire' = Append(w, n + 1)
            \/ wire' = w /\ excused' = excused \cup {n + 1}
        BY DEF Publish
      <3> QED BY <3>3, <3>4
    <2>2. CASE e = n + 1 BY <2>1, <2>2 DEF HasOrLost
    <2>3. CASE e # n + 1
      <3>1. e \in Published BY <1>7, <2>3
      <3>2. e \in HasOrLost BY <1>1, <3>1 DEF Window
      <3> QED BY <1>12, <1>13, <2>1, <3>2 DEF HasOrLost
    <2> QED BY <2>2, <2>3
  <1> QED BY <1>9, <1>10, <1>11, <1>14, <1>15 DEF ChatInv

\* What is replayed to a client that connects.
LEMMA Replayed ==
  ASSUME LogOK
  PROVE  /\ ReplayBuffer \in Seq(Published)
         /\ \A e \in Published : e + ReplaySize > Len(log) => e \in ToSet(ReplayBuffer)
  <1> PICK n \in Nat : n = Len(log) BY DEF LogOK
  <1> PICK k \in Nat : k = ReplaySize BY ChatNumbers
  <1> PICK first : first = IF n > k THEN n - k + 1 ELSE 1 OBVIOUS
  <1> PICK m : m = n - first + 1 OBVIOUS
  <1>1. first \in Nat /\ first > 0 /\ m \in Nat /\ m + first = n + 1 OBVIOUS
  <1> PICK q : q = [i \in 1..m |-> first + i - 1] OBVIOUS
  <1>2. ReplayBuffer = q BY DEF ReplayBuffer
  <1>3. Published = 1..n BY DEF Published
  <1>4. q \in Seq(Published)
    <2>1. \A i \in 1..m : first + i - 1 \in 1..n BY <1>1
    <2>2. q \in [1..m -> 1..n] BY <2>1
    <2> QED BY <1>1, <1>3, <2>2
  <1>5. ASSUME NEW e \in Published, e + k > n PROVE e \in ToSet(q)
    <2>1. e \in 1..n /\ e >= first BY <1>3, <1>5
    <2> PICK i : i = e - first + 1 OBVIOUS
    <2>2. i \in 1..m /\ first + i - 1 = e BY <1>1, <2>1
    <2>3. DOMAIN q = 1..m /\ q[i] = first + i - 1 BY <2>2
    <2>4. q[i] = e BY <2>2, <2>3
    <2> QED BY <2>2, <2>3, <2>4 DEF ToSet
  <1> QED BY <1>2, <1>4, <1>5

LEMMA ConnectStep == ASSUME ChatInv, Connect PROVE ChatInv'
  <1>1. LogOK /\ WireOK /\ ClientOK /\ TimelineInv(State) BY DEF ChatInv
  <1>2. log' = log /\ UNCHANGED server BY DEF Connect, server
  <1>3. /\ cards' = cards /\ sessionId' = sessionId /\ lastSeq' = lastSeq /\ taken' = taken
        /\ joined' = Len(log)
    BY DEF Connect
  <1> PICK q : q = ReplayBuffer OBVIOUS
  <1>4. /\ q \in Seq(Published)
        /\ \A e \in Published : e + ReplaySize > Len(log) => e \in ToSet(q)
    BY <1>1, Replayed
  <1> PICK n \in Nat : n = Len(q) BY <1>4
  <1> PICK cap \in Nat : cap = WireCap BY ChatNumbers
  <1> PICK k \in 0..n : k = IF n < cap THEN n ELSE cap OBVIOUS
  <1> PICK w : w = SubSeq(q, 1, k) OBVIOUS
  <1>5. wire' = w /\ excused' = excused \cup (ToSet(q) \ ToSet(w)) BY DEF Connect
  <1>6. w \in Seq(Published) /\ Len(w) = k BY <1>4
  <1>7. ToSet(q) \subseteq Published BY <1>4, ElementsInSet
  <1>8. LogOK' BY <1>1, <1>2, LogSame
  <1>9. WireOK'
    <2>1. wire' \in Seq(Published) /\ Len(wire') <= WireCap BY <1>5, <1>6
    <2>2. joined' \in 0..Len(log) BY <1>1, <1>3 DEF LogOK
    <2>3. up' \in BOOLEAN /\ connects' \in 0..MaxConnects
      <3>1. MaxConnects \in Nat BY ChatNumbers
      <3> QED BY <1>1, <3>1 DEF WireOK, Connect
    <2> QED BY <1>2, <2>1, <2>2, <2>3 DEF WireOK, Published
  <1>10. ClientOK' BY <1>1, <1>2, FetchesSame DEF ClientOK, Connect
  <1>11. TimelineInv(State)'
    <2> PICK c : c = State OBVIOUS
    <2>1. c \in [cards : Seq(Card), sessionId : SessionIds, lastSeq : 0..MaxBroadcasts,
                 taken : SUBSET Published, excused : SUBSET Published]
      BY <1>1 DEF TimelineInv, Timelines
    <2>2. c.excused = excused BY StateIs
    <2> PICK x : x = excused \cup (ToSet(q) \ ToSet(w)) OBVIOUS
    <2>3. x \in SUBSET Published
      <3> HIDE DEF Published
      <3> QED BY <1>7, <2>1, <2>2
    <2> PICK d : d = [c EXCEPT !.excused = x] OBVIOUS
    <2>4. d \in Timelines /\ d.cards = c.cards /\ d.taken = c.taken
      BY <2>1, <2>3 DEF Timelines
    <2>5. TimelineInv(d) BY <1>1, <2>4 DEF TimelineInv
    <2>6. State' = d
      <3>1. State' = [cards |-> cards, sessionId |-> sessionId, lastSeq |-> lastSeq,
                      taken |-> taken, excused |-> x]
        BY <1>3, <1>5 DEF State
      <3>2. /\ c.cards = cards /\ c.sessionId = sessionId /\ c.lastSeq = lastSeq
            /\ c.taken = taken
        BY StateIs
      <3>3. d = [cards |-> c.cards, sessionId |-> c.sessionId, lastSeq |-> c.lastSeq,
                 taken |-> c.taken, excused |-> x]
        BY <2>1
      <3> QED BY <3>1, <3>2, <3>3
    <2> QED BY <1>2, <2>5, <2>6, TimelineMoved
  <1>12. Window'
    <2> SUFFICES ASSUME NEW e \in Published, e + ReplaySize > Len(log)
                 PROVE  e \in ToSet(w) \cup excused'
      BY <1>2, <1>3, <1>5 DEF Window, Published, HasOrLost
    <2> QED BY <1>4, <1>5
  <1> QED BY <1>8, <1>9, <1>10, <1>11, <1>12 DEF ChatInv

LEMMA ChatStart == ASSUME ChatInit PROVE ChatInv
  <1>1. Published = {} /\ Len(log) = 0 BY DEF ChatInit, Published
  <1>2. LogOK
    <2>1. 0 \in SessionIds /\ MaxBroadcasts \in Nat BY ChatNumbers
    <2> QED BY <2>1 DEF ChatInit, LogOK
  <1>3. WireOK
    <2>1. MaxConnects \in Nat /\ WireCap \in Nat BY ChatNumbers
    <2>2. wire \in Seq(Published) /\ Len(wire) <= WireCap
      <3>1. wire = <<>> BY DEF ChatInit
      <3>2. <<>> \in Seq(Published) /\ Len(<<>>) = 0 OBVIOUS
      <3> QED BY <2>1, <3>1, <3>2
    <2>3. up \in BOOLEAN /\ joined = 0 /\ connects = 0 BY DEF ChatInit
    <2>4. 0 \in 0..Len(log) /\ 0 \in 0..MaxConnects BY <1>1, <2>1
    <2> QED BY <2>2, <2>3, <2>4 DEF WireOK
  <1>4. ClientOK
    <2>1. fetches \in [Slots -> {Idle} \cup Fetch] BY DEF ChatInit
    <2>2. 0 \in SessionIds BY ChatNumbers
    <2> QED BY <2>1, <2>2 DEF ChatInit, ClientOK
  <1>5. TimelineInv(State)
    <2>1. State = [cards |-> <<>>, sessionId |-> 0, lastSeq |-> 0, taken |-> {}, excused |-> {}]
      BY DEF ChatInit, State
    <2>2. 0 \in SessionIds /\ 0 \in 0..MaxBroadcasts /\ 0 <= MaxMessages BY ChatNumbers
    <2>3. <<>> \in Seq(Card) OBVIOUS
    <2>4. State \in Timelines BY <2>1, <2>2, <2>3 DEF Timelines
    <2>5. State.cards = <<>> /\ State.taken = {} BY <2>1
    <2>6. Len(State.cards) <= MaxMessages BY <2>2, <2>5
    <2>7. \A i \in DOMAIN State.cards : OwnId(State.cards[i], State.taken) BY <2>5
    <2>8. OneCardOf(State.cards) BY <2>5 DEF OneCardOf
    <2>9. SaysAll(State.cards, State.taken) BY <2>5 DEF SaysAll
    <2> QED BY <2>4, <2>6, <2>7, <2>8, <2>9 DEF TimelineInv
  <1>6. Window BY DEF ChatInit, Window
  <1> QED BY <1>2, <1>3, <1>4, <1>5, <1>6 DEF ChatInv

\* Every step keeps the invariant, and the cards but the last one, unless it
\* clears them.
LEMMA ChatStep ==
  ASSUME ChatInv, [ChatNext]_chatVars
  PROVE  ChatInv' /\ (cards' = <<>> \/ Grown(cards, cards'))
  <1>1. cards \in Seq(Card) BY StateIs DEF ChatInv, TimelineInv, Timelines
  <1>2. cards' = cards => Grown(cards, cards') BY <1>1 DEF Grown
  <1>3. CASE ServerStarts
    BY <1>2, <1>3, StartsStep DEF ServerStarts, timeline
  <1>4. CASE Save BY <1>2, <1>4, SaveStep DEF Save, timeline
  <1>5. ASSUME NEW k \in Kinds, NEW early \in BOOLEAN, Publish(k, early)
        PROVE  ChatInv' /\ cards' = cards
    BY <1>5, PublishStep DEF Publish
  <1>6. CASE Connect BY <1>2, <1>6, ConnectStep DEF Connect
  <1>7. CASE Disconnect BY <1>2, <1>7, DisconnectStep DEF Disconnect, timeline
  <1>8. CASE Receive BY <1>8, ReceiveStep
  <1>9. CASE SessionStarted BY <1>9, StartedStep
  <1>10. CASE SessionDetected BY <1>10, DetectedStep
  <1>11. CASE SessionStopped BY <1>2, <1>11, StoppedStep DEF SessionStopped
  <1>12. CASE UserMessageSent BY <1>12, UserSentStep
  <1>13. CASE FetchMissed BY <1>2, <1>13, MissedStep DEF FetchMissed, timeline
  <1>14. ASSUME NEW f \in Slots, FetchAnswered(f) \/ FetchFails(f)
         PROVE  ChatInv' /\ cards' = cards
    BY <1>14, AnsweredStep, FailsStep DEF FetchAnswered, FetchFails, timeline
  <1>15. ASSUME NEW f \in Slots, FetchApplied(f)
         PROVE  ChatInv' /\ Grown(cards, cards')
    BY <1>15, AppliedStep
  <1>16. CASE UNCHANGED chatVars
    <2>1. log' = log /\ UNCHANGED server /\ UNCHANGED timeline BY <1>16 DEF chatVars, server
    <2>2. LogOK' BY <2>1, LogSame DEF ChatInv
    <2>3. WireOK' BY <1>16, <2>1, WireSame DEF ChatInv, chatVars
    <2>4. ClientOK' BY <1>16, <2>1, ClientSame DEF ChatInv, chatVars
    <2>5. TimelineInv(State)' BY <2>1, TimelineSame DEF ChatInv
    <2>6. HasOrLost' = HasOrLost BY <1>16 DEF HasOrLost, chatVars, timeline
    <2>7. Window' BY <1>16, <2>1, <2>6, WindowSame DEF ChatInv, chatVars
    <2>8. cards' = cards BY <2>1 DEF timeline
    <2> QED BY <1>2, <2>2, <2>3, <2>4, <2>5, <2>7, <2>8 DEF ChatInv
  <1> QED
    BY <1>2, <1>3, <1>4, <1>5, <1>6, <1>7, <1>8, <1>9, <1>10, <1>11, <1>12, <1>13, <1>14,
       <1>15, <1>16 DEF ChatNext

LEMMA ChatInvariant == ChatSpec => []ChatInv
  <1>1. ChatInv /\ [ChatNext]_chatVars => ChatInv' BY ChatStep
  <1> QED BY ChatStart, <1>1, PTL DEF ChatSpec

\* What the client keeps is well formed: the events on the wire, in cards and
\* in the rows of pages are events that were broadcast, and the bounds hold of
\* the list of cards, of the channel and of the sequence numbers.
THEOREM ChatTypeCorrect == ChatSpec => []ChatTypeOK
  <1>1. ChatInv => ChatTypeOK
    <2> SUFFICES ASSUME ChatInv PROVE ChatTypeOK OBVIOUS
    <2>1. LogOK /\ WireOK /\ ClientOK /\ TimelineInv(State) BY DEF ChatInv
    <2>2. /\ cards \in Seq(Card) /\ sessionId \in SessionIds /\ lastSeq \in 0..MaxBroadcasts
          /\ taken \subseteq Published /\ excused \subseteq Published
          /\ Len(cards) <= MaxMessages
      BY <2>1, StateIs DEF TimelineInv, Timelines
    <2>3. {starting, refreshing, due, failed} \subseteq BOOLEAN BY <2>1 DEF ClientOK
    <2>4. {sessionId, stoppedSessionId} \subseteq SessionIds BY <2>1, <2>2 DEF ClientOK
    <2> QED BY <2>1, <2>2, <2>3, <2>4 DEF ChatTypeOK, LogOK, WireOK, ClientOK, Card
  <1> QED BY ChatInvariant, <1>1, PTL

\* However the live events, the replays and the pages overlap, no two cards
\* stand under the id of the same event, unless it is a question.
THEOREM CardsAreOne == ChatSpec => []OneCard
  <1>1. ChatInv => OneCard
    BY StateIs DEF ChatInv, TimelineInv, OneCardOf, OneCard
  <1> QED BY ChatInvariant, <1>1, PTL

\* Merging, replacing and removing duplicates loses nothing: while no card was
\* cut off, an event that was put into the timeline is shown, or the card that
\* took its place is.
THEOREM CardsForgetNothing == ChatSpec => []NothingForgotten
  <1>1. ChatInv => NothingForgotten
    <2> SUFFICES ASSUME ChatInv, Len(cards) < MaxMessages, NEW e \in taken
                 PROVE  e \in Covered
      BY DEF NothingForgotten
    <2>1. SaysAll(cards, taken) BY StateIs DEF ChatInv, TimelineInv
    <2>2. PICK i \in DOMAIN cards : e \in Says(cards[i]) BY <2>1 DEF SaysAll
    <2> QED BY <2>2 DEF Says, Covered, Parts
  <1> QED BY ChatInvariant, <1>1, PTL

\* While it is connected, the client has or is about to get every event of its
\* session that was in the replay buffer when it connected or was broadcast
\* since, but for those that were dropped, ignored or cleared.
THEOREM ConnectedIsShown == ChatSpec => []WindowIsShown
  <1>1. ChatInv => WindowIsShown
    BY DEF ChatInv, Window, HasOrLost, WindowIsShown, OfSession
  <1> QED BY ChatInvariant, <1>1, PTL

\* A step changes at most the last of the cards that were there, unless it
\* clears the timeline or cuts it at the front.
THEOREM CardsOnlyGrow == ChatSpec => HistoryIsStable
  <1>1. ASSUME ChatInv, ChatInv', [ChatNext]_chatVars
        PROVE  [\/ cards = <<>> \/ cards' = <<>> \/ Len(cards') = MaxMessages
                \/ IsPrefix(Front(cards), cards')]_chatVars
    <2>1. cards' = <<>> \/ Grown(cards, cards') BY <1>1, ChatStep
    <2> SUFFICES ASSUME cards # <<>>, Grown(cards, cards'), Len(cards') # MaxMessages
                 PROVE  IsPrefix(Front(cards), cards')
      BY <2>1
    <2> PICK a \in Seq(Card) : a = cards BY <1>1, StateIs DEF ChatInv, TimelineInv, Timelines
    <2>2. PICK S : cards' \in Seq(S)
      <3>1. State'.cards \in Seq(Card') /\ State'.cards = cards'
        BY <1>1 DEF ChatInv, TimelineInv, Timelines, State
      <3> QED BY <3>1
    <2> PICK b \in Seq(S) : b = cards' BY <2>2
    <2>3. Len(b) >= Len(a) /\ (\A i \in 1..(Len(a) - 1) : b[i] = a[i]) /\ a # <<>>
      BY DEF Grown
    <2> PICK k : k = Len(a) - 1 OBVIOUS
    <2>4. k \in 0..Len(a) /\ k \in 0..Len(b) BY <2>3
    <2>5. Front(a) = SubSeq(a, 1, k) BY DEF Front
    <2>6. SubSeq(b, 1, k) = SubSeq(a, 1, k)
      <3>1. /\ SubSeq(a, 1, k) \in Seq(Card) /\ Len(SubSeq(a, 1, k)) = k
            /\ \A i \in 1..k : SubSeq(a, 1, k)[i] = a[i]
        BY <2>4, FirstOnes, Zenon
      <3>2. /\ SubSeq(b, 1, k) \in Seq(S) /\ Len(SubSeq(b, 1, k)) = k
            /\ \A i \in 1..k : SubSeq(b, 1, k)[i] = b[i]
        BY <2>4, FirstOnes, Zenon
      <3> QED BY <2>3, <3>1, <3>2
    <2>7. Len(SubSeq(a, 1, k)) = k BY <2>4
    <2> QED BY <2>4, <2>5, <2>6, <2>7 DEF IsPrefix
  <1> QED BY ChatInvariant, <1>1, PTL DEF ChatSpec, HistoryIsStable
=============================================================================
