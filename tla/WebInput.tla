------------------------------ MODULE WebInput ------------------------------
(***************************************************************************)
(* What the user types in the web client, from the input box to the wire:  *)
(* handleSend of InputBar.tsx, sendInput and the effect that sends what    *)
(* was queued while disconnected (ChatContext.tsx), over the connection of *)
(* WSClient.  Texts are numbered as they are typed; word[t] is the first    *)
(* text that says what t says.  Every request is a session.input.          *)
(*                                                                         *)
(* A handler runs to its end, and then whatever awaits a settled promise,  *)
(* before the next handler: every action but Resume waits for Quiet.       *)
(* React renders later.  The first render after a change of status runs    *)
(* the flush with the sendInput of the render before, which puts every     *)
(* text back where it was: it is left out.  Whether a turn is under way,   *)
(* which may keep the user from typing, is left to WebTurn.                *)
(***************************************************************************)
EXTENDS WSClient, SequencesExt

CONSTANTS
  Repeating,   \* whether the user may say again what was said before
  MaxTexts     \* bound

ASSUME InputAssumption == Repeating \in BOOLEAN /\ MaxTexts \in Nat

VARIABLES
  shown,         \* the status as last rendered: of the hook and of the state
  pendingQueue,
  due,           \* pendingQueue has changed since the last render
  flushing,      \* flushingRef
  senders,       \* the calls of sendInput under way: the queue of the caller,
                 \* its place there, and the request, 0 before it is made
  word, fate,    \* of each text; its fate is "open" until it is decided
  outages,       \* how often the client was rendered as disconnected
  outage         \* the outage in which each text was queued, 0 for none

inputVars == <<shown, pendingQueue, due, flushing, senders, word, fate,
               outages, outage>>
vars == <<wsVars, inputVars>>

Texts == 1..MaxTexts
Typed == DOMAIN word

Init ==
  /\ WSInit
  /\ shown = "idle" /\ pendingQueue = <<>> /\ due = FALSE /\ flushing = FALSE
  /\ senders = {} /\ word = <<>> /\ fate = <<>> /\ outages = 0 /\ outage = <<>>

Settled(x) == x.request # 0 /\ settled[x.request] # "no"
Quiet == \A x \in senders : ~ Settled(x)

\* QUEUE_INPUT: a text that says what the last one says is not queued again.
Repeats(queue, t) == queue # <<>> /\ word[Last(queue)] = word[t]
Enqueue(queue, t) == IF Repeats(queue, t) THEN queue ELSE Append(queue, t)
EnqueueAll(queue, ts) ==
  LET put[i \in 0..Len(ts)] ==
        IF i = 0 THEN queue ELSE Enqueue(put[i - 1], ts[i])
  IN put[Len(ts)]

\* Mutant: the text that failed is put back too, and given up as well.
RemainingAll(queue, at) == SubSeq(queue, at, Len(queue))

\* Mutant: what remains is put back the other way round.
RemainingReversed(queue, at) == Reverse(SubSeq(queue, at + 1, Len(queue)))

\* queue.slice(queue.indexOf(text) + 1), where indexOf compares what is said.
Remaining(queue, at) ==
  LET first == CHOOSE i \in 1..at :
        /\ word[queue[i]] = word[queue[at]]
        /\ \A j \in 1..(i - 1) : word[queue[j]] # word[queue[at]]
  IN SubSeq(queue, first + 1, Len(queue))

\* The caller is done with the queue.
Leave(by) == flushing' = (flushing /\ by # "flush")

\* sendInput throws: the text returns to the box, or what follows it in the
\* flushed queue is queued again.
Failed(others, queue, at, by) ==
  /\ senders' = others
  /\ fate' = [fate EXCEPT ![queue[at]] = IF by = "box" THEN "boxed" ELSE "dropped"]
  /\ pendingQueue' = IF by = "box" THEN pendingQueue
                     ELSE EnqueueAll(pendingQueue, Remaining(queue, at))
  /\ due' = (due \/ pendingQueue' # pendingQueue)
  /\ Leave(by)
  /\ UNCHANGED <<requestVars, outage>>

\* sendInput of a render with status "connected": it makes the request at
\* once, or after it has asked the server for its runtime or session.  One
\* that throws since there is no session asks and is refused at once.
Call(others, queue, at, by) ==
  \/ /\ Send
     /\ senders' = others \cup
          {[queue |-> queue, at |-> at, request |-> Len(settled'), by |-> by]}
  \/ /\ senders' = others \cup
          {[queue |-> queue, at |-> at, request |-> 0, by |-> by]}
     /\ UNCHANGED requestVars

\* handleSend: the box is free, and sendInput queues or sends.
Type(w) ==
  /\ Quiet /\ \A x \in senders : x.by # "box"
  /\ Len(word) < MaxTexts
  /\ w = Len(word) + 1 \/ (Repeating /\ w \in {word[t] : t \in Typed})
  /\ word' = Append(word, w)
  /\ LET t == Len(word')
         repeats == pendingQueue # <<>> /\ word[Last(pendingQueue)] = w
     IN
     \/ /\ shown # "connected"
        /\ fate' = Append(fate, IF repeats THEN "merged" ELSE "open")
        /\ pendingQueue' = IF repeats THEN pendingQueue
                           ELSE Append(pendingQueue, t)
        /\ due' = (due \/ ~ repeats)
        /\ outage' = Append(outage, outages + 1)
        /\ UNCHANGED <<senders, requestVars>>
     \/ /\ shown = "connected"
        /\ outage' = Append(outage, 0)
        /\ Call(senders, <<t>>, 1, "box")
        /\ fate' = Append(fate, "open")
        /\ UNCHANGED <<pendingQueue, due>>
  /\ UNCHANGED <<socketVars, status, shown, flushing, outages>>

\* The answer to what was asked first arrives: the request is made, whatever
\* has become of the connection, or sendInput throws.
Asked(x) ==
  /\ Quiet /\ x \in senders /\ x.request = 0
  /\ \/ /\ Send
        /\ senders' = (senders \ {x}) \cup {[x EXCEPT !.request = Len(settled')]}
        /\ UNCHANGED <<pendingQueue, due, flushing, fate, outage>>
     \/ Failed(senders \ {x}, x.queue, x.at, x.by)
  /\ UNCHANGED <<socketVars, status, shown, word, outages>>

\* The loop goes on with the sendInput of the last render: when that shows a
\* drop, all that is left is queued again.
GoesOn(x) ==
  LET others == senders \ {x} IN
  \/ /\ x.at = Len(x.queue)
     /\ senders' = others /\ Leave(x.by)
     /\ UNCHANGED <<pendingQueue, due, requestVars>>
  \/ /\ x.at < Len(x.queue) /\ shown # "connected"
     /\ senders' = others /\ Leave(x.by)
     /\ pendingQueue' = EnqueueAll(pendingQueue,
                                   SubSeq(x.queue, x.at + 1, Len(x.queue)))
     /\ due' = TRUE
     /\ UNCHANGED requestVars
  \/ /\ x.at < Len(x.queue) /\ shown = "connected"
     /\ Call(others, x.queue, x.at + 1, x.by)
     /\ UNCHANGED <<pendingQueue, due, flushing>>

\* What awaits a request goes on once that has settled.
Resume(x) ==
  /\ x \in senders /\ Settled(x)
  /\ \/ /\ settled[x.request] = "resolved"
        /\ fate' = [fate EXCEPT ![x.queue[x.at]] = "sent"]
        /\ GoesOn(x)
        /\ UNCHANGED outage
     \/ /\ settled[x.request] = "rejected"
        /\ Failed(senders \ {x}, x.queue, x.at, x.by)
  /\ UNCHANGED <<socketVars, status, shown, word, outages>>

\* Mutant: the flag is not reset when the connection is lost.
FlagKept == UNCHANGED flushing

\* The flush effect while disconnected.
FlagReset == flushing' = FALSE

\* A render and its effects.
Render ==
  /\ Quiet /\ (due \/ shown # status)
  /\ shown' = status /\ due' = FALSE
  /\ outages' = IF shown = "connected" /\ status # "connected" THEN outages + 1
                ELSE outages
  /\ \/ /\ status # "connected"
        /\ FlagReset
        /\ UNCHANGED <<pendingQueue, senders, requestVars>>
     \/ /\ status = "connected" /\ (pendingQueue = <<>> \/ flushing)
        /\ UNCHANGED <<pendingQueue, senders, flushing, requestVars>>
     \/ /\ status = "connected" /\ pendingQueue # <<>> /\ ~ flushing
        /\ flushing' = TRUE
        /\ pendingQueue' = <<>>
        /\ Call(senders, pendingQueue, 1, "flush")
  /\ UNCHANGED <<socketVars, status, word, fate, outage>>

\* The connection, which is not lost for good: the last socket stays.
Connection ==
  /\ Quiet
  /\ \/ Connect
     \/ \E s \in SocketIds :
          Reconnect(s) \/ Opened(s) \/ (s < MaxSockets /\ Dropped(s))
     \/ \E r \in Requests :
          Timeout(r) \/ \E o \in {"resolved", "rejected"} : Response(r, o)
  /\ UNCHANGED inputVars

Next ==
  \/ \E w \in Texts : Type(w)
  \/ \E x \in senders : Asked(x) \/ Resume(x)
  \/ Render
  \/ Connection

\* Timers fire, promises resume and renders happen; the connection is made.
Fairness ==
  /\ WF_vars(Render)
  /\ WF_vars(\E x \in senders : Resume(x))
  /\ WF_vars(\E x \in senders : Asked(x))
  /\ WF_vars(Quiet /\ Connect /\ UNCHANGED inputVars)
  /\ WF_vars(\E s \in SocketIds :
       Quiet /\ (Reconnect(s) \/ Opened(s)) /\ UNCHANGED inputVars)
  /\ WF_vars(\E r \in Requests : Quiet /\ Timeout(r) /\ UNCHANGED inputVars)

Spec == Init /\ [][Next]_vars /\ Fairness

(***************************************************************************)
(* Properties                                                              *)
(***************************************************************************)

Places(t) ==
  [queue  |-> {i \in DOMAIN pendingQueue : pendingQueue[i] = t},
   sender |-> {x \in senders : \E i \in x.at..Len(x.queue) : x.queue[i] = t}]

\* As long as no two texts say the same, a text that is not decided is in
\* exactly one place, in the queue or with one caller that is to send it: no
\* drop, rerender or loop that outlives its connection loses or doubles it.
TextAccounted ==
  \A t \in Typed :
    Cardinality(Places(t).queue) + Cardinality(Places(t).sender)
      = (IF fate[t] = "open" THEN 1 ELSE 0)

\* Texts queued in one outage are handed to the connection in the order in
\* which they were typed, also when some of them go through a later outage.
OutageInOrder ==
  \A t, u \in Typed :
    t < u /\ outage[t] = outage[u] /\ outage[t] # 0 /\ fate[u] = "sent"
      => fate[t] # "open"

\* Whatever is typed, queued or not, is sent or given up for a reason the
\* user sees: nothing waits for ever once the connection is back.
EveryTextEnds == \A t \in Texts : [](t \in Typed => <>(t \in Typed /\ fate[t] # "open"))
=============================================================================
