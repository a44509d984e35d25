--------------------------- MODULE EventPipeline ---------------------------
(***************************************************************************)
(* The way of an event from the runner of a session to the clients and to  *)
(* the database: Manager.forward (internal/session/manager.go) copies it   *)
(* to m.out or drops it, forwardSessionEvents (cmd/server/main.go) gives   *)
(* it the session id, queues it for the asynchronous writer and broadcasts *)
(* it, and the writer saves it with the next sequence number of its        *)
(* session (internal/store/message.go) and writes that number back into    *)
(* the event, which forwardSessionEvents may or may not have sent by then. *)
(* A server that could not open the database goes on without saving.  An   *)
(* event was read from JSON and can always be written as JSON again, so    *)
(* that ProjectionToEnvelope does not fail.                                *)
(*                                                                         *)
(* Events are numbered as the runners emit them; each is projected to one. *)
(* Sessions are numbered in the order in which they start; 0 is the empty  *)
(* id.  The database outlives the server, which may end at any time and    *)
(* be started again; everything else does not.                             *)
(***************************************************************************)
EXTENDS Naturals, Sequences, SequencesExt, FiniteSets

CONSTANTS
  OutCap,        \* capacity of m.out, 256
  SaveCap,       \* capacity of saveCh, 512
  MaxSessions, MaxEvents, MaxBoots   \* bounds

ASSUME PipelineAssumption ==
  {OutCap, SaveCap, MaxSessions, MaxEvents, MaxBoots} \subseteq Nat \ {0}

Sessions == 1..MaxSessions
MaybeSession == 0..MaxSessions
Events == 1..MaxEvents
MaybeEvent == 0..MaxEvents

VARIABLES
  current,    \* m.sid
  runner,     \* the runner of each session: "none", "live", "ending", "gone"
  owner,      \* the session whose runner emitted each event
  out,        \* m.out
  forwarder,  \* forwardSessionEvents: "receive", "save", "broadcast"
  held,       \* the event it works on
  sid,        \* the session id it gave to each event (an event without one
              \* is saved under "", and sent under an id that Project makes up)
  seq,        \* the Seq field of each event in memory
  saveCh,
  writer,     \* the writer: "receive", "save", "fill"
  saving,     \* the event it works on
  stored,     \* the rows of session_messages of each session, by seq
  published,  \* what was broadcast: the event, with the Seq it was sent with
  msgStore,   \* whether this server has opened the database
  unsaved,    \* the events that were given up: no save, or one that failed
  lost,       \* the events that ended with the server
  boots       \* how many times the server was started

runners == <<current, runner, owner>>
forward == <<forwarder, held, sid>>
writing == <<writer, saving, seq, stored, unsaved>>
boot == <<msgStore, boots>>
vars == <<runners, out, forward, saveCh, writing, published, lost, boot>>

Emitted == {e \in Events : owner[e] # 0}

TypeOK ==
  /\ current \in MaybeSession
  /\ runner \in [Sessions -> {"none", "live", "ending", "gone"}]
  /\ owner \in [Events -> MaybeSession]
  /\ out \in Seq(Events) /\ Len(out) <= OutCap
  /\ forwarder \in {"receive", "save", "broadcast"}
  /\ held \in MaybeEvent
  /\ sid \in [Events -> MaybeSession]
  /\ seq \in [Events -> 0..MaxEvents]
  /\ saveCh \in Seq(Events) /\ Len(saveCh) <= SaveCap
  /\ writer \in {"receive", "save", "fill"}
  /\ saving \in MaybeEvent
  /\ stored \in [MaybeSession -> Seq(Events)]
  /\ published \in Seq([event : Events, seq : 0..MaxEvents])
  /\ unsaved \in SUBSET Events
  /\ lost \in SUBSET Events
  /\ msgStore \in BOOLEAN /\ boots \in 1..MaxBoots

Init ==
  /\ current = 0
  /\ runner = [s \in Sessions |-> "none"]
  /\ owner = [e \in Events |-> 0]
  /\ out = <<>>
  /\ forwarder = "receive" /\ held = 0
  /\ sid = [e \in Events |-> 0]
  /\ seq = [e \in Events |-> 0]
  /\ saveCh = <<>>
  /\ writer = "receive" /\ saving = 0
  /\ stored = [s \in MaybeSession |-> <<>>]
  /\ published = <<>>
  /\ unsaved = {} /\ lost = {}
  /\ msgStore \in BOOLEAN /\ boots = 1

(***************************************************************************)
(* The sessions (see SessionManager) and their runners.                    *)
(***************************************************************************)
StartSession(s) ==
  /\ current = 0
  /\ runner[s] = "none"
  /\ \A t \in Sessions : t < s => runner[t] # "none"
  /\ current' = s
  /\ runner' = [runner EXCEPT ![s] = "live"]
  /\ UNCHANGED <<owner, out, forward, saveCh, writing, published, lost, boot>>

\* Stop takes the runner out; only then is it closed, and its loops end.
StopSession ==
  /\ current # 0
  /\ runner' = [runner EXCEPT ![current] = "ending"]
  /\ current' = 0
  /\ UNCHANGED <<owner, out, forward, saveCh, writing, published, lost, boot>>

\* The end of a runner's events: forward clears m.sid if it is its session.
RunnerEnds(s) ==
  /\ runner[s] \in {"live", "ending"}
  /\ runner' = [runner EXCEPT ![s] = "gone"]
  /\ current' = IF current = s THEN 0 ELSE current
  /\ UNCHANGED <<owner, out, forward, saveCh, writing, published, lost, boot>>

\* A runner emits an event and its forward sends it on m.out, or drops it.
Emit(s) ==
  /\ runner[s] \in {"live", "ending"}
  /\ Emitted # Events
  /\ LET e == Cardinality(Emitted) + 1 IN
       /\ owner' = [owner EXCEPT ![e] = s]
       /\ out' = IF Len(out) < OutCap THEN Append(out, e) ELSE out
  /\ UNCHANGED <<current, runner, forward, saveCh, writing, published, lost, boot>>

(***************************************************************************)
(* forwardSessionEvents.                                                   *)
(***************************************************************************)
\* Mutant: an event is skipped when no session is current any more.
TakeOfSession ==
  /\ forwarder = "receive" /\ out # <<>>
  /\ out' = Tail(out)
  /\ IF current = 0 THEN UNCHANGED forward
     ELSE /\ held' = Head(out)
          /\ sid' = [sid EXCEPT ![Head(out)] = current]
          /\ forwarder' = "save"
  /\ UNCHANGED <<runners, saveCh, writing, published, lost, boot>>

Take ==
  /\ forwarder = "receive" /\ out # <<>>
  /\ held' = Head(out)
  /\ out' = Tail(out)
  /\ sid' = [sid EXCEPT ![Head(out)] = current]
  /\ forwarder' = "save"
  /\ UNCHANGED <<runners, saveCh, writing, published, lost, boot>>

\* Mutant: an event is given up when saveCh is full.
QueueForSaveDrops ==
  /\ forwarder = "save" /\ msgStore
  /\ saveCh' = IF Len(saveCh) < SaveCap THEN Append(saveCh, held) ELSE saveCh
  /\ forwarder' = "broadcast"
  /\ UNCHANGED <<runners, out, held, sid, writing, published, lost, boot>>

QueueForSave ==
  /\ forwarder = "save" /\ msgStore /\ Len(saveCh) < SaveCap
  /\ saveCh' = Append(saveCh, held)
  /\ forwarder' = "broadcast"
  /\ UNCHANGED <<runners, out, held, sid, writing, published, lost, boot>>

\* saveCh is nil.
GoesUnsaved ==
  /\ forwarder = "save" /\ ~ msgStore
  /\ unsaved' = unsaved \cup {held}
  /\ forwarder' = "broadcast"
  /\ UNCHANGED <<runners, out, held, sid, saveCh, writer, saving, seq, stored,
                 published, lost, boot>>

\* ProjectionToEnvelope, with the Seq the event has now, and Broadcast.
Broadcast ==
  /\ forwarder = "broadcast"
  /\ published' = Append(published, [event |-> held, seq |-> seq[held]])
  /\ held' = 0
  /\ forwarder' = "receive"
  /\ UNCHANGED <<runners, out, sid, saveCh, writing, lost, boot>>

(***************************************************************************)
(* The asynchronous writer.                                                *)
(***************************************************************************)
\* Mutant: the newest request is taken first.
WriterTakesLast ==
  /\ writer = "receive" /\ saveCh # <<>>
  /\ saving' = Last(saveCh)
  /\ saveCh' = Front(saveCh)
  /\ writer' = "save"
  /\ UNCHANGED <<runners, out, forward, seq, stored, unsaved, published, lost, boot>>

WriterTakes ==
  /\ writer = "receive" /\ saveCh # <<>>
  /\ saving' = Head(saveCh)
  /\ saveCh' = Tail(saveCh)
  /\ writer' = "save"
  /\ UNCHANGED <<runners, out, forward, seq, stored, unsaved, published, lost, boot>>

\* SaveMessage, one transaction: the row gets the session's next number.
SaveMessage ==
  /\ writer = "save"
  /\ stored' = [stored EXCEPT ![sid[saving]] = Append(@, saving)]
  /\ writer' = "fill"
  /\ UNCHANGED <<runners, out, forward, saveCh, saving, seq, unsaved, published,
                 lost, boot>>

\* The database is busy, or its disk is full: the event is given up.
SaveFails ==
  /\ writer = "save"
  /\ unsaved' = unsaved \cup {saving}
  /\ saving' = 0
  /\ writer' = "receive"
  /\ UNCHANGED <<runners, out, forward, saveCh, seq, stored, published, lost, boot>>

\* Mutant: the number is the count of all rows, whatever their session.
FillSeqGlobal ==
  /\ writer = "fill"
  /\ seq' = [seq EXCEPT ![saving] =
               Cardinality({e \in Events : \E s \in MaybeSession : e \in ToSet(stored[s])})]
  /\ saving' = 0
  /\ writer' = "receive"
  /\ UNCHANGED <<runners, out, forward, saveCh, stored, unsaved, published, lost, boot>>

FillSeq ==
  /\ writer = "fill"
  /\ seq' = [seq EXCEPT ![saving] = Len(stored[sid[saving]])]
  /\ saving' = 0
  /\ writer' = "receive"
  /\ UNCHANGED <<runners, out, forward, saveCh, stored, unsaved, published, lost, boot>>

\* The server ends (ctx is done, or it is killed) and is started again.
Reboot ==
  /\ boots < MaxBoots
  /\ boots' = boots + 1 /\ msgStore' \in BOOLEAN
  /\ lost' = lost \cup ToSet(out) \cup ToSet(saveCh) \cup ({held, saving} \ {0})
  /\ current' = 0
  /\ runner' = [s \in Sessions |-> IF runner[s] = "none" THEN "none" ELSE "gone"]
  /\ out' = <<>> /\ saveCh' = <<>>
  /\ forwarder' = "receive" /\ held' = 0
  /\ writer' = "receive" /\ saving' = 0
  /\ UNCHANGED <<owner, sid, seq, stored, unsaved, published>>

Forwarder == Take \/ QueueForSave \/ GoesUnsaved \/ Broadcast
Writer == WriterTakes \/ SaveMessage \/ SaveFails \/ FillSeq

Next ==
  \/ StopSession \/ Forwarder \/ Writer \/ Reboot
  \/ \E s \in Sessions : StartSession(s) \/ RunnerEnds(s) \/ Emit(s)

\* The two goroutines are scheduled.
Fairness == WF_vars(Forwarder) /\ WF_vars(Writer)

Spec == Init /\ [][Next]_vars
FairSpec == Spec /\ Fairness

-----------------------------------------------------------------------------
(***************************************************************************)
(* Properties.                                                             *)
(***************************************************************************)
PublishedEvents == {published[i].event : i \in 1..Len(published)}
Increasing(s) == \A i, j \in 1..Len(s) : i < j => s[i] < s[j]

\* What is read back from the database is in the order in which the runners
\* emitted it, and so is what is broadcast, across saves that fail, servers
\* that end and sessions that follow each other.
OneOrder ==
  /\ \A s \in MaybeSession : Increasing(stored[s])
  /\ Increasing([i \in 1..Len(published) |-> published[i].event])

\* A sequence number on an event that was sent is the one under which it
\* can be read back: a client that has seen it may ask for what comes after.
SeqIsTrue ==
  \A i \in 1..Len(published) :
    LET p == published[i] IN
    p.seq # 0 =>
      /\ p.seq \in DOMAIN stored[sid[p.event]]
      /\ stored[sid[p.event]][p.seq] = p.event

\* Every event that was broadcast is in the database, on its way there, or
\* known to have failed, for want of a database too, or to have been lost with
\* the server.
BroadcastIsSaved ==
  PublishedEvents \subseteq
    (UNION {ToSet(stored[s]) : s \in MaybeSession}) \cup ToSet(saveCh)
      \cup {saving} \cup unsaved \cup lost

\* An event that got into m.out is broadcast, whatever the database does.
TakenIsBroadcast ==
  \A e \in Events :
    (\E i \in 1..Len(out) : out[i] = e) ~> (e \in PublishedEvents \cup lost)

\* manager.go:56, Output "returns the event stream of the current session":
\* an event is sent, and saved, under the id of the session it belongs to.
OwnSession == \A e \in PublishedEvents : sid[e] = owner[e]
=============================================================================
