----------------------------- MODULE MobileStore -----------------------------
(***************************************************************************)
(* What the mobile client shows of the events it is given: the store of    *)
(* stores/useMessageStore.ts as operators on its state, and the groups     *)
(* that MessageList.tsx makes of its messages.  The text of a card is the  *)
(* sequence of the events whose text it shows, its thinking the event that *)
(* it comes from; what the context window says is the number of the event  *)
(* that said it.                                                           *)
(***************************************************************************)
EXTENDS Naturals, Sequences, SequencesExt

CONSTANTS
  Types,     \* of the events that occur
  Blocks,    \* values of blockIndex
  Tools,     \* values of toolName
  Holds      \* what a delta holds

StateTypes == {"thinking_start", "thinking_end", "turn_end", "lifecycle", "agent_state"}
HiddenTypes == {"plan_mode", "session"}
AskTypes == {"permission_request", "permission_ask"}

ASSUME StoreAssumption ==
  /\ Types \subseteq StateTypes \cup HiddenTypes \cup AskTypes \cup
       {"context_window", "text", "text_delta", "tool_use", "tool_result", "bash_end"}
  /\ Holds \subseteq {"text", "thinking", "both"} /\ "text" \in Holds

\* What tells events apart; a field that a type does not have is the same
\* for all events of the type.
Event == [type : Types, block : Blocks, tool : Tools, holds : Holds]
Kinds ==
  LET b0 == CHOOSE b \in Blocks : TRUE
      t0 == CHOOSE t \in Tools : TRUE
  IN {e \in Event : /\ e.type # "text_delta" => e.block = b0 /\ e.holds = "text"
                    /\ e.type \notin AskTypes => e.tool = t0}

NoPrompt == 0
NoThinking == 0

\* resetMessages, and the state at the start.
resetMessages ==
  [messages |-> <<>>, permissionPrompt |-> NoPrompt, permissionRequestId |-> NoPrompt,
   thinking |-> FALSE, turnActive |-> FALSE, contextWindow |-> 0]

\* A delta of thinking has no text at all: the field is left out.
TextOf(e, id) == IF e.holds = "thinking" THEN <<>> ELSE <<id>>
ThinkingOf(e, id) == IF e.holds = "text" THEN NoThinking ELSE id

\* spoiled: the text of the card holds an "undefined" that nobody wrote.
Card(e, id) == [type |-> e.type, block |-> e.block, tool |-> e.tool,
                of |-> TextOf(e, id), thinking |-> ThinkingOf(e, id), spoiled |-> FALSE]
User(text) == [type |-> "user", block |-> 0, tool |-> 0,
               of |-> <<text>>, thinking |-> NoThinking, spoiled |-> FALSE]

\* What a card and the state of the store can be.
Cards ==
  [type : Types \cup {"user"}, block : Blocks \cup {0}, tool : Tools \cup {0},
   of : Seq(Nat), thinking : Nat, spoiled : BOOLEAN]
StoreStates ==
  [messages : Seq(Cards), permissionPrompt : Nat, permissionRequestId : Nat,
   thinking : BOOLEAN, turnActive : BOOLEAN, contextWindow : Nat]

StateEvent(st, e) ==
  [st EXCEPT !.thinking = CASE e.type = "thinking_start" -> TRUE
                            [] e.type = "turn_end" -> FALSE
                            [] OTHER -> @,
             !.turnActive = e.type # "turn_end"]

LastIs(messages, types) == messages # <<>> /\ Last(messages).type \in types

\* A delta goes on with the delta before it, when that is of its block: a text
\* that is missing is added as "undefined", and the first thinking stays.
WithDelta(messages, e, id) ==
  LET last == Last(messages)
      merged == [last EXCEPT !.of = @ \o TextOf(e, id),
                             !.thinking = IF @ # NoThinking THEN @ ELSE ThinkingOf(e, id),
                             !.spoiled = @ \/ e.holds = "thinking"]
  IN IF LastIs(messages, {"text_delta"}) /\ last.block = e.block
     THEN Append(Front(messages), merged)
     ELSE Append(messages, Card(e, id))

\* Mutant: the final text takes the place of the last card whatever it is.
WithTextOverAny(messages, e, id) ==
  IF messages # <<>>
  THEN Append(Front(messages), [Card(e, id) EXCEPT !.thinking = Last(messages).thinking])
  ELSE <<Card(e, id)>>

\* A final text takes the place of the deltas that stand last, whatever their
\* block, and keeps their thinking.
WithText(messages, e, id) ==
  IF LastIs(messages, {"text_delta"})
  THEN Append(Front(messages), [Card(e, id) EXCEPT !.thinking = Last(messages).thinking])
  ELSE Append(messages, Card(e, id))

\* A request takes the place of one for the same tool just before it.
WithAsk(messages, e, id) ==
  IF LastIs(messages, AskTypes) /\ Last(messages).tool = e.tool
  THEN Append(Front(messages), Card(e, id))
  ELSE Append(messages, Card(e, id))

WithEvent(messages, e, id) ==
  CASE e.type = "text_delta" -> WithDelta(messages, e, id)
    [] e.type = "text" -> WithText(messages, e, id)
    [] e.type \in AskTypes -> WithAsk(messages, e, id)
    [] OTHER -> Append(messages, Card(e, id))

ShownEvent(st, e, id) ==
  [st EXCEPT !.messages = WithEvent(@, e, id),
             !.turnActive = TRUE,
             !.permissionPrompt = IF e.type \in AskTypes THEN id ELSE @,
             !.permissionRequestId = IF e.type \in AskTypes THEN id ELSE @]

handleEvent(st, e, id) ==
  CASE e.type \in StateTypes -> StateEvent(st, e)
    [] e.type = "context_window" -> [st EXCEPT !.contextWindow = id]
    [] e.type \in HiddenTypes -> st
    [] OTHER -> ShownEvent(st, e, id)

addUserMessage(st, text) ==
  [st EXCEPT !.messages = Append(@, User(text)), !.thinking = TRUE, !.turnActive = TRUE]

answerPermission(st) ==
  [st EXCEPT !.permissionPrompt = NoPrompt, !.permissionRequestId = NoPrompt]

(***************************************************************************)
(* groupMessages.ts                                                        *)
(***************************************************************************)

\* flushAssistant closes the group that is open.
flushAssistant(acc) ==
  IF acc.current = <<>> THEN acc
  ELSE [groups |-> Append(acc.groups, [kind |-> "assistant", items |-> acc.current]),
        current |-> <<>>]

isStandalone(card) == card.type \in AskTypes

\* Mutant: a request does not close the group before it.
GroupedLoosely(acc, card) ==
  IF card.type = "user" \/ isStandalone(card)
  THEN [acc EXCEPT !.groups = Append(@, [kind |-> "standalone", items |-> <<card>>])]
  ELSE [acc EXCEPT !.current = Append(@, card)]

Grouped(acc, card) ==
  IF card.type = "user" \/ isStandalone(card)
  THEN [flushAssistant(acc) EXCEPT
          !.groups = Append(@, [kind |-> IF card.type = "user" THEN "user" ELSE "standalone",
                                items |-> <<card>>])]
  ELSE [acc EXCEPT !.current = Append(@, card)]

groupMessages(messages) ==
  LET after[i \in 0..Len(messages)] ==
        IF i = 0 THEN [groups |-> <<>>, current |-> <<>>]
        ELSE Grouped(after[i - 1], messages[i])
  IN flushAssistant(after[Len(messages)]).groups
==============================================================================
