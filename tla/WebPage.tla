------------------------------ MODULE WebPage ------------------------------
(***************************************************************************)
(* What the web page fetches and keeps by itself: the sidebar of changed   *)
(* files (GitFilesSidebar.tsx), the choice of a settings file and the list *)
(* of models (SessionBar.tsx), the drafts and the history of the input box *)
(* (InputBar.tsx), as TerminalPage.tsx puts them side by side.             *)
(*                                                                         *)
(* The answers to what is fetched come in any order.  An answer for a      *)
(* component that is not there any more has no effect.  Whether a text is  *)
(* sent, and when, is in WebInput, and what the turn allows in WebTurn:    *)
(* here a text that is sent succeeds or fails at any time.  Session 0      *)
(* stands for the key "default", used as long as no session is known.      *)
(***************************************************************************)
EXTENDS Naturals, FiniteSets, SequencesExt

CONSTANTS
  Files, Cwds, Settings, Words,
  MaxSessions,
  HISTORY_MAX,
  Histories,   \* what an earlier visit may have stored
  MaxSteps,    \* bound on what the user does and the page is told
  MaxAsked     \* bound on the fetches that are under way

ASSUME PageAssumption ==
  /\ {MaxSessions, MaxSteps, MaxAsked} \subseteq Nat
  /\ HISTORY_MAX \in Nat \ {0}
  /\ \A h \in Histories : Len(h) <= HISTORY_MAX /\ h \in Seq(Words)
  /\ "" \notin Settings \cup Words \cup Files \cup Cwds

VARIABLES
  page,      \* of the chat state: session, connection, runtime
  asked,     \* the bag of what is fetched and not answered
  sidebar, picker, bar,
  storage,   \* of the browser: the drafts and the history
  chosen,    \* the setting the user chose last, "" when none
  steps

pageVars == <<page, asked, sidebar, picker, bar, storage, chosen, steps>>

Sessions == 0..MaxSessions

\* A fetch: which one, and what for.
Fetch(what, of) == [what |-> what, of |-> of]
Single(r) == SetToBag({r})
OfPicker(r) == r.what \in {"settings", "models"}
Outstanding(what) == {r \in DOMAIN asked : r.what = what}

\* The states in which the components are mounted.  cwd is that of the files
\* listed, and of the diff shown, "" for none.
closedSidebar ==
  [open |-> FALSE, cwd |-> "", loading |-> FALSE, error |-> FALSE,
   selected |-> "", diff |-> "", loadingDiff |-> FALSE]
openedSidebar == [closedSidebar EXCEPT !.open = TRUE, !.loading = TRUE]

newPicker == [offered |-> {}, setting |-> "", models |-> ""]

\* A cursor of 0 stands for null, i for index i - 1.
newBar(history, draft) ==
  [text |-> draft, sending |-> <<>>, history |-> history, cursor |-> 0,
   saved |-> ""]

newPage == [session |-> 0, connected |-> FALSE, args |-> "", cwd |-> ""]

PageInit ==
  /\ page = newPage /\ asked = EmptyBag
  /\ sidebar = closedSidebar /\ picker = newPicker
  /\ \E history \in Histories :
       /\ bar = newBar(history, "")
       /\ storage = [history |-> history, drafts |-> [s \in Sessions |-> ""]]
  /\ chosen = "" /\ steps = 0

Step == steps < MaxSteps /\ steps' = steps + 1

(***************************************************************************)
(* GitFilesSidebar                                                         *)
(***************************************************************************)
sidebarOthers == <<page, picker, bar, storage, chosen>>

\* loadGitStatus, on mount, on a new cwd, and at the press of a button.
LoadGitStatus(s) == [s EXCEPT !.loading = TRUE, !.error = FALSE]

\* The button is offered while a session is active.
ToggleFiles ==
  /\ Step
  /\ \/ /\ ~ sidebar.open /\ page.session # 0
        /\ sidebar' = openedSidebar
        /\ asked' = asked (+) Single(Fetch("status", page.cwd))
     \/ /\ sidebar.open
        /\ sidebar' = closedSidebar
        /\ asked' = Restrict(asked, {r \in DOMAIN asked : OfPicker(r)})
  /\ UNCHANGED sidebarOthers

\* The buttons to refresh and to retry are not there while it loads.
RefreshFiles ==
  /\ Step /\ sidebar.open /\ ~ sidebar.loading
  /\ sidebar' = LoadGitStatus(sidebar)
  /\ asked' = asked (+) Single(Fetch("status", page.cwd))
  /\ UNCHANGED sidebarOthers

\* The list is shown when it neither loads nor has failed.
Listed == sidebar.open /\ ~ sidebar.loading /\ ~ sidebar.error /\ sidebar.cwd # ""

LoadDiff(f) ==
  /\ Step /\ Listed
  /\ sidebar' = [sidebar EXCEPT !.selected = f, !.loadingDiff = TRUE]
  /\ asked' = asked (+) Single(Fetch("diff", f))
  /\ UNCHANGED sidebarOthers

CloseDiff ==
  /\ Step /\ Listed /\ sidebar.selected # ""
  /\ sidebar' = [sidebar EXCEPT !.selected = ""]
  /\ UNCHANGED <<asked, sidebarOthers>>

StatusAnswered(cwd, ok) ==
  [sidebar EXCEPT !.loading = FALSE, !.cwd = IF ok THEN cwd ELSE @,
                  !.error = @ \/ ~ ok]

\* Mutant: the flag is reset only when the diff is there.
DiffLoads(f, ok) ==
  [sidebar EXCEPT !.loadingDiff = ~ ok, !.diff = IF ok THEN f ELSE "failed"]

DiffAnswered(f, ok) ==
  [sidebar EXCEPT !.loadingDiff = FALSE, !.diff = IF ok THEN f ELSE "failed"]

(***************************************************************************)
(* SessionBar                                                              *)
(***************************************************************************)

\* fetchClaudeSettings and fetchModels, each time the page is connected or
\* another object is put into runtime.defaultArgs.
PickerFetches(args) == SetToBag({Fetch("settings", args), Fetch("models", "")})

\* The effect on selectedSetting.
ModelsFetch(setting) ==
  IF setting \in {"", picker.setting} THEN EmptyBag
  ELSE Single(Fetch("models", setting))

\* The settings file the server runs with is added when it is not listed.
Offered(data, args) == IF args = "" THEN data ELSE data \cup {args}

\* What the answer does to the choice; first is the first of the list.
SettingAfter(data, args, first) ==
  IF args # "" THEN args ELSE IF data # {} THEN first ELSE picker.setting

\* The user chooses from the list, which is there before a session starts.
SelectSetting(s) ==
  /\ Step /\ page.session = 0 /\ s \in picker.offered
  /\ picker' = [picker EXCEPT !.setting = s]
  /\ chosen' = s
  /\ asked' = asked (+) ModelsFetch(s)
  /\ UNCHANGED <<page, sidebar, bar, storage>>

(***************************************************************************)
(* InputBar                                                                *)
(***************************************************************************)
barOthers == <<page, asked, sidebar, picker, chosen>>

Free == bar.sending = <<>>   \* the box is disabled while a text is sent

saveDraft(s, text) == storage' = [storage EXCEPT !.drafts[s] = text]

\* Mutant: the cursor stays in the history.
PutAndBrowse(text) == bar' = [bar EXCEPT !.text = text]

Put(text) == bar' = [bar EXCEPT !.text = text, !.cursor = 0]

\* onChange, and applyChip: the chips are not disabled.
Edit(text) ==
  /\ Step
  /\ Put(text) /\ saveDraft(page.session, text)
  /\ UNCHANGED barOthers

\* history.filter(...)
Without(history, text) ==
  LET kept[i \in 0..Len(history)] ==
        IF i = 0 THEN <<>>
        ELSE IF history[i] = text THEN kept[i - 1]
        ELSE Append(kept[i - 1], history[i])
  IN kept[Len(history)]

\* On top, once, and not too many.
OnTop(history, text) ==
  LET h == <<text>> \o Without(history, text)
  IN SubSeq(h, 1, IF Len(h) < HISTORY_MAX THEN Len(h) ELSE HISTORY_MAX)

handleSend ==
  /\ Step /\ Free /\ bar.text # ""
  /\ LET history == OnTop(bar.history, bar.text) IN
     /\ bar' = [bar EXCEPT !.history = history, !.cursor = 0, !.text = "",
                           !.sending = <<page.session, bar.text>>]
     /\ storage' = [storage EXCEPT !.history = history,
                                   !.drafts[page.session] = ""]
  /\ UNCHANGED barOthers

\* The text that could not be sent comes back, whatever the box shows now.
SendEnds(ok) ==
  /\ ~ Free
  /\ \/ /\ ok /\ bar' = [bar EXCEPT !.sending = <<>>]
        /\ UNCHANGED storage
     \/ /\ ~ ok
        /\ bar' = [bar EXCEPT !.sending = <<>>, !.text = bar.sending[2]]
        /\ saveDraft(bar.sending[1], bar.sending[2])
  /\ UNCHANGED <<barOthers, steps>>

\* navigateHistory: further back, up to the oldest.
Up ==
  /\ Step /\ Free /\ bar.cursor < Len(bar.history)
  /\ bar' = [bar EXCEPT !.cursor = @ + 1, !.text = bar.history[bar.cursor + 1],
                        !.saved = IF bar.cursor = 0 THEN bar.text ELSE @]
  /\ UNCHANGED <<barOthers, storage>>

\* navigateHistory: back to what was typed.
Down ==
  /\ Step /\ Free /\ bar.cursor > 0
  /\ bar' = [bar EXCEPT !.cursor = @ - 1,
                        !.text = IF bar.cursor = 1 THEN bar.saved
                                 ELSE bar.history[bar.cursor - 1]]
  /\ UNCHANGED <<barOthers, storage>>

(***************************************************************************)
(* What the page is told                                                   *)
(***************************************************************************)

\* The effect on sessionId of the input box.
SessionChanges(s) ==
  /\ Step /\ page.session # s
  /\ page' = [page EXCEPT !.session = s]
  /\ bar' = [bar EXCEPT !.text = storage.drafts[s], !.cursor = 0]
  /\ UNCHANGED <<asked, sidebar, picker, storage, chosen>>

Connected ==
  /\ Step /\ ~ page.connected
  /\ page' = [page EXCEPT !.connected = TRUE]
  /\ asked' = asked (+) PickerFetches(page.args)
  /\ UNCHANGED <<sidebar, picker, bar, storage, chosen>>

Disconnected ==
  /\ Step /\ page.connected
  /\ page' = [page EXCEPT !.connected = FALSE]
  /\ UNCHANGED <<asked, sidebar, picker, bar, storage, chosen>>

\* RUNTIME_LOADED, after each connection and with some texts: the effects of
\* the picker run for the new object, that of the sidebar for a new cwd.
RuntimeLoaded(args, cwd) ==
  LET moved == sidebar.open /\ cwd # page.cwd IN
  /\ Step
  /\ page' = [page EXCEPT !.args = args, !.cwd = cwd]
  /\ sidebar' = IF moved THEN LoadGitStatus(sidebar) ELSE sidebar
  /\ asked' = asked
       (+) (IF page.connected THEN PickerFetches(args) ELSE EmptyBag)
       (+) (IF moved THEN Single(Fetch("status", cwd)) ELSE EmptyBag)
  /\ UNCHANGED <<picker, bar, storage, chosen>>

\* The page is loaded again: the components begin anew, with what is stored.
Reload ==
  /\ Step
  /\ page' = newPage /\ asked' = EmptyBag
  /\ sidebar' = closedSidebar /\ picker' = newPicker
  /\ bar' = newBar(storage.history, storage.drafts[0])
  /\ chosen' = ""
  /\ UNCHANGED storage

\* An answer to a fetch.  One about settings or models that fails in transit
\* changes nothing.
Answer(r, ok) ==
  LET rest == asked (-) Single(r) IN
  /\ \/ /\ r.what = "status"
        /\ sidebar' = StatusAnswered(r.of, ok)
        /\ asked' = rest
        /\ UNCHANGED picker
     \/ /\ r.what = "diff"
        /\ sidebar' = DiffAnswered(r.of, ok)
        /\ asked' = rest
        /\ UNCHANGED picker
     \/ /\ r.what = "models"
        /\ picker' = IF ok THEN [picker EXCEPT !.models = r.of] ELSE picker
        /\ asked' = rest
        /\ UNCHANGED sidebar
     \/ /\ r.what = "settings" /\ ok
        /\ \E data \in SUBSET Settings : \E first \in Settings :
             LET setting == SettingAfter(data, r.of, first) IN
             /\ data # {} => first \in data
             /\ picker' = [picker EXCEPT !.offered = Offered(data, r.of),
                                         !.setting = setting]
             /\ asked' = rest (+) ModelsFetch(setting)
        /\ UNCHANGED sidebar
     \/ /\ r.what = "settings" /\ ~ ok
        /\ asked' = rest
        /\ UNCHANGED <<sidebar, picker>>
  /\ UNCHANGED <<page, bar, storage, chosen, steps>>

PageNext ==
  /\ \/ ToggleFiles \/ RefreshFiles \/ CloseDiff
     \/ \E f \in Files : LoadDiff(f)
     \/ \E s \in Settings : SelectSetting(s)
     \/ \E t \in Words : Edit(t)
     \/ handleSend \/ Up \/ Down
     \/ \E s \in Sessions : SessionChanges(s)
     \/ Connected \/ Disconnected \/ Reload
     \/ \E args \in Settings \cup {""}, cwd \in Cwds : RuntimeLoaded(args, cwd)
     \/ \E ok \in BOOLEAN : SendEnds(ok) \/ \E r \in DOMAIN asked : Answer(r, ok)
  /\ BagCardinality(asked') <= MaxAsked

PageSpec == PageInit /\ [][PageNext]_pageVars

(***************************************************************************)
(* Properties                                                              *)
(***************************************************************************)

\* Nothing is shown to load unless an answer is to come that will end it:
\* fetches that overlap, fail, or outlive what they were for leave no spinner
\* behind.
SpinnerHasRequest ==
  /\ sidebar.loading => Outstanding("status") # {}
  /\ sidebar.loadingDiff => Outstanding("diff") # {}

\* Where the user stands in the history is what the box shows: typing, a
\* chip, a text sent, one that fails or another session all leave the history.
BrowsingShowsHistory ==
  bar.cursor > 0 => bar.cursor <= Len(bar.history)
                    /\ bar.text = bar.history[bar.cursor]

\* The diff shown under the name of a file is of that file.
DiffOfSelected ==
  sidebar.selected # "" /\ ~ sidebar.loadingDiff
    => sidebar.diff \in {sidebar.selected, "failed"}

\* When everything is answered, the models listed are those of the setting.
ModelsOfSetting ==
  asked = EmptyBag /\ picker.setting # "" => picker.models \in {"", picker.setting}

\* What the user chose stays chosen until a session starts.
ChoiceStays == chosen # "" => picker.setting = chosen

\* Outside the history the box shows the draft of the session on the page.
BoxIsDraft ==
  bar.cursor = 0 => bar.text = storage.drafts[page.session]
=============================================================================
