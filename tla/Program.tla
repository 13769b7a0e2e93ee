------------------------------ MODULE Program ------------------------------
(***************************************************************************)
(* One run of spacetop after another: the session file that carries each   *)
(* workflow's selection from run to run, the terminal that is taken over,  *)
(* lent to an editor and given back, and the modes the keys go through.    *)
(*                                                                         *)
(* The frames of the event loop, workers and watcher are EventLoop; rows,  *)
(* preview and cursor of the list are Overview.  Here a selection is a     *)
(* task or nothing, and whatever needs the preview open may happen.  The    *)
(* four panes are one mode, and the help overlay, which only swallows     *)
(* keys, is left out.                                                      *)
(***************************************************************************)
EXTENDS Naturals, Sequences, FiniteSets, SequencesExt, Sorting

CONSTANTS
    Workflows,      \* numbers, in the order of their paths
    Tasks,          \* scope -> the tasks of a workflow in it, as shown
    ShownResults,   \* SEARCH_VISIBLE_RESULT_LIMIT
    Page,           \* rows of a page in the readers
    Far,            \* usize::MAX, beyond every scroll position
    MaxRuns, MaxEdits   \* bounds: runs and changes to the workflows

Scopes == {"active", "archived"}
NoTask == 0

ASSUME ProgramConstants ==
    /\ Workflows \subseteq Nat \ {0} /\ Workflows # {} /\ IsFiniteSet(Workflows)
    /\ Tasks \in [Scopes -> Seq(Nat \ {0})]
    /\ ToSet(Tasks["active"]) \cap ToSet(Tasks["archived"]) = {}
    /\ {ShownResults, Page, Far} \subseteq Nat \ {0} /\ {MaxRuns, MaxEdits} \subseteq Nat

VARIABLES
    phase,          \* "shell", "starting", "loop", "editor", "leaving"
    tty,            \* what is switched on: raw mode, alternate screen, mouse
    view,           \* mode, with its cursor or scroll and what it lists
    slot,           \* what the session holds of each workflow
    listed,         \* the session's discovery
    active,         \* the active workflow
    scans,          \* the session can rediscover
    saved,          \* the session state read at start
    file,           \* the session file
    disk,           \* the workflows
    left,           \* ghost: what was last selected, as far as it was kept
    lost,           \* ghost: whose selection this run has forgotten
    stuck,          \* ghost: what could not be switched off
    edits, runs

runVars == <<saved, file, left, lost, runs>>
sessionVars == <<slot, listed, active, scans>>
worldVars == <<disk, edits>>
vars == <<phase, tty, view, slot, listed, active, scans, saved, file, disk,
          left, lost, stuck, edits, runs>>

Entry(scope, task) == [scope |-> scope, task |-> task]
NoEntry == Entry("active", NoTask)

None == [is |-> "none", scope |-> "active", task |-> NoTask]
Empty == [None EXCEPT !.is = "empty"]
Shown(entry) == [is |-> "shown", scope |-> entry.scope, task |-> entry.task]
Selection(s) == Entry(s.scope, s.task)

Rows(scope) == ToSet(Tasks[scope])
First(scope) == IF Tasks[scope] = <<>> THEN NoTask ELSE Head(Tasks[scope])
\* select_visible_entity_by_id, from the first row
Cursor(scope, task) == IF task \in Rows(scope) THEN task ELSE First(scope)

NoSlots == [w \in Workflows |-> None]
Nothing == [w \in Workflows |-> NoEntry]
Unsaved == [w \in Workflows |-> FALSE]
NothingRead == [ok |-> TRUE, has |-> Unsaved, entry |-> Nothing]

----------------------------------------------------------------------------
(* Workflows and the session file *)

Found == {w \in Workflows : disk[w] # "gone"}
Reads(w) == disk[w] = "good"

\* Mutated form: the task is looked for before the scope is set.
RestoredInOldScope(w, state) ==
    IF state.has[w]
    THEN Shown(Entry(state.entry[w].scope,
                     IF state.entry[w].task \in Rows("active") THEN state.entry[w].task
                     ELSE First(state.entry[w].scope)))
    ELSE Shown(Entry("active", First("active")))

\* apply_config_and_session_state on a state that was just loaded
Restored(w, state) ==
    IF state.has[w]
    THEN Shown(Entry(state.entry[w].scope,
                     Cursor(state.entry[w].scope, state.entry[w].task)))
    ELSE Shown(Entry("active", First("active")))

\* materialize_active, or the load of a slot that a rediscovery left empty
Load(w) == IF Reads(w) THEN Restored(w, saved) ELSE Empty

\* OverviewState::reload in place; an empty state is filled, not restored.
Reload(s, w) ==
    IF ~Reads(w) THEN s
    ELSE IF s.is = "shown" THEN s
    ELSE Shown(Entry("active", First("active")))

\* session_state_snapshot: what was read, under what this run has loaded.  A
\* workflow whose directory is gone has no key to be written under.
Snapshot ==
    LET mine == {w \in Workflows : slot[w].is # "none" /\ disk[w] # "gone"} IN
    [has |-> [w \in Workflows |-> saved.has[w] \/ w \in mine],
     entry |-> [w \in Workflows |->
                   IF w \in mine THEN Selection(slot[w]) ELSE saved.entry[w]]]

----------------------------------------------------------------------------
(* The terminal *)

Steps == <<"raw", "screen", "mouse">>
Off == [step \in ToSet(Steps) |-> FALSE]

\* The first n of three operations have succeeded, then one failed.
FirstOnes(n, on) == [step \in ToSet(Steps) |->
                        IF \E i \in 1 .. n : Steps[i] = step THEN on ELSE tty[step]]

Overview == [mode |-> "Overview", at |-> 0, list |-> <<>>, query |-> "all"]

\* decide_app: one workflow, or several with the first of them on the screen.
Start ==
    /\ phase = "shell" /\ runs < MaxRuns
    /\ Found # {}
    /\ LET first == CHOOSE w \in Found : \A v \in Found : w <= v
           state == IF file.ok THEN file
                    ELSE NothingRead
       IN  /\ Reads(first)
           /\ saved' = state
           /\ active' = first
           /\ slot' = [w \in Workflows |-> IF w = first THEN Restored(w, state) ELSE None]
    /\ listed' = Found /\ scans' = (Cardinality(Found) > 1)
    /\ phase' = "starting" /\ view' = Overview
    /\ tty' = Off /\ stuck' = {}   \* whatever was left on, the shell has reset
    /\ runs' = runs + 1
    /\ UNCHANGED <<file, left, lost, worldVars>>

\* Raw mode, alternate screen, mouse capture; a failure ends the run.
SetUp ==
    /\ phase = "starting"
    /\ \E n \in 0 .. 3 :
          /\ tty' = FirstOnes(n, TRUE)
          /\ phase' = IF n = 3 THEN "loop" ELSE "leaving"
    /\ UNCHANGED <<view, sessionVars, runVars, stuck, worldVars>>

\* suspend_terminal; if a step fails the editor is not launched.
Suspend ==
    \E n \in 0 .. 3 :
        /\ tty' = FirstOnes(n, FALSE)
        /\ phase' = IF n = 3 THEN "editor" ELSE "loop"

OpenFile ==
    /\ phase = "loop" /\ view.mode = "Overview"
    /\ slot[active].task # NoTask
    /\ Suspend
    /\ UNCHANGED <<view, sessionVars, runVars, stuck, worldVars>>

\* resume_terminal: screen, raw mode, mouse, in that order
EditorExits ==
    /\ phase = "editor" /\ phase' = "loop"
    /\ \E on \in {{}, {"screen"}, {"screen", "raw"}, ToSet(Steps)} :
          tty' = [step \in ToSet(Steps) |-> tty[step] \/ step \in on]
    /\ UNCHANGED <<view, sessionVars, runVars, stuck, worldVars>>

\* Mutated form: the first operation that fails ends it.
RestoreInOrder ==
    \E n \in 0 .. 3 :
        /\ tty' = FirstOnes(n, FALSE)
        /\ stuck' = IF n = 3 THEN {} ELSE {Steps[n + 1]}

\* restore_terminal: each operation is tried, whatever the others do.
Restore ==
    \E S \in SUBSET ToSet(Steps) :
        /\ stuck' = S
        /\ tty' = [step \in ToSet(Steps) |-> tty[step] /\ step \in S]

\* TerminalRestore is dropped on every way out, and the session with the app.
Leave ==
    /\ phase = "leaving" /\ phase' = "shell"
    /\ Restore
    /\ slot' = NoSlots /\ listed' = {} /\ view' = Overview /\ lost' = {}
    /\ scans' = FALSE /\ saved' = NothingRead
    /\ active' = CHOOSE w \in Workflows : \A v \in Workflows : w <= v
    /\ UNCHANGED <<file, left, runs, worldVars>>

Quit ==
    /\ phase = "loop" /\ view.mode = "Overview"
    /\ phase' = "leaving"
    /\ \/ /\ file' = [ok |-> TRUE, has |-> Snapshot.has, entry |-> Snapshot.entry]
          /\ left' = [w \in Workflows |-> IF w \in lost \/ disk[w] = "gone"
                                          THEN Snapshot.entry[w] ELSE left[w]]
       \/ \* the file cannot be opened
          /\ UNCHANGED file
          /\ left' = [w \in Workflows |-> IF file.has[w] THEN file.entry[w] ELSE NoEntry]
       \/ \* or not be written to the end
          /\ file' = [ok |-> FALSE, has |-> Unsaved, entry |-> Nothing]
          /\ left' = Nothing
    /\ UNCHANGED <<tty, view, sessionVars, saved, lost, stuck, runs, worldVars>>

\* A draw or a poll fails: `?` leaves without saving.
Fails ==
    /\ phase = "loop" /\ phase' = "leaving"
    /\ left' = [w \in Workflows |-> IF file.has[w] THEN file.entry[w] ELSE NoEntry]
    /\ UNCHANGED <<tty, view, sessionVars, saved, file, lost, stuck, runs, worldVars>>

----------------------------------------------------------------------------
(* What a step of the loop does to the session *)

\* The slots become s; what they show was selected, what they drop is lost.
Becomes(s) ==
    /\ slot' = s
    /\ left' = [w \in Workflows |-> IF s[w].is = "shown" THEN Selection(s[w]) ELSE left[w]]
    /\ lost' = {w \in lost : s[w].is # "shown"}
               \cup {w \in Workflows : s[w].is = "empty" \/ (s[w].is = "none" /\ slot[w].is # "none")}

SessionStep == phase = "loop" /\ UNCHANGED <<phase, tty, saved, file, runs, stuck>>

SwitchTo(w) ==
    /\ active' = w
    /\ Becomes([slot EXCEPT ![w] = IF slot[w].is = "none" THEN Load(w) ELSE Reload(slot[w], w)])

\* reload_with_rediscovery on a refresh signal; the discovery may fail.
Refresh ==
    /\ SessionStep
    /\ \E here \in {listed} \cup (IF scans THEN {Found} ELSE {}) :
          IF here = {}
          THEN /\ Becomes([slot EXCEPT ![active] = Empty])
               /\ UNCHANGED <<listed, active>>
          ELSE LET w == IF active \in here THEN active
                        ELSE CHOOSE v \in here : \A u \in here : v <= u
                   kept == [v \in Workflows |-> IF v \in here THEN slot[v] ELSE None]
               IN  /\ listed' = here /\ active' = w
                   /\ Becomes([kept EXCEPT ![w] =
                           IF disk[w] = "gone" THEN Empty
                           ELSE IF kept[w].is = "none" THEN Load(w) ELSE Reload(kept[w], w)])
    /\ UNCHANGED <<view, scans, worldVars>>

----------------------------------------------------------------------------
(* Keys *)

Panes == {"Timeline", "Metrics", "Activity", "Relations"}
Commands == <<"Metrics", "Activity", "Timeline", "Relations", "needs-attention", "all-tasks">>

Key(mode) == SessionStep /\ view.mode = mode
Show(v) == view' = v
ViewOnly == UNCHANGED <<sessionVars, left, lost, worldVars>>

IsMulti == Cardinality(listed) >= 2

\* Keys and clicks that move the cursor or change the scope.
Select ==
    /\ Key("Overview") /\ slot[active].is = "shown"
    /\ \E scope \in Scopes :
          \E task \in Rows(scope) \cup (IF Rows(scope) = {} THEN {NoTask} ELSE {}) :
             Becomes([slot EXCEPT ![active] = Shown(Entry(scope, task))])
    /\ UNCHANGED <<view, listed, active, scans, worldVars>>

NextIn(S, w) == IF \E v \in S : v > w THEN CHOOSE v \in S : v > w /\ \A u \in S : u > w => v <= u
                ELSE CHOOSE v \in S : \A u \in S : v <= u
PreviousIn(S, w) == IF \E v \in S : v < w THEN CHOOSE v \in S : v < w /\ \A u \in S : u < w => u <= v
                    ELSE CHOOSE v \in S : \A u \in S : u <= v

\* Left and Right, in the overview and in the panes, which stay open.
Cycle ==
    /\ SessionStep /\ view.mode \in {"Pane", "Overview"} /\ IsMulti
    /\ \E w \in {NextIn(listed, active), PreviousIn(listed, active)} : SwitchTo(w)
    /\ UNCHANGED <<view, listed, scans, worldVars>>

OpenDefinition ==
    /\ Key("Overview") /\ Show([Overview EXCEPT !.mode = "Definition"]) /\ ViewOnly

\* timeline_mode_or_overview, relations_mode_or_overview
Pane(pane) ==
    IF pane \in {"Timeline", "Relations"} /\ slot[active].task = NoTask THEN Overview
    ELSE [Overview EXCEPT !.mode = "Pane"]

OpenPane ==
    /\ Key("Overview") /\ \E pane \in Panes : Show(Pane(pane))
    /\ ViewOnly

\* GateBrowser::new needs a selected task.
OpenGateRoom ==
    /\ Key("Overview") /\ slot[active].task # NoTask
    /\ Show([Overview EXCEPT !.mode = "GateRoom"]) /\ ViewOnly

OpenSearch ==
    /\ Key("Overview")
    /\ \E mode \in {"Search", "Command"} : Show([Overview EXCEPT !.mode = mode])
    /\ ViewOnly

Return ==
    /\ SessionStep
    /\ view.mode \in {"Pane", "Definition", "GateRoom", "Search", "Command", "PickerOverlay"}
    /\ Show(Overview) /\ ViewOnly

----------------------------------------------------------------------------
(* Scrolling the definition *)

Lower(a, b) == IF a < b THEN a ELSE b
Minus(a, b) == IF a > b THEN a - b ELSE 0

\* definition_scroll_down, definition_scroll_up
DefinitionDown(at, rows, max) == Lower(Lower(at, max) + rows, max)
DefinitionUp(at, rows, max) == Minus(Lower(at, max), rows)

\* The last frame drew a definition that can be scrolled by `max` rows.
DefinitionKey(rows, max, up) ==
    /\ Key("Definition")
    /\ Show([view EXCEPT !.at = IF up THEN DefinitionUp(@, rows, max)
                                ELSE DefinitionDown(@, rows, max)])
    /\ ViewOnly

DefinitionEnds ==
    /\ Key("Definition")
    /\ \E at \in {0, Far} : Show([view EXCEPT !.at = at])
    /\ ViewOnly

MaxScrolls == 0 .. Far - 1

ScrollDefinition ==
    \/ \E rows \in {1, Page}, max \in MaxScrolls, up \in BOOLEAN : DefinitionKey(rows, max, up)
    \/ DefinitionEnds

----------------------------------------------------------------------------
(* The picker overlay, Search and the command palette *)

Listing(S) == Ranked([w \in S |-> {v \in S : v < w}])

\* P: what a discovery finds now, or the old list if it fails.
OpenOverlay ==
    /\ SessionStep /\ view.mode \in {"Pane", "Overview"} /\ IsMulti
    /\ \E S \in {Found, listed} :
          LET list == Listing(S) IN
          Show([Overview EXCEPT !.mode = "PickerOverlay", !.list = list,
                                !.at = IF active \in S THEN SelectInSeq(list, LAMBDA w : w = active)
                                       ELSE 1])
    /\ ViewOnly

MoveInPicker ==
    /\ Key("PickerOverlay") /\ view.list # <<>>
    /\ \E at \in DOMAIN view.list : Show([view EXCEPT !.at = at])
    /\ ViewOnly

\* confirm_picker_overlay, and the switch it queues
Confirm ==
    /\ Key("PickerOverlay") /\ view.at \in DOMAIN view.list
    /\ LET w == view.list[view.at]
           kept == [v \in Workflows |-> IF v \in ToSet(view.list) THEN slot[v] ELSE None]
       IN  /\ listed' = ToSet(view.list) /\ active' = w
           /\ Becomes([kept EXCEPT ![w] = IF kept[w].is = "none" THEN Load(w)
                                          ELSE Reload(kept[w], w)])
    /\ Show(Overview)
    /\ UNCHANGED <<scans, worldVars>>

\* A query matches everything, the last task or command alone, or nothing.
Candidates(mode) ==
    IF mode = "Command" THEN Commands
    ELSE IF slot[active].is = "shown" THEN Tasks[slot[active].scope] ELSE <<>>
Results ==
    LET all == Candidates(view.mode) IN
    IF view.query = "all" THEN all
    ELSE IF view.query = "last" /\ all # <<>> THEN <<Last(all)>> ELSE <<>>

\* Mutated form: the cursor may go to results that are not drawn.
ResultCountOfAll == Len(Results)

\* search_result_len
ResultCount == Lower(Len(Results), ShownResults)

SearchModes == {"Search", "Command"}
InSearch == \E mode \in SearchModes : Key(mode)

\* A character more or less: other results, from the first.
Type ==
    /\ InSearch
    /\ \E query \in {"all", "last", "none"} :
          Show([view EXCEPT !.query = query, !.at = 0])
    /\ ViewOnly

MoveInSearch ==
    /\ InSearch
    /\ \/ /\ ResultCount > 0
          /\ Show([view EXCEPT !.at = Lower(@ + 1, ResultCount - 1)])
       \/ Show([view EXCEPT !.at = Minus(@, 1)])
    /\ ViewOnly

OnScreen == SubSeq(Results, 1, Lower(Len(Results), ShownResults))
Highlighted == OnScreen[view.at + 1]

\* activate_search in Search: the task under the cursor is selected.
EnterSearch ==
    /\ Key("Search")
    /\ IF view.at < Len(OnScreen)
       THEN Becomes([slot EXCEPT ![active].task = Highlighted])
       ELSE UNCHANGED <<slot, left, lost>>
    /\ Show(Overview)
    /\ UNCHANGED <<listed, active, scans, worldVars>>

\* command_mode_or_overview; without a match the palette stays.
EnterCommand ==
    /\ Key("Command")
    /\ IF view.at >= Len(OnScreen) THEN UNCHANGED <<view, slot, left, lost>>
       ELSE IF Highlighted \in Panes
            THEN Show(Pane(Highlighted)) /\ UNCHANGED <<slot, left, lost>>
       ELSE /\ Show(Overview)
            /\ IF slot[active].is # "shown" THEN UNCHANGED <<slot, left, lost>>
               ELSE \E task \in Rows("active") \cup {NoTask} :
                       Becomes([slot EXCEPT ![active] = Shown(Entry("active", task))])
    /\ UNCHANGED <<listed, active, scans, worldVars>>

----------------------------------------------------------------------------
(* Agents *)

Edit ==
    /\ edits < MaxEdits /\ edits' = edits + 1
    /\ \E S \in SUBSET Workflows, is \in {"good", "broken", "gone"} :
          disk' = [w \in Workflows |-> IF w \in S THEN is ELSE disk[w]]
    /\ UNCHANGED <<phase, tty, view, sessionVars, runVars, stuck>>

Init ==
    /\ phase = "shell" /\ tty = Off /\ view = Overview
    /\ slot = NoSlots
    /\ listed = {} /\ scans = FALSE
    /\ active = CHOOSE w \in Workflows : \A v \in Workflows : w <= v
    /\ saved = NothingRead
    /\ file = saved
    /\ disk = [w \in Workflows |-> "good"]
    /\ left = Nothing /\ lost = {} /\ stuck = {} /\ edits = 0 /\ runs = 0

Keys ==
    \/ Select \/ Cycle \/ OpenDefinition \/ OpenPane \/ OpenGateRoom \/ OpenSearch
    \/ Return \/ ScrollDefinition
    \/ OpenOverlay \/ MoveInPicker \/ Confirm
    \/ Type \/ MoveInSearch \/ EnterSearch \/ EnterCommand

Next ==
    \/ Start \/ SetUp \/ OpenFile \/ EditorExits \/ Quit \/ Fails \/ Leave
    \/ Refresh \/ Keys \/ Edit

Spec == Init /\ [][Next]_vars
----------------------------------------------------------------------------
(* Properties *)

EditorGetsTerminal == phase = "editor" => tty = Off

TerminalRestored ==
    phase = "shell" => \A step \in ToSet(Steps) : tty[step] => step \in stuck

(***************************************************************************)
(* "the external editor inherits a normal cooked-mode primary screen":     *)
(* whatever step of the suspension or of an earlier resumption failed, the *)
(* editor never runs with anything of the TUI still switched on.  And      *)
(* after a run, however it ended, nothing is left on but what could not be *)
(* switched off: "each step is attempted even if an earlier one fails".    *)
(***************************************************************************)
TerminalIsGivenBack == EditorGetsTerminal /\ TerminalRestored

(***************************************************************************)
(* A workflow visited for the first time in a run shows the scope and the  *)
(* task that were last selected in it, in this run or in an earlier one    *)
(* that did not visit it, unless the selection was lost on the way: the    *)
(* file not written, the workflow unreadable, gone or out of the list.     *)
(***************************************************************************)
SelectionRestored ==
    [][\A w \in Workflows :
          slot[w].is = "none" /\ slot'[w].is = "shown" /\ w \notin lost =>
              slot'[w] = Shown(Entry(left[w].scope, Cursor(left[w].scope, left[w].task)))]_vars

DefinitionKeysMove ==
    view.mode = "Definition" => \A max \in MaxScrolls :
        LET Seen(at) == Lower(at, max) IN
        /\ Seen(DefinitionUp(view.at, 1, max)) = Minus(Seen(view.at), 1)
        /\ Seen(DefinitionDown(view.at, 1, max)) = Lower(Seen(view.at) + 1, max)

CursorStaysOnScreen ==
    [][view.mode \in SearchModes /\ view'.mode = view.mode /\ slot'[active] = slot[active]
       /\ active' = active /\ (view.at < Len(OnScreen) \/ view.at = 0)
          => view'.at < Len(OnScreen)' \/ view'.at = 0]_vars

(***************************************************************************)
(* Keys act on what is seen: the cursor of a search or of the palette      *)
(* stays on a result that is drawn, so that Enter takes what is            *)
(* highlighted, as long as the list itself does not change under it; and   *)
(* in the definition every Up and Down moves what is seen by one row,      *)
(* except at the ends, also after End, and when the text became shorter.   *)
(***************************************************************************)
KeysActOnWhatIsSeen == CursorStaysOnScreen /\ []DefinitionKeysMove
=============================================================================
