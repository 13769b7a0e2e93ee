--------------------------- MODULE ProgramProofs ---------------------------
(***************************************************************************)
(* What one run of spacetop hands on to the next, for any workflows and    *)
(* tasks and any number of runs: the terminal is given back, and the       *)
(* selection of a workflow outlives the runs that do not visit it; and     *)
(* inside a run, the keys act on what the screen shows.                    *)
(*                                                                         *)
(* The second needs an invariant, `Kept`.  `left`, what the user saw last, *)
(* is not what the file holds but shows the same row; it is the file's     *)
(* outside of a run and, inside one, the slot's once the workflow was      *)
(* visited and the one read at start before, unless it is lost.            *)
(*                                                                         *)
(* The third needs another, `SeenInv`: what names a scope or a workflow,   *)
(* in the slots, the file and the picker's list, names one there is, so    *)
(* that the results of a search are counted over lists the shown slot      *)
(* really has; and the cursor is a number wherever it points into a list.  *)
(***************************************************************************)
EXTENDS Program, SequenceTheorems, FiniteSetTheorems, TLAPS

Row(entry) == Cursor(entry.scope, entry.task)
\* Two selections that show the same row once they are restored.
Same(e, f) == e.scope = f.scope /\ Row(e) = Row(f)

IsSlot(s) == /\ s.is \in {"none", "empty", "shown"}
             /\ s = [is |-> s.is, scope |-> s.scope, task |-> s.task]
Slotted(s) == /\ s = [w \in Workflows |-> s[w]]
              /\ \A w \in Workflows : IsSlot(s[w])

\* What is not in a state read from the file is no selection.
Whole(state) == \A w \in Workflows : ~state.has[w] => state.entry[w] = NoEntry

Running == phase \in {"starting", "loop", "editor"}

FileKeeps ==
    /\ Whole(file) /\ (~file.ok => \A w \in Workflows : ~file.has[w])
    /\ phase \in {"shell", "starting", "leaving"} =>
          \A w \in Workflows : Same(left[w], file.entry[w])

RunKeeps ==
    /\ Whole(saved) /\ Slotted(slot)
    /\ phase = "shell" => lost = {} /\ \A w \in Workflows : slot[w].is = "none"
    /\ Running =>
          \A w \in Workflows \ lost :
             /\ slot[w].is # "empty"
             /\ Same(left[w], IF slot[w].is = "none" THEN saved.entry[w] ELSE Selection(slot[w]))

Kept == FileKeeps /\ RunKeeps

\* The step of SelectionRestored.
Restores ==
    \A w \in Workflows :
       slot[w].is = "none" /\ slot'[w].is = "shown" /\ w \notin lost =>
           slot'[w] = Shown(Entry(left[w].scope, Cursor(left[w].scope, left[w].task)))

----------------------------------------------------------------------------
(* Selections *)

LEMMA EntryFields == ASSUME NEW scope, NEW task
                     PROVE  Entry(scope, task).scope = scope /\ Entry(scope, task).task = task
BY DEF Entry

LEMMA ShownFields == ASSUME NEW entry
                     PROVE  /\ Shown(entry).is = "shown" /\ Shown(entry).scope = entry.scope
                            /\ Shown(entry).task = entry.task /\ IsSlot(Shown(entry))
BY DEF Shown, IsSlot

LEMMA Blank == /\ IsSlot(None) /\ IsSlot(Empty) /\ None.is = "none" /\ Empty.is = "empty"
               /\ None.scope = "active" /\ None.task = NoTask
BY DEF None, Empty, IsSlot

\* Restoring a selection shows its row; of what was not saved, the first row.
LEMMA RestoredShows ==
    ASSUME ProgramConstants, NEW state, Whole(state), NEW w \in Workflows
    PROVE  Restored(w, state) = Shown(Entry(state.entry[w].scope, Row(state.entry[w])))
<1>1. CASE state.has[w]
    BY <1>1 DEF Restored, Row
<1>2. CASE ~state.has[w]
  <2>1. state.entry[w] = NoEntry
      BY <1>2 DEF Whole
  <2>2. NoEntry.scope = "active" /\ NoEntry.task = NoTask
      BY DEF NoEntry, Entry
  <2>3. Tasks["active"] \in Seq(Nat \ {0})
      BY DEF ProgramConstants, Scopes
  <2>4. NoTask \notin Rows("active")
      BY <2>3 DEF Rows, ToSet, NoTask
  <2>5. Row(NoEntry) = First("active")
      BY <2>2, <2>4 DEF Row, Cursor
  <2>6. QED
      BY <1>2, <2>1, <2>2, <2>5 DEF Restored
<1>3. QED
    BY <1>1, <1>2

\* A row that is shown is restored as itself.
LEMMA RowIsKept == ASSUME NEW e PROVE Same(Entry(e.scope, Row(e)), e)
<1>1. Cursor(e.scope, First(e.scope)) = First(e.scope)
    BY DEF Cursor
<1>2. Cursor(e.scope, Row(e)) = Row(e)
    BY <1>1 DEF Row, Cursor
<1>3. QED
    BY <1>2, EntryFields DEF Same, Row

LEMMA SelectionOf == ASSUME NEW entry PROVE Selection(Shown(entry)) = Entry(entry.scope, entry.task)
BY ShownFields DEF Selection

\* What the file's readers show of a workflow, and what is remembered of it.
LEMMA Shows ==
    ASSUME ProgramConstants, NEW state, Whole(state), NEW w \in Workflows, NEW e,
           Same(e, state.entry[w])
    PROVE  /\ Restored(w, state) = Shown(Entry(e.scope, Cursor(e.scope, e.task)))
           /\ Same(e, Selection(Restored(w, state)))
<1>1. Restored(w, state) = Shown(Entry(e.scope, Row(e)))
    BY RestoredShows DEF Same
<1>2. Selection(Restored(w, state)) = Entry(e.scope, Row(e))
    BY <1>1, SelectionOf, EntryFields
<1>3. QED
    BY <1>1, <1>2, RowIsKept DEF Same, Row

----------------------------------------------------------------------------
(* The session's steps *)

\* What every step of the loop that changes the slots comes down to: a slot is
\* filled from what was saved at start, or was visited before.
Loads(s) == \A w \in Workflows :
    slot[w].is = "none" /\ s[w].is = "shown" => s[w] = Restored(w, saved)

LEMMA BecomesKeeps ==
    ASSUME ProgramConstants, Kept, phase = "loop", NEW s, Slotted(s), Loads(s), Becomes(s),
           UNCHANGED <<phase, saved, file>>
    PROVE  Kept' /\ Restores
<1>1. slot' = s /\ Whole(saved) /\ FileKeeps
    BY DEF Becomes, Kept, RunKeeps
<1>2. ASSUME NEW w \in Workflows \ lost
      PROVE  /\ slot[w].is # "empty"
             /\ Same(left[w], IF slot[w].is = "none" THEN saved.entry[w] ELSE Selection(slot[w]))
    BY <1>2 DEF Kept, RunKeeps, Running
<1>3. Restores
  <2> SUFFICES ASSUME NEW w \in Workflows, slot[w].is = "none", s[w].is = "shown", w \notin lost
               PROVE  s[w] = Shown(Entry(left[w].scope, Cursor(left[w].scope, left[w].task)))
      BY <1>1 DEF Restores
  <2>1. Same(left[w], saved.entry[w])
      BY <1>2
  <2>2. QED
      BY <1>1, <2>1, Shows DEF Loads
<1>4. FileKeeps'
    BY <1>1 DEF FileKeeps, Whole
<1>5. ASSUME NEW w \in Workflows, w \notin lost'
      PROVE  /\ slot'[w].is # "empty"
             /\ Same(left'[w], IF slot'[w].is = "none" THEN saved.entry[w] ELSE Selection(slot'[w]))
  <2>1. /\ s[w].is \in {"none", "empty", "shown"}
        /\ left'[w] = IF s[w].is = "shown" THEN Selection(s[w]) ELSE left[w]
        /\ s[w].is # "empty" /\ (s[w].is = "none" => slot[w].is = "none" /\ w \notin lost)
      BY <1>5 DEF Becomes, Slotted, IsSlot
  <2>2. QED
      BY <1>1, <1>2, <2>1 DEF Same
<1>6. RunKeeps'
    BY <1>1, <1>5 DEF RunKeeps, Whole, Slotted, IsSlot, Same, Row, Cursor, First, Rows, Selection
<1>7. QED
    BY <1>3, <1>4, <1>6 DEF Kept

LEMMA LoadIsSlot == ASSUME NEW w PROVE IsSlot(Load(w))
BY Blank, ShownFields DEF Load, Restored

LEMMA ReloadIsSlot == ASSUME NEW w, NEW s, IsSlot(s) PROVE IsSlot(Reload(s, w))
BY ShownFields DEF Reload

LEMMA LoadedFromSaved == ASSUME NEW w, Load(w).is = "shown" PROVE Load(w) = Restored(w, saved)
BY Blank DEF Load

\* A switch to w among the slots `kept`, of which some were dropped.
LEMMA Visits ==
    ASSUME Slotted(slot), NEW kept, Slotted(kept), NEW w,
           \A v \in Workflows : kept[v] \in {slot[v], None}
    PROVE  LET s == [kept EXCEPT ![w] = IF kept[w].is = "none" THEN Load(w) ELSE Reload(kept[w], w)]
           IN  Slotted(s) /\ Loads(s)
<1> DEFINE now == IF kept[w].is = "none" THEN Load(w) ELSE Reload(kept[w], w)
           s == [kept EXCEPT ![w] = now]
<1>1. \A v \in Workflows : s[v] = IF v = w THEN now ELSE kept[v]
    BY DEF Slotted
<1>2. w \in Workflows => IsSlot(now)
    BY LoadIsSlot, ReloadIsSlot DEF Slotted
<1>3. Slotted(s)
  <2>1. s = [v \in Workflows |-> s[v]]
      BY DEF Slotted
  <2>2. QED
      BY <1>1, <1>2, <2>1 DEF Slotted
<1>4. Loads(s)
  <2> SUFFICES ASSUME NEW v \in Workflows, slot[v].is = "none", s[v].is = "shown"
               PROVE  s[v] = Restored(v, saved)
      BY DEF Loads
  <2>1. v = w /\ kept[w].is = "none"
      BY <1>1, Blank
  <2>2. s[v] = Load(w)
      BY <1>1, <2>1
  <2>3. QED
      BY <2>1, <2>2, LoadedFromSaved
<1>5. QED
    BY <1>3, <1>4

\* Emptying a slot, and selecting something in a slot that is shown.
LEMMA Selects ==
    ASSUME Slotted(slot), NEW w, NEW x, IsSlot(x), x.is = "empty" \/ slot[w].is = "shown"
    PROVE  LET s == [slot EXCEPT ![w] = x] IN Slotted(s) /\ Loads(s)
<1> DEFINE s == [slot EXCEPT ![w] = x]
<1>1. \A v \in Workflows : s[v] = IF v = w THEN x ELSE slot[v]
    BY DEF Slotted
<1>2. s = [v \in Workflows |-> s[v]]
    BY DEF Slotted
<1>3. QED
    BY <1>1, <1>2 DEF Slotted, Loads

LEMMA SwitchKeeps ==
    ASSUME ProgramConstants, Kept, SessionStep, NEW w, SwitchTo(w)
    PROVE  Kept' /\ Restores
<1> DEFINE s == [slot EXCEPT ![w] = IF slot[w].is = "none" THEN Load(w) ELSE Reload(slot[w], w)]
<1>1. Slotted(slot)
    BY DEF Kept, RunKeeps
<1>2. Slotted(s) /\ Loads(s)
    BY <1>1, Visits
<1>3. QED
    BY <1>2, BecomesKeeps DEF SwitchTo, SessionStep

LEMMA RefreshKeeps ==
    ASSUME ProgramConstants, Kept, Refresh
    PROVE  Kept' /\ Restores
<1>1. Slotted(slot) /\ phase = "loop" /\ UNCHANGED <<phase, saved, file>>
    BY DEF Kept, RunKeeps, Refresh, SessionStep
<1>2. PICK here \in {listed} \cup (IF scans THEN {Found} ELSE {}) :
         IF here = {}
         THEN Becomes([slot EXCEPT ![active] = Empty])
         ELSE LET w == IF active \in here THEN active
                       ELSE CHOOSE v \in here : \A u \in here : v <= u
                  kept == [v \in Workflows |-> IF v \in here THEN slot[v] ELSE None]
              IN  Becomes([kept EXCEPT ![w] =
                      IF disk[w] = "gone" THEN Empty
                      ELSE IF kept[w].is = "none" THEN Load(w) ELSE Reload(kept[w], w)])
    BY DEF Refresh
<1>3. CASE here = {}
    BY <1>1, <1>2, <1>3, Blank, Selects, BecomesKeeps
<1>4. CASE here # {}
  <2> DEFINE w == IF active \in here THEN active ELSE CHOOSE v \in here : \A u \in here : v <= u
             kept == [v \in Workflows |-> IF v \in here THEN slot[v] ELSE None]
             now == IF kept[w].is = "none" THEN Load(w) ELSE Reload(kept[w], w)
             s == [kept EXCEPT ![w] = IF disk[w] = "gone" THEN Empty ELSE now]
  <2>1. Becomes(s)
      BY <1>2, <1>4
  <2> HIDE DEF w
  <2>2. Slotted(kept) /\ \A v \in Workflows : kept[v] = slot[v] \/ kept[v] = None
      BY <1>1, Blank DEF Slotted
  <2>3. CASE disk[w] = "gone"
    <3>1. \A v \in Workflows : s[v] = IF v = w THEN Empty ELSE kept[v]
        BY <2>2, <2>3 DEF Slotted
    <3>2. Slotted(s)
      <4>1. s = [v \in Workflows |-> s[v]]
          BY <2>3
      <4>2. QED
          BY <2>2, <3>1, <4>1, Blank DEF Slotted
    <3>3. Loads(s)
        BY <2>2, <3>1, Blank DEF Loads
    <3>4. QED
        BY <1>1, <2>1, <3>2, <3>3, BecomesKeeps
  <2>4. CASE disk[w] # "gone"
    <3>1. s = [kept EXCEPT ![w] = now]
        BY <2>4
    <3>2. Slotted(s) /\ Loads(s)
        BY <1>1, <2>2, <3>1, Visits
    <3>3. QED
        BY <1>1, <2>1, <3>2, BecomesKeeps
  <2>5. QED
      BY <2>3, <2>4
<1>5. QED
    BY <1>3, <1>4

LEMMA ConfirmKeeps ==
    ASSUME ProgramConstants, Kept, Confirm
    PROVE  Kept' /\ Restores
<1> DEFINE w == view.list[view.at]
           kept == [v \in Workflows |-> IF v \in ToSet(view.list) THEN slot[v] ELSE None]
           s == [kept EXCEPT ![w] = IF kept[w].is = "none" THEN Load(w) ELSE Reload(kept[w], w)]
<1>1. Slotted(slot) /\ phase = "loop" /\ UNCHANGED <<phase, saved, file>> /\ Becomes(s)
    BY DEF Kept, RunKeeps, Confirm, Key, SessionStep
<1> HIDE DEF w
<1>2. Slotted(kept) /\ \A v \in Workflows : kept[v] \in {slot[v], None}
    BY <1>1, Blank DEF Slotted
<1>3. Slotted(s) /\ Loads(s)
    BY <1>1, <1>2, Visits
<1>4. QED
    BY <1>1, <1>3, BecomesKeeps

\* The cursor, Search and the palette select in the slot that is shown.
LEMMA SelectKeeps ==
    ASSUME ProgramConstants, Kept, Select \/ EnterSearch \/ EnterCommand
    PROVE  (Kept' /\ Restores) \/ UNCHANGED <<slot, left, lost, phase, saved, file>>
<1>1. Slotted(slot) /\ phase = "loop" /\ UNCHANGED <<phase, saved, file>>
    BY DEF Kept, RunKeeps, Select, EnterSearch, EnterCommand, Key, SessionStep
<1>2. ASSUME NEW x, IsSlot(x), slot[active].is = "shown", Becomes([slot EXCEPT ![active] = x])
      PROVE  Kept' /\ Restores
    BY <1>1, <1>2, Selects, BecomesKeeps
<1>3. CASE Select
  <2>1. PICK entry : Becomes([slot EXCEPT ![active] = Shown(entry)])
      BY <1>3 DEF Select
  <2>2. QED
      BY <1>2, <1>3, <2>1, ShownFields DEF Select
<1>4. CASE EnterSearch
  <2> DEFINE s == [slot EXCEPT ![active].task = Highlighted]
  <2>1. Becomes(s) \/ UNCHANGED <<slot, left, lost>>
      BY <1>4 DEF EnterSearch
  <2>2. ASSUME NEW w \in Workflows PROVE IsSlot(s[w]) /\ s[w].is = slot[w].is
    <3>1. s[w] = slot[w] \/ s[w] = [slot[w] EXCEPT !.task = Highlighted]
        BY <1>1 DEF Slotted
    <3>2. slot[w] = [is |-> slot[w].is, scope |-> slot[w].scope, task |-> slot[w].task]
        BY <1>1 DEF Slotted, IsSlot
    <3>3. ASSUME NEW h
          PROVE  LET r == [slot[w] EXCEPT !.task = h] IN
                 r = [is |-> slot[w].is, scope |-> slot[w].scope, task |-> h]
        BY <3>2
    <3>4. IsSlot(slot[w])
        BY <1>1 DEF Slotted
    <3>5. QED
        BY <3>1, <3>3, <3>4 DEF IsSlot
  <2>3. s = [w \in Workflows |-> s[w]]
      BY <1>1 DEF Slotted
  <2>4. Slotted(s) /\ Loads(s)
      BY <2>2, <2>3 DEF Slotted, Loads
  <2>5. QED
      BY <1>1, <2>1, <2>4, BecomesKeeps
<1>5. CASE EnterCommand
  <2>1. CASE UNCHANGED <<slot, left, lost>>
      BY <1>1, <2>1
  <2>2. ASSUME NEW entry, slot[active].is = "shown", Becomes([slot EXCEPT ![active] = Shown(entry)])
        PROVE  Kept' /\ Restores
      BY <1>2, <2>2, ShownFields
  <2>3. QED
      BY <1>5, <2>1, <2>2 DEF EnterCommand
<1>6. QED
    BY <1>3, <1>4, <1>5

----------------------------------------------------------------------------
(* The runs *)

LEMMA StartKeeps ==
    ASSUME ProgramConstants, Kept, Start
    PROVE  Kept' /\ Restores
<1>1. PICK first, state : /\ state = IF file.ok THEN file ELSE NothingRead
                          /\ saved' = state
                          /\ slot' = [w \in Workflows |-> IF w = first THEN Restored(w, state) ELSE None]
    BY DEF Start
<1>2. /\ phase = "shell" /\ phase' = "starting" /\ UNCHANGED <<file, left, lost>>
      /\ lost = {} /\ FileKeeps
    BY DEF Start, Kept, RunKeeps
<1>3. Whole(state) /\ \A w \in Workflows : state.entry[w] = file.entry[w]
    BY <1>1, <1>2 DEF FileKeeps, Whole, NothingRead, Nothing, Unsaved
<1>4. ASSUME NEW w \in Workflows
      PROVE  /\ slot'[w] \in {Restored(w, state), None}
             /\ Same(left[w], state.entry[w])
             /\ Restored(w, state) = Shown(Entry(left[w].scope, Cursor(left[w].scope, left[w].task)))
             /\ Same(left[w], Selection(Restored(w, state)))
  <2>1. Same(left[w], state.entry[w])
      BY <1>2, <1>3 DEF FileKeeps
  <2>2. QED
      BY <1>1, <1>3, <2>1, Shows
<1>5. Restores
    BY <1>4, Blank DEF Restores
<1>6. FileKeeps'
    BY <1>2 DEF FileKeeps, Whole, Same, Row, Cursor, Rows, First
<1>7. RunKeeps'
  <2>1. Whole(saved)'
      BY <1>1, <1>3 DEF Whole
  <2>2. ASSUME NEW w \in Workflows
        PROVE  /\ IsSlot(slot'[w]) /\ slot'[w].is # "empty"
               /\ Same(left[w], IF slot'[w].is = "none" THEN state.entry[w] ELSE Selection(slot'[w]))
      BY <1>4, ShownFields, Blank
  <2>3. slot' = [w \in Workflows |-> slot'[w]]
      BY <1>1
  <2>4. Slotted(slot)'
      BY <2>2, <2>3 DEF Slotted, IsSlot
  <2>5. ASSUME NEW w \in Workflows
        PROVE  /\ slot'[w].is # "empty"
               /\ Same(left[w], IF slot[w].is = "none" THEN saved.entry[w] ELSE Selection(slot[w]))'
      BY <1>1, <1>2, <2>2 DEF Same, Row, Cursor, Rows, First, Selection
  <2>6. QED
      BY <1>2, <2>1, <2>4, <2>5 DEF RunKeeps
<1>8. QED
    BY <1>5, <1>6, <1>7 DEF Kept

\* What is remembered of a workflow while a run goes on.
Remembered(w) ==
    /\ slot[w].is # "empty"
    /\ Same(left[w], IF slot[w].is = "none" THEN saved.entry[w] ELSE Selection(slot[w]))

LEMMA QuitKeeps == ASSUME ProgramConstants, Kept, Quit PROVE Kept' /\ UNCHANGED slot
<1>1. /\ phase = "loop" /\ phase' = "leaving" /\ UNCHANGED <<slot, saved, lost>>
      /\ FileKeeps /\ RunKeeps
    BY DEF Quit, Kept, sessionVars
<1>2. RunKeeps'
    BY <1>1 DEF RunKeeps, Running, Slotted, Whole
<1>3. CASE UNCHANGED file
          /\ left' = [w \in Workflows |-> IF file.has[w] THEN file.entry[w] ELSE NoEntry]
  <2>1. \A w \in Workflows : left'[w] = file.entry[w]
      BY <1>1, <1>3 DEF FileKeeps, Whole
  <2>2. QED
      BY <1>1, <1>2, <1>3, <2>1 DEF Kept, FileKeeps, Whole, Same
<1>4. CASE /\ file' = [ok |-> FALSE, has |-> Unsaved, entry |-> Nothing]
           /\ left' = Nothing
  <2>1. \A w \in Workflows : left'[w] = file'.entry[w] /\ file'.entry[w] = NoEntry /\ ~file'.has[w]
      BY <1>4 DEF Nothing, Unsaved
  <2>2. FileKeeps'
      BY <2>1 DEF FileKeeps, Whole, Same, Row, Cursor, Rows, First
  <2>3. QED
      BY <1>1, <1>2, <2>2 DEF Kept
<1>5. CASE /\ file' = [ok |-> TRUE, has |-> Snapshot.has, entry |-> Snapshot.entry]
           /\ left' = [w \in Workflows |-> IF w \in lost \/ disk[w] = "gone"
                                           THEN Snapshot.entry[w] ELSE left[w]]
  <2>1. ASSUME NEW w \in Workflows
        PROVE  /\ ~file'.has[w] => file'.entry[w] = NoEntry
               /\ Same(left'[w], file'.entry[w])
    <3>1. /\ file'.has[w] <=> saved.has[w] \/ (slot[w].is # "none" /\ disk[w] # "gone")
          /\ file'.entry[w] = IF slot[w].is # "none" /\ disk[w] # "gone"
                              THEN Selection(slot[w]) ELSE saved.entry[w]
        BY <1>5 DEF Snapshot
    <3>2. ~saved.has[w] => saved.entry[w] = NoEntry
        BY <1>1 DEF RunKeeps, Whole
    <3>3. w \notin lost => Remembered(w)
        BY <1>1 DEF RunKeeps, Running, Remembered
    <3>4. left'[w] = IF w \in lost \/ disk[w] = "gone" THEN file'.entry[w] ELSE left[w]
        BY <1>5
    <3>5. QED
        BY <3>1, <3>2, <3>3, <3>4 DEF Remembered, Same
  <2>2. file'.ok
      BY <1>5
  <2>3. FileKeeps'
      BY <2>1, <2>2 DEF FileKeeps, Whole, Same, Row, Cursor, Rows, First
  <2>4. QED
      BY <1>1, <1>2, <2>3 DEF Kept
<1>6. QED
    BY <1>1, <1>3, <1>4, <1>5 DEF Quit

\* The steps that leave every slot as it is, or drop them all.
LEMMA OthersKeep ==
    ASSUME ProgramConstants, Kept, SetUp \/ OpenFile \/ EditorExits \/ Fails \/ Leave \/ Edit
    PROVE  Kept' /\ Restores
<1> USE DEF Kept
<1>1. CASE SetUp
  <2>1. /\ phase = "starting" /\ phase' \in {"loop", "leaving"}
        /\ UNCHANGED <<slot, saved, file, left, lost>>
      BY <1>1 DEF SetUp, sessionVars, runVars
  <2>2. QED
      BY <2>1 DEF FileKeeps, RunKeeps, Restores, Whole, Slotted, IsSlot, Running, Same, Row, Cursor,
                 Rows, First, Selection
<1>2. CASE OpenFile \/ EditorExits
  <2>1. /\ phase \in {"loop", "editor"} /\ phase' \in {"loop", "editor"}
        /\ UNCHANGED <<slot, saved, file, left, lost>>
      BY <1>2 DEF OpenFile, Suspend, EditorExits, sessionVars, runVars
  <2>2. QED
      BY <2>1 DEF FileKeeps, RunKeeps, Restores, Whole, Slotted, IsSlot, Running, Same, Row, Cursor,
                 Rows, First, Selection
<1>3. CASE Fails
  <2>1. /\ phase' = "leaving" /\ UNCHANGED <<slot, saved, file, lost>>
        /\ \A w \in Workflows : left'[w] = file.entry[w]
      BY <1>3 DEF Fails, sessionVars, FileKeeps, Whole
  <2>2. QED
      BY <2>1 DEF FileKeeps, RunKeeps, Restores, Whole, Slotted, IsSlot, Running, Same
<1>4. CASE Leave
  <2>1. /\ phase = "leaving" /\ phase' = "shell" /\ slot' = NoSlots /\ lost' = {}
        /\ saved' = NothingRead /\ UNCHANGED <<file, left>>
      BY <1>4 DEF Leave
  <2>2. RunKeeps'
      BY <2>1, Blank DEF RunKeeps, Whole, Slotted, IsSlot, Running, NoSlots, NothingRead, Nothing
  <2>3. FileKeeps' /\ Restores
      BY <2>1, Blank DEF FileKeeps, Restores, Whole, Same, Row, Cursor, Rows, First, NoSlots
  <2>4. QED
      BY <2>2, <2>3
<1>5. CASE Edit
  <2>1. UNCHANGED <<phase, slot, saved, file, left, lost>>
      BY <1>5 DEF Edit, sessionVars, runVars
  <2>2. QED
      BY <2>1 DEF FileKeeps, RunKeeps, Restores, Whole, Slotted, IsSlot, Running, Same, Row, Cursor,
                 Rows, First, Selection
<1>6. QED
    BY <1>1, <1>2, <1>3, <1>4, <1>5

LEMMA KeysKeep == ASSUME ProgramConstants, Kept, Keys PROVE Kept' /\ Restores
<1>1. CASE Cycle
    BY <1>1, SwitchKeeps DEF Cycle
<1>2. CASE Confirm
    BY <1>2, ConfirmKeeps
<1>3. ASSUME UNCHANGED <<phase, slot, saved, file, left, lost>> PROVE Kept' /\ Restores
    BY <1>3 DEF Kept, FileKeeps, RunKeeps, Restores, Whole, Slotted, IsSlot, Running, Same, Row,
               Cursor, Rows, First, Selection
<1>4. CASE Select \/ EnterSearch \/ EnterCommand
    BY <1>3, <1>4, SelectKeeps
<1>5. CASE \/ OpenDefinition \/ OpenPane \/ OpenGateRoom \/ OpenSearch \/ Return
           \/ ScrollDefinition \/ OpenOverlay \/ MoveInPicker \/ Type \/ MoveInSearch
    BY <1>3, <1>5 DEF OpenDefinition, OpenPane, OpenGateRoom, OpenSearch, Return, ScrollDefinition,
                     DefinitionKey, DefinitionEnds, OpenOverlay, MoveInPicker, Type, MoveInSearch,
                     InSearch, Key, SessionStep, ViewOnly, sessionVars
<1>6. QED
    BY <1>1, <1>2, <1>4, <1>5 DEF Keys

LEMMA KeptInit == Init => Kept
<1> SUFFICES ASSUME Init PROVE Kept
    OBVIOUS
<1>1. /\ \A w \in Workflows : slot[w] = None /\ left[w] = NoEntry /\ file.entry[w] = NoEntry
                             /\ saved.entry[w] = NoEntry
      /\ phase = "shell" /\ lost = {} /\ file.ok /\ slot = [w \in Workflows |-> slot[w]]
    BY DEF Init, NoSlots, NothingRead, Nothing
<1>2. QED
    BY <1>1, Blank DEF Kept, FileKeeps, RunKeeps, Whole, Slotted, Running, Same

LEMMA KeptNext == ASSUME ProgramConstants, Kept, [Next]_vars PROVE Kept' /\ Restores
<1>1. CASE Quit
    BY <1>1, QuitKeeps DEF Restores
<1>2. CASE UNCHANGED vars
    BY <1>2 DEF vars, Kept, FileKeeps, RunKeeps, Restores, Whole, Slotted, IsSlot, Running, Same, Row,
               Cursor, Rows, First, Selection
<1>3. QED
    BY <1>1, <1>2, StartKeeps, OthersKeep, RefreshKeeps, KeysKeep DEF Next

\* A workflow visited for the first time in a run shows what was last selected in
\* it, however many runs ago, unless it was lost on the way: the session state file
\* is merged and restored right (session_state.rs, app/overview_session.rs).
THEOREM SelectionsAreRestored == Spec => SelectionRestored
<1>1. Init => Kept
    BY KeptInit
<1>2. Kept /\ [Next]_vars => Kept' /\ [Restores]_vars
    BY KeptNext, ProgramConstants
<1>3. Spec => [][Restores]_vars
    BY <1>1, <1>2, PTL DEF Spec
<1>4. QED
    BY <1>3 DEF SelectionRestored, Restores

----------------------------------------------------------------------------
(* The terminal *)

LEMMA AllOff == FirstOnes(3, FALSE) = Off
<1>1. DOMAIN Steps = 1 .. 3
    BY DEF Steps
<1>2. \A step \in ToSet(Steps) : \E i \in 1 .. 3 : Steps[i] = step
    BY <1>1 DEF ToSet
<1>3. QED
    BY <1>2 DEF FirstOnes, Off

LEMMA GivenBackNext == TerminalIsGivenBack /\ [Next]_vars => TerminalIsGivenBack'
<1> SUFFICES ASSUME TerminalIsGivenBack, [Next]_vars PROVE TerminalIsGivenBack'
    OBVIOUS
<1> USE DEF TerminalIsGivenBack, EditorGetsTerminal, TerminalRestored
<1>1. CASE Start \/ EditorExits \/ Quit \/ Fails
    BY <1>1 DEF Start, EditorExits, Quit, Fails
<1>2. CASE SetUp
    BY <1>2 DEF SetUp
<1>3. CASE OpenFile
  <2>1. PICK n \in 0 .. 3 : /\ tty' = FirstOnes(n, FALSE)
                            /\ phase' = IF n = 3 THEN "editor" ELSE "loop"
      BY <1>3 DEF OpenFile, Suspend
  <2>2. QED
      BY <2>1, AllOff
<1>4. CASE Leave
    BY <1>4 DEF Leave, Restore
<1>5. CASE Refresh \/ Keys
  <2>1. SessionStep
      BY <1>5 DEF Refresh, Keys, Select, Cycle, Confirm, EnterSearch, EnterCommand, OpenDefinition, OpenPane,
                 OpenGateRoom, OpenSearch, Return, ScrollDefinition, DefinitionKey, DefinitionEnds,
                 OpenOverlay, MoveInPicker, Type, MoveInSearch, InSearch, Key
  <2>2. QED
      BY <2>1 DEF SessionStep
<1>6. CASE Edit \/ UNCHANGED vars
    BY <1>6 DEF Edit, vars
<1>7. QED
    BY <1>1, <1>2, <1>3, <1>4, <1>5, <1>6 DEF Next

\* Whatever step of a suspension, a resumption or the set-up failed, the editor runs
\* in an ordinary terminal and the shell gets back all that could be switched off
\* (lib.rs, editor.rs).
THEOREM TerminalGivenBack == Spec => []TerminalIsGivenBack
<1>1. Init => TerminalIsGivenBack
    BY DEF Init, Off, TerminalIsGivenBack, EditorGetsTerminal, TerminalRestored
<1>2. QED
    BY <1>1, GivenBackNext, PTL DEF Spec

----------------------------------------------------------------------------
(* The order of the workflows *)

\* Every place of a finite set of numbers is some member's.
LEMMA PlacesAreTaken ==
    ASSUME NEW S \in SUBSET Nat, IsFiniteSet(S)
    PROVE  /\ Cardinality(S) \in Nat
           /\ \A i \in 1 .. Cardinality(S) : \E t \in S : Cardinality({v \in S : v < t}) = i - 1
<1> DEFINE n == Cardinality(S)
           T == 0 .. n - 1
           Below(t) == {v \in S : v < t}
           place == [t \in S |-> Cardinality(Below(t))]
<1>1. n \in Nat
    BY FS_CardinalityType
<1>2. ASSUME NEW t \in S PROVE IsFiniteSet(Below(t)) /\ Cardinality(Below(t)) \in T
  <2>1. Below(t) \in SUBSET S /\ Below(t) # S
      OBVIOUS
  <2>2. /\ IsFiniteSet(Below(t)) /\ Cardinality(Below(t)) <= n /\ Cardinality(Below(t)) # n
      BY <2>1, FS_Subset
  <2>3. Cardinality(Below(t)) \in Nat
      BY <2>2, FS_CardinalityType
  <2>4. QED
      BY <1>1, <2>2, <2>3
<1>3. IsFiniteSet(T) /\ Cardinality(T) = n
  <2> HIDE DEF n
  <2>1. 0 \in Int /\ n - 1 \in Int /\ (0 > n - 1 <=> n = 0) /\ (n - 1) - 0 + 1 = n
      BY <1>1
  <2>2. QED
      BY <2>1, FS_Interval
<1>4. ASSUME NEW t \in S, NEW u \in S, t < u PROVE Cardinality(Below(t)) # Cardinality(Below(u))
  <2>1. t \in Below(u) /\ t \notin Below(t) /\ \A v \in Below(t) : v \in Below(u)
      BY <1>4
  <2>2. Below(t) \in SUBSET Below(u) /\ Below(t) # Below(u)
      BY <2>1
  <2>3. QED
      BY <1>2, <2>2, FS_Subset
<1>5. place \in Injection(S, T)
  <2>1. place \in [S -> T]
      BY <1>2
  <2>2. ASSUME NEW t \in S, NEW u \in S, place[t] = place[u] PROVE t = u
      BY <1>4, <2>2
  <2>3. QED
      BY <2>1, <2>2 DEF Injection, IsInjective
<1>6. place \in Surjection(S, T)
    BY <1>3, <1>5, FS_Injection
<1>7. ASSUME NEW i \in 1 .. n PROVE \E t \in S : Cardinality(Below(t)) = i - 1
  <2>1. i - 1 \in T
      BY <1>1
  <2>2. QED
      BY <1>6, <2>1 DEF Surjection
<1>8. QED
    BY <1>1, <1>7

LEMMA HasLeast ==
    ASSUME NEW S \in SUBSET Nat, IsFiniteSet(S), S # {}
    PROVE  \E v \in S : \A u \in S : v <= u
<1>1. Cardinality(S) \in Nat /\ Cardinality(S) # 0
    BY FS_EmptySet, FS_CardinalityType
<1>2. PICK t \in S : Cardinality({v \in S : v < t}) = 0
  <2>1. 1 \in 1 .. Cardinality(S) /\ 1 - 1 = 0
      BY <1>1
  <2>2. QED
      BY <2>1, PlacesAreTaken
<1>3. {v \in S : v < t} = {}
  <2>1. {v \in S : v < t} \in SUBSET S
      OBVIOUS
  <2>2. QED
      BY <1>2, <2>1, FS_Subset, FS_EmptySet
<1>4. QED
    BY <1>3

LEMMA HasGreatest ==
    ASSUME NEW S \in SUBSET Nat, IsFiniteSet(S), S # {}
    PROVE  \E v \in S : \A u \in S : u <= v
<1> DEFINE n == Cardinality(S)
<1>1. n \in Nat /\ n # 0
    BY FS_EmptySet, FS_CardinalityType
<1>2. PICK t \in S : Cardinality({v \in S : v < t}) = n - 1
    BY <1>1, PlacesAreTaken
<1>3. IsFiniteSet(S \ {t}) /\ Cardinality(S \ {t}) = n - 1
    BY FS_RemoveElement
<1>4. {v \in S : v < t} \in SUBSET (S \ {t})
    OBVIOUS
<1>5. {v \in S : v < t} = S \ {t}
    BY <1>2, <1>3, <1>4, FS_Subset
<1>6. QED
    BY <1>5

LEMMA ListedAreMembers ==
    ASSUME NEW S \in SUBSET Nat, IsFiniteSet(S)
    PROVE  \A i \in DOMAIN Listing(S) : Listing(S)[i] \in S
<1> DEFINE before == [w \in S |-> {v \in S : v < w}]
<1>1. DOMAIN before = S /\ \A t \in S : before[t] = {v \in S : v < t}
    OBVIOUS
<1>2. \A i \in 1 .. Cardinality(S) : \E t \in S : Cardinality(before[t]) = i - 1
    BY <1>1, PlacesAreTaken
<1>3. Listing(S) = Ranked(before)
    BY DEF Listing
<1> HIDE DEF before
<1>4. QED
    BY <1>1, <1>2, <1>3 DEF Ranked

\* Some workflows are in order; Left and Right stay among them.
LEMMA WorkflowsOf ==
    ASSUME ProgramConstants, NEW S \in SUBSET Workflows
    PROVE  S \in SUBSET Nat /\ IsFiniteSet(S)
BY FS_Subset DEF ProgramConstants

LEMMA FirstOf ==
    ASSUME ProgramConstants, NEW S \in SUBSET Workflows, S # {}
    PROVE  (CHOOSE v \in S : \A u \in S : v <= u) \in S
BY WorkflowsOf, HasLeast

LEMMA CycleStays ==
    ASSUME ProgramConstants, NEW S \in SUBSET Workflows, S # {}, NEW w \in Workflows
    PROVE  NextIn(S, w) \in S /\ PreviousIn(S, w) \in S
<1>1. S \in SUBSET Nat /\ IsFiniteSet(S)
    BY WorkflowsOf
<1>2. NextIn(S, w) \in S
  <2>1. CASE \E v \in S : v > w
    <3> DEFINE After == {v \in S : v > w}
    <3>1. After \in SUBSET Nat /\ IsFiniteSet(After) /\ After # {}
        BY <1>1, <2>1, FS_Subset
    <3>2. PICK v \in After : \A u \in After : v <= u
      <4> HIDE DEF After
      <4> QED BY <3>1, HasLeast
    <3>3. \E x \in S : x > w /\ \A u \in S : u > w => x <= u
        BY <3>2
    <3>4. QED
        BY <2>1, <3>3 DEF NextIn
  <2>2. CASE ~\E v \in S : v > w
      BY <2>2, FirstOf DEF NextIn
  <2>3. QED
      BY <2>1, <2>2
<1>3. PreviousIn(S, w) \in S
  <2>1. CASE \E v \in S : v < w
    <3> DEFINE Before == {v \in S : v < w}
    <3>1. Before \in SUBSET Nat /\ IsFiniteSet(Before) /\ Before # {}
        BY <1>1, <2>1, FS_Subset
    <3>2. PICK v \in Before : \A u \in Before : u <= v
      <4> HIDE DEF Before
      <4> QED BY <3>1, HasGreatest
    <3>3. \E x \in S : x < w /\ \A u \in S : u < w => u <= x
        BY <3>2
    <3>4. QED
        BY <2>1, <3>3 DEF PreviousIn
  <2>2. CASE ~\E v \in S : v < w
      BY <1>1, <2>2, HasGreatest DEF PreviousIn
  <2>3. QED
      BY <2>1, <2>2
<1>4. QED
    BY <1>2, <1>3

----------------------------------------------------------------------------
(* Keys and what is seen *)

\* A slot, an entry that was read and one that is written name a scope.
ScopesNamed ==
    \A w \in Workflows : {slot[w].scope, saved.entry[w].scope, file.entry[w].scope} \subseteq Scopes

PlaceOK == active \in Workflows /\ listed \subseteq Workflows

ViewOK ==
    /\ view = [mode |-> view.mode, at |-> view.at, list |-> view.list, query |-> view.query]
    /\ view.mode # "PickerOverlay" => view.at \in Nat
    /\ view.mode = "PickerOverlay" => \A i \in DOMAIN view.list : view.list[i] \in Workflows

SeenInv == Kept /\ ScopesNamed /\ PlaceOK /\ ViewOK

\* The step of CursorStaysOnScreen.
CursorStays ==
    view.mode \in SearchModes /\ view'.mode = view.mode /\ slot'[active] = slot[active]
    /\ active' = active /\ (view.at < Len(OnScreen) \/ view.at = 0)
        => view'.at < Len(OnScreen)' \/ view'.at = 0

LEMMA Between == ASSUME NEW a \in Nat, NEW b \in Nat
                 PROVE  Lower(a, b) \in Nat /\ Minus(a, b) \in Nat
BY DEF Lower, Minus

\* The modes and their views.
LEMMA FreshView == /\ Overview = [mode |-> "Overview", at |-> 0, list |-> <<>>, query |-> "all"]
                   /\ \A mode : LET v == [Overview EXCEPT !.mode = mode] IN
                        v = [mode |-> mode, at |-> 0, list |-> <<>>, query |-> "all"]
BY DEF Overview

LEMMA PaneIs == ASSUME NEW pane PROVE Pane(pane).mode \in {"Overview", "Pane"} /\ Pane(pane).at = 0
                       /\ Pane(pane) = [mode |-> Pane(pane).mode, at |-> 0, list |-> <<>>, query |-> "all"]
BY FreshView DEF Pane

\* What results there are is a sequence, whatever is searched.
LEMMA ResultsAre ==
    ASSUME ProgramConstants, SeenInv, view.mode \in SearchModes
    PROVE  \E X : Results \in Seq(X)
<1> DEFINE all == Candidates(view.mode)
<1>1. \E X : all \in Seq(X)
  <2>1. CASE view.mode = "Command"
    <3>1. Commands \in Seq(Panes \cup {"needs-attention", "all-tasks"})
        BY DEF Commands, Panes
    <3>2. QED
        BY <2>1, <3>1 DEF Candidates
  <2>2. CASE view.mode # "Command" /\ slot[active].is = "shown"
    <3>1. slot[active].scope \in Scopes
        BY DEF SeenInv, ScopesNamed, PlaceOK
    <3>2. Tasks[slot[active].scope] \in Seq(Nat \ {0})
        BY <3>1 DEF ProgramConstants
    <3>3. QED
        BY <2>2, <3>2 DEF Candidates
  <2>3. CASE view.mode # "Command" /\ slot[active].is # "shown"
    <3>1. all = <<>> /\ <<>> \in Seq(STRING)
        BY <2>3 DEF Candidates
    <3>2. QED
        BY <3>1
  <2>4. QED
      BY <2>1, <2>2, <2>3
<1>2. Results \in {all, <<>>, <<Last(all)>>}
    BY DEF Results
<1>3. <<>> \in Seq(STRING) /\ <<Last(all)>> \in Seq({Last(all)})
    OBVIOUS
<1> HIDE DEF all
<1>4. QED
    BY <1>1, <1>2, <1>3

\* As many results are drawn as the cursor may go to.
LEMMA OnScreenIs ==
    ASSUME ProgramConstants, SeenInv, view.mode \in SearchModes
    PROVE  Len(OnScreen) = ResultCount /\ ResultCount \in Nat
<1>1. PICK X : Results \in Seq(X)
    BY ResultsAre
<1>2. Len(Results) \in Nat /\ ShownResults \in Nat
    BY <1>1, LenProperties DEF ProgramConstants
<1>3. ResultCount \in 0 .. Len(Results)
    BY <1>2 DEF ResultCount, Lower
<1>4. 1 \in 1 .. Len(Results) + 1 /\ ResultCount \in 1 - 1 .. Len(Results)
    BY <1>2, <1>3
<1>5. Len(SubSeq(Results, 1, ResultCount)) = ResultCount
    BY <1>1, <1>2, <1>3, <1>4, SubSeqProperties
<1>6. QED
    BY <1>3, <1>5 DEF OnScreen, ResultCount

LEMMA SameScreen ==
    ASSUME active' = active, slot'[active] = slot[active], view'.mode = view.mode,
           view'.query = view.query
    PROVE  OnScreen' = OnScreen
<1>1. slot[active]' = slot[active]
    OBVIOUS
<1>2. Candidates(view.mode)' = Candidates(view.mode)
    BY <1>1 DEF Candidates
<1>3. Results' = Results
    BY <1>2 DEF Results
<1>4. QED
    BY <1>3 DEF OnScreen

LEMMA QuietView ==
    ASSUME SeenInv, view' = view
    PROVE  CursorStays
<1> SUFFICES ASSUME view.mode \in SearchModes, slot'[active] = slot[active], active' = active,
                    view.at < Len(OnScreen) \/ view.at = 0
             PROVE  view'.at < Len(OnScreen)' \/ view'.at = 0
    BY DEF CursorStays
<1>1. OnScreen' = OnScreen
    BY SameScreen
<1>2. QED
    BY <1>1

\* A search begins with its first result; what else is opened has none.
LEMMA OtherView ==
    ASSUME NEW m, m # "PickerOverlay",
           view' = [mode |-> m, at |-> 0, list |-> <<>>, query |-> "all"]
    PROVE  ViewOK' /\ CursorStays
BY DEF ViewOK, CursorStays

LEMMA MoveStays == ASSUME ProgramConstants, SeenInv, MoveInSearch PROVE ViewOK' /\ CursorStays
<1> DEFINE down == view'.at = Lower(view.at + 1, ResultCount - 1) /\ ResultCount > 0
           up == view'.at = Minus(view.at, 1)
<1>1. /\ view.mode \in SearchModes /\ view.at \in Nat /\ view.mode # "PickerOverlay"
      /\ view = [mode |-> view.mode, at |-> view.at, list |-> view.list, query |-> view.query]
    BY DEF MoveInSearch, InSearch, Key, SearchModes, SeenInv, ViewOK
<1>2. /\ view' = [mode |-> view.mode, at |-> view'.at, list |-> view.list, query |-> view.query]
      /\ down \/ up
  <2>1. \A x : [view EXCEPT !.at = x] =
                 [mode |-> view.mode, at |-> x, list |-> view.list, query |-> view.query]
      BY <1>1
  <2>2. \/ ResultCount > 0 /\ view' = [view EXCEPT !.at = Lower(view.at + 1, ResultCount - 1)]
        \/ view' = [view EXCEPT !.at = Minus(view.at, 1)]
      BY DEF MoveInSearch, Show
  <2>3. QED
      BY <2>1, <2>2
<1>3. Len(OnScreen) = ResultCount /\ ResultCount \in Nat
    BY <1>1, OnScreenIs
<1>4. /\ view'.at \in Nat
      /\ view.at < ResultCount \/ view.at = 0 => view'.at < ResultCount \/ view'.at = 0
    BY <1>1, <1>2, <1>3 DEF Lower, Minus
<1>5. ViewOK'
    BY <1>1, <1>2, <1>4 DEF ViewOK
<1>6. CursorStays
  <2> SUFFICES ASSUME slot'[active] = slot[active], active' = active,
                      view.at < Len(OnScreen) \/ view.at = 0
               PROVE  view'.at < Len(OnScreen)' \/ view'.at = 0
      BY DEF CursorStays
  <2>1. OnScreen' = OnScreen
      BY <1>2, SameScreen
  <2>2. QED
      BY <1>3, <1>4, <2>1
<1>7. QED
    BY <1>5, <1>6

LEMMA ScrollStays == ASSUME ProgramConstants, SeenInv, ScrollDefinition PROVE ViewOK' /\ CursorStays
<1>1. /\ view.mode = "Definition" /\ view.at \in Nat
      /\ view = [mode |-> view.mode, at |-> view.at, list |-> view.list, query |-> view.query]
    BY DEF ScrollDefinition, DefinitionKey, DefinitionEnds, Key, SeenInv, ViewOK
<1>2. \A x : [view EXCEPT !.at = x] =
               [mode |-> view.mode, at |-> x, list |-> view.list, query |-> view.query]
    BY <1>1
<1>3. \E x \in Nat : view' = [view EXCEPT !.at = x]
  <2>1. ASSUME NEW rows \in {1, Page}, NEW max \in MaxScrolls, NEW up \in BOOLEAN,
               DefinitionKey(rows, max, up)
        PROVE  \E x \in Nat : view' = [view EXCEPT !.at = x]
    <3>1. rows \in Nat /\ max \in Nat
        BY DEF ProgramConstants, MaxScrolls
    <3>2. Lower(view.at, max) \in Nat
        BY <1>1, <3>1, Between
    <3>3. Lower(view.at, max) + rows \in Nat
        BY <3>1, <3>2
    <3>4. DefinitionUp(view.at, rows, max) \in Nat /\ DefinitionDown(view.at, rows, max) \in Nat
        BY <3>1, <3>2, <3>3, Between DEF DefinitionUp, DefinitionDown
    <3>5. QED
        BY <2>1, <3>4 DEF DefinitionKey, Show
  <2>2. CASE DefinitionEnds
      BY <2>2 DEF DefinitionEnds, Show, ProgramConstants
  <2>3. QED
      BY <2>1, <2>2 DEF ScrollDefinition
<1>4. QED
    BY <1>1, <1>2, <1>3 DEF ViewOK, CursorStays, SearchModes

LEMMA PickerStays ==
    ASSUME ProgramConstants, SeenInv, OpenOverlay \/ MoveInPicker
    PROVE  ViewOK' /\ CursorStays
<1>1. CASE OpenOverlay
  <2>1. PICK S \in {Found, listed} :
          \E at : view' = [Overview EXCEPT !.mode = "PickerOverlay", !.list = Listing(S), !.at = at]
      BY <1>1 DEF OpenOverlay, Show
  <2>2. S \in SUBSET Workflows
      BY DEF Found, SeenInv, PlaceOK
  <2>3. \A i \in DOMAIN Listing(S) : Listing(S)[i] \in Workflows
      BY <2>2, WorkflowsOf, ListedAreMembers
  <2>4. \E at : view' = [mode |-> "PickerOverlay", at |-> at, list |-> Listing(S), query |-> "all"]
      BY <2>1 DEF Overview
  <2>5. QED
      BY <2>3, <2>4 DEF ViewOK, CursorStays, SearchModes
<1>2. CASE MoveInPicker
  <2>1. view.mode = "PickerOverlay"
      BY <1>2 DEF MoveInPicker, Key
  <2>2. PICK at : view' = [view EXCEPT !.at = at]
      BY <1>2 DEF MoveInPicker, Show
  <2>3. /\ view = [mode |-> view.mode, at |-> view.at, list |-> view.list, query |-> view.query]
        /\ \A i \in DOMAIN view.list : view.list[i] \in Workflows
      BY <2>1 DEF SeenInv, ViewOK
  <2>4. view' = [mode |-> "PickerOverlay", at |-> at, list |-> view.list, query |-> view.query]
      BY <2>1, <2>2, <2>3
  <2>5. QED
      BY <2>3, <2>4 DEF ViewOK, CursorStays, SearchModes
<1>3. QED
    BY <1>1, <1>2

LEMMA TypeStays == ASSUME SeenInv, Type PROVE ViewOK' /\ CursorStays
<1>1. /\ view.mode \in SearchModes
      /\ view = [mode |-> view.mode, at |-> view.at, list |-> view.list, query |-> view.query]
    BY DEF Type, InSearch, Key, SeenInv, ViewOK
<1>2. PICK query : view' = [view EXCEPT !.query = query, !.at = 0]
    BY DEF Type, Show
<1>3. view' = [mode |-> view.mode, at |-> 0, list |-> view.list, query |-> query]
    BY <1>1, <1>2
<1>4. QED
    BY <1>1, <1>3 DEF ViewOK, CursorStays, SearchModes

LEMMA ViewNext == ASSUME ProgramConstants, SeenInv, Next PROVE ViewOK' /\ CursorStays
<1>1. CASE view' = view
    BY <1>1, QuietView DEF SeenInv, ViewOK
<1>2. ASSUME NEW m \in {"Overview", "Pane", "Definition", "GateRoom", "Search", "Command"},
             view' = [mode |-> m, at |-> 0, list |-> <<>>, query |-> "all"]
      PROVE  ViewOK' /\ CursorStays
    BY <1>2, OtherView
<1>3. CASE Start \/ Leave \/ Return \/ Confirm \/ EnterSearch
    BY <1>2, <1>3 DEF Start, Leave, Return, Confirm, EnterSearch, Show, Overview
<1>4. CASE OpenDefinition \/ OpenGateRoom \/ OpenSearch
  <2>1. PICK m \in {"Definition", "GateRoom", "Search", "Command"} : view' = [Overview EXCEPT !.mode = m]
      BY <1>4 DEF OpenDefinition, OpenGateRoom, OpenSearch, Show
  <2>2. QED
      BY <1>2, <2>1, FreshView
<1>5. ASSUME NEW pane, Show(Pane(pane)) PROVE ViewOK' /\ CursorStays
    BY <1>2, <1>5, PaneIs DEF Show
<1>6. CASE OpenPane
    BY <1>5, <1>6 DEF OpenPane
<1>7. CASE EnterCommand
    BY <1>1, <1>2, <1>5, <1>7 DEF EnterCommand, Show, Overview
<1>8. CASE ScrollDefinition \/ OpenOverlay \/ MoveInPicker \/ Type \/ MoveInSearch
    BY <1>8, ScrollStays, PickerStays, TypeStays, MoveStays
<1>9. CASE SetUp \/ OpenFile \/ EditorExits \/ Quit \/ Fails \/ Refresh \/ Select \/ Cycle \/ Edit
    BY <1>1, <1>9 DEF SetUp, OpenFile, EditorExits, Quit, Fails, Refresh, Select, Cycle, Edit
<1>10. QED
    BY <1>3, <1>4, <1>6, <1>7, <1>8, <1>9 DEF Next, Keys

\* Whatever a slot is filled with names a scope.
LEMMA FilledNames ==
    ASSUME ProgramConstants, SeenInv, NEW w \in Workflows
    PROVE  /\ {Restored(w, saved).scope, Restored(w, file).scope, Restored(w, NothingRead).scope,
               Load(w).scope, None.scope, Empty.scope} \subseteq Scopes
           /\ \A s : s.scope \in Scopes => Reload(s, w).scope \in Scopes
<1>1. saved.entry[w].scope \in Scopes /\ file.entry[w].scope \in Scopes
    BY DEF SeenInv, ScopesNamed
<1>2. NothingRead.entry[w].scope \in Scopes /\ "active" \in Scopes
    BY EntryFields DEF NothingRead, Nothing, NoEntry, Scopes
<1>3. ASSUME NEW state, state.entry[w].scope \in Scopes PROVE Restored(w, state).scope \in Scopes
  <2>1. CASE state.has[w]
    <3>1. Restored(w, state) = Shown(Entry(state.entry[w].scope,
                                  Cursor(state.entry[w].scope, state.entry[w].task)))
        BY <2>1 DEF Restored
    <3>2. QED
        BY <1>3, <3>1, ShownFields, EntryFields
  <2>2. CASE ~state.has[w]
    <3>1. Restored(w, state) = Shown(Entry("active", First("active")))
        BY <2>2 DEF Restored
    <3>2. QED
        BY <1>2, <3>1, ShownFields, EntryFields
  <2>3. QED
      BY <2>1, <2>2
<1>4. None.scope \in Scopes /\ Empty.scope \in Scopes
  <2>1. None.scope = "active" /\ Empty.scope = "active"
      BY DEF Empty, None
  <2>2. QED
      BY <1>2, <2>1
<1>5. Load(w).scope \in Scopes
    BY <1>1, <1>3, <1>4 DEF Load
<1>6. ASSUME NEW s, s.scope \in Scopes PROVE Reload(s, w).scope \in Scopes
  <2>1. Reload(s, w) = s \/ Reload(s, w) = Shown(Entry("active", First("active")))
      BY DEF Reload
  <2>2. Shown(Entry("active", First("active"))).scope \in Scopes
      BY <1>2, ShownFields, EntryFields
  <2>3. QED
      BY <1>6, <2>1, <2>2
<1>7. QED
    BY <1>1, <1>2, <1>3, <1>4, <1>5, <1>6

LEMMA BecomesNames ==
    ASSUME SeenInv, NEW s, Becomes(s), \A w \in Workflows : s[w].scope \in Scopes,
           UNCHANGED <<saved, file>>
    PROVE  ScopesNamed'
BY DEF SeenInv, ScopesNamed, Becomes

\* One slot is filled anew, the others stay or are dropped.
LEMMA FillNames ==
    ASSUME ProgramConstants, SeenInv, NEW kept, NEW w \in Workflows, NEW x, x.scope \in Scopes,
           kept = [v \in Workflows |-> kept[v]],
           \A v \in Workflows : kept[v] \in {slot[v], None},
           Becomes([kept EXCEPT ![w] = x]), UNCHANGED <<saved, file>>
    PROVE  ScopesNamed'
<1> DEFINE s == [kept EXCEPT ![w] = x]
<1>1. \A v \in Workflows : kept[v].scope \in Scopes
    BY FilledNames DEF SeenInv, ScopesNamed
<1>2. \A v \in Workflows : s[v] = IF v = w THEN x ELSE kept[v]
    OBVIOUS
<1>3. \A v \in Workflows : s[v].scope \in Scopes
  <2> HIDE DEF s
  <2> QED BY <1>1, <1>2
<1>4. QED
    BY <1>3, BecomesNames

LEMMA SlotsAre ==
    ASSUME SeenInv
    PROVE  /\ slot = [v \in Workflows |-> slot[v]] /\ \A v \in Workflows : slot[v].scope \in Scopes
           /\ active \in Workflows /\ listed \subseteq Workflows
BY DEF SeenInv, Kept, RunKeeps, Slotted, ScopesNamed, PlaceOK

LEMMA RefreshNames ==
    ASSUME ProgramConstants, SeenInv, Refresh
    PROVE  ScopesNamed' /\ PlaceOK'
<1>1. UNCHANGED <<saved, file>>
    BY DEF Refresh, SessionStep
<1>2. PICK here \in {listed} \cup (IF scans THEN {Found} ELSE {}) :
          IF here = {}
          THEN Becomes([slot EXCEPT ![active] = Empty]) /\ UNCHANGED <<listed, active>>
          ELSE LET w == IF active \in here THEN active
                        ELSE CHOOSE v \in here : \A u \in here : v <= u
                   kept == [v \in Workflows |-> IF v \in here THEN slot[v] ELSE None]
               IN  /\ listed' = here /\ active' = w
                   /\ Becomes([kept EXCEPT ![w] =
                           IF disk[w] = "gone" THEN Empty
                           ELSE IF kept[w].is = "none" THEN Load(w) ELSE Reload(kept[w], w)])
    BY DEF Refresh
<1>3. here \in SUBSET Workflows
    BY SlotsAre DEF Found
<1>4. CASE here = {}
    BY <1>1, <1>2, <1>4, SlotsAre, FilledNames, FillNames DEF PlaceOK
<1>5. CASE here # {}
  <2> DEFINE w == IF active \in here THEN active
                  ELSE CHOOSE v \in here : \A u \in here : v <= u
             kept == [v \in Workflows |-> IF v \in here THEN slot[v] ELSE None]
             x == IF disk[w] = "gone" THEN Empty
                  ELSE IF kept[w].is = "none" THEN Load(w) ELSE Reload(kept[w], w)
  <2>1. w \in here
      BY <1>3, <1>5, FirstOf
  <2>2. listed' = here /\ active' = w /\ Becomes([kept EXCEPT ![w] = x])
      BY <1>2, <1>5
  <2>3. w \in Workflows
      BY <1>3, <2>1
  <2>4. /\ kept = [v \in Workflows |-> kept[v]]
        /\ \A v \in Workflows : kept[v] \in {slot[v], None}
      OBVIOUS
  <2> HIDE DEF w, kept
  <2>5. kept[w].scope \in Scopes
      BY <2>3, <2>4, SlotsAre, FilledNames
  <2>6. x.scope \in Scopes
      BY <2>3, <2>5, FilledNames
  <2> HIDE DEF x
  <2>7. ScopesNamed'
      BY <1>1, <2>2, <2>3, <2>4, <2>6, FillNames
  <2>8. QED
      BY <1>3, <2>2, <2>3, <2>7 DEF PlaceOK
<1>6. QED
    BY <1>4, <1>5

LEMMA CycleNames ==
    ASSUME ProgramConstants, SeenInv, Cycle
    PROVE  ScopesNamed' /\ PlaceOK'
<1>1. PICK w \in {NextIn(listed, active), PreviousIn(listed, active)} : SwitchTo(w)
    BY DEF Cycle
<1>2. UNCHANGED <<saved, file, listed>> /\ listed # {}
  <2>1. UNCHANGED <<saved, file, listed>> /\ Cardinality(listed) >= 2
      BY DEF Cycle, SessionStep, IsMulti
  <2>2. Cardinality({}) = 0
      BY FS_EmptySet
  <2>3. listed # {}
    <3> SUFFICES ASSUME listed = {} PROVE FALSE
        OBVIOUS
    <3>1. Cardinality(listed) = 0
        BY <2>2
    <3>2. QED
        BY <2>1, <3>1
  <2>4. QED
      BY <2>1, <2>3
<1>3. w \in Workflows
    BY <1>1, <1>2, SlotsAre, CycleStays
<1> DEFINE x == IF slot[w].is = "none" THEN Load(w) ELSE Reload(slot[w], w)
<1>4. active' = w /\ Becomes([slot EXCEPT ![w] = x])
    BY <1>1 DEF SwitchTo
<1>5. x.scope \in Scopes
    BY <1>3, SlotsAre, FilledNames
<1> HIDE DEF x
<1>6. ScopesNamed'
    BY <1>2, <1>3, <1>4, <1>5, SlotsAre, FillNames
<1>7. QED
    BY <1>2, <1>3, <1>4, <1>6, SlotsAre DEF PlaceOK

LEMMA ConfirmNames ==
    ASSUME ProgramConstants, SeenInv, Confirm
    PROVE  ScopesNamed' /\ PlaceOK'
<1> DEFINE w == view.list[view.at]
           kept == [v \in Workflows |-> IF v \in ToSet(view.list) THEN slot[v] ELSE None]
           x == IF kept[w].is = "none" THEN Load(w) ELSE Reload(kept[w], w)
<1>1. /\ UNCHANGED <<saved, file>> /\ view.mode = "PickerOverlay" /\ view.at \in DOMAIN view.list
      /\ listed' = ToSet(view.list) /\ active' = w /\ Becomes([kept EXCEPT ![w] = x])
    BY DEF Confirm, Key, SessionStep
<1>2. \A i \in DOMAIN view.list : view.list[i] \in Workflows
    BY <1>1 DEF SeenInv, ViewOK
<1>3. w \in Workflows /\ ToSet(view.list) \subseteq Workflows
    BY <1>1, <1>2 DEF ToSet
<1>4. /\ kept = [v \in Workflows |-> kept[v]]
      /\ \A v \in Workflows : kept[v] \in {slot[v], None}
    OBVIOUS
<1> HIDE DEF w, kept
<1>5. kept[w].scope \in Scopes
    BY <1>3, <1>4, SlotsAre, FilledNames
<1>6. x.scope \in Scopes
    BY <1>3, <1>5, FilledNames
<1> HIDE DEF x
<1>7. ScopesNamed'
    BY <1>1, <1>3, <1>4, <1>6, FillNames
<1>8. QED
    BY <1>1, <1>3, <1>7 DEF PlaceOK

LEMMA SelectNames ==
    ASSUME ProgramConstants, SeenInv, Select \/ EnterSearch \/ EnterCommand
    PROVE  ScopesNamed' /\ PlaceOK'
<1>1. UNCHANGED <<saved, file, active, listed>>
    BY DEF Select, EnterSearch, EnterCommand, Key, SessionStep
<1>2. ASSUME UNCHANGED slot PROVE ScopesNamed'
    BY <1>1, <1>2 DEF SeenInv, ScopesNamed
<1>3. ASSUME NEW scope \in Scopes, NEW task,
             Becomes([slot EXCEPT ![active] = Shown(Entry(scope, task))])
      PROVE  ScopesNamed'
  <2>1. Shown(Entry(scope, task)).scope \in Scopes
      BY ShownFields, EntryFields
  <2>2. QED
      BY <1>1, <1>3, <2>1, SlotsAre, FillNames
<1>4. ASSUME NEW task, Becomes([slot EXCEPT ![active].task = task]) PROVE ScopesNamed'
  <2> DEFINE x == [slot[active] EXCEPT !.task = task]
  <2>1. x.scope = slot[active].scope
      BY SlotsAre DEF SeenInv, Kept, RunKeeps, Slotted, IsSlot
  <2>2. x.scope \in Scopes
      BY <2>1, SlotsAre
  <2>3. Becomes([slot EXCEPT ![active] = x])
      BY <1>4
  <2> HIDE DEF x
  <2>4. QED
      BY <1>1, <2>2, <2>3, SlotsAre, FillNames
<1>5. ScopesNamed'
  <2>1. CASE Select
      BY <1>3, <2>1 DEF Select
  <2>2. CASE EnterSearch
      BY <1>2, <1>4, <2>2 DEF EnterSearch
  <2>3. CASE EnterCommand
      BY <1>2, <1>3, <2>3 DEF EnterCommand, Scopes
  <2>4. QED
      BY <2>1, <2>2, <2>3
<1>6. QED
    BY <1>1, <1>5, SlotsAre DEF PlaceOK

LEMMA StartNames ==
    ASSUME ProgramConstants, SeenInv, Start
    PROVE  ScopesNamed' /\ PlaceOK'
<1> DEFINE first == CHOOSE w \in Found : \A v \in Found : w <= v
           state == IF file.ok THEN file ELSE NothingRead
<1>1. /\ Found # {} /\ saved' = state /\ active' = first /\ listed' = Found /\ file' = file
      /\ slot' = [w \in Workflows |-> IF w = first THEN Restored(w, state) ELSE None]
    BY DEF Start
<1>2. Found \in SUBSET Workflows
    BY DEF Found
<1>3. first \in Found
    BY <1>1, <1>2, FirstOf
<1>4. \A w \in Workflows : {Restored(w, file).scope, Restored(w, NothingRead).scope, None.scope}
                              \subseteq Scopes
    BY FilledNames
<1>5. \A w \in Workflows : file.entry[w].scope \in Scopes /\ NothingRead.entry[w].scope \in Scopes
    BY EntryFields DEF SeenInv, ScopesNamed, NothingRead, Nothing, NoEntry, Scopes
<1>6. state \in {file, NothingRead}
    OBVIOUS
<1> HIDE DEF first, state
<1>7. ScopesNamed'
    BY <1>1, <1>4, <1>5, <1>6 DEF ScopesNamed
<1>8. QED
    BY <1>1, <1>2, <1>3, <1>7 DEF PlaceOK

LEMMA QuitNames ==
    ASSUME ProgramConstants, SeenInv, Quit
    PROVE  ScopesNamed' /\ PlaceOK'
<1>1. UNCHANGED <<slot, saved, active, listed>>
    BY DEF Quit, sessionVars
<1>2. \A w \in Workflows : Snapshot.entry[w].scope \in Scopes /\ Nothing[w].scope \in Scopes
    BY EntryFields DEF SeenInv, ScopesNamed, Snapshot, Selection, Nothing, NoEntry, Scopes
<1>3. file' = file \/ file'.entry \in {Snapshot.entry, Nothing}
    BY DEF Quit
<1>4. \A w \in Workflows : file'.entry[w].scope \in Scopes
    BY <1>2, <1>3 DEF SeenInv, ScopesNamed
<1>5. QED
    BY <1>1, <1>4 DEF SeenInv, ScopesNamed, PlaceOK

LEMMA LeaveNames ==
    ASSUME ProgramConstants, SeenInv, Leave
    PROVE  ScopesNamed' /\ PlaceOK'
<1>1. /\ slot' = NoSlots /\ listed' = {} /\ saved' = NothingRead /\ file' = file
      /\ active' = CHOOSE w \in Workflows : \A v \in Workflows : w <= v
    BY DEF Leave
<1>2. active' \in Workflows
    BY <1>1, FirstOf DEF ProgramConstants
<1>3. \A w \in Workflows : NoSlots[w].scope \in Scopes /\ NothingRead.entry[w].scope \in Scopes
    BY Blank, EntryFields DEF NoSlots, NothingRead, Nothing, NoEntry, Scopes
<1>4. QED
    BY <1>1, <1>2, <1>3 DEF SeenInv, ScopesNamed, PlaceOK

LEMMA NamesNext == ASSUME ProgramConstants, SeenInv, Next PROVE ScopesNamed' /\ PlaceOK'
<1>1. CASE UNCHANGED <<slot, saved, file, active, listed>>
    BY <1>1 DEF SeenInv, ScopesNamed, PlaceOK
<1>2. CASE SetUp \/ OpenFile \/ EditorExits \/ Fails \/ Edit
    BY <1>1, <1>2 DEF SetUp, OpenFile, EditorExits, Fails, Edit, sessionVars, runVars
<1>3. CASE \/ OpenDefinition \/ OpenPane \/ OpenGateRoom \/ OpenSearch \/ Return
           \/ ScrollDefinition \/ OpenOverlay \/ MoveInPicker \/ Type \/ MoveInSearch
    BY <1>1, <1>3 DEF OpenDefinition, OpenPane, OpenGateRoom, OpenSearch, Return, ScrollDefinition,
                     DefinitionKey, DefinitionEnds, OpenOverlay, MoveInPicker, Type, MoveInSearch,
                     InSearch, Key, SessionStep, ViewOnly, sessionVars
<1>4. QED
    BY <1>2, <1>3, StartNames, QuitNames, LeaveNames, RefreshNames, CycleNames, ConfirmNames,
       SelectNames DEF Next, Keys

LEMMA SeenInit == ProgramConstants /\ Init => SeenInv
<1> SUFFICES ASSUME ProgramConstants, Init PROVE SeenInv
    OBVIOUS
<1>1. active \in Workflows
    BY FirstOf DEF Init, ProgramConstants
<1>2. ScopesNamed
    BY Blank, EntryFields DEF Init, ScopesNamed, NoSlots, NothingRead, Nothing, NoEntry, Scopes
<1>3. ViewOK
    BY DEF Init, ViewOK, Overview
<1>4. QED
    BY <1>1, <1>2, <1>3, KeptInit DEF Init, SeenInv, PlaceOK

LEMMA SeenNext == ProgramConstants /\ SeenInv /\ [Next]_vars => SeenInv' /\ [CursorStays]_vars
<1>1. CASE UNCHANGED vars
  <2> SUFFICES ASSUME ProgramConstants, SeenInv PROVE SeenInv' /\ UNCHANGED vars
      BY <1>1
  <2>1. UNCHANGED <<slot, saved, file, active, listed, view>>
      BY <1>1 DEF vars
  <2>2. ScopesNamed'
      BY <2>1 DEF SeenInv, ScopesNamed
  <2>3. PlaceOK'
      BY <2>1 DEF SeenInv, PlaceOK
  <2>4. ViewOK'
      BY <2>1 DEF SeenInv, ViewOK
  <2>5. QED
      BY <1>1, <2>2, <2>3, <2>4, KeptNext DEF SeenInv
<1>2. ASSUME ProgramConstants, SeenInv, Next PROVE SeenInv' /\ CursorStays
    BY <1>2, KeptNext, NamesNext, ViewNext DEF SeenInv
<1>3. QED
    BY <1>1, <1>2

\* Up and Down move what is seen, wherever End or a longer text left the offset.
LEMMA DefinitionMoves == ProgramConstants /\ ViewOK => DefinitionKeysMove
<1> SUFFICES ASSUME ProgramConstants, ViewOK, view.mode = "Definition", NEW max \in MaxScrolls
             PROVE  /\ Lower(DefinitionUp(view.at, 1, max), max) = Minus(Lower(view.at, max), 1)
                    /\ Lower(DefinitionDown(view.at, 1, max), max)
                         = Lower(Lower(view.at, max) + 1, max)
    BY DEF DefinitionKeysMove
<1>1. view.at \in Nat /\ max \in Nat
    BY DEF ViewOK, MaxScrolls, ProgramConstants
<1>2. QED
    BY <1>1 DEF DefinitionUp, DefinitionDown, Lower, Minus

\* The cursor of a search or of the palette stays on a result that is drawn, so that
\* Enter takes what is highlighted, as long as the list does not change under it; and
\* Up and Down in the definition move what is seen, for any workflows, tasks and sizes
\* (app.rs, app/search.rs).
THEOREM KeysActOnTheSeen == Spec => KeysActOnWhatIsSeen
<1>1. Init => SeenInv
    BY SeenInit, ProgramConstants
<1>2. SeenInv /\ [Next]_vars => SeenInv' /\ [CursorStays]_vars
    BY SeenNext, ProgramConstants
<1>3. SeenInv => DefinitionKeysMove
    BY DefinitionMoves, ProgramConstants DEF SeenInv
<1>4. Spec => [][CursorStays]_vars /\ []DefinitionKeysMove
    BY <1>1, <1>2, <1>3, PTL DEF Spec
<1>5. QED
    BY <1>4 DEF KeysActOnWhatIsSeen, CursorStaysOnScreen, CursorStays

=============================================================================
