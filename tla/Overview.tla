------------------------------ MODULE Overview ------------------------------
(***************************************************************************)
(* `OverviewState` of one workflow as the event loop drives it: the list   *)
(* of tasks, the selection, scopes, sorting, attention focus, the archive  *)
(* read on demand, and the scroll of the preview.  A frame draws, then     *)
(* reloads if the watcher signalled, then takes one key or click; other    *)
(* processes edit, archive and break task files at any moment.             *)
(*                                                                         *)
(* The methods of OverviewState are operators on the record `o`.           *)
(***************************************************************************)
EXTENDS Integers, Sequences, FiniteSets, Sorting

CONSTANTS
    Tasks,          \* slugs; their order is the order of ids and of paths
    Stages,         \* indices of the stages a status can name
    Contents,       \* what other processes leave on disk of a task
    Given,          \* what a task can be like at the start
    Height,         \* rows of the terminal the list is drawn on
    MaxScroll,      \* bound: last offset a preview can have
    MaxEdits,       \* bound: edits of other processes
    NoRow, NoTask, NoRead

ASSUME OverviewConstants ==
    /\ Tasks \subseteq Nat /\ IsFiniteSet(Tasks) /\ Stages \subseteq Nat
    /\ Height \in Nat \ {0} /\ MaxScroll \in Nat /\ MaxEdits \in Nat
    /\ NoTask \notin Tasks

\* A task's file is active, archived or gone; `broken` says which copy of it
\* does not parse; `asks` is that its recorded gate facts need attention.
Files == [place : {"active", "archived", "gone"}, stage : Stages, asks : BOOLEAN,
          broken : {"none", "file", "worktree"}]

ASSUME ContentsAreFiles == Contents \subseteq Files /\ Given \subseteq Files

Disks == [Tasks -> Files]

ASSUME NoReadIsNone == NoRead \notin [files : Disks, version : Nat]

\* One past any offset: usize::MAX, where saturating arithmetic stays.
Unmeasured == MaxScroll + 1

VARIABLES
    disk,           \* what is on disk
    edits,          \* edits so far: the version of the disk
    pc,             \* phase of the frame: "draw", "drain", "archive", "input"
    read,           \* an index read but not yet installed, with its version
    o,              \* the OverviewState
    facts,          \* what the last draw recorded: rows and list offset
    candidate,      \* IdClickCandidate: the first press of a double click
    copied,         \* pending_copy_id
    hit             \* ghost: what a click has just hit, drawn and selected

vars == <<disk, edits, pc, read, o, facts, candidate, copied, hit>>

----------------------------------------------------------------------------
(* Rows: items, then a broken row for each file that does not parse *)

Rows == [task : Tasks, at : {"file", "worktree", "archive"}, broken : BOOLEAN]
Item(t, at) == [task |-> t, at |-> at, broken |-> FALSE]
Broken(t, at) == [task |-> t, at |-> at, broken |-> TRUE]

Readable(file, place) == file.place = place /\ file.broken # "file"

\* An archive that has not been read, or could not be.
NoFiles == [t \in Tasks |-> [place |-> "gone", stage |-> CHOOSE s \in Stages : TRUE,
                             asks |-> FALSE, broken |-> "none"]]

ById(S) == Ranked([t \in S |-> {u \in S : u < t}])

\* Stage by stage in the order of the workflow, within a stage by id.
ByStatus(S, files) ==
    Ranked([t \in S |-> {u \in S : \/ files[u].stage < files[t].stage
                                   \/ files[u].stage = files[t].stage /\ u < t}])

\* The order in which archived tasks were completed is some fixed order.
ByCompletion(S) == Ranked([t \in S |-> {u \in S : u > t}])

ItemsOf(order, at) == [i \in DOMAIN order |-> Item(order[i], at)]
BrokenOf(order, at) == [i \in DOMAIN order |-> Broken(order[i], at)]

\* visible_items
VisibleItems(s) ==
    IF s.scope = "Archived"
    THEN ItemsOf(ByCompletion({t \in Tasks : Readable(s.archive[t], "archived")}), "archive")
    ELSE LET S == {t \in Tasks : /\ Readable(s.active[t], "active")
                                 /\ s.focus => s.active[t].asks}
         IN  ItemsOf(IF s.sort = "Id" THEN ById(S) ELSE ByStatus(S, s.active), "file")

\* parse_errors: those of the entity directory, then those of worktrees.
ParseErrors(s) ==
    LET Failing(files, place) == {t \in Tasks : files[t].place = place
                                                /\ files[t].broken = "file"}
        Copies == {t \in Tasks : s.active[t].broken = "worktree"}
    IN  IF s.scope = "Active"
        THEN BrokenOf(ById(Failing(s.active, "active")), "file")
             \o BrokenOf(ById(Copies), "worktree")
        ELSE IF s.archiveLoaded
        THEN BrokenOf(ById(Failing(s.archive, "archived")), "archive")
        ELSE <<>>

RowsShown(s) == VisibleItems(s) \o ParseErrors(s)
RowCount(s) == Len(RowsShown(s))

\* Positions are counted from zero; each scope has one of its own.
SelectedIndex(s) == IF s.scope = "Active" THEN s.selected ELSE s.selectedArchived

RowAt(rows, i) == IF i < Len(rows) THEN rows[i + 1] ELSE NoRow
SelectedRow(s) == RowAt(RowsShown(s), SelectedIndex(s))

----------------------------------------------------------------------------
(* Selection *)

ResetPreviewScroll(s) == [s EXCEPT !.scroll = 0, !.maxScroll = Unmeasured]

PutIndex(s, i) == IF s.scope = "Active" THEN [s EXCEPT !.selected = i]
                  ELSE [s EXCEPT !.selectedArchived = i]

SetScopeIndex(s, i) ==
    PutIndex(IF SelectedIndex(s) = i THEN s ELSE ResetPreviewScroll(s), i)

ClampSelection(s) ==
    IF RowCount(s) = 0 THEN PutIndex(s, 0)
    ELSE IF SelectedIndex(s) >= RowCount(s) THEN PutIndex(s, RowCount(s) - 1)
    ELSE s

\* Where restore_selected_path looks: the first item of the same task, else
\* the broken row of the same file.
Restores(s, row) ==
    LET rows == RowsShown(s)
        items == {i \in DOMAIN rows : ~rows[i].broken /\ rows[i].task = row.task}
    IN  IF items # {} THEN items
        ELSE {i \in DOMAIN rows : rows[i].broken /\ rows[i].task = row.task
                                  /\ rows[i].at = row.at}

\* Mutated form: a broken row is looked for among the items only.
RestoreItemsOnly(s, row) ==
    LET rows == RowsShown(s)
        found == {i \in DOMAIN rows : row # NoRow /\ ~rows[i].broken /\ rows[i].task = row.task}
    IN  ClampSelection(IF found = {} THEN s
                       ELSE SetScopeIndex(s, (CHOOSE i \in found : TRUE) - 1))

RestoreSelectedPath(s, row) ==
    LET found == IF row = NoRow THEN {} ELSE Restores(s, row)
    IN  ClampSelection(IF found = {} THEN s
                       ELSE SetScopeIndex(s, (CHOOSE i \in found : TRUE) - 1))

SelectNext(s) ==
    SetScopeIndex(s, IF RowCount(s) = 0 THEN 0
                     ELSE IF SelectedIndex(s) + 1 < RowCount(s)
                     THEN SelectedIndex(s) + 1 ELSE RowCount(s) - 1)
SelectPrevious(s) ==
    SetScopeIndex(s, IF SelectedIndex(s) = 0 THEN 0 ELSE SelectedIndex(s) - 1)
SelectFirst(s) == SetScopeIndex(s, 0)
SelectLast(s) == SetScopeIndex(s, IF RowCount(s) = 0 THEN 0 ELSE RowCount(s) - 1)

\* select_row, and the search panel's select_visible_entity_by_id
SelectRow(s, i) == IF i < RowCount(s) THEN SetScopeIndex(s, i) ELSE s
SelectTask(s, t) ==
    LET found == {i \in DOMAIN VisibleItems(s) : VisibleItems(s)[i].task = t}
    IN  IF found = {} THEN s ELSE SetScopeIndex(s, (CHOOSE i \in found : TRUE) - 1)

----------------------------------------------------------------------------
(* Archive, scope, sort, focus *)

\* ensure_archive_loaded: a failed read leaves an empty archive, and is not
\* tried again until the next reload.
EnsureArchiveLoaded(s, files, version, fault) ==
    IF s.archiveLoaded THEN s
    ELSE [s EXCEPT !.archive = IF fault THEN NoFiles ELSE files,
                   !.archiveVersion = version,
                   !.archiveError = fault,
                   !.archiveLoaded = TRUE]

SetAttentionFocus(s, enabled) ==
    ResetPreviewScroll(RestoreSelectedPath([s EXCEPT !.scope = "Active", !.focus = enabled],
                                           SelectedRow(s)))

ToggleScope(s, files, version, fault) ==
    LET all == IF s.focus THEN SetAttentionFocus(s, FALSE) ELSE s
    IN  ResetPreviewScroll(ClampSelection(
            IF all.scope = "Active"
            THEN [EnsureArchiveLoaded(all, files, version, fault) EXCEPT !.scope = "Archived"]
            ELSE [all EXCEPT !.scope = "Active"]))

\* apply_config_defaults and apply_session, before the first frame
SetViewScope(s, scope, files, fault) ==
    LET ready == IF scope = "Archived" THEN EnsureArchiveLoaded(s, files, 0, fault) ELSE s
    IN  ClampSelection([ready EXCEPT !.scope = scope])

CycleSortMode(s) ==
    RestoreSelectedPath([s EXCEPT !.sort = IF s.sort = "Id" THEN "Status" ELSE "Id"],
                        SelectedRow(s))

\* Mutated form: an archive once read stays for good.
InstallIndexKeepsArchive(s, files, version) ==
    ResetPreviewScroll(RestoreSelectedPath([s EXCEPT !.active = files,
                                                     !.activeVersion = version,
                                                     !.archiveError = FALSE],
                                           SelectedRow(s)))

\* A reload while active tasks are shown forgets the archive.
InstallIndex(s, files, version) ==
    ResetPreviewScroll(RestoreSelectedPath([s EXCEPT !.active = files,
                                                     !.activeVersion = version,
                                                     !.archive = NoFiles,
                                                     !.archiveLoaded = FALSE,
                                                     !.archiveError = FALSE],
                                           SelectedRow(s)))

\* A reload while the archive is shown brings both.
InstallBoth(s, files, version, archive, archiveVersion) ==
    ResetPreviewScroll(RestoreSelectedPath([s EXCEPT !.active = files,
                                                     !.activeVersion = version,
                                                     !.archive = archive,
                                                     !.archiveVersion = archiveVersion,
                                                     !.archiveLoaded = TRUE,
                                                     !.archiveError = FALSE],
                                           SelectedRow(s)))

----------------------------------------------------------------------------
(* Preview *)

TogglePreview(s) == ResetPreviewScroll([s EXCEPT !.open = ~s.open])
OpenPreview(s) == IF s.open THEN s ELSE TogglePreview(s)

AtMost(a, b) == IF a <= b THEN a ELSE b

\* A page is two rows; before the viewport is measured it is one.
PageStep(s) == IF s.maxScroll = Unmeasured THEN 1 ELSE 2

\* Mutated form: the stored offset is not clamped before the step up.
ScrollUpUnclamped(s, rows) ==
    [s EXCEPT !.scroll = IF s.scroll > rows THEN s.scroll - rows ELSE 0]

ScrollUp(s, rows) ==
    LET from == AtMost(s.scroll, s.maxScroll)
    IN  [s EXCEPT !.scroll = IF from > rows THEN from - rows ELSE 0]

ScrollDown(s, rows) ==
    [s EXCEPT !.scroll = AtMost(AtMost(s.scroll, s.maxScroll) + rows, s.maxScroll)]
ScrollToTop(s) == [s EXCEPT !.scroll = 0]
ScrollToBottom(s) == [s EXCEPT !.scroll = s.maxScroll]

\* What the draw makes of the stored offset.
ScrollShown(s) == AtMost(s.scroll, s.maxScroll)

----------------------------------------------------------------------------
(* The frame *)

NoPress == [task |-> NoTask, y |-> 0]
NoFacts == [rows |-> <<>>, offset |-> 0]
NoHit == [drawn |-> NoRow, selected |-> NoRow]

RowHeight(s) == IF s.focus THEN 2 ELSE 1
PageSize(s) == IF Height < RowHeight(s) THEN 1 ELSE Height \div RowHeight(s)

\* The list widget scrolls as far as the selection makes it.
DrawnOffset(s) == IF SelectedIndex(s) < PageSize(s) THEN 0
                  ELSE SelectedIndex(s) - PageSize(s) + 1

\* Only an item's preview is measured, and only when there is room for it.
Draw ==
    /\ pc = "draw"
    /\ facts' = [rows |-> RowsShown(o), offset |-> DrawnOffset(o)]
    /\ \E m \in 0 .. MaxScroll :
          \/ o' = [o EXCEPT !.maxScroll = m]
             /\ o.open /\ SelectedRow(o) # NoRow /\ ~SelectedRow(o).broken
          \/ o' = o
    /\ pc' = "drain"
    /\ hit' = NoHit
    /\ copied' = NoTask
    /\ UNCHANGED <<disk, edits, read, candidate>>

\* A signal: the index is read; in the archive, the archive is read as well.
ReloadReads ==
    /\ pc = "drain"
    /\ IF o.scope = "Active"
       THEN o' = InstallIndex(o, disk, edits) /\ UNCHANGED <<pc, read>>
       ELSE /\ read' = [files |-> disk, version |-> edits]
            /\ pc' = "archive"
            /\ UNCHANGED o
    /\ UNCHANGED <<disk, edits, facts, candidate, copied, hit>>

ReloadArchive ==
    /\ pc = "archive"
    /\ o' = InstallBoth(o, read.files, read.version, disk, edits)
    /\ read' = NoRead
    /\ pc' = "drain"
    /\ UNCHANGED <<disk, edits, facts, candidate, copied, hit>>

\* The old snapshot of both stays.
ReloadArchiveFails ==
    /\ pc = "archive"
    /\ o' = [o EXCEPT !.archiveError = TRUE]
    /\ read' = NoRead
    /\ pc' = "drain"
    /\ UNCHANGED <<disk, edits, facts, candidate, copied, hit>>

\* No more signals.
Poll ==
    /\ pc = "drain"
    /\ pc' = "input"
    /\ UNCHANGED <<disk, edits, read, o, facts, candidate, copied, hit>>

----------------------------------------------------------------------------
(* Input *)

\* The next draw records its facts anew.
Input(s) ==
    /\ pc = "input"
    /\ o' = s
    /\ pc' = "draw"
    /\ facts' = NoFacts
    /\ UNCHANGED <<disk, edits, read>>

Key(s) == Input(s) /\ UNCHANGED <<candidate, copied, hit>>

NoInput == Key(o)

KeyMoves ==
    \/ Key(SelectNext(o)) \/ Key(SelectPrevious(o))
    \/ Key(SelectFirst(o)) \/ Key(SelectLast(o))

KeyPages ==
    /\ ~o.open
    /\ \/ Key(SetScopeIndex(o, IF RowCount(o) = 0 THEN 0
                               ELSE AtMost(SelectedIndex(o) + PageSize(o), RowCount(o) - 1)))
       \/ Key(SetScopeIndex(o, IF SelectedIndex(o) < PageSize(o) THEN 0
                               ELSE SelectedIndex(o) - PageSize(o)))

KeyPreview == Key(TogglePreview(o))

KeyScope == \E fault \in BOOLEAN : Key(ToggleScope(o, disk, edits, fault))

KeySort == ~o.open /\ Key(CycleSortMode(o))

KeyScrollsUp == o.open /\ Key(ScrollUp(o, PageStep(o)))

KeyScrolls ==
    /\ o.open
    /\ Key(ScrollDown(o, PageStep(o))) \/ Key(ScrollToTop(o)) \/ Key(ScrollToBottom(o))

\* The command palette opens only over the list.
CommandFocuses == ~o.open /\ \E enabled \in BOOLEAN : Key(SetAttentionFocus(o, enabled))

\* So does the search panel; what it found is a visible item.
SearchSelects == ~o.open /\ \E t \in Tasks : Key(SelectTask(o, t))

\* What the pointer is on: the offset as drawn, the rows as they are now.
PointedIndex(y) == facts.offset + y \div RowHeight(o)
PointedTask(y) == IF PointedIndex(y) < Len(VisibleItems(o))
                  THEN VisibleItems(o)[PointedIndex(y) + 1].task ELSE NoTask

\* The id cells drawn, on the first line of a row.
IdCell(y) ==
    /\ y % RowHeight(o) = 0
    /\ RowAt(facts.rows, PointedIndex(y)) # NoRow
    /\ ~RowAt(facts.rows, PointedIndex(y)).broken

\* track_id_click: a second press in time on the same cell, with the same
\* task under it, copies its id.
TrackIdClick(y, onId, late) ==
    IF ~late /\ candidate # NoPress /\ candidate.y = y /\ onId
             /\ PointedTask(y) = candidate.task
    THEN candidate' = NoPress /\ copied' = candidate.task
    ELSE /\ candidate' = IF onId /\ IdCell(y) /\ PointedTask(y) # NoTask
                         THEN [task |-> PointedTask(y), y |-> y] ELSE NoPress
         /\ UNCHANGED copied

Click ==
    \E y \in 0 .. Height - 1, onId \in BOOLEAN, late \in BOOLEAN :
        /\ TrackIdClick(y, onId, late)
        /\ IF PointedIndex(y) < RowCount(o)
           THEN /\ Input(OpenPreview(SelectRow(o, PointedIndex(y))))
                /\ hit' = [drawn |-> RowAt(facts.rows, PointedIndex(y)),
                           selected |-> RowAt(RowsShown(o), PointedIndex(y))]
           ELSE Input(o) /\ UNCHANGED hit

Wheel ==
    /\ candidate' = NoPress
    /\ UNCHANGED <<copied, hit>>
    /\ \/ Input(o)
       \/ /\ PointedIndex(0) < RowCount(o)
          /\ Input(SelectNext(o)) \/ Input(SelectPrevious(o))
       \/ o.open /\ (Input(ScrollDown(o, 3)) \/ Input(ScrollUp(o, 3)))

----------------------------------------------------------------------------
(* Other processes, and the whole *)

Edit(t, file) ==
    /\ edits < MaxEdits
    /\ disk[t] # file
    /\ disk' = [disk EXCEPT ![t] = file]
    /\ edits' = edits + 1
    /\ UNCHANGED <<pc, read, o, facts, candidate, copied, hit>>

\* A workflow just loaded, with the defaults of the configuration and the
\* scope and selection of an earlier session.
Loaded(files, order) ==
    [active |-> files, activeVersion |-> 0, archive |-> NoFiles, archiveVersion |-> 0,
     archiveLoaded |-> FALSE, archiveError |-> FALSE, scope |-> "Active", focus |-> FALSE,
     sort |-> order, selected |-> 0, selectedArchived |-> 0, open |-> FALSE,
     scroll |-> 0, maxScroll |-> Unmeasured]

Init ==
    /\ disk \in [Tasks -> Given]
    /\ edits = 0
    /\ pc = "draw"
    /\ read = NoRead
    /\ \E order \in {"Id", "Status"}, scope, saved \in {"Active", "Archived"},
          fault \in BOOLEAN, t \in Tasks :
          o = SelectTask(SetViewScope(SetViewScope(Loaded(disk, order), scope, disk, fault),
                                      saved, disk, fault), t)
    /\ facts = NoFacts
    /\ candidate = NoPress
    /\ copied = NoTask
    /\ hit = NoHit

Next ==
    \/ Draw \/ ReloadReads \/ ReloadArchive \/ ReloadArchiveFails \/ Poll
    \/ NoInput \/ KeyMoves \/ KeyPages \/ KeyPreview \/ KeyScope \/ KeySort
    \/ KeyScrollsUp \/ KeyScrolls \/ CommandFocuses \/ SearchSelects \/ Click \/ Wheel
    \/ \E t \in Tasks, file \in Contents : Edit(t, file)

Spec == Init /\ [][Next]_vars

----------------------------------------------------------------------------
(* Properties *)

TypeOK ==
    /\ disk \in Disks
    /\ edits \in 0 .. MaxEdits
    /\ pc \in {"draw", "drain", "archive", "input"}
    /\ pc = "archive" <=> read # NoRead
    /\ o.active \in Disks /\ o.archive \in Disks
    /\ {o.activeVersion, o.archiveVersion} \subseteq 0 .. edits
    /\ {o.archiveLoaded, o.archiveError, o.focus, o.open} \subseteq BOOLEAN
    /\ o.scope \in {"Active", "Archived"} /\ o.sort \in {"Id", "Status"}
    /\ {o.selected, o.selectedArchived} \subseteq Nat
    /\ {o.scroll, o.maxScroll} \subseteq 0 .. Unmeasured
    /\ candidate.task \in Tasks \cup {NoTask}
    /\ copied \in Tasks \cup {NoTask}

SelectionInRange ==
    SelectedIndex(o) < RowCount(o) \/ (RowCount(o) = 0 /\ SelectedIndex(o) = 0)

ArchiveIsCurrent ==
    o.scope = "Archived" =>
        o.archiveLoaded /\ o.archiveVersion >= o.activeVersion

FocusIsActive == o.focus => o.scope = "Active"

CopiedIsSelected == copied # NoTask => hit.selected.task = copied

(***************************************************************************)
(* The list is sound whatever reloads, scopes and focus do under it: a row *)
(* is selected as long as there are rows; the archive shown is never older *)
(* than the tasks it is shown with, for a reload forgets it, or replaces   *)
(* both, or replaces neither; attention focus, a filter of active tasks,   *)
(* hides nothing archived; and the id copied by a double click is the one  *)
(* of the row it selects, whatever happened between the two presses.       *)
(***************************************************************************)
ListIsSound ==
    TypeOK /\ SelectionInRange /\ ArchiveIsCurrent /\ FocusIsActive /\ CopiedIsSelected

(***************************************************************************)
(* Nothing but the user's own moves takes the selection off a task: over a *)
(* reload, another order or another filter it stays on it, wherever the    *)
(* row has gone and even when its file has stopped parsing, unless there   *)
(* is no row of it left.                                                   *)
(***************************************************************************)
Stays(s, row) == \E i \in DOMAIN RowsShown(s) :
                    /\ RowsShown(s)[i].task = row.task
                    /\ RowsShown(s)[i].broken => RowsShown(s)[i].at = row.at

Rearranged ==
    /\ o' # o /\ o'.scope = o.scope
    /\ \/ pc \in {"drain", "archive"}
       \/ o'.sort # o.sort
       \/ o'.focus # o.focus

SelectionFollowsTask ==
    [][Rearranged =>
          (SelectedRow(o) # NoRow /\ Stays(o', SelectedRow(o))
              => SelectedRow(o').task = SelectedRow(o).task)]_vars

ScrollBelongsToRow ==
    [][o'.scroll # 0 => SelectedRow(o') = SelectedRow(o)]_vars

ScrollingUpMoves ==
    [][KeyScrollsUp /\ ScrollShown(o) > 0 => ScrollShown(o') < ScrollShown(o)]_vars

(***************************************************************************)
(* A preview is scrolled for the row it shows: whenever another row gets   *)
(* selected, by whatever way, its preview starts at the top.  And scrolling *)
(* up moves what is shown, unless the top is shown: the stored offset is   *)
(* never so far past the end that a page up appears to do nothing (the end *)
(* moves when the terminal is resized, when a reload forgets it, when the  *)
(* text shrinks).                                                          *)
(***************************************************************************)
ScrollIsSound == ScrollBelongsToRow /\ ScrollingUpMoves

(***************************************************************************)
(* A click selects the row drawn under the pointer: "click coordinates     *)
(* cannot drift from drawn rows" (app/mouse.rs).                           *)
(***************************************************************************)
ClickHitsDrawnRow == hit.drawn = hit.selected
=============================================================================
