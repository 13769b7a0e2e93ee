------------------------------ MODULE GateRoom ------------------------------
(***************************************************************************)
(* The gate-room browser of one entity (app/gate_room.rs): the recorded    *)
(* attempts, the Briefing each is bound to, the verified inventory and the *)
(* opened item, and behind `h` the correction history.  The workflow index *)
(* is a snapshot of the entity's file; rooms and items are read from disk  *)
(* at the moment of a handler (core gate_room.rs).  Other processes edit   *)
(* the files, at most MaxEdits times.                                      *)
(***************************************************************************)
EXTENDS CorrectionHistory

CONSTANTS
    Entities,   \* what the entity's file may say: attempts, current one, pointer
    GateRooms,  \* what the room directory of an attempt may hold
    Reviews,    \* what the review directories may hold, by round key
    Bytes,      \* what the item files may hold, by item id
    Starts,     \* the files at the start
    Report,     \* the item id of the canonical main report
    MaxDepth,   \* the deepest path of details: links lead back and forth for ever
    MaxEdits

AllEntities == Entities \cup {s.entity : s \in Starts} \cup {None}
AllRooms == GateRooms \cup UNION {Range(s.rooms) : s \in Starts}
AllReviews == Reviews \cup {s.review : s \in Starts}

\* A manifest that is read has an inventory, an attempt has a room, and a round
\* that is pointed to has a place; inventories, logs and includes are sequences.
ASSUME GateRoomConstants ==
    /\ 0 \notin DOMAIN Items
    /\ \A d \in DOMAIN Items : Items[d] \in Seq(Range(Items[d]))
    /\ \A s \in Starts : DOMAIN s = {"entity", "rooms", "folder", "bytes", "review"}
    /\ \A r \in AllRooms :
          {r.locator, r.briefing, r.index, r.fallback} \subseteq DOMAIN Items \cup {0}
    /\ \A e \in AllEntities, s \in Starts :
          e # None => \A a \in Range(e.attempts) : a.id \in DOMAIN s.rooms
    /\ \A r \in AllReviews :
          /\ \A e \in AllEntities :
                e # None => e.pointer = None \/ e.pointer.key \in DOMAIN r
          /\ \A k \in DOMAIN r : r[k] # None =>
                /\ r[k].log \in Seq(Range(r[k].log))
                /\ \A l \in Range(r[k].log) : l.includes \in Seq(Range(l.includes))

VARIABLES
    disk,       \* entity (or None), gate rooms by attempt, review rooms, item bytes, folder form
    index,      \* the entity as the loaded workflow has it, or None
    browser,    \* the GateBrowser, or None while the overview is shown
    history,    \* its HistoryBrowser
    edits       \* edits made so far

vars == <<disk, index, browser, history, edits>>

Init ==
    /\ disk \in Starts
    /\ index = disk.entity
    /\ browser = None
    /\ history = Closed
    /\ edits = 0

-----------------------------------------------------------------------------
(* Reading evidence (core gate_room.rs).  A digest stands for the Briefing   *)
(* that has it; 0 is a file that is absent.                                  *)

\* The manifest a binding leads to: the one that the bound request locates when
\* there is a request digest, else the retained Briefing, else index.json, and the fallback only
\* when index.json is absent.
Manifest(room, attempt) ==
    IF attempt.request THEN (IF room.request = attempt.bound THEN room.locator ELSE 0)
    ELSE IF room.briefing # 0 THEN room.briefing
    ELSE IF room.index # 0 THEN room.index
    ELSE room.fallback

\* load_verified: the bound digest when the manifest has it, else 0.
LoadVerified(room, attempt) ==
    IF Manifest(room, attempt) = attempt.bound THEN attempt.bound ELSE 0

AttemptIds(entity) == {a.id : a \in Range(entity.attempts)}
AttemptOf(entity, id) == CHOOSE a \in Range(entity.attempts) : a.id = id

\* gate_room: what the index's attempt shows of the disk's room.
View(entity, id) ==
    IF id \in AttemptIds(entity) THEN LoadVerified(disk.rooms[id], AttemptOf(entity, id)) ELSE 0

\* read_item: the binding is verified again, the item must be in its inventory
\* and the bytes must have the revision it records.
Readable(entity, id, item) ==
    /\ View(entity, id) # 0
    /\ \E i \in Range(Items[View(entity, id)]) : i.id = item /\ i.revision = disk.bytes[item]

Shown(item) == [item |-> item, bytes |-> disk.bytes[item]]

-----------------------------------------------------------------------------
(* The browser                                                               *)

Inventory(b) == IF b.view = 0 THEN <<>> ELSE Items[b.view]
ItemUnder(b) == IF b.item + 1 \in DOMAIN Inventory(b) THEN Inventory(b)[b.item + 1].id ELSE ""

\* selected_attempt of the current stage, else the last one recorded.
Preferred(entity) ==
    IF entity.current # 0 THEN entity.current
    ELSE IF entity.attempts = <<>> THEN 0
    ELSE Last(entity.attempts).id

\* The position alone.
CursorByPosition(b, view) ==
    LET new == IF view = 0 THEN <<>> ELSE Items[view]
    IN  IF new = <<>> THEN 0 ELSE IF b.item < Len(new) THEN b.item ELSE Len(new) - 1

\* The position of the same item in the new inventory, else the old position,
\* clamped.
Cursor(b, view) ==
    LET new == IF view = 0 THEN <<>> ELSE Items[view]
        Same(i) == i.id = ItemUnder(b)
        at == SelectInSeq(new, Same)
        want == IF at > 0 THEN at - 1 ELSE b.item
    IN  IF new = <<>> THEN 0 ELSE IF want < Len(new) THEN want ELSE Len(new) - 1

\* The open item is kept while its attempt is selected.
RefreshKeepsPreview(b, entity) ==
    IF entity = None
    THEN [b EXCEPT !.attempts = <<>>, !.selected = 0, !.view = 0, !.item = 0, !.preview = None]
    ELSE LET selected == IF b.selected \in AttemptIds(entity) THEN b.selected ELSE Preferred(entity)
             view == View(entity, selected)
         IN  [b EXCEPT !.attempts = entity.attempts, !.selected = selected, !.view = view,
                       !.item = Cursor(b, view),
                       !.preview = IF selected = b.selected THEN @ ELSE None]

\* refresh: the selection survives by identity, the view is loaded again, and
\* an open item of the same attempt is read again under its identity.
Refresh(b, entity) ==
    IF entity = None
    THEN [b EXCEPT !.attempts = <<>>, !.selected = 0, !.view = 0, !.item = 0, !.preview = None]
    ELSE LET selected == IF b.selected \in AttemptIds(entity) THEN b.selected ELSE Preferred(entity)
             view == View(entity, selected)
             reopen == /\ b.preview # None
                       /\ selected = b.selected
                       /\ Readable(entity, selected, b.preview.item)
         IN  [b EXCEPT !.attempts = entity.attempts, !.selected = selected, !.view = view,
                       !.item = Cursor(b, view),
                       !.preview = IF reopen THEN Shown(b.preview.item) ELSE None]

Facts(entity) == IF entity = None THEN <<>> ELSE Load(disk.review, entity.pointer, disk.folder)

NewBrowser(entity) ==
    [history_mode |-> FALSE, attempts |-> <<>>, selected |-> entity.current, focus |-> "Attempts",
     item |-> 0, view |-> 0, preview |-> None]

\* A refresh of the browser and of the history behind it.
RefreshBoth(b, entity) ==
    /\ browser' = Refresh(b, entity)
    /\ history' = RefreshHistory(history, Facts(entity))

\* open_item_id: read from disk now; a failure refreshes the whole browser.
OpenItem(item) ==
    LET b == [browser EXCEPT !.preview = None] IN
    IF index = None \/ (b.selected # 0 /\ ~Readable(index, b.selected, item))
    THEN RefreshBoth(b, index)
    ELSE /\ browser' = IF b.selected = 0 THEN b ELSE [b EXCEPT !.preview = Shown(item)]
         /\ UNCHANGED history

-----------------------------------------------------------------------------
(* Keys                                                                      *)

Key == browser # None /\ UNCHANGED <<disk, index, edits>>
GateKey == Key /\ ~browser.history_mode
HistoryKey == Key /\ browser.history_mode

\* B on the selected task opens the browser.
Open ==
    /\ browser = None /\ index # None
    /\ browser' = Refresh(NewBrowser(index), index)
    /\ history' = RefreshHistory(Closed, Facts(index))
    /\ UNCHANGED <<disk, index, edits>>

\* h switches between the gates and the history, which keep their state.
Toggle ==
    /\ Key
    /\ browser' = [browser EXCEPT !.history_mode = ~@]
    /\ UNCHANGED history

Leave == browser' = None /\ history' = Closed

\* Esc closes the open item first, then the browser.
Escape ==
    /\ GateKey
    /\ IF browser.preview # None
       THEN browser' = [browser EXCEPT !.preview = None] /\ UNCHANGED history
       ELSE Leave

Tab ==
    /\ GateKey
    /\ browser' = [browser EXCEPT !.focus = IF @ = "Attempts" THEN "Items" ELSE "Attempts"]
    /\ UNCHANGED history

\* move_selection among the items of the view.
MoveItem(delta) ==
    /\ GateKey /\ browser.focus = "Items"
    /\ LET to == browser.item + delta
           last == Len(Inventory(browser)) - 1
           low == IF to < 0 THEN 0 ELSE to
       IN  browser' = [browser EXCEPT !.preview = None,
                                      !.item = IF last < 0 THEN 0 ELSE IF low > last THEN last ELSE low]
    /\ UNCHANGED history

\* move_selection among the attempts, with a refresh from the first position.
MoveAttempt(delta) ==
    /\ GateKey /\ browser.focus = "Attempts"
    /\ LET Selected(a) == a.id = browser.selected
           at == SelectInSeq(browser.attempts, Selected)
           to == Step(browser.attempts, IF at = 0 THEN 1 ELSE at, delta)
           cleared == [browser EXCEPT !.preview = None]
       IN  IF browser.attempts = <<>> THEN browser' = cleared /\ UNCHANGED history
           ELSE RefreshBoth([cleared EXCEPT !.selected = to.id, !.item = 0], index)

\* r opens the main report when the verified inventory designates one.
OpenReport ==
    /\ GateKey
    /\ IF \E i \in Range(Inventory(browser)) : i.id = Report
       THEN OpenItem(Report)
       ELSE browser' = [browser EXCEPT !.preview = None] /\ UNCHANGED history

\* Enter opens the item under the cursor.
EnterItem ==
    /\ GateKey /\ browser.focus = "Items"
    /\ ItemUnder(browser) # ""
    /\ OpenItem(ItemUnder(browser))

HistoryEscape ==
    /\ HistoryKey
    /\ IF CanGoBack(history)
       THEN history' = Back(history) /\ UNCHANGED browser
       ELSE Leave

HistoryTab ==
    /\ HistoryKey /\ history.stack = <<>> /\ history.preview = None
    /\ history' = ToggleFocus(history)
    /\ UNCHANGED browser

HistoryFilter ==
    /\ HistoryKey /\ history.stack # <<>>
    /\ history' = ToggleFilter(history)
    /\ UNCHANGED browser

HistoryMove(delta) ==
    /\ HistoryKey
    /\ history' = MoveHistory(history, delta)
    /\ UNCHANGED browser

\* Enter does nothing when the entity is gone.
HistoryEnter ==
    /\ HistoryKey /\ index # None
    /\ Len(history.stack) < MaxDepth
    /\ history' = OpenHistory(history, Facts(index), disk.bytes)
    /\ UNCHANGED browser

-----------------------------------------------------------------------------
(* A reload of the workflow, and the other processes                         *)

Reload ==
    /\ index' = disk.entity
    /\ IF browser = None THEN UNCHANGED <<browser, history>> ELSE RefreshBoth(browser, disk.entity)
    /\ UNCHANGED <<disk, edits>>

Edit(new) ==
    /\ edits < MaxEdits
    /\ new # disk
    /\ disk' = new
    /\ edits' = edits + 1
    /\ UNCHANGED <<index, browser, history>>

EditEntity == \E e \in Entities \cup {None} : Edit([disk EXCEPT !.entity = e])
EditRoom == \E a \in DOMAIN disk.rooms, r \in GateRooms : Edit([disk EXCEPT !.rooms[a] = r])
EditReview == \E r \in Reviews : Edit([disk EXCEPT !.review = r])
EditBytes == \E b \in Bytes : Edit([disk EXCEPT !.bytes = b])

Next ==
    \/ Open \/ Toggle \/ Escape \/ Tab \/ OpenReport \/ EnterItem
    \/ \E delta \in {-1, 1} : MoveItem(delta) \/ MoveAttempt(delta) \/ HistoryMove(delta)
    \/ HistoryEscape \/ HistoryTab \/ HistoryFilter \/ HistoryEnter
    \/ Reload \/ EditEntity \/ EditRoom \/ EditReview \/ EditBytes

Spec == Init /\ [][Next]_vars

-----------------------------------------------------------------------------
(* Correctness                                                               *)

\* An item on the screen has the bytes that the Briefing bound to the selected
\* attempt records for it, however often the attempt was rebound, the room
\* rewritten or the item edited since it was opened; and the same holds of an
\* artifact opened from a review round (read_item, refresh, accept_preview).
PreviewIsBound ==
    browser # None =>
        /\ browser.preview # None =>
             /\ index # None /\ browser.selected \in AttemptIds(index)
             /\ \E i \in Range(Items[AttemptOf(index, browser.selected).bound]) :
                    i.id = browser.preview.item /\ i.revision = browser.preview.bytes
        /\ history.preview # None =>
             /\ HasRound(history.facts, history.selection.round)
             /\ \E i \in Range(Items[history.facts[history.selection.round.key].digest]) :
                    i.id = history.preview.id /\ i.revision = history.preview.bytes

\* A reload never moves the cursor to another item of the attempt while the item
\* it was on is still in the inventory, whatever its new position.
CursorFollowsItem ==
    [][ Reload /\ browser # None /\ browser' # None
        /\ browser'.selected = browser.selected
        /\ ItemUnder(browser) \in {i.id : i \in Range(Inventory(browser'))}
          => ItemUnder(browser') = ItemUnder(browser) ]_vars

PathIsRecorded ==
    \A k \in DOMAIN history.stack :
        /\ Record(history.facts, history.stack[k]) # None
        /\ k > 1 => \E l \in Range(Links(history.facts, history.stack[k].round)) :
              /\ l.valid
              /\ {l.from, l.to} = {history.stack[k - 1].id, history.stack[k].id}

BackFindsTheEdge ==
    LET top == Len(history.stack)
        left == Last(history.returns).relationship
    IN  top > 1 /\ history.returns # <<>> /\ left # None =>
            {left.from, left.to} = {history.stack[top - 1].id, history.stack[top].id}

\* The path of details is real: every record on it exists in the loaded history,
\* and each is joined to the one below it by a recorded includes; what Back
\* remembers for the record below the top is the edge that was followed to the
\* top, or nothing when that edge has gone from the filter.
PathIsReal == PathIsRecorded /\ BackFindsTheEdge

\* Enter opens what was on the screen: a detail that opens shows the record, in
\* the Briefing, that the list or the edge named before the files were read again.
NothingSwapped ==
    [][ browser # None /\ browser' # None /\ Len(history'.stack) > Len(history.stack) =>
          LET opened == Last(history'.stack) IN
          /\ Record(history'.facts, opened) = Record(history.facts, opened)
          /\ history'.facts[opened.round.key].digest = history.facts[opened.round.key].digest ]_vars
=============================================================================
