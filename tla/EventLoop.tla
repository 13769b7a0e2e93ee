------------------------------ MODULE EventLoop ------------------------------
(***************************************************************************)
(* The terminal event loop: the main thread goes through its phases frame  *)
(* after frame, while the watcher, the history and session-activity        *)
(* workers, other processes that edit the workflows, and the user act in   *)
(* between.  `pc` is the phase the main thread is about to execute.        *)
(***************************************************************************)
EXTENDS Session, RefreshSource

CONSTANTS
    Entities,       \* workflows that can have entities to look for in session logs
    NoWorker,       \* no receiver held
    NoRoom,         \* no gate room is open
    MaxEvents       \* bound: changes on disk, and worker threads and backends that die

ASSUME LoopConstants ==
    /\ Entities \subseteq Dirs
    /\ NoRoom \notin Dirs
    /\ MaxSignals \in Nat \ {0}
    /\ MaxEvents \in Nat
    /\ \A d \in Dirs, at \in {"running", "result", "failed", "retry", "panicked"} :
          NoWorker # [dir |-> d, at |-> at]

VARIABLES
    pc,
    disk,           \* what is at each workflow directory
    mode,           \* AppMode
    room,           \* the workflow an open gate room belongs to
    overlay,        \* the list an open picker overlay shows
    scanRoot,       \* the session can rediscover
    session,        \* OverviewSession
    pendingSwitch, pendingOverlay, pendingSync,
    watchError,     \* the last watcher could not be started, or was lost
    history,        \* receiver of the history worker
    scan,           \* receiver of the session-activity worker
    rescan,         \* rescan_requested
    scanners,       \* ghost: session scans running
    changes, panics

watchVars == <<power, dirty, signals, watchError>>
scanVars == <<scan, rescan, scanners>>
pendingVars == <<pendingSwitch, pendingOverlay, pendingSync>>
viewVars == <<mode, room, overlay>>
worldVars == <<disk, changes, panics, scanRoot>>
vars == <<pc, disk, mode, room, overlay, scanRoot, session, pendingSwitch,
          pendingOverlay, pendingSync, power, dirty, signals, watchError,
          history, scan, rescan, scanners, changes, panics>>

Listed(d) == disk[d] \in {"good", "broken"}
Exists(d) == disk[d] # "gone"
Loads(d) == disk[d] = "good"
Found == {d \in Dirs : Listed(d)}

IsMulti == Len(session.discovery) >= 2

----------------------------------------------------------------------------
(* Workers *)

\* start_history_worker_for: the old receiver, if any, is dropped.
StartHistory(s) == history' = [dir |-> ActiveDir(s), at |-> "running"]

\* A workflow without entities has nothing to scan.
StartScan(s) ==
    /\ rescan' = FALSE
    /\ \/ /\ ActiveSlot(s).shown /\ ActiveDir(s) \in Entities
          /\ scan' = [dir |-> ActiveDir(s), at |-> "running"]
          /\ scanners' = scanners + 1
       \/ /\ scan' = NoWorker
          /\ UNCHANGED scanners

RequestScanForgets(s, receiver) ==
    IF receiver # NoWorker
    THEN scan' = receiver /\ UNCHANGED <<rescan, scanners>>
    ELSE StartScan(s)

\* request_scan
RequestScan(s, receiver) ==
    IF receiver # NoWorker
    THEN scan' = receiver /\ rescan' = TRUE /\ UNCHANGED scanners
    ELSE StartScan(s)

HistoryFinishes ==
    /\ history # NoWorker /\ history.at = "running"
    /\ \E at \in {"result"} \cup (IF changes + panics < MaxEvents THEN {"panicked"} ELSE {}) :
          /\ history' = [history EXCEPT !.at = at]
          /\ panics' = IF at = "panicked" THEN panics + 1 ELSE panics
    /\ UNCHANGED <<pc, disk, viewVars, scanRoot, session, pendingVars, watchVars,
                   scanVars, changes>>

ScanFinishes ==
    /\ scan # NoWorker /\ scan.at = "running"
    /\ \E at \in {"result", "failed", "retry"}
                    \cup (IF changes + panics < MaxEvents THEN {"panicked"} ELSE {}) :
          /\ scan' = [scan EXCEPT !.at = at]
          /\ panics' = IF at = "panicked" THEN panics + 1 ELSE panics
    /\ scanners' = scanners - 1
    /\ UNCHANGED <<pc, disk, viewVars, scanRoot, session, pendingVars, watchVars,
                   history, rescan, changes>>

----------------------------------------------------------------------------
(* Draining the workers *)

ApplyHistory(s, d) ==
    IF ActiveSlot(s).dir = d
    THEN InstallActive(s, [ActiveSlot(s) EXCEPT !.history = d])
    ELSE s

ApplyActivity(s, d) ==
    IF ActiveSlot(s).dir = d
    THEN InstallActive(s, [ActiveSlot(s) EXCEPT !.activity = d])
    ELSE s

DrainHistory ==
    /\ pc = "frame"
    /\ pc' = "activity"
    /\ IF history # NoWorker /\ history.at # "running"
       THEN /\ history' = NoWorker
            /\ session' = IF history.at = "result"
                          THEN ApplyHistory(session, history.dir) ELSE session
       ELSE UNCHANGED <<history, session>>
    /\ UNCHANGED <<worldVars, viewVars, pendingVars, watchVars, scanVars>>

DrainActivity ==
    /\ pc = "activity"
    /\ pc' = "periodic"
    /\ IF scan # NoWorker /\ scan.at # "running"
       THEN /\ session' = IF scan.at = "result"
                          THEN ApplyActivity(session, scan.dir) ELSE session
            /\ IF rescan \/ scan.at = "retry"
               THEN RequestScan(session', NoWorker)
               ELSE scan' = NoWorker /\ UNCHANGED <<rescan, scanners>>
       ELSE UNCHANGED <<session, scanVars>>
    /\ UNCHANGED <<worldVars, viewVars, pendingVars, watchVars, history>>

\* Two seconds have passed since the last request, or not.
PeriodicScan ==
    /\ pc = "periodic"
    /\ pc' = "signals"
    /\ \/ RequestScan(session, scan)
       \/ UNCHANGED scanVars
    /\ UNCHANGED <<worldVars, viewVars, pendingVars, watchVars, history, session>>

----------------------------------------------------------------------------
(* Refresh signals: reload_with_rediscovery *)

\* The last workflow is gone: the slot says so, the list stays.
AllRemoved ==
    /\ session' = InstallActive(session, EmptySlot(ActiveDir(session)))
    /\ StartHistory(session')
    /\ RequestScan(session', scan)
    /\ pc' = "signals"

TakeSignal ==
    /\ pc = "signals"
    /\ Take
    /\ \/ /\ scanRoot
          /\ Found = {}
          /\ AllRemoved
       \/ /\ scanRoot
          /\ Found # {}
          /\ \E list \in Listings(Found) : session' = ReplaceDiscovery(session, list)
          /\ pc' = "reload_active"
          /\ UNCHANGED <<history, scanVars>>
       \/ \* a single workflow, or the discovery fails
          /\ pc' = "reload_active"
          /\ UNCHANGED <<session, history, scanVars>>
    /\ UNCHANGED <<worldVars, viewVars, pendingVars, watchError>>

\* What the active slot becomes, and whether the reload counts as successful.
ReadActive(s) ==
    LET d == ActiveDir(s) IN
    IF ~Exists(d) THEN [slot |-> EmptySlot(d), ok |-> TRUE]
    ELSE IF ~ActiveLoaded(s)
         THEN [slot |-> IF Loads(d) THEN LoadedSlot(d) ELSE EmptySlot(d), ok |-> Loads(d)]
    ELSE [slot |-> IF Loads(d) THEN Reloaded(ActiveSlot(s)) ELSE ReloadFailed(ActiveSlot(s)),
          ok |-> Loads(d)]

\* refresh_gate_browser: a gate room does not outlive its workflow's turn.
RefreshGateRoom ==
    IF mode = "GateRoom" /\ room # ActiveDir(session)
    THEN mode' = "Overview" /\ room' = NoRoom
    ELSE UNCHANGED <<mode, room>>

\* Mutated form: views other than the overview are not refreshed.
ReloadActiveInOverview ==
    /\ pc = "reload_active"
    /\ pc' = "signals"
    /\ LET read == ReadActive(session) IN
          /\ session' = IF mode = "Overview" \/ ~ActiveLoaded(session)
                        THEN InstallActive(session, read.slot) ELSE session
          /\ IF read.ok THEN StartHistory(session) /\ RequestScan(session', scan)
                        ELSE UNCHANGED <<history, scanVars>>
    /\ RefreshGateRoom
    /\ UNCHANGED <<worldVars, overlay, pendingVars, watchVars>>

ReloadActive ==
    /\ pc = "reload_active"
    /\ pc' = "signals"
    /\ LET read == ReadActive(session) IN
          /\ session' = InstallActive(session, read.slot)
          /\ IF read.ok THEN StartHistory(session) /\ RequestScan(session', scan)
                        ELSE UNCHANGED <<history, scanVars>>
    /\ RefreshGateRoom
    /\ UNCHANGED <<worldVars, overlay, pendingVars, watchVars>>

NoSignal ==
    /\ pc = "signals"
    /\ signals = 0
    /\ pc' = "input"
    /\ IF power = "dead"
       THEN power' = "off" /\ watchError' = TRUE
       ELSE UNCHANGED <<power, watchError>>
    /\ UNCHANGED <<worldVars, viewVars, session, pendingVars, dirty, signals,
                   history, scanVars>>

----------------------------------------------------------------------------
(* Input: at most one key or click per frame *)

SwitchTo(s, i) ==
    /\ session' = Select(s, i)
    /\ pendingSwitch' = IF s.workflows[i] = NoSlot THEN "load" ELSE "reload"

KeyCycle ==
    /\ mode \in {"Overview", "Panel"}
    /\ IsMulti
    /\ \E i \in {CycleNext(session), CyclePrev(session)} : SwitchTo(session, i)
    /\ UNCHANGED <<viewVars, pendingOverlay, pendingSync>>

KeyOverlay ==
    /\ mode \in {"Overview", "Panel"}
    /\ IsMulti
    /\ pendingOverlay' = TRUE
    /\ UNCHANGED <<viewVars, session, pendingSwitch, pendingSync>>

KeySync ==
    /\ mode = "Overview"
    /\ pendingSync' = TRUE
    /\ UNCHANGED <<viewVars, session, pendingSwitch, pendingOverlay>>

\* A panel is a timeline, the metrics, the activity or the relations; the
\* reader is the definition view or the search, whose commands open panels.
KeyOpens ==
    /\ mode = "Overview"
    /\ mode' \in {"Reader", "Panel"}
    /\ UNCHANGED <<room, overlay, session, pendingVars>>

KeyOpensGateRoom ==
    /\ mode = "Overview"
    /\ ActiveSlot(session).shown
    /\ mode' = "GateRoom"
    /\ room' = ActiveDir(session)
    /\ UNCHANGED <<overlay, session, pendingVars>>

KeyReturns ==
    /\ mode # "Overview"
    /\ mode' \in {"Overview"} \cup (IF mode = "Reader" THEN {"Panel"} ELSE {})
    /\ room' = NoRoom
    /\ overlay' = <<>>
    /\ UNCHANGED <<session, pendingVars>>

KeyConfirms ==
    /\ mode = "PickerOverlay"
    /\ \E i \in DOMAIN overlay : SwitchTo(ReplaceDiscovery(session, overlay), i)
    /\ mode' = "Overview"
    /\ overlay' = <<>>
    /\ UNCHANGED <<room, pendingOverlay, pendingSync>>

NoKey == UNCHANGED <<viewVars, session, pendingVars>>

Input ==
    /\ pc = "input"
    /\ pc' = "overlay"
    /\ \/ KeyCycle \/ KeyOverlay \/ KeySync \/ KeyOpens \/ KeyOpensGateRoom
       \/ KeyReturns \/ KeyConfirms \/ NoKey
    /\ UNCHANGED <<worldVars, watchVars, history, scanVars>>

----------------------------------------------------------------------------
(* What the input left pending *)

OpenOverlay ==
    /\ pc = "overlay"
    /\ pc' = "switch"
    /\ pendingOverlay' = FALSE
    /\ IF pendingOverlay
       THEN /\ mode' = "PickerOverlay"
            /\ overlay' \in {session.discovery} \cup (IF scanRoot THEN Listings(Found) ELSE {})
       ELSE UNCHANGED <<mode, overlay>>
    /\ UNCHANGED <<worldVars, room, session, pendingSwitch, pendingSync, watchVars,
                   history, scanVars>>

NoSwitch ==
    /\ pc = "switch"
    /\ pendingSwitch = "none"
    /\ pc' = "sync"
    /\ UNCHANGED <<worldVars, viewVars, session, pendingVars, watchVars, history, scanVars>>

\* Mutated form: a workflow that is loaded already is not read again.
SwitchReadsOnce ==
    /\ pc = "switch"
    /\ pendingSwitch # "none"
    /\ power' = "off" /\ dirty' = FALSE /\ signals' = 0
    /\ session' = IF pendingSwitch = "reload" THEN session
                  ELSE InstallActive(session, LET d == ActiveDir(session) IN
                           IF Loads(d) THEN LoadedSlot(d) ELSE EmptySlot(d))
    /\ pendingSwitch' = "none"
    /\ pc' = "watch"
    /\ UNCHANGED <<worldVars, viewVars, pendingOverlay, pendingSync, watchError,
                   history, scanVars>>

\* The old watcher is dropped first; then the active workflow is read.
SwitchReads ==
    /\ pc = "switch"
    /\ pendingSwitch # "none"
    /\ power' = "off" /\ dirty' = FALSE /\ signals' = 0
    /\ session' = InstallActive(session,
          LET d == ActiveDir(session) IN
          IF pendingSwitch = "load"
          THEN IF Loads(d) THEN LoadedSlot(d) ELSE EmptySlot(d)
          ELSE IF Loads(d) THEN Reloaded(ActiveSlot(session))
                           ELSE ReloadFailed(ActiveSlot(session)))
    /\ pendingSwitch' = "none"
    /\ pc' = "watch"
    /\ UNCHANGED <<worldVars, viewVars, pendingOverlay, pendingSync, watchError,
                   history, scanVars>>

\* start_watcher_for does nothing outside the overview.
StartWatcher ==
    /\ dirty' = FALSE /\ signals' = 0
    /\ IF mode = "Overview"
       THEN \/ power' = "on" /\ watchError' = FALSE
            \/ power' = "off" /\ watchError' = TRUE
       ELSE power' = "off" /\ UNCHANGED watchError

Watch ==
    /\ pc = "watch"
    /\ pc' = "sync"
    /\ StartWatcher
    /\ StartHistory(session)
    /\ RequestScan(session, scan)
    /\ UNCHANGED <<worldVars, viewVars, session, pendingVars>>

\* WorkflowSync says what happens inside; seen from here it may reload.
Sync ==
    /\ pc = "sync"
    /\ pc' = "frame"
    /\ pendingSync' = FALSE
    /\ IF pendingSync
       THEN /\ session' \in {session, InstallActive(session,
                               IF Loads(ActiveDir(session)) THEN Reloaded(ActiveSlot(session))
                               ELSE ReloadFailed(ActiveSlot(session)))}
            /\ StartHistory(session)
            /\ RequestScan(session', scan)
       ELSE UNCHANGED <<session, history, scanVars>>
    /\ UNCHANGED <<worldVars, viewVars, pendingSwitch, pendingOverlay, watchVars>>

----------------------------------------------------------------------------
(* Other processes and the watcher *)

\* The ghost `behind` of a slot whose directory changes.
LeftBehind(slot) ==
    [slot EXCEPT !.behind = IF power = "on" \/ slot.behind = "watched"
                            THEN "watched" ELSE "unwatched"]

\* An edit, a removal, a new workflow; a running watcher notices it.
DiskChanges(d, what) ==
    /\ changes + panics < MaxEvents
    /\ changes' = changes + 1
    /\ disk' = [disk EXCEPT ![d] = what]
    /\ session' = [session EXCEPT !.workflows =
          [i \in DOMAIN session.workflows |->
              LET slot == session.workflows[i] IN
              IF slot # NoSlot /\ session.discovery[i] = d THEN LeftBehind(slot) ELSE slot]]
    /\ IF power = "on" THEN Notice ELSE UNCHANGED sourceVars
    /\ UNCHANGED <<pc, viewVars, scanRoot, pendingVars, watchError, history, scanVars, panics>>

WatcherSignals ==
    /\ Emit
    /\ UNCHANGED <<pc, worldVars, viewVars, session, pendingVars, watchError, history, scanVars>>

BackendDies ==
    /\ changes + panics < MaxEvents
    /\ panics' = panics + 1
    /\ Die
    /\ UNCHANGED <<pc, disk, viewVars, scanRoot, session, pendingVars, watchError,
                   history, scanVars, changes>>

----------------------------------------------------------------------------

\* One workflow, or several under a scan root; the first is loaded.
Init ==
    /\ pc = "watch"
    /\ disk \in [Dirs -> {"good", "broken", "unlisted", "gone"}]
    /\ mode = "Overview"
    /\ room = NoRoom
    /\ overlay = <<>>
    /\ \E S \in SUBSET Dirs, list \in Lists :
          /\ list \in Listings(S)
          /\ S # {} /\ Loads(list[1])
          /\ scanRoot = (Cardinality(S) > 1)
          /\ scanRoot => S = Found
          /\ session = FromDiscovery(list, LoadedSlot(list[1]))
    /\ pendingSwitch = "none" /\ pendingOverlay = FALSE /\ pendingSync = FALSE
    /\ Absent
    /\ watchError = FALSE
    /\ history = NoWorker
    /\ scan = NoWorker /\ rescan = FALSE /\ scanners = 0
    /\ changes = 0 /\ panics = 0

Main ==
    \/ DrainHistory \/ DrainActivity \/ PeriodicScan
    \/ TakeSignal \/ ReloadActive \/ NoSignal
    \/ Input \/ OpenOverlay
    \/ NoSwitch \/ SwitchReads \/ Watch \/ Sync

Others ==
    \/ HistoryFinishes \/ ScanFinishes
    \/ WatcherSignals \/ BackendDies
    \/ \E d \in Dirs, what \in {"good", "broken", "unlisted", "gone"} : DiskChanges(d, what)

Next == Main \/ Others

Spec == Init /\ [][Next]_vars /\ WF_vars(Main) /\ WF_vars(WatcherSignals)

----------------------------------------------------------------------------
(* Properties *)

Workers(outcomes) == {NoWorker} \cup [dir : Dirs, at : {"running"} \cup outcomes]

TypeOK ==
    /\ pc \in {"frame", "activity", "periodic", "signals", "reload_active", "input",
               "overlay", "switch", "watch", "sync"}
    /\ disk \in [Dirs -> {"good", "broken", "unlisted", "gone"}]
    /\ mode \in {"Overview", "PickerOverlay", "Reader", "Panel", "GateRoom"}
    /\ room \in Dirs \cup {NoRoom}
    /\ overlay \in Lists
    /\ scanRoot \in BOOLEAN
    /\ session.discovery \in Lists
    /\ DOMAIN session.workflows = DOMAIN session.discovery
    /\ \A i \in DOMAIN session.workflows : session.workflows[i] \in Slots \cup {NoSlot}
    /\ session.active \in DOMAIN session.discovery
    /\ pendingSwitch \in {"none", "load", "reload"}
    /\ pendingOverlay \in BOOLEAN /\ pendingSync \in BOOLEAN
    /\ SourceTypeOK
    /\ watchError \in BOOLEAN
    /\ history \in Workers({"result", "panicked"})
    /\ scan \in Workers({"result", "failed", "retry", "panicked"})
    /\ rescan \in BOOLEAN
    /\ scanners \in Nat
    /\ changes \in 0 .. MaxEvents
    /\ panics \in 0 .. MaxEvents - changes

Active == ActiveSlot(session)

ActiveMaterialized ==
    ActiveLoaded(session) \/ pc = "reload_active" \/ pendingSwitch = "load"

SlotsMatchDiscovery ==
    /\ \A i, j \in DOMAIN session.discovery :
          session.discovery[i] = session.discovery[j] => i = j
    /\ \A i \in DOMAIN session.workflows :
          session.workflows[i] # NoSlot => session.workflows[i].dir = session.discovery[i]

ResultsBelongToWorkflow ==
    \A i \in DOMAIN session.workflows :
        LET slot == session.workflows[i] IN
        slot # NoSlot => /\ slot.history \in {Nothing, Loading, slot.dir}
                         /\ slot.activity \in {Nothing, slot.dir}

(***************************************************************************)
(* `active_state()` panics on a slot that was never loaded.  Whatever      *)
(* rediscovery, cycling and picking do to the list, the active slot is     *)
(* loaded whenever the main thread may touch it (the only exceptions are   *)
(* inside a rediscovery and before the drain of a switch that will load),  *)
(* and a slot never shows another workflow than the one the list names at  *)
(* its position, although lists are replaced while slots stay loaded, nor  *)
(* what a worker found for another one and delivered late.                 *)
(***************************************************************************)
SlotsAreSound ==
    TypeOK /\ ActiveMaterialized /\ SlotsMatchDiscovery /\ ResultsBelongToWorkflow

(***************************************************************************)
(* A change that the watcher saw and the active workflow has not yet read  *)
(* is always accounted for: it is still being debounced, a signal waits,   *)
(* or the reload it will be read by is already on its way.                 *)
(***************************************************************************)
WatchedChangesArePending ==
    power \in {"on", "dead"} /\ ActiveLoaded(session) /\ Active.behind = "watched" =>
        dirty \/ signals > 0 \/ pc = "reload_active" \/ pendingSwitch = "reload"

OneScanAtATime == scanners = IF scan # NoWorker /\ scan.at = "running" THEN 1 ELSE 0

DiscardedScanIsRepeated ==
    pc = "frame" /\ scan # NoWorker /\ ~Active.failed /\ scan.dir # ActiveDir(session)
        => rescan

HistoryIsOnItsWay ==
    pc = "frame" /\ Active.history = Loading /\ ~Active.failed /\ panics = 0 =>
        history # NoWorker /\ history.dir = ActiveDir(session)

(***************************************************************************)
(* What the user waits for is being worked on: the history of the active   *)
(* workflow is never "loading" with nobody loading it, unless its last     *)
(* read failed or a worker thread died; and a scan of the session logs     *)
(* whose result will be thrown away, because the active workflow changed   *)
(* under it, is followed by another one.  Nobody is asked twice: at most   *)
(* one scan thread runs.                                                   *)
(***************************************************************************)
WorkersAnswer == HistoryIsOnItsWay /\ DiscardedScanIsRepeated /\ OneScanAtATime

(***************************************************************************)
(* A change under a running watcher reaches the active workflow.           *)
(***************************************************************************)
ActiveOwes == power = "on" /\ ActiveLoaded(session) /\ Active.behind = "watched"
ChangesReachScreen == ActiveOwes ~> ~ActiveOwes

(***************************************************************************)
(* The documented last step of a switch, "then start a fresh watcher":     *)
(* after it a watcher runs, unless its backend could not be started.       *)
(***************************************************************************)
SwitchStartsWatcher == pc = "sync" => power = "on" \/ power = "dead" \/ watchError
=============================================================================
