--------------------------- MODULE EventLoopProofs ---------------------------
(***************************************************************************)
(* The event loop, for any workflows and any number of changes: its slots  *)
(* are sound, a change that the watcher saw stays accounted for, and what  *)
(* the user waits for is being worked on.                                  *)
(*                                                                         *)
(* The last holds at the head of a frame only.  In between, the invariant  *)
(* is about the settled phases: no switch waits for its drain, no reload   *)
(* and no start of a watcher comes next, for these start the workers.      *)
(***************************************************************************)
EXTENDS EventLoop, FiniteSetTheorems, TLAPS

Distinct(list) == \A i, j \in DOMAIN list : list[i] = list[j] => i = j
GoodList(list) == list \in Lists /\ Distinct(list)

\* A slot of workflow d shows what was found for d.
SlotOf(slot, d) ==
    /\ slot \in Slots /\ slot.dir = d
    /\ slot.history \in {Nothing, Loading, d} /\ slot.activity \in {Nothing, d}

SlotsOf(list, slots) ==
    /\ slots = [i \in DOMAIN list |-> slots[i]]
    /\ \A i \in DOMAIN list : slots[i] = NoSlot \/ SlotOf(slots[i], list[i])

SessionOK(s) ==
    /\ s = [discovery |-> s.discovery, workflows |-> s.workflows, active |-> s.active]
    /\ GoodList(s.discovery) /\ SlotsOf(s.discovery, s.workflows)
    /\ s.active \in DOMAIN s.discovery

ScanOutcomes == {"result", "failed", "retry", "panicked"}

PlainTypes ==
    /\ pc \in {"frame", "activity", "periodic", "signals", "reload_active", "input",
               "overlay", "switch", "watch", "sync"}
    /\ disk \in [Dirs -> {"good", "broken", "unlisted", "gone"}]
    /\ mode \in {"Overview", "PickerOverlay", "Reader", "Panel", "GateRoom"}
    /\ room \in Dirs \cup {NoRoom} /\ scanRoot \in BOOLEAN
    /\ pendingSwitch \in {"none", "load", "reload"}
    /\ pendingOverlay \in BOOLEAN /\ pendingSync \in BOOLEAN
    /\ SourceTypeOK /\ watchError \in BOOLEAN
    /\ changes \in 0 .. MaxEvents /\ panics \in 0 .. MaxEvents - changes

WorkerTypes ==
    /\ history \in Workers({"result", "panicked"})
    /\ scan \in Workers(ScanOutcomes)
    /\ rescan \in BOOLEAN /\ scanners \in Nat

SessionIsOK == SessionOK(session) /\ GoodList(overlay)

\* A switch waits between the input and its drain, nowhere else.
SwitchWaits ==
    /\ pendingSwitch # "none" => pc \in {"overlay", "switch"}
    /\ pendingSwitch = "reload" => ActiveLoaded(session)

Sound ==
    /\ PlainTypes /\ WorkerTypes /\ SessionIsOK
    /\ ActiveMaterialized /\ SwitchWaits /\ OneScanAtATime

\* Before a watcher is started there is none, and all was just read.
BeforeWatcher == pc = "watch" => power = "off" /\ Active.behind # "watched"

Settled == pc \notin {"reload_active", "watch"} /\ pendingSwitch = "none"

HistoryComes ==
    /\ history # NoWorker /\ history.at = "panicked" => panics > 0
    /\ Settled /\ Active.history = Loading /\ ~Active.failed /\ panics = 0 =>
          history # NoWorker /\ history.dir = ActiveDir(session)

ScanComes ==
    Settled /\ scan # NoWorker /\ ~Active.failed /\ scan.dir # ActiveDir(session) => rescan

LoopInv == Sound /\ WatchedChangesArePending /\ BeforeWatcher /\ HistoryComes /\ ScanComes

----------------------------------------------------------------------------
(* Lists and sessions *)

LEMMA ListFacts == ASSUME NEW list \in Lists
                   PROVE  /\ list \in Seq(Dirs) /\ Len(list) \in Nat /\ DOMAIN list = 1 .. Len(list)
                          /\ \A i \in DOMAIN list : list[i] \in Dirs
<1>1. PICK n \in 0 .. Cardinality(Dirs) : list \in [1 .. n -> Dirs]
    BY DEF Lists
<1>2. n \in Nat
    OBVIOUS
<1>3. list \in Seq(Dirs)
    BY <1>1, <1>2
<1>4. QED
    BY <1>3

LEMMA ListingIsGood == ASSUME NEW S \in SUBSET Dirs, NEW list \in Listings(S)
                       PROVE  GoodList(list) /\ (S # {} => 1 \in DOMAIN list)
<1>1. list \in Lists /\ ToSet(list) = S /\ \A i, j \in DOMAIN list : i < j => list[i] < list[j]
    BY DEF Listings
<1>2. /\ Len(list) \in Nat /\ DOMAIN list = 1 .. Len(list)
      /\ \A i \in DOMAIN list : list[i] \in Nat
    BY <1>1, ListFacts, SessionConstants
<1>3. Distinct(list)
  <2> SUFFICES ASSUME NEW i \in DOMAIN list, NEW j \in DOMAIN list, list[i] = list[j] PROVE i = j
      BY DEF Distinct
  <2>1. i \in Nat /\ j \in Nat /\ ~(list[i] < list[j]) /\ ~(list[j] < list[i])
      BY <1>2
  <2>2. QED
      BY <1>1, <2>1
<1>4. S # {} => 1 \in DOMAIN list
    BY <1>1, <1>2 DEF ToSet
<1>5. QED
    BY <1>1, <1>3, <1>4 DEF GoodList

LEMMA FoundIsDirs == Found \in SUBSET Dirs
BY DEF Found

LEMMA PositionIsThere ==
    ASSUME NEW list, NEW d \in ToSet(list)
    PROVE  Position(list, d) \in DOMAIN list /\ list[Position(list, d)] = d
<1>1. \E i \in DOMAIN list : list[i] = d
    BY DEF ToSet
<1>2. QED
    BY <1>1 DEF Position

LEMMA SlotIsSlot == ASSUME NEW t, NEW d, SlotOf(t, d) PROVE t # NoSlot
BY SessionConstants DEF SlotOf

LEMMA InstallOK ==
    ASSUME NEW s, SessionOK(s), NEW t, SlotOf(t, ActiveDir(s))
    PROVE  /\ SessionOK(InstallActive(s, t))
           /\ ActiveSlot(InstallActive(s, t)) = t /\ ActiveLoaded(InstallActive(s, t))
           /\ ActiveDir(InstallActive(s, t)) = ActiveDir(s)
<1> DEFINE w == [s.workflows EXCEPT ![s.active] = t]
           r == InstallActive(s, t)
<1>1. r = [discovery |-> s.discovery, workflows |-> w, active |-> s.active]
    BY DEF InstallActive, SessionOK
<1>2. r.discovery = s.discovery /\ r.workflows = w /\ r.active = s.active
    BY <1>1
<1>3. /\ s.active \in DOMAIN s.discovery /\ SlotsOf(s.discovery, s.workflows)
      /\ GoodList(s.discovery)
    BY DEF SessionOK
<1>4. \A i \in DOMAIN s.discovery : w[i] = IF i = s.active THEN t ELSE s.workflows[i]
    BY <1>3 DEF SlotsOf
<1>5. w = [i \in DOMAIN s.discovery |-> w[i]]
    BY <1>3 DEF SlotsOf
<1>6. SlotsOf(s.discovery, w)
    BY <1>3, <1>4, <1>5 DEF SlotsOf, ActiveDir
<1>7. SessionOK(r)
    BY <1>1, <1>2, <1>3, <1>6 DEF SessionOK
<1>8. ActiveSlot(r) = t
    BY <1>2, <1>3, <1>4 DEF ActiveSlot
<1>9. QED
    BY <1>2, <1>7, <1>8, SlotIsSlot DEF ActiveLoaded, ActiveDir

LEMMA SelectOK ==
    ASSUME NEW s, SessionOK(s), NEW i \in DOMAIN s.discovery
    PROVE  SessionOK(Select(s, i)) /\ ActiveSlot(Select(s, i)) = s.workflows[i]
<1>1. Select(s, i) = [discovery |-> s.discovery, workflows |-> s.workflows, active |-> i]
    BY DEF SessionOK, Select
<1>2. QED
    BY <1>1 DEF SessionOK, ActiveSlot

LEMMA ReplaceOK ==
    ASSUME NEW s, SessionOK(s), NEW list, GoodList(list), 1 \in DOMAIN list
    PROVE  /\ SessionOK(ReplaceDiscovery(s, list))
           /\ ReplaceDiscovery(s, list).discovery = list
<1> DEFINE w == [i \in 1 .. Len(list) |->
                   IF list[i] \in ToSet(s.discovery)
                   THEN s.workflows[Position(s.discovery, list[i])] ELSE NoSlot]
           a == IF ActiveDir(s) \in ToSet(list) THEN Position(list, ActiveDir(s)) ELSE 1
<1>1. ReplaceDiscovery(s, list) = [discovery |-> list, workflows |-> w, active |-> a]
    BY DEF ReplaceDiscovery
<1>2. DOMAIN list = 1 .. Len(list)
    BY ListFacts DEF GoodList
<1>3. a \in DOMAIN list
    BY PositionIsThere
<1>4. SlotsOf(list, w)
  <2>1. ASSUME NEW i \in DOMAIN list, list[i] \in ToSet(s.discovery)
        PROVE  w[i] = NoSlot \/ SlotOf(w[i], list[i])
    <3>1. PICK j \in DOMAIN s.discovery : j = Position(s.discovery, list[i]) /\ s.discovery[j] = list[i]
        BY <2>1, PositionIsThere
    <3>2. w[i] = s.workflows[j]
        BY <1>2, <2>1, <3>1
    <3>3. QED
        BY <3>1, <3>2 DEF SessionOK, SlotsOf
  <2>2. ASSUME NEW i \in DOMAIN list, list[i] \notin ToSet(s.discovery) PROVE w[i] = NoSlot
      BY <1>2, <2>2
  <2>3. w = [i \in DOMAIN list |-> w[i]]
      BY <1>2
  <2>4. QED
      BY <2>1, <2>2, <2>3 DEF SlotsOf
<1>5. QED
    BY <1>1, <1>3, <1>4 DEF SessionOK

LEMMA SlotsMade ==
    ASSUME NEW d \in Dirs
    PROVE  SlotOf(EmptySlot(d), d) /\ SlotOf(LoadedSlot(d), d)
BY DEF EmptySlot, LoadedSlot, SlotOf, Slots

LEMMA SlotsChanged ==
    ASSUME NEW d \in Dirs, NEW t, SlotOf(t, d)
    PROVE  /\ SlotOf(Reloaded(t), d) /\ SlotOf(ReloadFailed(t), d)
           /\ SlotOf([t EXCEPT !.history = d], d) /\ SlotOf([t EXCEPT !.activity = d], d)
           /\ \A b \in {"no", "unwatched", "watched"} : SlotOf([t EXCEPT !.behind = b], d)
<1>1. t = [dir |-> t.dir, shown |-> t.shown, history |-> t.history, activity |-> t.activity,
           failed |-> t.failed, behind |-> t.behind]
    BY DEF SlotOf, Slots
<1>2. QED
    BY <1>1 DEF SlotOf, Slots, Reloaded, ReloadFailed

LEMMA SlotFields ==
    ASSUME NEW d, NEW t, SlotOf(t, d)
    PROVE  /\ ~Reloaded(t).failed /\ Reloaded(t).behind = "no"
           /\ ReloadFailed(t).failed /\ ReloadFailed(t).behind = "no"
           /\ [t EXCEPT !.history = d].failed = t.failed /\ [t EXCEPT !.history = d].behind = t.behind
           /\ [t EXCEPT !.history = d].history = d
           /\ [t EXCEPT !.activity = d].failed = t.failed /\ [t EXCEPT !.activity = d].behind = t.behind
           /\ [t EXCEPT !.activity = d].history = t.history
BY DEF SlotOf, Slots, Reloaded, ReloadFailed

LEMMA MadeFields ==
    ASSUME NEW d
    PROVE  /\ EmptySlot(d).failed /\ EmptySlot(d).behind = "no" /\ EmptySlot(d).history = Nothing
           /\ ~LoadedSlot(d).failed /\ LoadedSlot(d).behind = "no"
BY DEF EmptySlot, LoadedSlot

LEMMA ActiveFacts ==
    ASSUME NEW s, SessionOK(s)
    PROVE  /\ ActiveDir(s) \in Dirs
           /\ ActiveLoaded(s) => SlotOf(ActiveSlot(s), ActiveDir(s))
           /\ s.active \in DOMAIN s.discovery /\ GoodList(s.discovery)
BY ListFacts DEF SessionOK, GoodList, SlotsOf, ActiveDir, ActiveLoaded, ActiveSlot

----------------------------------------------------------------------------
(* Workers *)

LEMMA StartedHistory ==
    ASSUME NEW s, ActiveDir(s) \in Dirs, StartHistory(s)
    PROVE  /\ history' \in Workers({"result", "panicked"}) /\ history' # NoWorker
           /\ history'.dir = ActiveDir(s) /\ history'.at = "running"
BY LoopConstants DEF StartHistory, Workers

ScanIsOK == scan \in Workers(ScanOutcomes) /\ rescan \in BOOLEAN /\ scanners \in Nat /\ OneScanAtATime

LEMMA StartedScan ==
    ASSUME NEW s, ActiveDir(s) \in Dirs, scanners = 0, StartScan(s)
    PROVE  ScanIsOK' /\ (scan' # NoWorker => scan'.dir = ActiveDir(s))
<1>1. CASE scan' = NoWorker /\ UNCHANGED scanners /\ rescan' = FALSE
    BY <1>1 DEF ScanIsOK, OneScanAtATime, Workers
<1>2. CASE scan' = [dir |-> ActiveDir(s), at |-> "running"] /\ scanners' = scanners + 1 /\ rescan' = FALSE
  <2>1. scan' \in Workers(ScanOutcomes) /\ scan' # NoWorker /\ scan'.at = "running"
        /\ scan'.dir = ActiveDir(s)
      BY <1>2, LoopConstants DEF Workers
  <2>2. scanners' = 1
      BY <1>2
  <2>3. OneScanAtATime'
      BY <2>1, <2>2 DEF OneScanAtATime
  <2>4. rescan' \in BOOLEAN
      BY <1>2, Zenon
  <2>5. scanners' \in Nat
      BY <2>2
  <2>6. QED
      BY <2>1, <2>3, <2>4, <2>5 DEF ScanIsOK
<1>3. QED
    BY <1>1, <1>2 DEF StartScan

\* A scan is requested: one that runs is repeated, or one for s is started.
LEMMA RequestedScan ==
    ASSUME NEW s, ActiveDir(s) \in Dirs, ScanIsOK, RequestScan(s, scan)
    PROVE  ScanIsOK' /\ (scan' # NoWorker /\ scan'.dir # ActiveDir(s) => rescan')
<1>1. CASE scan # NoWorker
    BY <1>1 DEF RequestScan, ScanIsOK, OneScanAtATime
<1>2. CASE scan = NoWorker
  <2>1. scanners = 0 /\ StartScan(s)
      BY <1>2 DEF RequestScan, ScanIsOK, OneScanAtATime
  <2>2. QED
      BY <2>1, StartedScan
<1>3. QED
    BY <1>1, <1>2

----------------------------------------------------------------------------
(* The frame, phase by phase *)

LEMMA Parts ==
    ASSUME LoopInv
    PROVE  /\ PlainTypes /\ history \in Workers({"result", "panicked"}) /\ ScanIsOK
           /\ SessionOK(session) /\ GoodList(overlay) /\ ActiveMaterialized /\ SwitchWaits
           /\ WatchedChangesArePending /\ BeforeWatcher /\ HistoryComes /\ ScanComes
BY DEF LoopInv, Sound, WorkerTypes, ScanIsOK, SessionIsOK

LEMMA Whole ==
    ASSUME PlainTypes', history' \in Workers({"result", "panicked"}), ScanIsOK',
           SessionOK(session'), GoodList(overlay'), ActiveMaterialized', SwitchWaits',
           WatchedChangesArePending', BeforeWatcher', HistoryComes', ScanComes'
    PROVE  LoopInv'
BY DEF LoopInv, Sound, WorkerTypes, ScanIsOK, SessionIsOK

LEMMA IsLoaded ==
    ASSUME LoopInv, pc \notin {"overlay", "switch", "reload_active"}
    PROVE  /\ pendingSwitch = "none" /\ ActiveLoaded(session)
           /\ SlotOf(ActiveSlot(session), ActiveDir(session))
BY Parts, ActiveFacts DEF ActiveMaterialized, SwitchWaits

\* A step that leaves the session and the workers alone.
LEMMA Passing ==
    ASSUME LoopInv, UNCHANGED <<session, pendingSwitch, history, scan, rescan, scanners>>,
           PlainTypes', GoodList(overlay'), panics' >= panics,
           \/ pc' = pc
           \/ /\ pc' \notin {"reload_active", "watch"} /\ pc \notin {"reload_active", "watch"}
              /\ pendingSwitch = "none" \/ pc' \in {"overlay", "switch"},
           \/ UNCHANGED sourceVars
           \/ /\ pc # "watch"
              /\ power' \in {"on", "dead"} =>
                    power \in {"on", "dead"} /\ (dirty \/ signals > 0 => dirty' \/ signals' > 0)
    PROVE  LoopInv'
<1>1. ScanIsOK' /\ history' \in Workers({"result", "panicked"}) /\ SessionOK(session')
    BY Parts DEF ScanIsOK, OneScanAtATime
<1>2. ActiveMaterialized' /\ SwitchWaits'
    BY Parts DEF ActiveMaterialized, SwitchWaits
<1>3. WatchedChangesArePending'
    BY Parts DEF WatchedChangesArePending, Active, sourceVars
<1>4. BeforeWatcher'
    BY Parts DEF BeforeWatcher, Active, sourceVars
<1>5. panics' = 0 => panics = 0
    BY Parts DEF PlainTypes
<1>6. panics > 0 => panics' > 0
    BY Parts DEF PlainTypes
<1>7. HistoryComes' /\ ScanComes'
    BY <1>5, <1>6, Parts DEF HistoryComes, ScanComes, Settled, Active
<1>8. QED
    BY <1>1, <1>2, <1>3, <1>4, <1>7, Whole

LEMMA DrainHistoryKeeps == ASSUME LoopInv, DrainHistory PROVE LoopInv'
<1> DEFINE d == ActiveDir(session)
           t == ActiveSlot(session)
<1>1. /\ pc = "frame" /\ pc' = "activity"
      /\ UNCHANGED <<worldVars, viewVars, pendingVars, watchVars, scanVars>>
    BY DEF DrainHistory
<1>2. SlotOf(t, d) /\ d \in Dirs /\ pendingSwitch = "none" /\ ActiveLoaded(session)
    BY <1>1, Parts, IsLoaded, ActiveFacts
<1>3. PlainTypes' /\ GoodList(overlay')
    BY <1>1, Parts
    DEF PlainTypes, SourceTypeOK, worldVars, viewVars, pendingVars, watchVars
<1>4. CASE history # NoWorker /\ history.at # "running"
  <2>1. history' = NoWorker
      BY <1>4 DEF DrainHistory
  <2>2. \/ session' = session /\ (t.dir = history.dir => history.at = "panicked")
        \/ session' = InstallActive(session, [t EXCEPT !.history = d])
    <3>1. history.at \in {"result", "panicked"}
        BY <1>4, Parts DEF Workers
    <3>2. QED
        BY <1>2, <1>4, <3>1 DEF DrainHistory, ApplyHistory, SlotOf
  <2>3. /\ SessionOK(session') /\ ActiveLoaded(session') /\ ActiveDir(session') = d
        /\ ActiveSlot(session').failed = t.failed /\ ActiveSlot(session').behind = t.behind
        /\ \/ ActiveSlot(session') = t /\ (t.dir = history.dir => history.at = "panicked")
           \/ ActiveSlot(session').history = d
    <3>1. CASE session' = session /\ (t.dir = history.dir => history.at = "panicked")
        BY <1>2, <3>1, Parts
    <3>2. CASE session' = InstallActive(session, [t EXCEPT !.history = d])
      <4>1. SlotOf([t EXCEPT !.history = d], ActiveDir(session)) /\ SessionOK(session)
          BY <1>2, Parts, SlotsChanged
      <4>2. /\ SessionOK(session') /\ ActiveLoaded(session') /\ ActiveDir(session') = d
            /\ ActiveSlot(session') = [t EXCEPT !.history = d]
          BY <3>2, <4>1, InstallOK
      <4>3. QED
          BY <1>2, <4>2, SlotFields
    <3>3. QED
        BY <2>2, <3>1, <3>2
  <2>4. HistoryComes'
    <3> SUFFICES ASSUME ActiveSlot(session').history = Loading, ~t.failed, panics = 0 PROVE FALSE
        BY <1>1, <2>1, <2>3 DEF HistoryComes, Active, worldVars
    <3>1. d # Loading
        BY <1>2, SessionConstants
    <3>2. t.history = Loading /\ (t.dir = history.dir => history.at = "panicked")
        BY <2>3, <3>1
    <3>3. history.dir = d /\ history.at # "panicked"
        BY <1>1, <1>2, <1>4, <3>2, Parts DEF HistoryComes, Settled, Active, PlainTypes
    <3>4. QED
        BY <1>2, <3>2, <3>3 DEF SlotOf
  <2>5. ScanComes' /\ BeforeWatcher' /\ WatchedChangesArePending'
      BY <1>1, <1>2, <2>3, Parts
      DEF ScanComes, Settled, Active, BeforeWatcher, WatchedChangesArePending, scanVars, watchVars,
          pendingVars
  <2>6. ActiveMaterialized' /\ SwitchWaits' /\ ScanIsOK' /\ history' \in Workers({"result", "panicked"})
      BY <1>1, <1>2, <2>1, <2>3, Parts
      DEF ActiveMaterialized, SwitchWaits, ScanIsOK, OneScanAtATime, Workers, scanVars, pendingVars
  <2>7. QED
      BY <1>3, <2>3, <2>4, <2>5, <2>6, Whole
<1>5. CASE ~(history # NoWorker /\ history.at # "running")
  <2>1. UNCHANGED <<history, session>>
      BY <1>5 DEF DrainHistory
  <2>2. UNCHANGED <<pendingSwitch, scan, rescan, scanners, panics, sourceVars>>
      BY <1>1 DEF worldVars, pendingVars, watchVars, scanVars, sourceVars
  <2>3. panics' >= panics
      BY <2>2, Parts DEF PlainTypes
  <2>4. QED
      BY <1>1, <1>2, <1>3, <2>1, <2>2, <2>3, Passing
<1>6. QED
    BY <1>4, <1>5

LEMMA DrainActivityKeeps == ASSUME LoopInv, DrainActivity PROVE LoopInv'
<1> DEFINE d == ActiveDir(session)
           t == ActiveSlot(session)
<1>1. /\ pc = "activity" /\ pc' = "periodic"
      /\ UNCHANGED <<worldVars, viewVars, pendingVars, watchVars, history>>
    BY DEF DrainActivity
<1>2. SlotOf(t, d) /\ d \in Dirs /\ pendingSwitch = "none" /\ ActiveLoaded(session)
    BY <1>1, Parts, IsLoaded, ActiveFacts
<1>3. PlainTypes' /\ GoodList(overlay')
    BY <1>1, Parts
    DEF PlainTypes, SourceTypeOK, worldVars, viewVars, pendingVars, watchVars
<1>4. CASE scan # NoWorker /\ scan.at # "running"
  <2>1. session' = session \/ session' = InstallActive(session, [t EXCEPT !.activity = d])
      BY <1>2, <1>4 DEF DrainActivity, ApplyActivity, SlotOf
  <2>2. /\ SessionOK(session') /\ ActiveLoaded(session') /\ ActiveDir(session') = d
        /\ ActiveSlot(session').failed = t.failed /\ ActiveSlot(session').behind = t.behind
        /\ ActiveSlot(session').history = t.history
    <3>1. CASE session' = session
        BY <1>2, <3>1, Parts
    <3>2. CASE session' = InstallActive(session, [t EXCEPT !.activity = d])
      <4>1. SlotOf([t EXCEPT !.activity = d], ActiveDir(session)) /\ SessionOK(session)
          BY <1>2, Parts, SlotsChanged
      <4>2. /\ SessionOK(session') /\ ActiveLoaded(session') /\ ActiveDir(session') = d
            /\ ActiveSlot(session') = [t EXCEPT !.activity = d]
          BY <3>2, <4>1, InstallOK
      <4>3. QED
          BY <1>2, <4>2, SlotFields
    <3>3. QED
        BY <2>1, <3>1, <3>2
  <2>3. scanners = 0
      BY <1>4, Parts DEF ScanIsOK, OneScanAtATime
  <2>4. ScanIsOK' /\ (scan' # NoWorker => scan'.dir = d)
    <3>1. CASE StartScan(session')
        BY <1>2, <2>2, <2>3, <3>1, StartedScan
    <3>2. CASE scan' = NoWorker /\ UNCHANGED <<rescan, scanners>>
        BY <2>3, <3>2, Parts DEF ScanIsOK, OneScanAtATime, Workers
    <3>3. QED
        BY <1>4, <3>1, <3>2 DEF DrainActivity, RequestScan
  <2>5. ScanComes' /\ HistoryComes' /\ BeforeWatcher' /\ WatchedChangesArePending'
      BY <1>1, <1>2, <2>2, <2>4, Parts
      DEF ScanComes, HistoryComes, Settled, Active, BeforeWatcher, WatchedChangesArePending, watchVars,
          pendingVars, worldVars
  <2>6. ActiveMaterialized' /\ SwitchWaits' /\ history' \in Workers({"result", "panicked"})
      BY <1>1, <1>2, <2>2, Parts DEF ActiveMaterialized, SwitchWaits, pendingVars
  <2>7. QED
      BY <1>3, <2>2, <2>4, <2>5, <2>6, Whole
<1>5. CASE ~(scan # NoWorker /\ scan.at # "running")
  <2>1. UNCHANGED <<session, scanVars>>
      BY <1>5 DEF DrainActivity
  <2>2. UNCHANGED <<pendingSwitch, panics, sourceVars, scan, rescan, scanners>>
      BY <1>1, <2>1 DEF worldVars, pendingVars, watchVars, scanVars, sourceVars
  <2>3. panics' >= panics
      BY <2>2, Parts DEF PlainTypes
  <2>4. QED
      BY <1>1, <1>2, <1>3, <2>1, <2>2, <2>3, Passing
<1>6. QED
    BY <1>4, <1>5

LEMMA PeriodicScanKeeps == ASSUME LoopInv, PeriodicScan PROVE LoopInv'
<1>1. /\ pc = "periodic" /\ pc' = "signals"
      /\ UNCHANGED <<worldVars, viewVars, pendingVars, watchVars, history, session>>
    BY DEF PeriodicScan
<1>2. ActiveDir(session) \in Dirs /\ pendingSwitch = "none" /\ ActiveLoaded(session)
    BY <1>1, Parts, IsLoaded, ActiveFacts
<1>3. PlainTypes' /\ GoodList(overlay')
    BY <1>1, Parts
    DEF PlainTypes, SourceTypeOK, worldVars, viewVars, pendingVars, watchVars
<1>4. ScanIsOK' /\ ScanComes'
  <2>1. CASE RequestScan(session, scan)
      BY <1>1, <1>2, <2>1, Parts, RequestedScan DEF ScanComes
  <2>2. CASE UNCHANGED scanVars
      BY <1>1, <1>2, <2>2, Parts
      DEF ScanComes, Settled, Active, ScanIsOK, OneScanAtATime, scanVars, pendingVars
  <2>3. QED
      BY <2>1, <2>2 DEF PeriodicScan
<1>5. HistoryComes' /\ BeforeWatcher' /\ WatchedChangesArePending' /\ ActiveMaterialized' /\ SwitchWaits'
    BY <1>1, <1>2, Parts
    DEF HistoryComes, Settled, Active, BeforeWatcher, WatchedChangesArePending, ActiveMaterialized,
        SwitchWaits, watchVars, pendingVars, worldVars
<1>6. QED
    BY <1>1, <1>3, <1>4, <1>5, Parts, Whole

LEMMA Installed ==
    ASSUME LoopInv, NEW u, SlotOf(u, ActiveDir(session)), session' = InstallActive(session, u)
    PROVE  /\ SessionOK(session') /\ ActiveLoaded(session') /\ ActiveSlot(session') = u
           /\ ActiveDir(session') = ActiveDir(session)
BY Parts, InstallOK

\* The active slot was just read and its workers are at work.
LEMMA Reading ==
    ASSUME LoopInv, NEW u, SlotOf(u, ActiveDir(session)), session' = InstallActive(session, u),
           u.behind = "no", StartHistory(session), RequestScan(session', scan),
           pc' \notin {"reload_active", "watch"}, pendingSwitch' = "none",
           PlainTypes', GoodList(overlay')
    PROVE  LoopInv'
<1>1. /\ SessionOK(session') /\ ActiveLoaded(session') /\ ActiveSlot(session') = u
      /\ ActiveDir(session') = ActiveDir(session) /\ ActiveDir(session) \in Dirs
    BY Installed, Parts, ActiveFacts
<1>2. /\ history' \in Workers({"result", "panicked"}) /\ history' # NoWorker
      /\ history'.dir = ActiveDir(session') /\ history'.at = "running"
    BY <1>1, StartedHistory
<1>3. ScanIsOK' /\ (scan' # NoWorker /\ scan'.dir # ActiveDir(session') => rescan')
    BY <1>1, Parts, RequestedScan
<1>4. HistoryComes' /\ ScanComes'
    BY <1>2, <1>3 DEF HistoryComes, ScanComes
<1>5. ActiveMaterialized' /\ SwitchWaits' /\ WatchedChangesArePending' /\ BeforeWatcher'
    BY <1>1 DEF ActiveMaterialized, SwitchWaits, WatchedChangesArePending, BeforeWatcher, Active
<1>6. QED
    BY <1>1, <1>2, <1>3, <1>4, <1>5, Whole

LEMMA TakeSignalKeeps == ASSUME LoopInv, TakeSignal PROVE LoopInv'
<1> DEFINE d == ActiveDir(session)
<1>1. /\ pc = "signals" /\ power \in {"on", "dead"} /\ signals > 0 /\ signals' = signals - 1
      /\ UNCHANGED <<power, dirty, worldVars, viewVars, pendingVars, watchError>>
    BY DEF TakeSignal, Take
<1>2. d \in Dirs /\ pendingSwitch = "none" /\ pendingSwitch' = "none"
    BY <1>1, Parts, IsLoaded, ActiveFacts DEF pendingVars
<1>3. ASSUME pc' \in {"signals", "reload_active"} PROVE PlainTypes' /\ GoodList(overlay')
  <2>1. signals' \in 0 .. MaxSignals
      BY <1>1, Parts, LoopConstants DEF PlainTypes, SourceTypeOK
  <2>2. QED
      BY <1>1, <1>3, <2>1, Parts
      DEF PlainTypes, SourceTypeOK, worldVars, viewVars, pendingVars
<1>4. CASE AllRemoved
  <2>1. SlotOf(EmptySlot(d), d) /\ EmptySlot(d).behind = "no"
      BY <1>2, SlotsMade, MadeFields
  <2>2. /\ session' = InstallActive(session, EmptySlot(d)) /\ StartHistory(session')
        /\ RequestScan(session', scan) /\ pc' = "signals"
      BY <1>4 DEF AllRemoved
  <2>3. StartHistory(session)
      BY <2>1, <2>2, Installed DEF StartHistory
  <2>4. QED
      BY <1>2, <1>3, <2>1, <2>2, <2>3, Reading
<1>5. CASE pc' = "reload_active" /\ SessionOK(session') /\ UNCHANGED <<history, scanVars>>
  <2>1. ScanIsOK' /\ history' \in Workers({"result", "panicked"})
      BY <1>5, Parts DEF ScanIsOK, OneScanAtATime, scanVars
  <2>2. HistoryComes' /\ ScanComes'
      BY <1>1, <1>5, Parts DEF HistoryComes, ScanComes, Settled, worldVars
  <2>3. ActiveMaterialized' /\ SwitchWaits' /\ WatchedChangesArePending' /\ BeforeWatcher'
      BY <1>2, <1>5 DEF ActiveMaterialized, SwitchWaits, WatchedChangesArePending, BeforeWatcher
  <2>4. QED
      BY <1>3, <1>5, <2>1, <2>2, <2>3, Whole
<1>6. ASSUME NEW list \in Listings(Found), Found # {}, session' = ReplaceDiscovery(session, list)
      PROVE  SessionOK(session')
    BY <1>6, Parts, FoundIsDirs, ListingIsGood, ReplaceOK
<1>7. QED
    BY <1>4, <1>5, <1>6, Parts DEF TakeSignal

LEMMA ReadActiveGives ==
    ASSUME NEW s, SessionOK(s)
    PROVE  /\ SlotOf(ReadActive(s).slot, ActiveDir(s)) /\ ReadActive(s).slot.behind = "no"
           /\ ReadActive(s).ok \/ ReadActive(s).slot.failed
<1> DEFINE d == ActiveDir(s)
<1>1. d \in Dirs /\ (ActiveLoaded(s) => SlotOf(ActiveSlot(s), d))
    BY ActiveFacts
<1>2. /\ SlotOf(EmptySlot(d), d) /\ SlotOf(LoadedSlot(d), d)
      /\ ActiveLoaded(s) => SlotOf(Reloaded(ActiveSlot(s)), d) /\ SlotOf(ReloadFailed(ActiveSlot(s)), d)
    BY <1>1, SlotsMade, SlotsChanged
<1>3. /\ EmptySlot(d).failed /\ EmptySlot(d).behind = "no" /\ LoadedSlot(d).behind = "no"
      /\ ActiveLoaded(s) => /\ Reloaded(ActiveSlot(s)).behind = "no"
                            /\ ReloadFailed(ActiveSlot(s)).behind = "no"
                            /\ ReloadFailed(ActiveSlot(s)).failed
    BY <1>1, MadeFields, SlotFields
<1>4. QED
    BY <1>2, <1>3 DEF ReadActive

LEMMA ReloadActiveKeeps == ASSUME LoopInv, ReloadActive PROVE LoopInv'
<1> DEFINE u == ReadActive(session).slot
<1>1. /\ pc = "reload_active" /\ pc' = "signals" /\ session' = InstallActive(session, u)
      /\ UNCHANGED <<worldVars, overlay, pendingVars, watchVars>>
    BY DEF ReloadActive
<1>2. /\ SlotOf(u, ActiveDir(session)) /\ u.behind = "no"
      /\ ReadActive(session).ok \/ u.failed
    BY Parts, ReadActiveGives
<1>3. pendingSwitch = "none" /\ pendingSwitch' = "none"
    BY <1>1, Parts DEF SwitchWaits, pendingVars
<1>4. PlainTypes' /\ GoodList(overlay')
  <2>1. mode' \in {"Overview", mode} /\ room' \in {NoRoom, room}
      BY DEF ReloadActive, RefreshGateRoom
  <2>2. QED
      BY <1>1, <2>1, Parts
      DEF PlainTypes, SourceTypeOK, worldVars, pendingVars, watchVars
<1>5. CASE StartHistory(session) /\ RequestScan(session', scan)
    BY <1>1, <1>2, <1>3, <1>4, <1>5, Reading
<1>6. CASE u.failed /\ UNCHANGED <<history, scanVars>>
  <2>1. SessionOK(session') /\ ActiveLoaded(session') /\ ActiveSlot(session') = u
      BY <1>1, <1>2, Installed
  <2>2. ScanIsOK' /\ history' \in Workers({"result", "panicked"})
      BY <1>6, Parts DEF ScanIsOK, OneScanAtATime, scanVars
  <2>3. HistoryComes' /\ ScanComes'
      BY <1>1, <1>6, <2>1, Parts DEF HistoryComes, ScanComes, Active, worldVars
  <2>4. ActiveMaterialized' /\ SwitchWaits' /\ WatchedChangesArePending' /\ BeforeWatcher'
      BY <1>1, <1>2, <1>3, <2>1
      DEF ActiveMaterialized, SwitchWaits, WatchedChangesArePending, BeforeWatcher, Active
  <2>5. QED
      BY <1>4, <2>1, <2>2, <2>3, <2>4, Whole
<1>7. QED
    BY <1>2, <1>5, <1>6 DEF ReloadActive

LEMMA NoSignalKeeps == ASSUME LoopInv, NoSignal PROVE LoopInv'
<1>1. /\ pc = "signals" /\ pc' = "input"
      /\ UNCHANGED <<worldVars, viewVars, session, pendingVars, dirty, signals, history, scanVars>>
      /\ power' = power \/ power' = "off"
    BY DEF NoSignal
<1>2. watchError' \in BOOLEAN /\ pendingSwitch = "none"
    BY <1>1, Parts, IsLoaded DEF NoSignal, PlainTypes
<1>3. PlainTypes' /\ GoodList(overlay')
    BY <1>1, <1>2, Parts DEF PlainTypes, SourceTypeOK, worldVars, viewVars, pendingVars
<1>4. UNCHANGED <<session, pendingSwitch, history, scan, rescan, scanners, panics>> /\ panics' >= panics
    BY <1>1, Parts DEF PlainTypes, worldVars, pendingVars, scanVars
<1>5. QED
    BY <1>1, <1>2, <1>3, <1>4, Passing

----------------------------------------------------------------------------
(* Input, and what it left pending *)

LEMMA NoListIsGood == GoodList(<<>>)
<1>1. Cardinality(Dirs) \in Nat
    BY FS_CardinalityType, SessionConstants
<1>2. <<>> \in [1 .. 0 -> Dirs] /\ 0 \in 0 .. Cardinality(Dirs)
    BY <1>1
<1>3. QED
    BY <1>2 DEF GoodList, Lists, Distinct

LEMMA Switching ==
    ASSUME LoopInv, pc = "input", pc' = "overlay", NEW s, SessionOK(s), NEW i \in DOMAIN s.discovery,
           SwitchTo(s, i), PlainTypes', GoodList(overlay'), UNCHANGED <<history, scanVars, panics>>
    PROVE  LoopInv'
<1>1. /\ SessionOK(session') /\ ActiveSlot(session') = s.workflows[i]
      /\ pendingSwitch' = IF ActiveLoaded(session') THEN "reload" ELSE "load"
    BY SelectOK DEF SwitchTo, ActiveLoaded
<1>2. ScanIsOK' /\ history' \in Workers({"result", "panicked"})
    BY Parts DEF ScanIsOK, OneScanAtATime, scanVars
<1>3. HistoryComes' /\ ScanComes'
    BY <1>1, Parts DEF HistoryComes, ScanComes, Settled
<1>4. ActiveMaterialized' /\ SwitchWaits' /\ WatchedChangesArePending' /\ BeforeWatcher'
    BY <1>1 DEF ActiveMaterialized, SwitchWaits, WatchedChangesArePending, BeforeWatcher
<1>5. QED
    BY <1>1, <1>2, <1>3, <1>4, Whole

LEMMA InputKeeps == ASSUME LoopInv, Input PROVE LoopInv'
<1>1. /\ pc = "input" /\ pc' = "overlay" /\ pendingSwitch = "none"
      /\ UNCHANGED <<worldVars, watchVars, history, scanVars>>
    BY Parts DEF Input, SwitchWaits
<1>2. SessionOK(session) /\ GoodList(overlay) /\ GoodList(<<>>) /\ ActiveDir(session) \in Dirs
    BY Parts, NoListIsGood, ActiveFacts
<1>3. UNCHANGED <<history, scan, rescan, scanners, scanVars, panics, sourceVars>> /\ panics' >= panics
    BY <1>1, Parts DEF PlainTypes, worldVars, watchVars, scanVars, sourceVars
<1>4. ASSUME mode' \in {"Overview", "PickerOverlay", "Reader", "Panel", "GateRoom"},
             room' \in Dirs \cup {NoRoom},
             pendingSwitch' \in {"none", "load", "reload"}, pendingOverlay' \in BOOLEAN, pendingSync' \in BOOLEAN
      PROVE  PlainTypes'
    BY <1>1, <1>4, Parts DEF PlainTypes, SourceTypeOK, worldVars, watchVars
<1>5. /\ mode \in {"Overview", "PickerOverlay", "Reader", "Panel", "GateRoom"}
      /\ room \in Dirs \cup {NoRoom}
      /\ pendingOverlay \in BOOLEAN /\ pendingSync \in BOOLEAN
    BY Parts DEF PlainTypes
<1>6. CASE KeyCycle
  <2>1. PICK i \in {CycleNext(session), CyclePrev(session)} : SwitchTo(session, i)
      BY <1>6 DEF KeyCycle
  <2>2. i \in DOMAIN session.discovery
    <3>1. /\ Len(session.discovery) \in Nat /\ DOMAIN session.discovery = 1 .. Len(session.discovery)
          /\ session.active \in DOMAIN session.discovery
        BY <1>2, ActiveFacts, ListFacts DEF GoodList
    <3>2. QED
        BY <3>1 DEF CycleNext, CyclePrev
  <2>3. pendingSwitch' \in {"load", "reload"}
      BY <2>1 DEF SwitchTo
  <2>4. UNCHANGED <<mode, room, overlay, pendingOverlay, pendingSync>>
      BY <1>6 DEF KeyCycle, viewVars
  <2>5. PlainTypes' /\ GoodList(overlay')
      BY <1>2, <1>4, <1>5, <2>3, <2>4
  <2>6. QED
      BY <1>1, <1>2, <1>3, <2>1, <2>2, <2>5, Switching
<1>7. CASE KeyConfirms
  <2>1. PICK i \in DOMAIN overlay : SwitchTo(ReplaceDiscovery(session, overlay), i)
      BY <1>7 DEF KeyConfirms
  <2>2. /\ SessionOK(ReplaceDiscovery(session, overlay))
        /\ i \in DOMAIN ReplaceDiscovery(session, overlay).discovery
    <3>1. 1 \in DOMAIN overlay
        BY <1>2, <2>1, ListFacts DEF GoodList
    <3>2. QED
        BY <1>2, <2>1, <3>1, ReplaceOK
  <2>3. pendingSwitch' \in {"load", "reload"}
      BY <2>1 DEF SwitchTo
  <2>4. mode' = "Overview" /\ overlay' = <<>> /\ UNCHANGED <<room, pendingOverlay, pendingSync>>
      BY <1>7 DEF KeyConfirms
  <2>5. PlainTypes' /\ GoodList(overlay')
      BY <1>2, <1>4, <1>5, <2>3, <2>4
  <2>6. QED
      BY <1>1, <1>2, <1>3, <2>1, <2>2, <2>5, Switching
<1>8. CASE KeyOverlay \/ KeySync \/ KeyOpens \/ KeyOpensGateRoom \/ KeyReturns \/ NoKey
  <2>1. UNCHANGED <<session, pendingSwitch>>
      BY <1>8 DEF KeyOverlay, KeySync, KeyOpens, KeyOpensGateRoom, KeyReturns, NoKey, pendingVars
  <2>2. /\ mode' \in {"Overview", "PickerOverlay", "Reader", "Panel", "GateRoom"}
        /\ room' \in Dirs \cup {NoRoom} /\ overlay' \in {overlay, <<>>}
      BY <1>2, <1>5, <1>8
      DEF KeyOverlay, KeySync, KeyOpens, KeyOpensGateRoom, KeyReturns, NoKey, viewVars
  <2>3. pendingOverlay' \in BOOLEAN /\ pendingSync' \in BOOLEAN
      BY <1>5, <1>8
      DEF KeyOverlay, KeySync, KeyOpens, KeyOpensGateRoom, KeyReturns, NoKey, pendingVars
  <2>4. PlainTypes' /\ GoodList(overlay')
      BY <1>1, <1>2, <1>4, <2>1, <2>2, <2>3
  <2>5. QED
      BY <1>1, <1>3, <2>1, <2>4, Passing
<1>9. QED
    BY <1>6, <1>7, <1>8 DEF Input

LEMMA OpenOverlayKeeps == ASSUME LoopInv, OpenOverlay PROVE LoopInv'
<1>1. /\ pc = "overlay" /\ pc' = "switch" /\ pendingOverlay' = FALSE
      /\ UNCHANGED <<worldVars, room, session, pendingSwitch, pendingSync, watchVars, history, scanVars>>
      /\ mode' \in {"PickerOverlay", mode}
      /\ overlay' \in {session.discovery, overlay} \cup Listings(Found)
    BY DEF OpenOverlay
<1>2. GoodList(overlay')
    BY <1>1, Parts, ActiveFacts, FoundIsDirs, ListingIsGood
<1>3. PlainTypes'
    BY <1>1, Parts DEF PlainTypes, SourceTypeOK, worldVars, watchVars
<1>4. UNCHANGED <<scan, rescan, scanners, sourceVars>> /\ panics' >= panics
    BY <1>1, Parts DEF PlainTypes, worldVars, watchVars, scanVars, sourceVars
<1>5. QED
    BY <1>1, <1>2, <1>3, <1>4, Passing

LEMMA NoSwitchKeeps == ASSUME LoopInv, NoSwitch PROVE LoopInv'
<1>1. /\ pc = "switch" /\ pc' = "sync" /\ pendingSwitch = "none"
      /\ UNCHANGED <<worldVars, viewVars, session, pendingVars, watchVars, history, scanVars>>
    BY DEF NoSwitch
<1>2. PlainTypes' /\ GoodList(overlay')
    BY <1>1, Parts DEF PlainTypes, SourceTypeOK, worldVars, viewVars, pendingVars, watchVars
<1>3. /\ UNCHANGED <<session, pendingSwitch, history, scan, rescan, scanners, sourceVars>>
      /\ panics' >= panics
    BY <1>1, Parts DEF PlainTypes, worldVars, pendingVars, watchVars, scanVars, sourceVars
<1>4. QED
    BY <1>1, <1>2, <1>3, Passing

LEMMA SwitchReadsKeeps == ASSUME LoopInv, SwitchReads PROVE LoopInv'
<1> DEFINE d == ActiveDir(session)
           t == ActiveSlot(session)
<1>1. /\ pc = "switch" /\ pc' = "watch" /\ power' = "off" /\ dirty' = FALSE /\ signals' = 0
      /\ pendingSwitch' = "none" /\ pendingSwitch # "none"
      /\ UNCHANGED <<worldVars, viewVars, pendingOverlay, pendingSync, watchError, history, scanVars>>
    BY DEF SwitchReads
<1>2. d \in Dirs /\ (pendingSwitch = "reload" => SlotOf(t, d))
    BY Parts, ActiveFacts DEF SwitchWaits
<1>3. PICK u : session' = InstallActive(session, u) /\ SlotOf(u, d) /\ u.behind = "no"
  <2>1. /\ SlotOf(EmptySlot(d), d) /\ SlotOf(LoadedSlot(d), d)
        /\ EmptySlot(d).behind = "no" /\ LoadedSlot(d).behind = "no"
      BY <1>2, SlotsMade, MadeFields
  <2>2. CASE pendingSwitch = "load"
      BY <2>1, <2>2 DEF SwitchReads
  <2>3. CASE pendingSwitch = "reload"
    <3>1. /\ SlotOf(Reloaded(t), d) /\ SlotOf(ReloadFailed(t), d)
          /\ Reloaded(t).behind = "no" /\ ReloadFailed(t).behind = "no"
        BY <1>2, <2>3, SlotsChanged, SlotFields
    <3>2. QED
        BY <2>3, <3>1 DEF SwitchReads
  <2>4. QED
      BY <1>1, <2>2, <2>3, Parts DEF PlainTypes
<1>4. SessionOK(session') /\ ActiveLoaded(session') /\ ActiveSlot(session') = u
    BY <1>3, Installed
<1>5. signals' \in 0 .. MaxSignals
    BY <1>1, LoopConstants
<1>6. PlainTypes' /\ GoodList(overlay')
    BY <1>1, <1>5, Parts DEF PlainTypes, SourceTypeOK, worldVars, viewVars
<1>7. ScanIsOK' /\ history' \in Workers({"result", "panicked"})
    BY <1>1, Parts DEF ScanIsOK, OneScanAtATime, scanVars
<1>8. HistoryComes' /\ ScanComes'
    BY <1>1, Parts DEF HistoryComes, ScanComes, Settled, worldVars
<1>9. ActiveMaterialized' /\ SwitchWaits' /\ WatchedChangesArePending' /\ BeforeWatcher'
    BY <1>1, <1>3, <1>4
    DEF ActiveMaterialized, SwitchWaits, WatchedChangesArePending, BeforeWatcher, Active
<1>10. QED
    BY <1>4, <1>6, <1>7, <1>8, <1>9, Whole

\* The session stays as it is and its workers are asked again.
LEMMA Asked ==
    ASSUME LoopInv, session' = session, ActiveLoaded(session),
           StartHistory(session), RequestScan(session', scan),
           pc' \notin {"reload_active", "watch"}, pendingSwitch' = "none",
           PlainTypes', GoodList(overlay'), WatchedChangesArePending'
    PROVE  LoopInv'
<1>1. SessionOK(session') /\ ActiveDir(session') = ActiveDir(session) /\ ActiveDir(session) \in Dirs
    BY Parts, ActiveFacts
<1>2. /\ history' \in Workers({"result", "panicked"}) /\ history' # NoWorker
      /\ history'.dir = ActiveDir(session') /\ history'.at = "running"
    BY <1>1, StartedHistory
<1>3. ScanIsOK' /\ (scan' # NoWorker /\ scan'.dir # ActiveDir(session') => rescan')
    BY <1>1, Parts, RequestedScan
<1>4. HistoryComes' /\ ScanComes'
    BY <1>2, <1>3 DEF HistoryComes, ScanComes
<1>5. ActiveMaterialized' /\ SwitchWaits' /\ BeforeWatcher'
    BY DEF ActiveMaterialized, SwitchWaits, BeforeWatcher
<1>6. QED
    BY <1>1, <1>2, <1>3, <1>4, <1>5, Whole

LEMMA WatchKeeps == ASSUME LoopInv, Watch PROVE LoopInv'
<1>1. /\ pc = "watch" /\ pc' = "sync" /\ session' = session /\ dirty' = FALSE /\ signals' = 0
      /\ StartHistory(session) /\ RequestScan(session', scan)
      /\ UNCHANGED <<worldVars, viewVars, pendingVars>>
    BY DEF Watch, StartWatcher
<1>2. pendingSwitch = "none" /\ pendingSwitch' = "none" /\ ActiveLoaded(session)
    BY <1>1, IsLoaded DEF pendingVars
<1>3. power' \in {"on", "off"}
    BY DEF Watch, StartWatcher
<1>4. watchError' \in BOOLEAN
  <2>1. watchError' = TRUE \/ watchError' = FALSE \/ watchError' = watchError
      BY DEF Watch, StartWatcher
  <2>2. QED
      BY <2>1, Parts DEF PlainTypes
<1>5. signals' \in 0 .. MaxSignals
    BY <1>1, LoopConstants
<1>6. dirty' \in BOOLEAN
    BY <1>1, Zenon
<1>7. PlainTypes' /\ GoodList(overlay')
    BY <1>1, <1>3, <1>4, <1>5, <1>6, Parts
    DEF PlainTypes, SourceTypeOK, worldVars, viewVars, pendingVars
<1>8. WatchedChangesArePending'
    BY <1>1, Parts DEF BeforeWatcher, WatchedChangesArePending, Active
<1>9. QED
    BY <1>1, <1>2, <1>7, <1>8, Asked

LEMMA SyncKeeps == ASSUME LoopInv, Sync PROVE LoopInv'
<1> DEFINE t == ActiveSlot(session)
<1>1. /\ pc = "sync" /\ pc' = "frame" /\ pendingSync' = FALSE
      /\ UNCHANGED <<worldVars, viewVars, pendingSwitch, pendingOverlay, watchVars>>
    BY DEF Sync
<1>2. /\ pendingSwitch = "none" /\ pendingSwitch' = "none" /\ ActiveLoaded(session)
      /\ SlotOf(t, ActiveDir(session)) /\ ActiveDir(session) \in Dirs
    BY <1>1, Parts, IsLoaded, ActiveFacts
<1>3. pendingSync' \in BOOLEAN
    BY <1>1, Zenon
<1>4. PlainTypes' /\ GoodList(overlay')
    BY <1>1, <1>3, Parts DEF PlainTypes, SourceTypeOK, worldVars, viewVars, watchVars
<1>5. UNCHANGED <<sourceVars, panics>> /\ panics' >= panics
    BY <1>1, Parts DEF PlainTypes, worldVars, watchVars, sourceVars
<1>6. CASE ~pendingSync
  <2>1. UNCHANGED <<session, history, scan, rescan, scanners>>
      BY <1>6 DEF Sync, scanVars
  <2>2. QED
      BY <1>1, <1>2, <1>4, <1>5, <2>1, Passing
<1>7. CASE pendingSync
  <2>1. StartHistory(session) /\ RequestScan(session', scan)
      BY <1>7 DEF Sync
  <2>2. CASE session' = session
    <3>1. WatchedChangesArePending'
        BY <1>1, <1>2, <1>5, <2>2, Parts DEF WatchedChangesArePending, Active, sourceVars
    <3>2. QED
        BY <1>1, <1>2, <1>4, <2>1, <2>2, <3>1, Asked
  <2>3. ASSUME NEW u \in {Reloaded(t), ReloadFailed(t)}, session' = InstallActive(session, u)
        PROVE  LoopInv'
    <3> DEFINE d == ActiveDir(session)
    <3>1. /\ SlotOf(Reloaded(t), d) /\ SlotOf(ReloadFailed(t), d)
          /\ Reloaded(t).behind = "no" /\ ReloadFailed(t).behind = "no"
      <4>1. d \in Dirs /\ SlotOf(t, d)
          BY <1>2
      <4> HIDE DEF d, t
      <4>2. QED
          BY <4>1, SlotsChanged, SlotFields
    <3>2. QED
        BY <1>1, <1>2, <1>4, <2>1, <2>3, <3>1, Reading
  <2>4. QED
      BY <1>7, <2>2, <2>3 DEF Sync
<1>8. QED
    BY <1>6, <1>7

----------------------------------------------------------------------------
(* Other threads and processes *)

LEMMA HistoryFinishesKeeps == ASSUME LoopInv, HistoryFinishes PROVE LoopInv'
<1>1. /\ history # NoWorker /\ history.at = "running"
      /\ UNCHANGED <<pc, disk, viewVars, scanRoot, session, pendingVars, watchVars, scanVars, changes>>
    BY DEF HistoryFinishes
<1>2. PICK at \in {"result", "panicked"} :
          /\ history' = [history EXCEPT !.at = at]
          /\ at = "panicked" => changes + panics < MaxEvents
          /\ panics' = IF at = "panicked" THEN panics + 1 ELSE panics
    BY DEF HistoryFinishes
<1>3. history' \in Workers({"result", "panicked"}) /\ history'.dir = history.dir
      /\ history'.at = at /\ history' # NoWorker
  <2>1. history \in [dir : Dirs, at : {"running", "result", "panicked"}]
      BY <1>1, Parts DEF Workers
  <2>2. history' = [dir |-> history.dir, at |-> at] /\ history.dir \in Dirs
      BY <1>2, <2>1
  <2>3. QED
      BY <2>2, LoopConstants DEF Workers
<1>4. panics' \in 0 .. MaxEvents - changes /\ (at = "panicked" => panics' > 0) /\ panics' >= panics
    BY <1>2, Parts, LoopConstants DEF PlainTypes
<1>5. PlainTypes' /\ GoodList(overlay')
    BY <1>1, <1>4, Parts DEF PlainTypes, SourceTypeOK, viewVars, pendingVars, watchVars
<1>6. ScanIsOK' /\ SessionOK(session') /\ ActiveMaterialized' /\ SwitchWaits'
    BY <1>1, Parts
    DEF ScanIsOK, OneScanAtATime, ActiveMaterialized, SwitchWaits, scanVars, pendingVars
<1>7. WatchedChangesArePending' /\ BeforeWatcher' /\ ScanComes'
    BY <1>1, Parts
    DEF WatchedChangesArePending, BeforeWatcher, ScanComes, Settled, Active, watchVars, scanVars,
        pendingVars
<1>8. panics' = 0 => panics = 0
    BY <1>4, Parts DEF PlainTypes
<1>9. HistoryComes'
    BY <1>1, <1>3, <1>4, <1>8, Parts DEF HistoryComes, Settled, Active, pendingVars
<1>10. QED
    BY <1>3, <1>5, <1>6, <1>7, <1>9, Whole

LEMMA ScanFinishesKeeps == ASSUME LoopInv, ScanFinishes PROVE LoopInv'
<1>1. /\ scan # NoWorker /\ scan.at = "running" /\ scanners' = scanners - 1
      /\ UNCHANGED <<pc, disk, viewVars, scanRoot, session, pendingVars, watchVars, history, rescan, changes>>
    BY DEF ScanFinishes
<1>2. PICK at \in ScanOutcomes :
          /\ scan' = [scan EXCEPT !.at = at]
          /\ at = "panicked" => changes + panics < MaxEvents
          /\ panics' = IF at = "panicked" THEN panics + 1 ELSE panics
    BY DEF ScanFinishes, ScanOutcomes
<1>3. scan' \in Workers(ScanOutcomes) /\ scan'.dir = scan.dir /\ scan'.at = at /\ scan' # NoWorker
  <2>1. scan \in [dir : Dirs, at : {"running"} \cup ScanOutcomes]
      BY <1>1, Parts DEF Workers, ScanIsOK
  <2>2. scan' = [dir |-> scan.dir, at |-> at] /\ scan.dir \in Dirs
      BY <1>2, <2>1
  <2>3. QED
      BY <2>2, LoopConstants DEF Workers, ScanOutcomes
<1>4. panics' \in 0 .. MaxEvents - changes /\ panics' >= panics
    BY <1>2, Parts, LoopConstants DEF PlainTypes
<1>5. PlainTypes' /\ GoodList(overlay')
    BY <1>1, <1>4, Parts DEF PlainTypes, SourceTypeOK, viewVars, pendingVars, watchVars
<1>6. scanners' = 0
    BY <1>1, Parts DEF ScanIsOK, OneScanAtATime
<1>7. OneScanAtATime'
    BY <1>2, <1>3, <1>6 DEF OneScanAtATime, ScanOutcomes
<1>8. ScanIsOK'
    BY <1>1, <1>3, <1>6, <1>7, Parts DEF ScanIsOK
<1>9. /\ SessionOK(session') /\ ActiveMaterialized' /\ SwitchWaits'
      /\ history' \in Workers({"result", "panicked"})
    BY <1>1, Parts DEF ActiveMaterialized, SwitchWaits, pendingVars
<1>10. WatchedChangesArePending' /\ BeforeWatcher' /\ ScanComes'
    BY <1>1, <1>3, Parts
    DEF WatchedChangesArePending, BeforeWatcher, ScanComes, Settled, Active, watchVars, pendingVars
<1>11. (panics' = 0 => panics = 0) /\ (panics > 0 => panics' > 0)
    BY <1>4, Parts DEF PlainTypes
<1>12. HistoryComes'
    BY <1>1, <1>11, Parts DEF HistoryComes, Settled, Active, pendingVars
<1>13. QED
    BY <1>5, <1>8, <1>9, <1>10, <1>12, Whole

\* A change on disk touches nothing but what a slot is behind by.
LEMMA ChangedSession ==
    ASSUME LoopInv, NEW d \in Dirs, NEW what, DiskChanges(d, what)
    PROVE  /\ SessionOK(session') /\ ActiveDir(session') = ActiveDir(session)
           /\ ActiveLoaded(session') <=> ActiveLoaded(session)
           /\ ActiveLoaded(session) =>
                /\ ActiveSlot(session').history = Active.history
                /\ ActiveSlot(session').failed = Active.failed
                /\ power # "on" => (ActiveSlot(session').behind = "watched" <=> Active.behind = "watched")
<1> DEFINE new(b) == IF power = "on" \/ b = "watched" THEN "watched" ELSE "unwatched"
           old == session.workflows
           w == [i \in DOMAIN old |-> IF old[i] # NoSlot /\ session.discovery[i] = d
                                      THEN LeftBehind(old[i]) ELSE old[i]]
<1>1. /\ session = [discovery |-> session.discovery, workflows |-> old, active |-> session.active]
      /\ SlotsOf(session.discovery, old) /\ GoodList(session.discovery)
      /\ session.active \in DOMAIN session.discovery /\ DOMAIN old = DOMAIN session.discovery
    BY Parts DEF SessionOK, SlotsOf
<1>2. session' = [session EXCEPT !.workflows = w]
    BY DEF DiskChanges
<1>3. session' = [discovery |-> session.discovery, workflows |-> w, active |-> session.active]
    BY <1>1, <1>2
<1>4. ASSUME NEW i \in DOMAIN old, old[i] # NoSlot
      PROVE  /\ SlotOf(w[i], session.discovery[i]) /\ w[i].history = old[i].history
             /\ w[i].failed = old[i].failed
             /\ power # "on" => (w[i].behind = "watched" <=> old[i].behind = "watched")
  <2> DEFINE e == session.discovery[i]
             b == new(old[i].behind)
             u == [old[i] EXCEPT !.behind = b]
  <2>1. SlotOf(old[i], e) /\ e \in Dirs
      BY <1>1, <1>4, ListFacts DEF SlotsOf, GoodList
  <2>2. b \in {"no", "unwatched", "watched"}
      OBVIOUS
  <2>3. SlotOf(u, e)
      BY <2>1, <2>2, SlotsChanged
  <2>4. u.history = old[i].history /\ u.failed = old[i].failed /\ u.behind = b
    <3>1. old[i] = [dir |-> old[i].dir, shown |-> old[i].shown, history |-> old[i].history,
                    activity |-> old[i].activity, failed |-> old[i].failed, behind |-> old[i].behind]
        BY <2>1 DEF SlotOf, Slots
    <3>2. QED
        BY <3>1
  <2>5. w[i] = u \/ w[i] = old[i]
      BY <1>4 DEF LeftBehind
  <2>6. power # "on" => (b = "watched" <=> old[i].behind = "watched")
      OBVIOUS
  <2>7. QED
      BY <2>1, <2>3, <2>4, <2>5, <2>6
<1>5. ASSUME NEW i \in DOMAIN old, old[i] = NoSlot PROVE w[i] = NoSlot
    BY <1>5
<1>6. SlotsOf(session.discovery, w)
    BY <1>1, <1>4, <1>5 DEF SlotsOf
<1>7. SessionOK(session')
    BY <1>1, <1>3, <1>6 DEF SessionOK
<1>8. ActiveDir(session') = ActiveDir(session) /\ ActiveSlot(session') = w[session.active]
    BY <1>3 DEF ActiveDir, ActiveSlot
<1>9. session.active \in DOMAIN old /\ Active = old[session.active]
    BY <1>1 DEF Active, ActiveSlot
<1>10. ActiveLoaded(session) => ActiveSlot(session') # NoSlot
    BY <1>4, <1>8, <1>9, SlotIsSlot DEF ActiveLoaded, Active
<1>11. ~ActiveLoaded(session) => ActiveSlot(session') = NoSlot
    BY <1>5, <1>8, <1>9 DEF ActiveLoaded, Active
<1>12. QED
    BY <1>4, <1>7, <1>8, <1>9, <1>10, <1>11 DEF ActiveLoaded, Active

LEMMA DiskChangesKeeps ==
    ASSUME LoopInv, NEW d \in Dirs, NEW what \in {"good", "broken", "unlisted", "gone"},
           DiskChanges(d, what)
    PROVE  LoopInv'
<1>1. /\ changes + panics < MaxEvents /\ changes' = changes + 1 /\ disk' = [disk EXCEPT ![d] = what]
      /\ UNCHANGED <<pc, viewVars, scanRoot, pendingVars, watchError, history, scanVars, panics>>
    BY DEF DiskChanges
<1>2. power' = power /\ signals' = signals /\ (IF power = "on" THEN dirty' = TRUE ELSE dirty' = dirty)
    BY DEF DiskChanges, Notice, sourceVars
<1>3. changes' \in 0 .. MaxEvents /\ panics' \in 0 .. MaxEvents - changes'
    BY <1>1, Parts, LoopConstants DEF PlainTypes
<1>4. disk' \in [Dirs -> {"good", "broken", "unlisted", "gone"}]
    BY <1>1, Parts DEF PlainTypes
<1>5. dirty' \in BOOLEAN
    BY <1>2, Parts, Zenon DEF PlainTypes, SourceTypeOK
<1>6. PlainTypes' /\ GoodList(overlay')
    BY <1>1, <1>2, <1>3, <1>4, <1>5, Parts DEF PlainTypes, SourceTypeOK, viewVars, pendingVars
<1>7. /\ ScanIsOK' /\ history' \in Workers({"result", "panicked"})
      /\ UNCHANGED <<pendingSwitch, history, scan, rescan, panics>>
    BY <1>1, Parts DEF ScanIsOK, OneScanAtATime, scanVars, pendingVars
<1>8. ActiveMaterialized' /\ SwitchWaits'
    BY <1>1, <1>7, Parts, ChangedSession DEF ActiveMaterialized, SwitchWaits
<1>9. WatchedChangesArePending'
  <2>1. CASE power = "on"
      BY <1>2, <2>1 DEF WatchedChangesArePending
  <2>2. CASE power # "on"
      BY <1>1, <1>2, <1>7, <2>2, Parts, ChangedSession DEF WatchedChangesArePending, Active
  <2>3. QED
      BY <2>1, <2>2
<1>10. Settled' => Settled /\ ActiveLoaded(session)
    BY <1>1, <1>7, Parts DEF Settled, ActiveMaterialized
<1>11. pc = "watch" => ActiveLoaded(session)
    BY IsLoaded
<1>12. BeforeWatcher'
    BY <1>1, <1>2, <1>11, Parts, ChangedSession DEF BeforeWatcher, Active
<1>13. HistoryComes' /\ ScanComes'
    BY <1>7, <1>10, Parts, ChangedSession DEF HistoryComes, ScanComes, Active
<1>14. QED
    BY <1>6, <1>7, <1>8, <1>9, <1>12, <1>13, ChangedSession, Whole

LEMMA WatcherSignalsKeeps == ASSUME LoopInv, WatcherSignals PROVE LoopInv'
<1>1. /\ power \in {"on", "closing"} /\ power' = power /\ signals < MaxSignals
      /\ signals' = signals + 1 /\ dirty' \in {dirty, FALSE}
      /\ UNCHANGED <<pc, worldVars, viewVars, session, pendingVars, watchError, history, scanVars>>
    BY DEF WatcherSignals, Emit
<1>2. signals' \in 0 .. MaxSignals /\ signals' > 0
    BY <1>1, Parts, LoopConstants DEF PlainTypes, SourceTypeOK
<1>3. dirty' \in BOOLEAN
    BY <1>1, Parts DEF PlainTypes, SourceTypeOK
<1>4. PlainTypes' /\ GoodList(overlay')
    BY <1>1, <1>2, <1>3, Parts DEF PlainTypes, SourceTypeOK, worldVars, viewVars, pendingVars
<1>5. /\ UNCHANGED <<pendingSwitch, scan, rescan, scanners, panics>> /\ panics' >= panics
      /\ pc # "watch"
    BY <1>1, Parts DEF PlainTypes, worldVars, pendingVars, scanVars, BeforeWatcher
<1>6. QED
    BY <1>1, <1>2, <1>4, <1>5, Passing

LEMMA BackendDiesKeeps == ASSUME LoopInv, BackendDies PROVE LoopInv'
<1>1. /\ changes + panics < MaxEvents /\ panics' = panics + 1
      /\ power = "on" /\ power' = "dead" /\ dirty' = FALSE
      /\ dirty => signals < MaxSignals
      /\ signals' = IF dirty THEN signals + 1 ELSE signals
      /\ UNCHANGED <<pc, disk, viewVars, scanRoot, session, pendingVars, watchError, history,
                     scanVars, changes>>
    BY DEF BackendDies, Die
<1>2. signals' \in 0 .. MaxSignals /\ (dirty \/ signals > 0 => signals' > 0)
    BY <1>1, Parts, LoopConstants DEF PlainTypes, SourceTypeOK
<1>3. panics' \in 0 .. MaxEvents - changes /\ panics' >= panics
    BY <1>1, Parts, LoopConstants DEF PlainTypes
<1>4. dirty' \in BOOLEAN
    BY <1>1, Zenon
<1>5. PlainTypes' /\ GoodList(overlay')
    BY <1>1, <1>2, <1>3, <1>4, Parts DEF PlainTypes, SourceTypeOK, viewVars, pendingVars
<1>6. UNCHANGED <<pendingSwitch, scan, rescan, scanners>> /\ pc # "watch"
    BY <1>1, Parts DEF pendingVars, scanVars, BeforeWatcher
<1>7. QED
    BY <1>1, <1>2, <1>3, <1>5, <1>6, Passing

LEMMA NothingHappens == ASSUME LoopInv, UNCHANGED vars PROVE LoopInv'
<1>1. /\ PlainTypes' /\ GoodList(overlay') /\ pc' = pc /\ panics' >= panics
      /\ UNCHANGED <<session, pendingSwitch, history, scan, rescan, scanners, sourceVars>>
    BY Parts DEF PlainTypes, SourceTypeOK, sourceVars, vars
<1>2. QED
    BY <1>1, Passing

----------------------------------------------------------------------------
(* The invariant *)

LEMMA LoopInit == Init => LoopInv
<1> SUFFICES ASSUME Init PROVE LoopInv
    OBVIOUS
<1>1. PICK S \in SUBSET Dirs, list \in Lists :
          list \in Listings(S) /\ S # {} /\ session = FromDiscovery(list, LoadedSlot(list[1])) /\ scanRoot = (Cardinality(S) > 1)
    BY DEF Init
<1>2. GoodList(list) /\ 1 \in DOMAIN list
    BY <1>1, ListingIsGood
<1>3. list[1] \in Dirs /\ DOMAIN list = 1 .. Len(list)
    BY <1>2, ListFacts DEF GoodList
<1> DEFINE w == [i \in 1 .. Len(list) |-> IF i = 1 THEN LoadedSlot(list[1]) ELSE NoSlot]
<1>4. session = [discovery |-> list, workflows |-> w, active |-> 1]
    BY <1>1 DEF FromDiscovery
<1>5. SlotOf(LoadedSlot(list[1]), list[1]) /\ LoadedSlot(list[1]).behind = "no"
    BY <1>3, SlotsMade, MadeFields
<1>6. SlotsOf(list, w)
    BY <1>3, <1>5 DEF SlotsOf
<1>7. SessionOK(session)
    BY <1>2, <1>4, <1>6 DEF SessionOK
<1>8. ActiveSlot(session) = LoadedSlot(list[1])
    BY <1>2, <1>3, <1>4 DEF ActiveSlot
<1>9. ActiveLoaded(session) /\ Active.behind = "no"
    BY <1>5, <1>8, SlotIsSlot DEF ActiveLoaded, Active
<1>10. /\ pc = "watch" /\ mode = "Overview" /\ room = NoRoom /\ overlay = <<>>
       /\ disk \in [Dirs -> {"good", "broken", "unlisted", "gone"}]
       /\ pendingSwitch = "none" /\ pendingOverlay = FALSE /\ pendingSync = FALSE
       /\ power = "off" /\ dirty = FALSE /\ signals = 0 /\ watchError = FALSE
       /\ history = NoWorker /\ scan = NoWorker /\ rescan = FALSE /\ scanners = 0
       /\ changes = 0 /\ panics = 0
    BY DEF Init, Absent
<1>11. /\ pendingOverlay \in BOOLEAN /\ pendingSync \in BOOLEAN /\ dirty \in BOOLEAN
       /\ watchError \in BOOLEAN /\ rescan \in BOOLEAN
    BY <1>10, Zenon
<1>12. scanRoot \in BOOLEAN
    BY <1>1
<1>13. changes \in 0 .. MaxEvents /\ panics \in 0 .. MaxEvents - changes /\ signals \in 0 .. MaxSignals
    BY <1>10, LoopConstants
<1>14. PlainTypes
    BY <1>10, <1>11, <1>12, <1>13 DEF PlainTypes, SourceTypeOK
<1>15. WorkerTypes /\ OneScanAtATime
    BY <1>10, <1>11 DEF WorkerTypes, OneScanAtATime, Workers
<1>16. SessionIsOK
    BY <1>7, <1>10, NoListIsGood DEF SessionIsOK
<1>17. ActiveMaterialized /\ SwitchWaits /\ WatchedChangesArePending /\ BeforeWatcher
    BY <1>9, <1>10 DEF ActiveMaterialized, SwitchWaits, WatchedChangesArePending, BeforeWatcher
<1>18. HistoryComes /\ ScanComes
    BY <1>10 DEF HistoryComes, ScanComes, Settled
<1>19. QED
    BY <1>14, <1>15, <1>16, <1>17, <1>18 DEF LoopInv, Sound

LEMMA LoopNext == LoopInv /\ [Next]_vars => LoopInv'
<1> SUFFICES ASSUME LoopInv, [Next]_vars PROVE LoopInv'
    OBVIOUS
<1>1. CASE Main
    BY <1>1, DrainHistoryKeeps, DrainActivityKeeps, PeriodicScanKeeps, TakeSignalKeeps,
       ReloadActiveKeeps, NoSignalKeeps, InputKeeps, OpenOverlayKeeps, NoSwitchKeeps,
       SwitchReadsKeeps, WatchKeeps, SyncKeeps DEF Main
<1>2. CASE Others
    BY <1>2, HistoryFinishesKeeps, ScanFinishesKeeps, WatcherSignalsKeeps, BackendDiesKeeps,
       DiskChangesKeeps DEF Others
<1>3. QED
    BY <1>1, <1>2, NothingHappens DEF Next

LEMMA LoopIsKept == Spec => []LoopInv
BY LoopInit, LoopNext, PTL DEF Spec

LEMMA InvIsSound == LoopInv => SlotsAreSound
<1> SUFFICES ASSUME LoopInv PROVE SlotsAreSound
    OBVIOUS
<1> DEFINE list == session.discovery
           w == session.workflows
<1>1. /\ list \in Lists /\ DOMAIN w = DOMAIN list /\ Distinct(list) /\ session.active \in DOMAIN list
      /\ \A i \in DOMAIN list : w[i] = NoSlot \/ SlotOf(w[i], list[i])
    BY Parts DEF SessionOK, SlotsOf, GoodList
<1>2. \A i \in DOMAIN w : w[i] \in Slots \cup {NoSlot}
    BY <1>1 DEF SlotOf
<1>3. TypeOK
    BY <1>1, <1>2, Parts DEF TypeOK, PlainTypes, ScanIsOK, ScanOutcomes, GoodList
<1>4. SlotsMatchDiscovery /\ ResultsBelongToWorkflow
    BY <1>1 DEF SlotsMatchDiscovery, ResultsBelongToWorkflow, SlotOf, Distinct
<1>5. QED
    BY <1>3, <1>4, Parts DEF SlotsAreSound

LEMMA InvAnswers == LoopInv => WorkersAnswer
<1> SUFFICES ASSUME LoopInv PROVE WorkersAnswer
    OBVIOUS
<1>1. pc = "frame" => Settled
    BY Parts DEF SwitchWaits, Settled
<1>2. QED
    BY <1>1, Parts
    DEF WorkersAnswer, HistoryIsOnItsWay, DiscardedScanIsRepeated, HistoryComes, ScanComes, ScanIsOK

(***************************************************************************)
(* OverviewSession: `active_state()` never meets a slot that was not       *)
(* loaded, no slot shows another workflow than the list names at its       *)
(* position, and no worker's result is shown under another workflow,       *)
(* whatever the discovery finds and whenever a worker answers.             *)
(***************************************************************************)
THEOREM SlotsStaySound == Spec => []SlotsAreSound
BY LoopIsKept, InvIsSound, PTL

(***************************************************************************)
(* The drain of the refresh signals: a change that the watcher saw under   *)
(* the active workflow is being debounced, signalled, or about to be read, *)
(* until it is read.                                                       *)
(***************************************************************************)
THEOREM WatchedChangesStayPending == Spec => []WatchedChangesArePending
<1>1. LoopInv => WatchedChangesArePending
    BY DEF LoopInv
<1>2. QED
    BY <1>1, LoopIsKept, PTL

(***************************************************************************)
(* The background workers: at the head of a frame, a history shown as      *)
(* loading is being loaded, a scan of another workflow is followed by one  *)
(* of the active one, and one scan thread runs at most.                    *)
(***************************************************************************)
THEOREM WorkersAreAtWork == Spec => []WorkersAnswer
BY LoopIsKept, InvAnswers, PTL
=============================================================================
