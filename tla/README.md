# A verification development of spacetop

spacetop is a terminal dashboard for spacedock workflows: directories of markdown
files with a README that defines the stages, edited meanwhile by agents, git and
editors. This directory holds TLA+ modules that model it, the TLC configurations that
check them on small instances, and theorems proved with TLAPS. `PROJECT.json` lists
components, runs, mutated forms, source lines, findings, hazards and theorems.

Paths below are relative to `src/crates/`; *core* is `spacetop-core/src`, *app* is
`spacetop/src`.

## 1. The system

| part | state it keeps | operations | what makes it correct |
|---|---|---|---|
| git sync (core `git_sync.rs`) | none of its own; checkouts, upstreams | `sync`: probe, rev-parse, `pull --ff-only`, rev-parse, count | the outcome is what happened to HEAD; every call ends |
| state checkout (core `state_checkout.rs`) | links and repositories on disk | `classify_storage`, `state_sync_eligibility` | only the declared path's own repository, on the expected branch, is eligible |
| freshness (app `app/freshness.rs`) | attempts and last successes, bound to a target | `bind`, `record` | a success shown belongs to the target shown |
| definition and state sync (app `lib.rs::apply_pending_sync`) | sync pill | definition pull, reload, state decision, state pull, reload | the state pull is decided by the README the definition pull brought; every exit leaves a final pill that agrees with freshness |
| overview session (app `app/session.rs`) | discovered list, a slot per workflow, active position | cycle, select, `replace_discovery` | slots follow the list; the active one is loaded when used |
| event loop (app `lib.rs::run_terminal`, `app.rs`) | mode, pending intents, receivers, watcher | a frame: drain workers, take signals, draw, input, overlay, switch, sync | changes reach the screen; late results go to their own workflow; nothing loads for ever |
| workers (app `app/history_worker.rs`, `app/session_activity_worker.rs`) | a thread and a channel each | start, finish, panic | one scan at a time, none forgotten |
| watcher (core `watcher.rs`) | raw channel, debounce thread, signals | backend event, burst, timeout, `Drop` | no relevant change is lost; `Drop` returns; a pause brings the signal |
| task summaries (app `app/summary.rs`, `app/summary_worker.rs`, core `summary/snapshot.rs`) | view, active and pending request, cache, one provider thread | S, Enter, R, Esc, O; `tick`; `Drop` | one paid provider at a time, only for what is wanted; waits end |
| provider process (core `summary/process.rs`, `summary.rs`) | a child in its own group, three pipes, a scratch directory | `run` under cancel and a time limit | nothing is left running, no stranger is signalled, output is complete |
| overview list and preview (app `app/overview.rs`, `keys.rs`, `mouse.rs`, `ui/list.rs`) | rows, selection per scope, sort, focus, archive, scroll | keys, clicks, reload, archive read on demand | the selection follows its task; the archive is current; a scroll belongs to its row |
| session-activity scan (core `session_activity*`) | a cursor per log, retained records | generation, incremental read, collect, correlate, reduce | as if all logs were read whole at one instant; no phantom work |
| gates (core `parser/gates.rs`, `gates.rs`, `gate_proof.rs`) | none | decode, select the attempt, prove the topology | only the current record of the current stage approves |
| gate room (core and app `gate_room.rs`) | attempt, item and open preview | keys, `refresh` | what is open is what the gate is bound to |
| correction history (core `correction_history.rs`, `query.rs`; app `app/correction_history.rs`) | a stack of records, a filter, a cursor | keys, `refresh`, `revalidate` | the way back leads over links that are there |
| discovery (core `discovery.rs`) | none | the walk over a directory tree | exactly the marked directories that are reachable and not pruned |
| index (core `parser/snapshot.rs`, `worktree.rs`, `archive.rs`, `index.rs`) | the installed index | load, merge of worktree copies, archive, install | main decides what a task is; a copy is shown only when it differs |
| git history, metrics (core `git_history.rs`, `metrics.rs`) | none | log, blobs, stage events, durations | every stage change of a task, once, in order |
| workflow parser (core `parser/`) | none | stages, transitions, prose, frontmatter | a stage's prose is its own section |
| session file, terminal, editor (core `session_state.rs`, app `lib.rs`) | selections on disk; raw mode, alternate screen, mouse capture | load, save; take over, suspend, resume, restore | selections come back; the terminal is given back on every path |
| picker and search (app `app.rs`) | query, results, cursor | type, move, Enter | Enter acts on the result that is shown |
| configuration (app `config.rs`, `keys.rs`) | six bindings | find, read, resolve | a key does one thing |
| rendering (app `ui/graph.rs`) | none | the stage graph in four tiers | every stage is drawn, every edge drawn or written out |
| headless output, herdr sidecar | none | — | not modelled, section 7 |

Everything runs on the main thread of `run_terminal` except the watcher's backend and
debounce thread, the history worker, the session-activity worker and the provider
thread of a summary; these talk to it over `mpsc` channels that it polls once a frame.
Other processes change the file system and the repositories at any moment. So the hard
behaviours are the order in which answers and changes meet a frame, reads that are
stale when used, several reads that are taken for one, and operations that fail
half-way. Where code is sequential and pure, what is hard is that two functions agree:
the one that counts lines and the one that draws them, the list of reserved keys and
the arms that use them.

## 2. The modules

| module | models | state and actions |
|---|---|---|
| `GitSync` | `git_sync::sync`, a command at a time | `head`, `tip`, `upstream` of each checkout (git, external); `git`: the call in progress. `StartSync`, `Probe…`, `ReadHeadBefore`, `Pull…`, `ReadHeadAfter…`; `RemotePush`, `LocalCommit`, `SwitchHead` are other processes |
| `StateCheckout` | `classify_storage`, `state_sync_eligibility` | operators over `link` (symbolic links) and `head` |
| `WorkflowSync` | `apply_pending_sync`, `OverviewState::reload`, `Freshness` | `pc` walks through the exits of the function; `storage` is what the index has loaded, `draft` what a reload has read. Composes the two above |
| `RefreshSource` | what the event loop relies on in a watcher | `power`, `dirty`, `signals`; the abstract specification of `Watcher` |
| `Watcher` | debounce thread, backend, clock, `Drop` | `raw` events, the thread's `stage` and remaining time, signals; `Power` and `Owed` map it to `RefreshSource` |
| `Session` | `OverviewSession`, slots of `OverviewState` | operators on the record `session` |
| `EventLoop` | the frame of `run_terminal` with `App`'s modes | `pc` is the phase of the frame. Composes `Session` and `RefreshSource` |
| `Overview` | `OverviewState` of one workflow | its methods are operators on the record `o`; `facts` is what the last draw recorded, `candidate` the first press of a double click. A frame is `Draw`, reloads (`ReloadReads`, `ReloadArchive`, two reads apart), `Poll`, one key, click or wheel |
| `Summary` | `SummaryState`, `SummaryWorker`, provider threads | `TickPoll`, `TickJoin`, `TickLaunch` are the parts of `tick` between which a provider may act; `Key`, `Reload`, `Quits`, `Dropped` |
| `ProviderProcess` | `summary::generate` and `process::run` | `sup.at` is the step of the two polling loops; child, descendant, pipes, process id, Cancel, deadline. `MCSummary` puts it beside `Summary`, whose threads are only its beginning and its answer |
| `SessionEvidence` | what the scan promises | all logs at one instant; the abstract specification of `SessionLogs` |
| `SessionLogs` | `load_generation`: inventory, read from a cursor or whole, inventory | `disk`, cursors, retained facts; agents append, tear, rotate, truncate and remove between any two reads |
| `Activity` | `codex::collect`, `claude::collect`, `reduce_activity` | the variables are the agents and the records they leave; what the code makes of the records are operators. Uses what `SessionEvidence` promises |
| `Gates` | decoding, selection, proof of a gate record; attention | operators on a gate record |
| `GateRoom`, `CorrectionHistory` | the two browsers, their reads and keys | each handler is an action that reads disk at one instant; `Refresh` comes from the watcher |
| `WorkflowIndex` | one load file by file, merge, install | `load` is the reading in progress, with the rows by slug while copies are merged one at a time (`MergeNext`, `EndMerge`); `index` what is installed; `files` and `head` what is on disk; agents write, remove and archive in between. `steady` and `vanished` say what nobody touched, and what went, since a load began, `index.shared` which ids two rows have had since a scan (all three are ghosts) |
| `Sorting` | the lists the code obtains by sorting | one operator, used by `Overview`, `Program` and `WorkflowIndex` |
| `GitHistory` | log, renames, blobs, stage events, metrics | operators over a sequence of commits |
| `Workflow` | one folder of files and its commits | composes `WorkflowIndex` (which uses `Gates`) and `GitHistory` |
| `Program` | run after run: session file, modes, terminal, editor | one action per key, start and exit; `tty` is what of the terminal is switched on, `file` the session file |
| `Keymap`, `Definition`, `StageGraph`, `Discovery` | bindings; the README; the drawing; the walk | operators; in `Discovery` also the walk's steps with directories that vanish |
| `Startup` | from configuration to the first frames | composes the four above: configuration, walk, README, graph at the terminal's size, then rewrites, resizes, keys |
| `WorkflowSyncProofs`, `EventLoopProofs`, `ProgramProofs`, `OverviewProofs`, `GateRoomProofs` | — | theorems about the module of that name |
| `SessionsProofs` | — | theorems about `SessionLogs` and, in `MCSessions`, about `Activity` beside it |
| `ReadingProofs` | — | theorems about `Startup`, about `Watcher` and about `Workflow` |
| `SummaryProofs` | — | theorems about `Summary`, `ProviderProcess` and, in `MCSummary`, the two side by side |
| `MC…` | — | instances for TLC |

Definitions that begin with another definition's name, stand before it and say what they
get wrong (`BindKeepsHistory`, `KillChild`, `PrunedByName`) are *mutated forms*:
plausible bugs, each detected by a property. Nothing else refers to them.

Steps are as fine as the code's own points of interference: a git command, a read of
a file, a phase of the frame, a receive of the debounce thread. Main-thread code
between two such points is one action, as no other thread writes its state.

## 3. The runs

| run | what it shows | bounds |
|---|---|---|
| `workflowsync` | `StatePullIsAuthorized`: no state pull without a reload that followed the definition pull and a checkout the README names. `SuccessBelongsToTarget`. `OutcomeIsTrue`: a failed sync moved nothing, a count covers the call's own pull. `PillMatchesObservations`. `SyncEnds` | three checkouts (definition, a state directory inside it, one outside that a link can lead to), two branches, `MaxTip = 2` commits, `MaxChanges = 2` acts of others, so that one can come before and one after any step |
| `eventloop` | `SlotsAreSound`: slots match the list, the active one is loaded, results are their workflow's. `WatchedChangesArePending`. `WorkersAnswer`: no request is dropped or doubled. `ChangesReachScreen` | two workflows, one with entities (a scan is wanted for one only). `MaxEvents = 1` change or death; a second kind of start has a change just noticed, so that the counted one meets its reload |
| `watcher` | `ImplementsSource`: the refinement. `ThreadAnswers`: the join returns, a burst that pauses is signalled | a window of two ticks, or of zero, which takes another path; `MaxEvents = 3` raw events, open burst and untaken signals together |
| `summary` | `OneProvider`, `ActiveIsServed`, `NothingOutlives`, `SentOnlyIfWanted`; `AnswersAreSound`: what was cancelled is not kept, a provider's call is clean; `AllEnds` | two tasks, two requests (one given up and running, one new), an edit of each task, a cache of one so that eviction happens. Process: two chunks of input through a pipe of one, one chunk kept, two written, so that both sides block and the limit is passed |
| `overview` | `ListIsSound`: selection in range, archive current, focus truthful, what is copied is what is selected. `SelectionFollowsTask`. `ScrollIsSound` | two tasks, up to four rows with broken copies on `Height = 2`; `MaxScroll = 2` is one page of a preview whose end moves; `MaxEdits = 1`: each reload meets one change among active, archived, other stage, broken, gone |
| `sessions` | `ImplementsEvidence`: the refinement. `EvidenceIsSound`: no record is retained under two keys. `CatchesUp`. `NeverPhantom`: no agent is shown at work that has ended. `WorkIsShown` | a log that is appended to and a metadata file, two lines, four writes, one fault; two agents and two entities, eight records of Codex, six of Claude: enough for dispatch, turn, interruption and a second dispatch |
| `gateroom` | `PreviewIsBound`, `PathIsReal`, `CursorFollowsItem`, `NothingSwapped` | two attempts of one gate, two Briefings with overlapping inventories in different orders, up to three review records, `MaxRounds = 2`, a stack of `MaxDepth = 3`, one edit at any moment |
| `program` | `TerminalIsGivenBack`, `SelectionRestored`, `KeysActOnWhatIsSeen` | two workflows with an active task and two archived ones, `MaxRuns = 2`, one edit; a page of two lines, `Far = 3` stands for `usize::MAX` |
| `workflow` | `RowsAreTrue`, `MainDecides`, `ApprovalIsRecorded`, `HistoryIsTrue` | four kinds of starts: six files of two tasks in main, archive and two worktrees, over two loads next to an edit; one file with each of a systematic set of gate records; three commits with renames, other files and a clock that goes back by one; and one task over three loads next to two edits, in which another task can get its id and it can go |
| `startup` | `KeysAreSound`, `WalkIsExact`, `ProseIsItsOwn`, `GraphIsTrue`: what the functions compute against definitions of what they should | kinds of starts that vary one thing: bindings, trees of up to four directories with links, bodies of up to five lines, graphs times terminal sizes; then one rewrite or resize |
| `eventloop_nowatcher` | **violated**: `SwitchStartsWatcher` | finding 1 |
| `overview_click` | **violated**: `ClickHitsDrawnRow` | finding 2 |

Every bound is a named constant in a guard of the environment or of the user, except
`MaxSignals`, which caps a counter that the main thread drains in one phase, so that a
second signal in it changes nothing the loop does. The real channels, logs and counters
are unbounded. Two runs have a variable `level` that picks, at the start, one of two
specifications which then keeps moving while the other stays at its start: the instance
is the union of the two, not their product.

Deadlock is checked except in `watcher` (after `Drop` nothing is left once the events
are used up), `summary` (the application stops), and `sessions`, `program`, `workflow`
and `startup` (all edits and runs within the bounds are made).

### Fairness

* `WorkflowSync`: weak fairness of the step the main thread is at. It runs one
  synchronous function; git commands are assumed to return.
* `EventLoop`: `WF(Main)`, as the loop never blocks (input is polled with a time limit),
  and `WF(WatcherSignals)`, which is what `Watcher` provides after a pause.
* `Watcher`: weak fairness of the debounce thread, of the clock and of the main thread's
  taking and joining. `SF(BurstTimesOut)` says that when the deadline finds the channel
  empty again and again, the thread notices; floods are excluded in `ThreadAnswers`
  (relevant changes for ever), since there the code really never signals.
* `Summary`: `WF(Frame)`, and `WF(Provider(n))`, which `ProviderProcess` justifies by
  `Returns`. There, the supervisor and a child that has not stalled are fair; the
  deadline is fair only when the child stalls or a process has escaped the group, so
  that no wait between supervisor and child can be excused by it.
* `SessionLogs`: `WF(Scanner)`, as the event loop asks for a scan again and again.

No fairness of users, agents, edits, panics or failures is assumed anywhere.

## 4. Findings

1. **A switch from a pane leaves the workflow unwatched** (`eventloop_nowatcher`).
   Left/Right in the timeline, metrics, activity or relations view queues a switch; the
   drain drops the watcher, and `start_watcher_for` starts none outside the overview
   (app `lib.rs:1310`). Nothing refreshes until the next switch from the overview.
2. **A click can hit another row than the one drawn** (`overview_click`): a reload
   between the draw and the poll of one frame moves the rows, while the recorded list
   offset is the old one; `app/mouse.rs:5-7` rules this out. A double click still copies
   the identifier of what it selects.

These were met while modelling and shape what the properties may say:

* A change between the reading of a workflow and the start of its watcher is seen by
  neither (app `lib.rs:925-930`; the root README.md:45-46 speaks of live refresh). With
  finding 1 it is why `WatchedChangesArePending` and `ChangesReachScreen` are about
  changes that a running watcher saw.
* `notify` may report a loss as an `Err`, which `watcher.rs:155` drops:
  `ImplementsSource` begins with an `Ok` event.
* `sync` returns `UpToDate` also when HEAD cannot be read after a pull that moved it
  (`git_sync.rs:149-152`, against `:64`), so `OutcomeIsTrue` does not read it as "no new
  commits".
* When a second worktree has a copy of a task, the first copy's body is shown as the
  main body (`worktree.rs:218`, against `domain/mod.rs:307-308`); a toggle whose archive
  read fails marks the archive loaded and empty until the next reload
  (`overview.rs:803-817`); a copy
  that vanishes between reading and merge can leave a row without its main file's facts,
  against the root README.md:136-137. `RowsAreTrue` and `MainDecides` name these
  exceptions.
* `compare_ids` (`index.rs:521`) is not transitive over mixed identifiers; `by_id`
  returns the last active duplicate while the selection takes the first.
* An activity is kept under the task's id alone. While two tasks have one id, a reload
  compares the path of the last one, and when that one goes the activity of the first is
  shown for what is left (`index.rs:183-213`, against the comment at `:180-182`). The
  proof attempt of `RowsAreTrue` met this: it takes three loads and two edits. The
  property speaks of ids that no two rows have had since the scan.
* A commit between the reading of a file and a look at the list makes the preparation
  proof of the row stale, since nothing is read again before the watcher's next signal;
  `MainDecides` and `RowsAreTrue` speak of files whose HEAD has not changed either.
* Blank ids or one malformed old blob make all of a workflow's history unavailable. Under
  clock skew the stages of a timeline need not chain, hence `HistoryIsTrue` asks for the
  chain only while the commits' clocks agree.
* An idle notification of a teammate whose name was dispatched again stops nobody
  (`claude.rs:196-198`, against the entity-activity design document, line 44).
* In the review history, duplicate ids in `includes` stop `move_selection`
  (`correction_history.rs:182-194`); `revalidate_record` checks only target and stack
  top; `responses_only` stays set when a refresh clears the stack; `MoveAttempt` carries
  over the identity of the old attempt's first item.
* End in a pane stores `usize::MAX` and the draw clamps it only to `u16::MAX`, so the
  pane is blank (app `app.rs:1016-1034`); a pane keeps the entity of the old workflow
  after Left/Right (`app.rs:1007-1012`); a saved selection is lost when its workflow's
  state is installed empty, and `replace_discovery` drops slots with their selections;
  saves are skipped on `?` exits. `KeysActOnWhatIsSeen` and `SelectionRestored` are
  limited accordingly.
* The stage graph: a trailing arrow follows the last stage when the grid has room
  (`graph.rs:1375-1382`); `graph.rs:620-625` claims that no lines are emitted, false when
  the chain wraps; the line count takes two arcs whatever is drawn and no extra
  transitions, so the wide tier may be clipped; the narrow tier is chosen by widths
  without the markers it draws; below 21 columns a break's tail leaves the pane; in the
  narrowest tier the overflow line pushes out the rollback line; arcs past
  `MAX_FEEDBACK_ROWS` are dropped; duplicate names draw and write an edge. `GraphIsTrue`
  says what holds beside these.
* `readme.rs:93-96` says which headings hold a stage's prose; the code takes any level.

## 5. What is proved

`WorkflowSyncProofs` (assumptions: `SyncConstants`, `CheckoutConstants`,
`WorkflowSyncConstants`, all evaluated by TLC as well):

* `TypeCorrect`: `Spec => []TypeOK`. The strengthening says that a HEAD read before a
  pull is a real tip and that only a split-root workflow has a state checkout to pull;
  without the latter the record of a state success would not be typed.
* `StatePullsAreAuthorized`: while a state pull is in progress a reload has read the
  README after the definition pull, and, unless another process moved a branch or a
  link since, the root pulled is the declared path's own repository on the expected
  branch. It is carried over the steps between classification and pull by an invariant
  about the decision that has been taken.
* `SuccessesBelongToTarget`: what freshness remembers as the last success was pulled
  from the target it is bound to.
* `OutcomesAreTrue`: `OutcomeIsTrue` says something of the end of a call only.
  `OutcomeInv` follows the branch through it: between the two readings of HEAD the tip
  only grows, by what the pull brings and by what others commit, unless the checkout is
  switched; so the second reading is no smaller than the first plus what arrived.
* `PillsMatchObservations`: on every exit of `apply_pending_sync` the pill agrees with
  freshness. `PillInv` says that freshness knows of a state exactly when the loaded
  index does, that nothing is in flight but what the main thread is doing, and that
  after a state pull the observation stands until the index is installed; a reload may
  bind freshness to another target in between, which is why it is not obvious.

`SummaryProofs` (assumptions: `SummaryConstants`, `MCProviderConstants`):

* `OneProviderAtATime`, `NothingOutlivesTheApp`, `ActiveIsAlwaysServed`, and
  `LaunchesAreWanted` for the action property. The inductive invariant `IInv` ties a
  request's three homes together: `PendingIsActive`, `NoncesGiven`,
  `LiveThreadIsRunning` and `AnswerWaits`. No property is inductive alone: that a launch
  is wanted rests on the pending request being the active one, and that providers do
  not overlap rests on every live thread being the worker's own.
* `TypesAreKept`: the cache never passes its bound, and, since `remember` takes an older
  summary of the version out before it adds one, holds one summary of a version at most.
* `CallsAreClean`: `Process!Spec => []Process!CallIsClean`, for the process alone.
  `CleanInv` says why no stranger is signalled (the process id can be another's only
  after the child has been reaped, and the group is killed before that), why nothing of
  the group is left (no exit is known before the group was killed), and why a complete
  answer is whole (what the child has written is in the answer or in the pipe, and a
  pipe once seen at its end stays empty).
* `AnswersStaySound`: `MCSpec => []AnswersAreSound`, of the panel and the process side
  by side. That nothing given up is kept is not inductive: an answer is kept for the
  active request only, so `OneFate` says that a request is waited for, given up, or
  kept, and never two of these; its nonce, of which there is one, tells which.

`EventLoopProofs` (assumptions: `SessionConstants`, `LoopConstants`):

* `SlotsStaySound`, `WatchedChangesStayPending`, `WorkersAreAtWork`: the three safety
  properties of the run, for any set of workflows. None is inductive alone.
  `WorkersAnswer` speaks of the head of a frame; `LoopInv` says it of every *settled*
  phase (`HistoryComes`, `ScanComes`): no switch waits for its drain, no reload and no
  start of a watcher comes next, for these start the workers. `SwitchWaits` says that a
  switch waits only between the input and its drain, and one that will reload has a
  loaded slot; `BeforeWatcher`, that a switch has read the workflow when it starts the
  next watcher, so that nothing the old watcher saw is forgotten with it. `SessionOK`
  is what the list operations need of each other: a list names a workflow once, and a
  slot holds only what belongs to its position.

`ReadingProofs` (assumptions: `DiscoveryConstants`, `StartsConstants`, `WatcherConstants`,
`StagesAssumption`, `IndexAssumption`, `ContentsAssumption`; the last says that what may be
written on a path is a content of the model and that a gate record is made of lists, as
decoding yields them):

* `WalksAreExact`: `discover_workflows` finds every workflow that can be reached and no
  other, for any tree. What can be reached is the least set that is closed under
  entering, so `WalkInv` says two things: what a visited directory leads to was visited
  or waits (`NothingLeftOut`), hence the visited ones are closed when nothing waits; and
  every closed set holds what was and will be visited (`OnlyReached`). A directory that
  vanishes meanwhile ends the walk with an error or is left out of what must be found.
* `KeysAreGood`: the keys are sound for any configuration. `KeysInv` is about the state;
  the work is in the lemmas about `Resolve`: the bindings that keep a key differ, since
  of each group only one does (`KeptDiffer`), and of six defaults one is free as long as
  five bindings have keys (`AKeyIsFree`, a pigeonhole), so that each replacement keeps
  the replaced ones distinct (`ReplacementsResolve`). `PaneKeyOpens` goes through the
  arms of `handle_overview_key_with_keymap`, of which only one can have a pane's key.
* `DebouncingImplementsSource`: the refinement, one step of `RefreshSource` or none for
  every step of the backend, the debounce thread, the clock and `Drop`. `WatcherInv`
  says that there is room for the signal the thread is about to send, that the thread
  ends only once the backend is gone and its channel is empty, and that a watcher is
  closed only after its thread. Hence `EventLoop`, which uses `RefreshSource`, may be
  read with the real watcher in it.
* `RowsAreTrueAlways`, `MainDecidesAlways` and `ApprovalsAreRecorded`: the three
  properties of the index, for any slugs, worktrees, contents, gate records and stages
  and any number of loads, edits and commits. The properties speak of an installed index
  only; `WorkflowInv` follows a load to it, phase by phase. While files are read
  (`ReadingOK`): files are read in one order, the folder's own first, then each
  worktree's in the order of the scan, and a path nobody touched has been read, as what
  is on it, exactly if its root was scanned and it is not waiting. While copies are merged
  (`MergeOK`): the merged copies of a task were read before the waiting ones, and its row
  has the owner's frontmatter and the bytes of the last merged copy (`RowTells`); of a task
  whose main file alone is known to have stayed, it has the main file's frontmatter and a
  path that is still there, which is why a copy that vanishes is the one exception. Then
  (`Told`) the list says of each task what the property will say of it, and keeps saying it
  over the archive's reading and after the installation. Other processes never break
  this, since they take the paths they touch out of `steady` (`IndexStays`); a failed
  reload leaves the old index and is remembered in `reloadFailed`. `Told` is a set of
  rows: that the map by slug and the sorted listings have all of them and nothing else is
  in lemmas about their operators (`ListingIs`, `BySlugIs`, `ListOfIs`). The activity is
  `ActivityOK`: the path it was found for is that of the last row of its id, unless two
  rows have had the id. `ApprovalsAreRecorded` goes through `readiness` backwards: of each
  row the index keeps that its readiness is the one computed from its record
  (`IsJudged`), and an answer that awaits its application leaves one branch of the
  function (`ReadinessApproves`).

`ProgramProofs` (assumption: `ProgramConstants`):

* `SelectionsAreRestored`: the selection that `left` remembers (ghost) is, outside a run,
  the one in the file, and inside a run, of a workflow visited the one in its slot, of
  any other the one read at start (`FileKeeps`, `RunKeeps`), unless it is in `lost`.
* `TerminalGivenBack` is inductive as it stands; its proof is the count of the steps of
  taking, suspending and resuming that have succeeded.
* `KeysActOnTheSeen`: every action that types in or moves through Search or the palette
  leaves the cursor on a result that is drawn, while the list itself does not change
  under it (a reload may shorten it). `SeenInv` adds that the scopes in
  the slots, in what was read at start and in the file are scopes there are (`Snapshot`,
  `Restored` and `Select` hand them round), that `active` and `listed` are workflows, and
  that the cursor is a number and the picker lists workflows: without it the results of
  a search would be those of a task list that does not exist.

`OverviewProofs` (assumptions: `OverviewConstants`, `ContentsAreFiles`, `NoReadIsNone`):

* `ListStaysSound`, `SelectionsFollow`, `ScrollsAreSound`: the properties of the
  passing run of `Overview`. The selection is a position in a list
  that every reload and order computes anew, so the proofs first show that the ranks in
  a linear order of a finite set are its positions (`RankedIsSequence`): every row is
  somewhere, and the one that was selected can be found again. `OverviewInv` adds to
  the listed properties what they need of each other: an index that has been read waits
  only between the two reads of a reload and is no newer than the disk, a loaded archive
  is no older than the tasks, a closed preview is not scrolled, and an id is waiting to
  be copied only in the frame after its click.

`SessionsProofs` (assumptions: `LogConstants`, `MCActivityConstants`):

* `ScansImplementEvidence`: the refinement of `SessionEvidence`. A scan that is accepted
  is one step of it, every other step none. `EvidenceStaysSound`: a record that is read
  twice is retained once. The scan reads the logs one after the other while agents write,
  so `LogsInv` speaks of the logs that have not moved since the inventory (`Unmoved`): of
  these, all complete lines are in the store once they have been visited. That lengths
  and times only grow (`BeforeOK`) makes a log that has moved stay so, and the second
  inventory find it. `CheckpointHolds` is why an incremental read may start at a cursor:
  who finds the checkpoint in its place has not lost a line before it.
* `ShownWorkIsReal` and `RealWorkIsShown`: no activity is shown that is not going on, and
  what is proven to go on is shown, for any number of entities, agents and records. The
  two sides share no state but the log, so `AgentsInv` says what the log tells of every
  agent. Of all: a spawn names its worker, a question is open exactly until its answer
  (`Spawns`, `Questions`). Of Codex: a busy worker is in the last turn its file opened, and
  nothing has stopped that turn (`CodexTurns`); what scopes the first officer to an entity
  is of the open turn or of one that was completed (`CodexScopes`). Of Claude: a worker
  that is shown has a message that reopens it after its last idle notification
  (`ClaudeTurns`), and the state that `OfficerState` computes along the records ends where
  the officer's own does, whatever was written (`ClaudeOfficerAgrees`; the induction is
  over steps, one record at a time, `Extends`). The second half of the proof is about the
  readers: what `CodexEvents` and `ClaudeEvents` make of such a log leaves open exactly
  what goes on (`CodexIsTrue`, `ClaudeIsTrue`), and the reducer takes the most important
  of it (`ReducedIsTrue`).

`GateRoomProofs` (assumption: `GateRoomConstants`: inventories, review logs and includes
are sequences, a room names Briefings that exist or none, an attempt has a room, a round
that is pointed to has a place among the review rooms):

* `PreviewsAreBound`, `CursorsFollow` and `NothingIsSwapped`. Files and bindings change
  at any moment, but what an item is compared with, the index and the loaded history,
  changes only in handlers that refresh what is open: `GateInv` says of the browser and of the
  history, open or hidden behind the other, that what is open is bound to what they have
  loaded. The rest is lemmas about the operators: what each of the history's helpers
  leaves alone (`Keeps`), that a refresh shows nothing opened before and no longer path
  (`Refreshes`), that a record goes on top only when it is still what was shown
  (`PutsOnTop`), and that the first position of an item in a new inventory is where the
  cursor goes (`CursorFinds`).
* `PathsAreReal`. `PathIsReal` is not inductive: it says of Back only what is remembered on
  top, and nothing of why a link may be followed. `PathOK` says it of the whole stack: each
  record exists and one of each two neighbours includes the other (`Joined`), what is
  remembered of a step is the edge between its ends, and the loaded rounds are well formed
  (`FactsOK`: different ids, dangling links that cannot be followed). What is remembered is
  counted from the top (`Left`), not from the bottom: a refresh that drops the path empties
  both stacks, and the edge that is followed after it remembers a record that is no longer
  there, so that the new path has one entry too many at its bottom. That the rounds are
  well formed is a fact about `Load`, since a line is accepted only with a new id and
  earlier includes (`PrefixIsAccepted`, `FactsAreOK`). In a step, an edge that can be
  followed is an include of one end by the other (`LinksAreIncludes`, `EdgeJoins`), a
  refresh either finds every record of the path unchanged, and with them their includes,
  or drops the path (`RefreshedPath`), a followed record goes on what is left of it
  (`PathGrows`) and Back takes the top off both stacks (`BackKeepsPath`).

Only model-checked: liveness (`SyncEnds`, `ChangesReachScreen`, `ThreadAnswers`,
`AllEnds`, `CatchesUp`), which is out of the prover's reach together with ENABLED;
`GraphIsTrue` and `ProseIsItsOwn` of `Startup` and `HistoryIsTrue` of `Workflow`, the
greater part of which is what recursive definitions and folds compute for every input.

## 6. Abstractions

* **Git.** A repository is its number of commits and what is checked out; merging is
  left out since pulls are fast-forward only. A definition directory is its
  repository's root. A commit of `GitHistory` never changes, so that its reads are one.
* **Event loop.** A directory is `good` (loads), `broken` (listed, does not load),
  `unlisted` or `gone`; a slot remembers whether what it shows is behind the disk and
  whether a watcher saw that. Modes that behave alike are merged: timeline, metrics,
  activity and relations are `Panel`; search and definition are `Reader`. Quitting and
  the editor are in `Program`. Time is abstract: an interval may or may not have passed.
* **Overview.** A task is a slug whose order is that of identifiers and paths; an archive
  has some fixed order. A page is two rows. Horizontal scroll, wrapping, the divider
  and help are left out, and so is a reload whose read of the active tasks fails, which
  leaves the rows alone. The search panel is one step, as what it acts on is read again
  at its end.
* **Summaries.** A task's source is a version. The cache is bounded by number; the byte
  bound (1 MiB) cannot be reached by sixteen outputs of at most 64 KiB. Input and output
  of the process move in chunks; what the adapter makes of a complete answer is any of
  its results; time passes only where something stalls or escaped.
* **Session logs.** A line is the time of its writing. Timestamps strictly increase,
  records have one, a record already names its entity, workers act on their own entity,
  and the user aborts no turn.
* **Gates and histories.** A digest, attribution, reason or room reference is whether it
  is acceptable. A handler reads disk at one instant; sizes, symbolic links, encoding and
  the races of a single read are left out, as are notices and dependencies.
* **Index.** A file is root, slug and form; a content is its frontmatter and the name of
  a body; no slug is a prefix of another. A flat `a.md` and an `a/index.md` are both
  listed only while no worktree has a copy. The two reads behind `content_hash` are one
  instant. Decoding warnings and duplicate keys are whether a file is readable.
* **Program.** Help and the scrolling of panes other than by End are left out; panes are
  one mode; the shell resets the terminal between runs; a query matches all, the last
  or none.
* **Startup.** The walk may take the entries of a directory in any order; only some
  directories may vanish. Titles, colours, letters and the active mark are left out of the
  graph; the search for a grid's columns is by a definition of the result.

## 7. Not modelled

* **Headless output** (app `headless.rs`, core output formats): one-shot rendering of an
  index to JSON or text. It has no state and no order of its own; all it could get
  wrong is wording and field names.
* **herdr sidecar**: a one-shot launcher that talks to another program's command line;
  the state it depends on belongs to that program.
* Parts of the modelled components that turn text into text: YAML and JSON decoding,
  markdown and panes, adapters and prompts of the summary, titles, relations between
  tasks, the text of diffs, query languages, options of the command line, the choice of
  the editor's command. They are functions without interference, and a model would
  repeat them line by line.
* **Two instances over one session file**: each reads it at start and writes it whole,
  without a lock, at its end, so the later one wins; an instance whose load failed
  overwrites what it could not read. Nothing in the code says otherwise, so there is no
  property to state.
