---------------------------- MODULE WorkflowSync ----------------------------
(***************************************************************************)
(* `apply_pending_sync`: the user asks for a sync; the definition checkout *)
(* is pulled, the index reloaded, the state checkout classified anew and,  *)
(* only when that says so, pulled too.  Freshness remembers what was       *)
(* observed of which target.  All of it runs on the main thread, one git   *)
(* command or file read at a time, while other processes go on changing    *)
(* branches, links, the README and the remotes.                            *)
(***************************************************************************)
EXTENDS StateCheckout

CONSTANTS
    NoTarget,       \* freshness is bound to no state checkout
    MaxChanges      \* bound: acts of other processes in one behaviour

ASSUME WorkflowSyncConstants ==
    /\ NoTarget \notin [path : Paths, root : Checkouts, branch : Branches]
    /\ MaxChanges \in Nat

VARIABLES
    readme,         \* the README on disk
    pc,             \* where the main thread is
    storage,        \* storage in the loaded index
    draft,          \* storage a reload has read but not yet installed
    fresh,          \* Freshness of the open workflow
    status,         \* the SyncStatus shown
    loaded,         \* ghost: a reload has read the README since the definition pull
    steady,         \* ghost: no checkout was switched or relinked since that read
    changes         \* acts of other processes so far

vars == <<head, tip, upstream, git, link, readme, pc, storage, draft, fresh,
          status, loaded, steady, changes>>
envVars == <<head, upstream, link, changes>>

----------------------------------------------------------------------------
(* Freshness *)

Attempts == {"Unknown", "InFlight", "Succeeded", "Failed", "Skipped"}

\* A success is remembered by what was pulled: an Instant names that event.
NoSuccess == [root |-> NoRoot, branch |-> NoBranch, steady |-> TRUE]
Successes == {NoSuccess} \cup
             [root : Checkouts, branch : Branches, steady : BOOLEAN]

Observations == [lastSuccess : Successes, latest : Attempts]
Unobserved == [lastSuccess |-> NoSuccess, latest |-> "Unknown"]

Record(obs, attempt) == [obs EXCEPT !.latest = attempt]
RecordSuccess(obs, what) == [lastSuccess |-> what, latest |-> "Succeeded"]

Targets == {NoTarget} \cup [path : Paths, root : Checkouts, branch : Branches]

Freshness == [local : Attempts, definition : Attempts, state : Observations,
              definitionRoot : {Def, NoRoot}, target : Targets, splitRoot : BOOLEAN]

\* A checkout that has gone missing keeps the target it was last seen as.
PriorMissingTarget(f, st) ==
    /\ st.disposition = "Missing"
    /\ f.target # NoTarget
    /\ f.target.path = st.path
    /\ f.target.branch = st.branch

NewTarget(f, st) ==
    IF st = SingleRoot THEN NoTarget
    ELSE IF st.disposition = "Unverified" THEN NoTarget
    ELSE IF PriorMissingTarget(f, st) THEN f.target
    ELSE [path |-> st.path, branch |-> st.branch,
          root |-> IF Canonicalize(st.path) = NoRoot THEN st.path
                   ELSE Canonicalize(st.path)]

\* Mutated form: losing the target does not forget its history.
BindKeepsHistory(f, st) ==
    LET root == Canonicalize(Def)
        target == NewTarget(f, st)
    IN  [f EXCEPT
            !.definitionRoot = root,
            !.definition = IF f.definitionRoot = root THEN f.definition ELSE "Unknown",
            !.splitRoot = st # SingleRoot,
            !.target = target,
            !.state = IF target # NoTarget /\ f.target # target
                      THEN Unobserved ELSE f.state]

Bind(f, st) ==
    LET root == Canonicalize(Def)
        target == NewTarget(f, st)
    IN  [f EXCEPT
            !.definitionRoot = root,
            !.definition = IF f.definitionRoot = root THEN f.definition ELSE "Unknown",
            !.splitRoot = st # SingleRoot,
            !.target = target,
            !.state = IF target = NoTarget \/ f.target # target
                      THEN Unobserved ELSE f.state]

\* record_state_attempt: an attempt is recorded only of a split-root workflow.
RecordState(f, attempt) ==
    IF f.splitRoot THEN [f EXCEPT !.state = Record(f.state, attempt)] ELSE f

RecordStateSuccess(f, what) ==
    IF f.splitRoot THEN [f EXCEPT !.state = RecordSuccess(f.state, what)] ELSE f

----------------------------------------------------------------------------
(* Reload: read, then install *)

\* Where a reload is read, and where what it read is installed.
Installing == [idle |-> "install_refresh", reload |-> "install",
               reload_state |-> "install_state"]

ReloadReads ==
    /\ pc \in DOMAIN Installing
    /\ \E fault \in BOOLEAN : draft' = ClassifyStorage(readme, fault)
    /\ pc' = Installing[pc]
    /\ loaded' = TRUE
    /\ steady' = TRUE
    /\ UNCHANGED <<envVars, tip, git, readme, storage, fresh, status>>

\* Mutated form: after a failed reload the cached classification decides.
ReloadFailsButDecides ==
    /\ pc \in DOMAIN Installing
    /\ fresh' = [fresh EXCEPT !.local = "Failed"]
    /\ pc' = IF pc = "reload" THEN "decide" ELSE "idle"
    /\ status' = IF pc = "reload_state" THEN "Partial" ELSE status
    /\ UNCHANGED <<envVars, tip, git, readme, storage, draft, loaded, steady>>

\* The old snapshot stays on screen; a sync stops here.
ReloadFails ==
    /\ pc \in DOMAIN Installing
    /\ LET read == [fresh EXCEPT !.local = "Failed"] IN
          fresh' = IF pc = "reload" THEN RecordState(read, "Skipped") ELSE read
    /\ status' = IF pc = "idle" THEN status ELSE "Partial"
    /\ pc' = "idle"
    /\ UNCHANGED <<envVars, tip, git, readme, storage, draft, loaded, steady>>

ReloadInstalls ==
    /\ pc \in {"install_refresh", "install", "install_state"}
    /\ storage' = draft
    /\ fresh' = [Bind(fresh, draft) EXCEPT !.local = "Succeeded"]
    /\ pc' = IF pc = "install" THEN "decide" ELSE "idle"
    /\ status' = IF pc = "install_state" THEN "SucceededWithState" ELSE status
    /\ UNCHANGED <<envVars, tip, git, readme, draft, loaded, steady>>

----------------------------------------------------------------------------
(* The sync *)

RequestSync ==
    /\ pc = "idle"
    /\ fresh' = [Bind(fresh, storage) EXCEPT !.definition = "InFlight"]
    /\ status' = "InFlight"
    /\ StartSync(Def)
    /\ pc' = "definition"
    /\ loaded' = FALSE
    /\ UNCHANGED <<envVars, tip, readme, storage, draft, steady>>

Syncing == pc \in {"definition", "state"}

\* A pull of the definition that brings commits can bring another README.
RunGit ==
    /\ Syncing
    /\ GitStep
    /\ IF tip'[Def] # tip[Def]
       THEN readme' \in Readmes
       ELSE UNCHANGED readme
    /\ UNCHANGED <<envVars, pc, storage, draft, fresh, status, loaded, steady>>

\* Mutated form: an early return forgets the pill.
DefinitionFailsSilently ==
    /\ pc = "definition"
    /\ git.stage = "done" /\ git.kind = "Failed"
    /\ fresh' = RecordState([fresh EXCEPT !.definition = "Failed"], "Skipped")
    /\ pc' = "idle"
    /\ git' = NoCall
    /\ UNCHANGED <<envVars, tip, readme, storage, draft, status, loaded, steady>>

\* Availability is probed again to word the failure.
DefinitionFails ==
    /\ pc = "definition"
    /\ git.stage = "done" /\ git.kind = "Failed"
    /\ fresh' = RecordState([fresh EXCEPT !.definition = "Failed"], "Skipped")
    /\ status' \in {"Unavailable"} \cup (IF OnBranch(Def) THEN {"Failed"} ELSE {})
    /\ pc' = "idle"
    /\ git' = NoCall
    /\ UNCHANGED <<envVars, tip, readme, storage, draft, loaded, steady>>

DefinitionSynced ==
    /\ pc = "definition"
    /\ git.stage = "done" /\ git.kind # "Failed"
    /\ fresh' = [fresh EXCEPT !.definition = "Succeeded"]
    /\ pc' = "reload"
    /\ git' = NoCall
    /\ UNCHANGED <<envVars, tip, readme, storage, draft, status, loaded, steady>>

NoStateToSync ==
    /\ pc = "decide"
    /\ Eligibility(storage) = "NotApplicable"
    /\ status' = "Succeeded"
    /\ pc' = "idle"
    /\ UNCHANGED <<envVars, tip, git, readme, storage, draft, fresh, loaded, steady>>

\* Mutated form: a blocked state sync leaves no trace in the state row.
StateBlockedUnrecorded ==
    /\ pc = "decide"
    /\ Eligibility(storage) = "Blocked"
    /\ status' = "Partial"
    /\ pc' = "idle"
    /\ UNCHANGED <<envVars, tip, git, readme, storage, draft, fresh, loaded, steady>>

StateBlocked ==
    /\ pc = "decide"
    /\ Eligibility(storage) = "Blocked"
    /\ fresh' = RecordState(fresh, "Skipped")
    /\ status' = "Partial"
    /\ pc' = "idle"
    /\ UNCHANGED <<envVars, tip, git, readme, storage, draft, loaded, steady>>

StateEligible ==
    /\ pc = "decide"
    /\ Eligibility(storage) = "Eligible"
    /\ fresh' = RecordState(fresh, "InFlight")
    /\ StartSync(Canonicalize(storage.path))
    /\ pc' = "state"
    /\ UNCHANGED <<envVars, tip, readme, storage, draft, status, loaded, steady>>

StateFails ==
    /\ pc = "state"
    /\ git.stage = "done" /\ git.kind = "Failed"
    /\ fresh' = RecordState(fresh, "Failed")
    /\ status' = "Partial"
    /\ pc' = "idle"
    /\ git' = NoCall
    /\ UNCHANGED <<envVars, tip, readme, storage, draft, loaded, steady>>

StateSynced ==
    /\ pc = "state"
    /\ git.stage = "done" /\ git.kind # "Failed"
    /\ fresh' = RecordStateSuccess(fresh, [root |-> git.root, branch |-> storage.branch,
                                           steady |-> steady])
    /\ pc' = "reload_state"
    /\ git' = NoCall
    /\ UNCHANGED <<envVars, tip, readme, storage, draft, status, loaded, steady>>

----------------------------------------------------------------------------
(* Other processes *)

\* They leave the program's own state alone.
ByOthers ==
    /\ changes < MaxChanges
    /\ changes' = changes + 1
    /\ UNCHANGED <<pc, storage, draft, fresh, status, loaded>>

SwitchCheckout(c, h) ==
    /\ SwitchHead(c, h, 0)
    /\ steady' = FALSE
    /\ ByOthers /\ UNCHANGED <<link, readme>>

Relink(p, c) ==
    /\ link[p] # c
    /\ link' = [link EXCEPT ![p] = c]
    /\ steady' = FALSE
    /\ ByOthers /\ UNCHANGED <<head, tip, upstream, git, readme>>

EditReadme(r) ==
    /\ r # readme
    /\ readme' = r
    /\ ByOthers /\ UNCHANGED <<head, tip, upstream, git, link, steady>>

Commit(c) ==
    /\ LocalCommit(c)
    /\ ByOthers /\ UNCHANGED <<link, readme, steady>>

Push(c) ==
    /\ RemotePush(c)
    /\ ByOthers /\ UNCHANGED <<link, readme, steady>>

----------------------------------------------------------------------------

\* A workflow has just been opened: its index is loaded and bound.
Init ==
    /\ head \in [Checkouts -> Branches]
    /\ link = [p \in Paths |-> p]
    /\ tip = [c \in Checkouts |-> 0]
    /\ upstream = [c \in Checkouts |-> 0]
    /\ git = NoCall
    /\ readme \in Readmes
    /\ pc = "idle"
    /\ storage = ClassifyStorage(readme, FALSE)
    /\ draft = storage
    /\ fresh = Bind([local |-> "Succeeded", definition |-> "Unknown",
                     state |-> Unobserved, definitionRoot |-> NoRoot,
                     target |-> NoTarget, splitRoot |-> FALSE], storage)
    /\ status = "None"
    /\ loaded = FALSE
    /\ steady = TRUE
    /\ changes = 0

SyncStep ==
    \/ RunGit
    \/ DefinitionFails \/ DefinitionSynced
    \/ NoStateToSync \/ StateBlocked \/ StateEligible
    \/ StateFails \/ StateSynced
    \/ ReloadReads \/ ReloadFails \/ ReloadInstalls

Environment ==
    \/ \E c \in Checkouts :
          \/ Push(c) \/ Commit(c)
          \/ \E h \in Heads : SwitchCheckout(c, h)
    \/ \E p \in Paths, c \in Checkouts : Relink(p, c)
    \/ \E r \in Readmes : EditReadme(r)

Next == RequestSync \/ SyncStep \/ Environment

Spec == Init /\ [][Next]_vars /\ WF_vars(pc # "idle" /\ SyncStep)

----------------------------------------------------------------------------
(* Properties *)

Statuses == {"None", "InFlight", "Succeeded", "SucceededWithState", "Partial",
             "Failed", "Unavailable"}

Places == {"idle", "definition", "reload", "decide", "state", "reload_state",
           "install_refresh", "install", "install_state"}

TypeOK ==
    /\ head \in [Checkouts -> Heads]
    /\ head[Def] # "foreign"
    /\ tip \in [Checkouts -> 0 .. MaxTip]
    /\ upstream \in [Checkouts -> 0 .. MaxTip]
    /\ git \in GitCalls
    /\ link \in [Paths -> Checkouts]
    /\ readme \in Readmes
    /\ pc \in Places
    /\ storage \in Storages
    /\ draft \in Storages
    /\ fresh \in Freshness
    /\ status \in Statuses
    /\ loaded \in BOOLEAN
    /\ steady \in BOOLEAN
    /\ changes \in 0 .. MaxChanges

(***************************************************************************)
(* The state checkout is pulled only on the word of a reload that followed *)
(* the definition pull of the same sync, never of a cached classification; *)
(* and as long as nobody switches a checkout or moves a link after that    *)
(* reload, the pull hits the declared path's own repository, on the        *)
(* expected branch, and not the definition repository a second time.       *)
(***************************************************************************)
PullingState == pc = "state" /\ git.stage = "pull"

StatePullIsAuthorized ==
    PullingState =>
        /\ loaded
        /\ git.root # Def
        /\ steady => /\ git.root = Canonicalize(storage.path)
                     /\ Repo(git.root) = git.root
                     /\ head[git.root] = storage.branch

(***************************************************************************)
(* A state success shown on screen was achieved against the target that    *)
(* freshness is bound to (unless a checkout changed between the reload and *)
(* the pull): it is never carried over to another path, root or branch.    *)
(***************************************************************************)
SuccessBelongsToTarget ==
    LET success == fresh.state.lastSuccess IN
    success # NoSuccess =>
        /\ fresh.target # NoTarget
        /\ success.branch = fresh.target.branch
        /\ success.steady => success.root = fresh.target.root

NothingInFlight ==
    status # "InFlight" /\ fresh.definition # "InFlight" /\ fresh.state.latest # "InFlight"

(***************************************************************************)
(* Whatever path a sync takes to its end, it leaves neither the pill nor   *)
(* an observation "in flight", and the two tell the same story: a          *)
(* split-root workflow whose state was not pulled never shows plain        *)
(* success, and a pill that claims the state was pulled is backed by the   *)
(* state observation (unless the last reload bound it to another target).  *)
(***************************************************************************)
PillMatchesObservations ==
    [][pc # "idle" /\ pc' = "idle" =>
        /\ NothingInFlight'
        /\ status' # status =>
            /\ status' = "Succeeded" => ~fresh'.splitRoot
            /\ status' = "SucceededWithState" /\ fresh'.target = fresh.target
                  => fresh'.target = NoTarget \/ fresh'.state.latest = "Succeeded"
            /\ status' \in {"Failed", "Unavailable"}
                  => /\ fresh'.definition = "Failed"
                     /\ fresh'.splitRoot => fresh'.state.latest = "Skipped"
            /\ status' = "Partial" => fresh'.state.latest # "Unknown" \/ ~fresh'.splitRoot]_vars

(***************************************************************************)
(* What one pull is reported to have done is what it did: one that failed  *)
(* moved nothing, for its caller then keeps the old index under a "failed" *)
(* pill; and the number of commits covers all it brought, although others  *)
(* commit to the checkout between the two readings of HEAD, unless a       *)
(* command of the call failed or the branch was switched under it.         *)
(***************************************************************************)
OutcomeIsTrue ==
    git.stage = "done" =>
        /\ git.kind = "Failed" => git.arrived = 0
        /\ ~git.faulty /\ ~git.switched => git.commits >= git.arrived

(***************************************************************************)
(* A sync comes to an end, whatever fails on the way, as long as every git *)
(* command returns.                                                        *)
(***************************************************************************)
SyncEnds == status = "InFlight" ~> status # "InFlight"
=============================================================================
