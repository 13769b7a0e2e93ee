------------------------- MODULE WorkflowSyncProofs -------------------------
(* Theorems about WorkflowSync, for every set of checkouts, paths and      *)
(* branches and every bound.                                               *)
EXTENDS WorkflowSync, TLAPS

----------------------------------------------------------------------------
(* What the operators the actions are built from return *)

\* A path resolves to a checkout that exists, or to nothing.
LEMMA CanonicalizeType ==
    ASSUME head \in [Checkouts -> Heads], link \in [Paths -> Checkouts],
           NEW p \in Checkouts
    PROVE  Canonicalize(p) \in Checkouts \cup {NoRoot}
  BY CheckoutConstants DEF Canonicalize

LEMMA CanonicalDef ==
    ASSUME head \in [Checkouts -> Heads]
    PROVE  Canonicalize(Def) \in {Def, NoRoot}
  BY CheckoutConstants DEF Canonicalize

\* Classification yields a storage, whichever probe fails.
LEMMA ClassifyType ==
    ASSUME head \in [Checkouts -> Heads], link \in [Paths -> Checkouts],
           NEW r \in Readmes, NEW fault \in BOOLEAN
    PROVE  ClassifyStorage(r, fault) \in Storages
  <1>1. ExpectedStateBranch(r) \in Branches
    BY CheckoutConstants DEF Readmes, ExpectedStateBranch
  <1>2. \A p, b : ProbeDisposition(p, b, fault) \in Dispositions
    BY DEF ProbeDisposition, Dispositions
  <1> QED BY <1>1, <1>2 DEF Readmes, ClassifyStorage, Storages, SplitRoots

\* A checkout classified as attached resolves inside the definition
\* directory, is its own repository, and is on the expected branch.
LEMMA AttachedMeans ==
    ASSUME NEW p, NEW b, NEW fault, ProbeDisposition(p, b, fault) = "Attached"
    PROVE  /\ Canonicalize(p) # NoRoot
           /\ Repo(Canonicalize(p)) = Canonicalize(p)
           /\ head[Canonicalize(p)] = b
  BY DEF ProbeDisposition, Unverifiable

LEMMA ReturnType ==
    ASSUME git \in GitCalls, NEW kind \in Kinds, NEW n \in 0 .. MaxTip,
           NEW r, \/ r = Return(kind, n)
                  \/ r = [Return(kind, n) EXCEPT !.faulty = TRUE]
                  \/ \E m \in 0 .. MaxTip :
                        r = [Return(kind, n) EXCEPT !.arrived = m, !.faulty = TRUE]
    PROVE  r \in GitCalls /\ r.root = git.root /\ r.stage = "done"
  <1>1. "done" \in Stages
    BY DEF Stages
  <1> QED BY <1>1 DEF Return, GitCalls

\* HEAD is only compared after the pull when it was known before it.
HeadKnown == git.stage = "after" => git.before # NoTip

\* The steps of one git call keep their variables typed.
GitTyped ==
    /\ tip \in [Checkouts -> 0 .. MaxTip]
    /\ git \in GitCalls
    /\ HeadKnown

LEMMA GitStepType ==
    ASSUME GitTyped, upstream \in [Checkouts -> 0 .. MaxTip], GitStep
    PROVE  GitTyped' /\ git'.root = git.root
  <1>1. /\ git \in GitCalls /\ 0 \in 0 .. MaxTip
        /\ {"UpToDate", "Pulled", "Failed"} \subseteq Kinds
    BY SyncConstants DEF GitTyped, Kinds
  <1>2. git.root \in Checkouts /\ Repo(git.root) \in Checkouts
    BY <1>1, SyncConstants DEF Repo, GitCalls
  <1>3. SUFFICES /\ tip' \in [Checkouts -> 0 .. MaxTip]
                 /\ git' \in GitCalls
                 /\ git'.root = git.root
                 /\ git'.stage = "after" => git'.before # NoTip
    BY DEF GitTyped, HeadKnown
  <1>4. ASSUME NEW kind \in {"UpToDate", "Pulled", "Failed"}, NEW n \in 0 .. MaxTip,
               \/ git' = Return(kind, n)
               \/ git' = [Return(kind, n) EXCEPT !.faulty = TRUE]
               \/ \E m \in 0 .. MaxTip :
                     git' = [Return(kind, n) EXCEPT !.arrived = m, !.faulty = TRUE]
        PROVE  git' \in GitCalls /\ git'.root = git.root /\ git'.stage = "done"
    <2> DEFINE r == git'
    <2>1. kind \in Kinds /\ git \in GitCalls
      BY <1>1
    <2>2. \/ r = Return(kind, n)
          \/ r = [Return(kind, n) EXCEPT !.faulty = TRUE]
          \/ \E m \in 0 .. MaxTip :
                r = [Return(kind, n) EXCEPT !.arrived = m, !.faulty = TRUE]
      BY <1>4
    <2> HIDE DEF r
    <2>3. r \in GitCalls /\ r.root = git.root /\ r.stage = "done"
      BY <2>1, <2>2, ReturnType, Zenon
    <2> QED BY <2>3 DEF r
  <1>5. tip \in [Checkouts -> 0 .. MaxTip] /\ tip[Repo(git.root)] \in 0 .. MaxTip
    BY <1>2 DEF GitTyped
  <1>6. CASE (ProbeUnavailable \/ PullFails \/ HeadAfterUnreadable) /\ UNCHANGED tip
    BY <1>1, <1>4, <1>5, <1>6 DEF ProbeUnavailable, PullFails, HeadAfterUnreadable
  <1>7. CASE ProbeAvailable /\ UNCHANGED tip
    BY <1>1, <1>5, <1>7 DEF ProbeAvailable, GitCalls, Stages
  <1>8. CASE ReadHeadBefore /\ UNCHANGED tip
    BY <1>1, <1>5, <1>8 DEF ReadHeadBefore, GitCalls, Stages
  <1>9. CASE ReadHeadAfter /\ UNCHANGED tip
    <2>1. git.before \in 0 .. MaxTip
      BY <1>1, <1>9 DEF ReadHeadAfter, GitTyped, HeadKnown, GitCalls
    <2>2. CountNew(git.before, tip[Repo(git.root)]) \in 0 .. MaxTip
      BY <1>5, <2>1, SyncConstants DEF CountNew
    <2> QED BY <1>1, <1>4, <1>5, <1>9, <2>2 DEF ReadHeadAfter
  <1>10. CASE Pull
    <2> DEFINE n == Ahead(Repo(git.root))
    <2>1. n \in 0 .. MaxTip /\ tip[Repo(git.root)] + n \in 0 .. MaxTip
      BY <1>2, <1>5, SyncConstants DEF Ahead
    <2>2. tip' \in [Checkouts -> 0 .. MaxTip]
      BY <1>2, <1>5, <1>10, <2>1 DEF Pull
    <2>3. git' = AfterPull(n)
      BY <1>10 DEF Pull
    <2> HIDE DEF n
    <2>4. CASE git.before # NoTip
      BY <1>1, <2>1, <2>2, <2>3, <2>4 DEF AfterPull, GitCalls, Stages
    <2>5. CASE git.before = NoTip
      BY <1>1, <1>4, <2>1, <2>2, <2>3, <2>5 DEF AfterPull
    <2> QED BY <2>4, <2>5
  <1> QED BY <1>6, <1>7, <1>8, <1>9, <1>10 DEF GitStep

\* Freshness stays typed when it is bound to a storage.
LEMMA BindType ==
    ASSUME head \in [Checkouts -> Heads], link \in [Paths -> Checkouts],
           NEW f \in Freshness, NEW st \in Storages
    PROVE  Bind(f, st) \in Freshness
  <1>1. Canonicalize(Def) \in {Def, NoRoot}
    BY CanonicalDef
  <1>2. NewTarget(f, st) \in Targets
    <2>1. CASE st = SingleRoot
      BY <2>1 DEF NewTarget, Targets
    <2>2. CASE st # SingleRoot
      <3>1. st \in SplitRoots /\ st.path \in Checkouts /\ st.path \in Paths
                /\ st.branch \in Branches
        BY <2>2, CheckoutConstants DEF Storages, SplitRoots
      <3>2. Canonicalize(st.path) \in Checkouts \cup {NoRoot}
        BY <3>1, CanonicalizeType
      <3>3. f.target \in Targets
        BY DEF Freshness
      <3> QED BY <2>2, <3>1, <3>2, <3>3 DEF NewTarget, Targets
    <2> QED BY <2>1, <2>2
  <1>3. Unobserved \in Observations
    BY DEF Unobserved, Observations, Successes, Attempts
  <1>4. "Unknown" \in Attempts
    BY DEF Attempts
  <1> QED BY <1>1, <1>2, <1>3, <1>4 DEF Bind, Freshness

LEMMA RecordType ==
    ASSUME NEW f \in Freshness, NEW a \in Attempts
    PROVE  /\ RecordState(f, a) \in Freshness
           /\ [f EXCEPT !.definition = a] \in Freshness
           /\ [f EXCEPT !.local = a] \in Freshness
  BY DEF RecordState, Record, Freshness, Observations

LEMMA RecordSuccessType ==
    ASSUME NEW f \in Freshness, NEW what \in Successes
    PROVE  RecordStateSuccess(f, what) \in Freshness
  BY DEF RecordStateSuccess, RecordSuccess, Freshness, Observations, Attempts

LEMMA NoCallType == NoCall \in GitCalls /\ NoCall.stage = "idle"
  BY SyncConstants DEF NoCall, GitCalls, Stages, Kinds

LEMMA StartSyncType ==
    ASSUME NEW c \in Checkouts, StartSync(c)
    PROVE  git' \in GitCalls /\ git'.root = c /\ git'.stage = "probe"
  BY NoCallType, SyncConstants DEF StartSync, NoCall, GitCalls, Stages

----------------------------------------------------------------------------
(* Type correctness *)

\* Only a split-root workflow has a state checkout to pull.
SplitRootPulled == pc = "state" => storage \in SplitRoots

TypeInv == TypeOK /\ HeadKnown /\ SplitRootPulled

LEMMA TypeInit == Init => TypeInv
  <1> SUFFICES ASSUME Init PROVE TypeInv
    OBVIOUS
  <1>1. /\ head \in [Checkouts -> Heads] /\ head[Def] # "foreign"
        /\ link \in [Paths -> Checkouts]
    BY SyncConstants, CheckoutConstants DEF Init, Heads
  <1>2. storage \in Storages
    BY <1>1, ClassifyType DEF Init
  <1>3. fresh \in Freshness
    <2>1. [local |-> "Succeeded", definition |-> "Unknown", state |-> Unobserved,
           definitionRoot |-> NoRoot, target |-> NoTarget, splitRoot |-> FALSE]
            \in Freshness
      BY DEF Freshness, Attempts, Unobserved, Observations, Successes, Targets
    <2> QED BY <1>1, <1>2, <2>1, BindType DEF Init
  <1>4. /\ tip \in [Checkouts -> 0 .. MaxTip]
        /\ upstream \in [Checkouts -> 0 .. MaxTip]
        /\ changes \in 0 .. MaxChanges
    BY SyncConstants, WorkflowSyncConstants DEF Init
  <1>5. git \in GitCalls /\ HeadKnown
    BY NoCallType DEF Init, HeadKnown
  <1> QED
    BY <1>1, <1>2, <1>3, <1>4, <1>5
    DEF Init, TypeInv, TypeOK, SplitRootPulled, Places, Statuses

LEMMA SyncStepType == TypeInv /\ (RequestSync \/ SyncStep) => TypeInv'
  <1> SUFFICES ASSUME TypeInv, RequestSync \/ SyncStep PROVE TypeInv'
    OBVIOUS
  <1>1. /\ UNCHANGED envVars
        /\ head \in [Checkouts -> Heads] /\ head[Def] # "foreign"
        /\ link \in [Paths -> Checkouts]
        /\ upstream \in [Checkouts -> 0 .. MaxTip]
        /\ changes \in 0 .. MaxChanges
    BY DEF TypeInv, TypeOK, RequestSync, SyncStep, RunGit, DefinitionFails,
       DefinitionSynced, NoStateToSync, StateBlocked, StateEligible, StateFails,
       StateSynced, ReloadReads, ReloadFails, ReloadInstalls
  <1>2. /\ GitTyped /\ readme \in Readmes /\ pc \in Places
        /\ storage \in Storages /\ draft \in Storages /\ fresh \in Freshness
        /\ status \in Statuses /\ loaded \in BOOLEAN /\ steady \in BOOLEAN
        /\ SplitRootPulled
    BY DEF TypeInv, TypeOK, GitTyped
  <1>3. SUFFICES /\ GitTyped' /\ readme' \in Readmes /\ pc' \in Places
                 /\ storage' \in Storages /\ draft' \in Storages
                 /\ fresh' \in Freshness /\ status' \in Statuses
                 /\ loaded' \in BOOLEAN /\ steady' \in BOOLEAN
                 /\ pc' = "state" => storage' \in SplitRoots
    BY <1>1 DEF TypeInv, TypeOK, GitTyped, SplitRootPulled, envVars
  <1>4. (tip' = tip /\ (git' = git \/ git' = NoCall)) => GitTyped'
    BY <1>2, NoCallType DEF GitTyped, HeadKnown
  <1>5. \A c \in Checkouts : tip' = tip /\ StartSync(c) => GitTyped'
    BY <1>2, StartSyncType DEF GitTyped, HeadKnown
  <1>6. \A a \in Attempts : /\ RecordState(fresh, a) \in Freshness
                            /\ [fresh EXCEPT !.definition = a] \in Freshness
                            /\ [fresh EXCEPT !.local = a] \in Freshness
    BY <1>2, RecordType
  <1>7. {"Unknown", "InFlight", "Succeeded", "Failed", "Skipped"} \subseteq Attempts
    BY DEF Attempts
  <1>8. CASE RequestSync
    <2>1. Bind(fresh, storage) \in Freshness
      BY <1>1, <1>2, BindType
    <2>2. fresh' \in Freshness
      BY <1>7, <1>8, <2>1, RecordType DEF RequestSync
    <2> QED BY <1>2, <1>5, <1>8, <2>2, SyncConstants DEF RequestSync, Places, Statuses
  <1>9. CASE RunGit
    BY <1>1, <1>2, <1>9, GitStepType DEF RunGit, SplitRootPulled
  <1>10. CASE DefinitionFails
    <2>1. [fresh EXCEPT !.definition = "Failed"] \in Freshness
      BY <1>6, <1>7
    <2>2. fresh' \in Freshness
      BY <1>7, <1>10, <2>1, RecordType DEF DefinitionFails
    <2> QED BY <1>2, <1>4, <1>10, <2>2 DEF DefinitionFails, Places, Statuses
  <1>11. CASE DefinitionSynced
    BY <1>2, <1>4, <1>6, <1>7, <1>11 DEF DefinitionSynced, Places
  <1>12. CASE NoStateToSync
    BY <1>2, <1>4, <1>12 DEF NoStateToSync, Places, Statuses
  <1>13. CASE StateBlocked
    BY <1>2, <1>4, <1>6, <1>7, <1>13 DEF StateBlocked, Places, Statuses
  <1>14. CASE StateEligible
    <2>1. storage \in SplitRoots /\ Canonicalize(storage.path) # NoRoot
      BY <1>2, <1>14 DEF StateEligible, Eligibility, Storages
    <2>2. Canonicalize(storage.path) \in Checkouts
      BY <1>1, <2>1, CanonicalizeType, CheckoutConstants DEF SplitRoots
    <2> QED BY <1>2, <1>5, <1>6, <1>7, <1>14, <2>1, <2>2 DEF StateEligible, Places
  <1>15. CASE StateFails
    BY <1>2, <1>4, <1>6, <1>7, <1>15 DEF StateFails, Places, Statuses
  <1>16. CASE StateSynced
    <2>1. storage.branch \in Branches /\ git.root \in Checkouts
      BY <1>2, <1>16 DEF StateSynced, SplitRootPulled, SplitRoots, GitTyped, GitCalls
    <2>2. fresh' \in Freshness
      BY <1>2, <1>16, <2>1, RecordSuccessType DEF StateSynced, Successes
    <2> QED BY <1>2, <1>4, <1>16, <2>2 DEF StateSynced, Places
  <1>17. CASE ReloadReads
    <2>1. draft' \in Storages
      BY <1>1, <1>2, <1>17, ClassifyType DEF ReloadReads
    <2> QED BY <1>2, <1>4, <1>17, <2>1 DEF ReloadReads, Places, Installing
  <1>18. CASE ReloadFails
    <2>1. [fresh EXCEPT !.local = "Failed"] \in Freshness
      BY <1>6, <1>7
    <2>2. fresh' \in Freshness
      BY <1>7, <1>18, <2>1, RecordType DEF ReloadFails
    <2> QED BY <1>2, <1>4, <1>18, <2>2 DEF ReloadFails, Places, Statuses
  <1>19. CASE ReloadInstalls
    <2>1. Bind(fresh, draft) \in Freshness
      BY <1>1, <1>2, BindType
    <2>2. fresh' \in Freshness
      BY <1>7, <1>19, <2>1, RecordType DEF ReloadInstalls
    <2> QED BY <1>2, <1>4, <1>19, <2>2 DEF ReloadInstalls, Places, Statuses
  <1> QED
    BY <1>8, <1>9, <1>10, <1>11, <1>12, <1>13, <1>14, <1>15, <1>16, <1>17, <1>18, <1>19
    DEF SyncStep

LEMMA EnvironmentType == TypeInv /\ Environment => TypeInv'
  <1> SUFFICES ASSUME TypeInv, Environment PROVE TypeInv'
    OBVIOUS
  <1> USE DEF TypeInv, TypeOK, HeadKnown, SplitRootPulled
  <1>1. ByOthers => changes' \in 0 .. MaxChanges
    BY WorkflowSyncConstants DEF ByOthers
  <1>2. /\ [git EXCEPT !.switched = TRUE] \in GitCalls
        /\ [git EXCEPT !.switched = TRUE].stage = git.stage
        /\ [git EXCEPT !.switched = TRUE].before = git.before
    BY DEF GitCalls
  <1>3. ASSUME NEW c \in Checkouts, Push(c) PROVE TypeInv'
    <2>1. upstream' \in [Checkouts -> 0 .. MaxTip]
      BY <1>3, SyncConstants DEF Push, RemotePush
    <2> QED BY <1>1, <1>3, <2>1 DEF Push, RemotePush, ByOthers
  <1>4. ASSUME NEW c \in Checkouts, NEW h \in Heads, SwitchCheckout(c, h) PROVE TypeInv'
    <2>1. head' \in [Checkouts -> Heads] /\ head'[Def] # "foreign"
      BY <1>4, SyncConstants DEF SwitchCheckout, SwitchHead
    <2>2. tip' \in [Checkouts -> 0 .. MaxTip]
      BY <1>4, SyncConstants DEF SwitchCheckout, SwitchHead
    <2>3. git' = [git EXCEPT !.switched = TRUE]
      BY <1>4 DEF SwitchCheckout, SwitchHead
    <2> QED BY <1>1, <1>2, <1>4, <2>1, <2>2, <2>3 DEF SwitchCheckout, SwitchHead, ByOthers
  <1>5. ASSUME NEW p \in Paths, NEW c \in Checkouts, Relink(p, c) PROVE TypeInv'
    BY <1>1, <1>5 DEF Relink, ByOthers
  <1>6. ASSUME NEW r \in Readmes, EditReadme(r) PROVE TypeInv'
    BY <1>1, <1>6 DEF EditReadme, ByOthers
  <1>7. ASSUME NEW c \in Checkouts, Commit(c) PROVE TypeInv'
    <2>1. tip' \in [Checkouts -> 0 .. MaxTip]
      BY <1>7, SyncConstants DEF Commit, LocalCommit
    <2> QED BY <1>1, <1>7, <2>1 DEF Commit, LocalCommit, ByOthers
  <1> QED BY <1>3, <1>4, <1>5, <1>6, <1>7 DEF Environment

LEMMA TypeStep == TypeInv /\ [Next]_vars => TypeInv'
  <1>1. TypeInv /\ UNCHANGED vars => TypeInv'
    BY DEF TypeInv, TypeOK, HeadKnown, SplitRootPulled, vars
  <1> QED BY <1>1, SyncStepType, EnvironmentType DEF Next

\* Every variable keeps its type, whatever the repositories do.
THEOREM TypeCorrect == Spec => []TypeOK
  <1>1. Spec => []TypeInv
    BY TypeInit, TypeStep, PTL DEF Spec
  <1> QED BY <1>1, PTL DEF TypeInv

----------------------------------------------------------------------------
(* The state checkout is pulled only where the last reload said it may be *)

\* What an attached classification promises while nobody moves anything.
AttachedHolds(st) ==
    st # SingleRoot /\ st.disposition = "Attached" /\ steady =>
        LET c == Canonicalize(st.path)
        IN  c # NoRoot /\ Repo(c) = c /\ head[c] = st.branch

(***************************************************************************)
(* The promise is made when the README is read, survives the installation  *)
(* and the decision, and becomes a fact about the root that is pulled.     *)
(***************************************************************************)
AuthorizedInv ==
    /\ pc \in {"install", "decide", "state"} => loaded
    /\ pc = "install" => AttachedHolds(draft)
    /\ pc = "decide" => AttachedHolds(storage)
    /\ pc = "state" => /\ git.root # Def
                       /\ steady => /\ git.root = Canonicalize(storage.path)
                                    /\ Repo(git.root) = git.root
                                    /\ head[git.root] = storage.branch

LEMMA AuthorizedInit == Init => AuthorizedInv
  BY DEF Init, AuthorizedInv

\* Nothing a system step does moves a checkout or a link.
LEMMA TopologyFixed ==
    ASSUME head' = head, link' = link
    PROVE  /\ \A p : Canonicalize(p)' = Canonicalize(p)
           /\ \A c : Repo(c)' = Repo(c)
  BY DEF Canonicalize, Repo

LEMMA AuthorizedSyncStep == TypeInv /\ AuthorizedInv /\ (RequestSync \/ SyncStep)
                              => AuthorizedInv'
  <1> SUFFICES ASSUME TypeInv, AuthorizedInv, RequestSync \/ SyncStep
               PROVE  AuthorizedInv'
    OBVIOUS
  <1>1. head' = head /\ link' = link
    BY DEF RequestSync, SyncStep, RunGit, DefinitionFails, DefinitionSynced,
       NoStateToSync, StateBlocked, StateEligible, StateFails, StateSynced,
       ReloadReads, ReloadFails, ReloadInstalls, envVars
  <1>2. /\ \A p : Canonicalize(p)' = Canonicalize(p)
        /\ \A c : Repo(c)' = Repo(c)
    BY <1>1, TopologyFixed
  <1>3. CASE pc' \notin {"install", "decide", "state"}
    BY <1>3 DEF AuthorizedInv
  <1>4. CASE ReloadReads
    <2>1. PICK fault \in BOOLEAN : draft' = ClassifyStorage(readme, fault)
      BY <1>4 DEF ReloadReads
    <2>2. AttachedHolds(draft)'
      <3>1. CASE readme.state = NoState
        BY <2>1, <3>1 DEF ClassifyStorage, AttachedHolds
      <3>2. CASE readme.state # NoState
        <4> DEFINE b == ExpectedStateBranch(readme)
        <4>1. draft' = [kind |-> "split", path |-> readme.state, branch |-> b,
                        disposition |-> ProbeDisposition(readme.state, b, fault)]
          BY <2>1, <3>2 DEF ClassifyStorage
        <4>2. ASSUME draft'.disposition = "Attached"
              PROVE  LET c == Canonicalize(readme.state)
                     IN  c # NoRoot /\ Repo(c) = c /\ head[c] = b
          BY <4>1, <4>2, AttachedMeans
        <4> QED BY <1>1, <1>2, <4>1, <4>2 DEF AttachedHolds
      <3> QED BY <3>1, <3>2
    <2> QED BY <1>4, <2>2 DEF ReloadReads, AuthorizedInv, Installing
  <1>5. CASE ReloadInstalls
    <2>1. pc = "install" => AttachedHolds(storage)'
      BY <1>1, <1>2, <1>5 DEF ReloadInstalls, AuthorizedInv, AttachedHolds
    <2> QED BY <1>5, <2>1 DEF ReloadInstalls, AuthorizedInv
  <1>6. CASE StateEligible
    <2> DEFINE c == Canonicalize(storage.path)
    <2>1. storage # SingleRoot /\ storage.disposition = "Attached"
          /\ Canonicalize(Def) = Def /\ c # Def
      BY <1>6, CanonicalDef DEF StateEligible, Eligibility, TypeInv, TypeOK
    <2>2. git'.root = c
      BY <1>6 DEF StateEligible, StartSync, NoCall
    <2>3. steady => Repo(c) = c /\ head[c] = storage.branch
      BY <1>6, <2>1 DEF StateEligible, AuthorizedInv, AttachedHolds
    <2>4. UNCHANGED <<storage, loaded, steady>> /\ loaded /\ pc' = "state"
      BY <1>6 DEF StateEligible, AuthorizedInv
    <2> QED BY <1>1, <1>2, <2>1, <2>2, <2>3, <2>4 DEF AuthorizedInv
  <1>7. CASE RunGit
    <2>1. git'.root = git.root
      BY <1>7, GitStepType DEF RunGit, TypeInv, TypeOK, GitTyped
    <2> QED BY <1>1, <1>2, <1>7, <2>1 DEF RunGit, Syncing, AuthorizedInv
  <1> QED
    BY <1>3, <1>4, <1>5, <1>6, <1>7
    DEF RequestSync, SyncStep, DefinitionFails, DefinitionSynced, NoStateToSync,
        StateBlocked, StateFails, StateSynced, ReloadFails

LEMMA AuthorizedEnvironment == TypeInv /\ AuthorizedInv /\ Environment => AuthorizedInv'
  <1> SUFFICES ASSUME TypeInv, AuthorizedInv, Environment PROVE AuthorizedInv'
    OBVIOUS
  <1>1. UNCHANGED <<pc, storage, draft, loaded>> /\ git'.root = git.root
    BY DEF Environment, Push, RemotePush, Commit, LocalCommit, SwitchCheckout, SwitchHead, Relink,
       EditReadme, ByOthers, TypeInv, TypeOK, GitCalls
  <1>2. CASE ~steady'
    BY <1>1, <1>2 DEF AuthorizedInv, AttachedHolds
  <1>3. CASE steady'
    <2>1. head' = head /\ link' = link /\ steady' = steady
      BY <1>3 DEF Environment, Push, RemotePush, Commit, LocalCommit, SwitchCheckout, Relink, EditReadme
    <2>2. /\ \A p : Canonicalize(p)' = Canonicalize(p)
          /\ \A c : Repo(c)' = Repo(c)
      BY <2>1, TopologyFixed
    <2> QED BY <1>1, <2>1, <2>2 DEF AuthorizedInv, AttachedHolds
  <1> QED BY <1>2, <1>3

(***************************************************************************)
(* Every pull of a state checkout follows a reload of the same sync, never *)
(* names the definition repository, and hits the attached checkout on its  *)
(* expected branch unless somebody moved it after that reload.             *)
(***************************************************************************)
THEOREM StatePullsAreAuthorized == Spec => []StatePullIsAuthorized
  <1>1. TypeInv /\ AuthorizedInv /\ [Next]_vars => AuthorizedInv'
    <2>1. AuthorizedInv /\ UNCHANGED vars => AuthorizedInv'
      BY DEF AuthorizedInv, AttachedHolds, Canonicalize, Repo, vars
    <2> QED BY <2>1, AuthorizedSyncStep, AuthorizedEnvironment DEF Next
  <1>2. AuthorizedInv => StatePullIsAuthorized
    BY DEF AuthorizedInv, StatePullIsAuthorized, PullingState
  <1> QED BY <1>1, <1>2, TypeInit, TypeStep, AuthorizedInit, PTL DEF Spec

----------------------------------------------------------------------------
(* A success belongs to the target freshness is bound to *)

\* What freshness is bound to when the state may be, or is being, pulled.
TargetInv ==
    /\ SuccessBelongsToTarget
    /\ pc = "decide" /\ storage # SingleRoot /\ storage.disposition = "Attached" =>
          /\ fresh.target # NoTarget
          /\ fresh.target.branch = storage.branch
          /\ steady => fresh.target.root = Canonicalize(storage.path)
    /\ pc = "state" =>
          /\ fresh.target # NoTarget
          /\ fresh.target.branch = storage.branch
          /\ steady => fresh.target.root = git.root

\* Binding either keeps target and success together or forgets the success.
LEMMA BindKeepsOrForgets ==
    ASSUME NEW f \in Freshness, NEW st
    PROVE  LET g == Bind(f, st) IN
              \/ g.state = f.state /\ g.target = f.target /\ f.target # NoTarget
              \/ g.state.lastSuccess = NoSuccess
  BY DEF Bind, Freshness, Unobserved

LEMMA BindAttached ==
    ASSUME head \in [Checkouts -> Heads], link \in [Paths -> Checkouts],
           NEW f \in Freshness, NEW st \in SplitRoots, st.disposition = "Attached"
    PROVE  LET g == Bind(f, st) IN
              /\ g.target.branch = st.branch
              /\ g.target # NoTarget
              /\ Canonicalize(st.path) # NoRoot => g.target.root = Canonicalize(st.path)
  <1>1. st # SingleRoot
    BY DEF SplitRoots, SingleRoot
  <1>2. NewTarget(f, st) = [path |-> st.path, branch |-> st.branch,
                            root |-> IF Canonicalize(st.path) = NoRoot THEN st.path
                                     ELSE Canonicalize(st.path)]
    BY <1>1 DEF NewTarget, PriorMissingTarget
  <1>3. NewTarget(f, st) # NoTarget
    <2>1. st.path \in Checkouts /\ st.path \in Paths /\ st.branch \in Branches
      BY CheckoutConstants DEF SplitRoots
    <2>2. Canonicalize(st.path) \in Checkouts \cup {NoRoot}
      BY <2>1, CanonicalizeType
    <2> QED BY <1>2, <2>1, <2>2, WorkflowSyncConstants
  <1> QED BY <1>2, <1>3 DEF Bind, Freshness

\* Recording an attempt that is not a success leaves target and success alone.
LEMMA RecordKeeps ==
    ASSUME NEW f \in Freshness, NEW a
    PROVE  /\ RecordState(f, a).target = f.target
           /\ RecordState(f, a).state.lastSuccess = f.state.lastSuccess
           /\ [f EXCEPT !.definition = a].target = f.target
           /\ [f EXCEPT !.definition = a].state = f.state
           /\ [f EXCEPT !.local = a].target = f.target
           /\ [f EXCEPT !.local = a].state = f.state
  BY DEF RecordState, Record, Freshness, Observations

LEMMA TargetInit == Init => TargetInv
  <1> SUFFICES ASSUME Init PROVE TargetInv
    OBVIOUS
  <1> DEFINE f == [local |-> "Succeeded", definition |-> "Unknown", state |-> Unobserved,
                   definitionRoot |-> NoRoot, target |-> NoTarget, splitRoot |-> FALSE]
  <1>1. f \in Freshness /\ f.target = NoTarget
    BY DEF Freshness, Attempts, Unobserved, Observations, Successes, Targets
  <1>2. fresh = Bind(f, storage)
    BY DEF Init
  <1>3. fresh.state.lastSuccess = NoSuccess
    BY <1>1, <1>2, BindKeepsOrForgets
  <1> QED BY <1>3 DEF Init, TargetInv, SuccessBelongsToTarget

LEMMA TargetSyncStep ==
    ASSUME TypeInv, AuthorizedInv, TargetInv, RequestSync \/ SyncStep
    PROVE  TargetInv'
  <1>1. head' = head /\ link' = link
    BY DEF RequestSync, SyncStep, RunGit, DefinitionFails, DefinitionSynced,
       NoStateToSync, StateBlocked, StateEligible, StateFails, StateSynced,
       ReloadReads, ReloadFails, ReloadInstalls, envVars
  <1>2. /\ \A p : Canonicalize(p)' = Canonicalize(p)
        /\ \A c : Repo(c)' = Repo(c)
    BY <1>1, TopologyFixed
  <1>3. /\ fresh \in Freshness /\ draft \in Storages /\ storage \in Storages
        /\ head \in [Checkouts -> Heads] /\ link \in [Paths -> Checkouts]
    BY DEF TypeInv, TypeOK
  <1>4. ASSUME fresh'.target = fresh.target,
               fresh'.state.lastSuccess = fresh.state.lastSuccess
        PROVE  SuccessBelongsToTarget'
    BY <1>4 DEF TargetInv, SuccessBelongsToTarget
  <1>5. CASE RequestSync
    <2> DEFINE g == Bind(fresh, storage)
    <2>1. g \in Freshness
      BY <1>3, BindType
    <2>2. fresh'.target = g.target /\ fresh'.state = g.state
      BY <1>5, <2>1, RecordKeeps DEF RequestSync
    <2>3. SuccessBelongsToTarget'
      <3>1. CASE g.state.lastSuccess = NoSuccess
        BY <2>2, <3>1 DEF SuccessBelongsToTarget
      <3>2. CASE g.state = fresh.state /\ g.target = fresh.target
        BY <1>4, <2>2, <3>2
      <3> QED BY <1>3, <3>1, <3>2, BindKeepsOrForgets
    <2> QED BY <1>5, <2>3 DEF RequestSync, TargetInv
  <1>6. CASE ReloadInstalls
    <2> DEFINE g == Bind(fresh, draft)
    <2>1. g \in Freshness
      BY <1>3, BindType
    <2>2. fresh'.target = g.target /\ fresh'.state = g.state
      BY <1>6, <2>1, RecordKeeps DEF ReloadInstalls
    <2>3. SuccessBelongsToTarget'
      <3>1. CASE g.state.lastSuccess = NoSuccess
        BY <2>2, <3>1 DEF SuccessBelongsToTarget
      <3>2. CASE g.state = fresh.state /\ g.target = fresh.target
        BY <1>4, <2>2, <3>2
      <3> QED BY <1>3, <3>1, <3>2, BindKeepsOrForgets
    <2>4. ASSUME pc = "install", draft # SingleRoot, draft.disposition = "Attached"
          PROVE  /\ g.target # NoTarget
                 /\ g.target.branch = draft.branch
                 /\ steady => g.target.root = Canonicalize(draft.path)
      <3>1. draft \in SplitRoots
        BY <1>3, <2>4 DEF Storages
      <3>2. steady => Canonicalize(draft.path) # NoRoot
        BY <2>4 DEF AuthorizedInv, AttachedHolds
      <3> QED BY <1>3, <2>4, <3>1, <3>2, BindAttached
    <2>5. /\ storage' = draft /\ steady' = steady
          /\ pc' \in {"decide", "idle"} /\ (pc' = "decide" => pc = "install")
      BY <1>6 DEF ReloadInstalls
    <2> HIDE DEF g
    <2> QED BY <1>2, <2>2, <2>3, <2>4, <2>5 DEF TargetInv
  <1>7. CASE StateEligible
    <2>1. fresh'.target = fresh.target /\ fresh'.state.lastSuccess = fresh.state.lastSuccess
      BY <1>3, <1>7, RecordKeeps DEF StateEligible
    <2>2. git'.root = Canonicalize(storage.path) /\ storage' = storage
          /\ steady' = steady /\ pc' = "state" /\ pc = "decide"
      BY <1>7 DEF StateEligible, StartSync, NoCall
    <2>3. storage # SingleRoot /\ storage.disposition = "Attached"
      BY <1>7 DEF StateEligible, Eligibility
    <2> QED BY <1>4, <2>1, <2>2, <2>3 DEF TargetInv
  <1>8. CASE RunGit
    <2>1. git'.root = git.root
      BY <1>8, GitStepType DEF RunGit, TypeInv, TypeOK, GitTyped
    <2> QED BY <1>4, <1>8, <2>1 DEF RunGit, Syncing, TargetInv
  <1>9. CASE StateSynced
    <2> DEFINE what == [root |-> git.root, branch |-> storage.branch, steady |-> steady]
    <2>1. fresh' = RecordStateSuccess(fresh, what) /\ steady' = steady
          /\ pc = "state" /\ pc' = "reload_state"
      BY <1>9 DEF StateSynced
    <2>2. \/ fresh' = fresh
          \/ fresh'.target = fresh.target /\ fresh'.state.lastSuccess = what
      BY <1>3, <2>1 DEF RecordStateSuccess, RecordSuccess, Freshness, Observations
    <2>3. SuccessBelongsToTarget'
      BY <2>1, <2>2 DEF TargetInv, SuccessBelongsToTarget
    <2> QED BY <2>1, <2>3 DEF TargetInv
  <1>10. CASE \/ DefinitionFails \/ DefinitionSynced \/ NoStateToSync \/ StateBlocked
              \/ StateFails \/ ReloadReads \/ ReloadFails
    <2>1. /\ fresh'.target = fresh.target
          /\ fresh'.state.lastSuccess = fresh.state.lastSuccess
      <3>1. CASE NoStateToSync \/ ReloadReads
        BY <3>1 DEF NoStateToSync, ReloadReads
      <3>2. CASE DefinitionSynced
        BY <1>3, <3>2, RecordKeeps DEF DefinitionSynced
      <3>3. CASE StateBlocked \/ StateFails
        BY <1>3, <3>3, RecordKeeps DEF StateBlocked, StateFails
      <3>4. "Failed" \in Attempts
        BY DEF Attempts
      <3>5. CASE DefinitionFails
        <4> DEFINE f == [fresh EXCEPT !.definition = "Failed"]
        <4>1. f \in Freshness /\ f.target = fresh.target /\ f.state = fresh.state
          BY <1>3, <3>4, RecordType, RecordKeeps
        <4>2. fresh' = RecordState(f, "Skipped")
          BY <3>5 DEF DefinitionFails
        <4> HIDE DEF f
        <4> QED BY <4>1, <4>2, RecordKeeps
      <3>6. CASE ReloadFails
        <4> DEFINE f == [fresh EXCEPT !.local = "Failed"]
        <4>1. f \in Freshness /\ f.target = fresh.target /\ f.state = fresh.state
          BY <1>3, <3>4, RecordType, RecordKeeps
        <4>2. fresh' = RecordState(f, "Skipped") \/ fresh' = f
          BY <3>6 DEF ReloadFails
        <4> HIDE DEF f
        <4> QED BY <4>1, <4>2, RecordKeeps
      <3> QED BY <1>10, <3>1, <3>2, <3>3, <3>5, <3>6
    <2>2. pc' \notin {"decide", "state"}
      BY <1>10 DEF DefinitionFails, DefinitionSynced, NoStateToSync, StateBlocked,
            StateFails, ReloadReads, ReloadFails, Installing
    <2> QED BY <1>4, <2>1, <2>2 DEF TargetInv
  <1> QED BY <1>5, <1>6, <1>7, <1>8, <1>9, <1>10 DEF SyncStep

LEMMA TargetEnvironment == TypeInv /\ TargetInv /\ Environment => TargetInv'
  <1> SUFFICES ASSUME TypeInv, TargetInv, Environment PROVE TargetInv'
    OBVIOUS
  <1>1. UNCHANGED <<pc, storage, fresh>> /\ git'.root = git.root
    BY DEF Environment, Push, RemotePush, Commit, LocalCommit, SwitchCheckout, SwitchHead, Relink,
       EditReadme, ByOthers, TypeInv, TypeOK, GitCalls
  <1>2. CASE ~steady'
    BY <1>1, <1>2 DEF TargetInv, SuccessBelongsToTarget
  <1>3. CASE steady'
    <2>1. head' = head /\ link' = link /\ steady' = steady
      BY <1>3 DEF Environment, Push, RemotePush, Commit, LocalCommit, SwitchCheckout, Relink, EditReadme
    <2>2. \A p : Canonicalize(p)' = Canonicalize(p)
      BY <2>1, TopologyFixed
    <2> QED BY <1>1, <2>1, <2>2 DEF TargetInv, SuccessBelongsToTarget
  <1> QED BY <1>2, <1>3

(***************************************************************************)
(* Freshness never shows a state success that was achieved against another *)
(* path, root or branch than the one it is bound to now.                   *)
(***************************************************************************)
THEOREM SuccessesBelongToTarget == Spec => []SuccessBelongsToTarget
  <1>1. TypeInv /\ AuthorizedInv /\ TargetInv /\ [Next]_vars
          => AuthorizedInv' /\ TargetInv'
    <2>1. AuthorizedInv /\ TargetInv /\ UNCHANGED vars => AuthorizedInv' /\ TargetInv'
      BY DEF AuthorizedInv, AttachedHolds, TargetInv, SuccessBelongsToTarget,
             Canonicalize, Repo, vars
    <2>2. TypeInv /\ AuthorizedInv /\ TargetInv /\ (RequestSync \/ SyncStep)
            => AuthorizedInv' /\ TargetInv'
      BY AuthorizedSyncStep, TargetSyncStep
    <2>3. TypeInv /\ AuthorizedInv /\ TargetInv /\ Environment
            => AuthorizedInv' /\ TargetInv'
      BY AuthorizedEnvironment, TargetEnvironment
    <2> QED BY <2>1, <2>2, <2>3 DEF Next
  <1>2. TargetInv => SuccessBelongsToTarget
    BY DEF TargetInv
  <1> QED BY <1>1, <1>2, TypeInit, TypeStep, AuthorizedInit, TargetInit, PTL DEF Spec
----------------------------------------------------------------------------
(* What a pull is reported to have done is what it did *)

(***************************************************************************)
(* Between the two readings of HEAD the tip only grows, unless a checkout  *)
(* is switched: by what the pull brings and by what others commit.         *)
(***************************************************************************)
OutcomeInv ==
    /\ git.stage \notin {"after", "done"} => git.arrived = 0
    /\ git.stage = "pull" /\ git.before # NoTip /\ ~git.switched =>
          git.before <= tip[Repo(git.root)]
    /\ git.stage = "after" /\ ~git.switched =>
          git.before + git.arrived <= tip[Repo(git.root)]
    /\ OutcomeIsTrue

LEMMA OutcomeInit == Init => OutcomeInv
  BY DEF Init, OutcomeInv, OutcomeIsTrue, NoCall

\* A result that is not the work of a pull has brought nothing.
LEMMA ReturnOutcome ==
    ASSUME git \in GitCalls, NEW kind, NEW n \in 0 .. MaxTip,
           kind = "Failed" => git.arrived = 0,
           \/ git' = [Return(kind, n) EXCEPT !.faulty = TRUE]
           \/ git' = Return(kind, n) /\ (~git.switched => n >= git.arrived)
    PROVE  OutcomeInv'
  <1>1. /\ git'.stage = "done" /\ git'.kind = kind /\ git'.commits = n
        /\ git'.arrived = git.arrived /\ git'.switched = git.switched
        /\ git'.faulty \/ git.switched \/ n >= git.arrived
    BY DEF Return, GitCalls
  <1> QED BY <1>1 DEF OutcomeInv, OutcomeIsTrue

LEMMA GitStepOutcome ==
    ASSUME TypeInv, OutcomeInv, GitStep, head' = head
    PROVE  OutcomeInv'
  <1> DEFINE c == Repo(git.root)
  <1>1. /\ git \in GitCalls /\ tip \in [Checkouts -> 0 .. MaxTip]
        /\ upstream \in [Checkouts -> 0 .. MaxTip] /\ HeadKnown /\ MaxTip \in Nat
    BY SyncConstants DEF TypeInv, TypeOK
  <1>2. git.root \in Checkouts /\ c \in Checkouts
    BY <1>1, SyncConstants DEF Repo, GitCalls
  <1>3. /\ tip[c] \in 0 .. MaxTip /\ git.arrived \in 0 .. MaxTip
        /\ git.before \in (0 .. MaxTip) \cup {NoTip}
        /\ git.faulty \in BOOLEAN /\ git.switched \in BOOLEAN
    BY <1>1, <1>2 DEF GitCalls
  <1>4. \A r : Repo(r)' = Repo(r)
    BY DEF Repo
  <1> HIDE DEF c
  <1>5. 0 \in 0 .. MaxTip
    BY <1>1
  <1>6. CASE ProbeUnavailable \/ PullFails
    <2>1. git.arrived = 0 /\ git' = Return("Failed", 0)
      BY <1>6 DEF ProbeUnavailable, PullFails, OutcomeInv
    <2> QED BY <1>1, <1>3, <1>5, <2>1, ReturnOutcome
  <1>7. CASE HeadAfterUnreadable
    BY <1>1, <1>5, <1>7, ReturnOutcome DEF HeadAfterUnreadable
  <1>8. CASE ProbeAvailable
    <2>1. git'.stage = "before" /\ git'.arrived = git.arrived /\ git.stage = "probe"
      BY <1>1, <1>8 DEF ProbeAvailable, GitCalls
    <2> QED BY <2>1 DEF OutcomeInv, OutcomeIsTrue
  <1>9. CASE ReadHeadBefore /\ UNCHANGED tip
    <2>1. PICK h \in {tip[c], NoTip} : git' = [git EXCEPT !.stage = "pull", !.before = h]
      BY <1>9 DEF ReadHeadBefore, c
    <2>2. /\ git'.stage = "pull" /\ git'.arrived = git.arrived /\ git'.before = h
          /\ git'.root = git.root /\ git.stage = "before"
      BY <1>1, <1>9, <2>1 DEF GitCalls, ReadHeadBefore
    <2> QED BY <1>3, <1>4, <1>9, <2>1, <2>2 DEF OutcomeInv, OutcomeIsTrue, c
  <1>10. CASE ReadHeadAfter
    <2>1. git.stage = "after" /\ git.before \in 0 .. MaxTip
      BY <1>1, <1>3, <1>10 DEF ReadHeadAfter, HeadKnown
    <2>2. ~git.switched => git.before + git.arrived <= tip[c]
      BY <2>1 DEF OutcomeInv, c
    <2>3. CASE tip[c] = git.before
      <3>1. git' = Return("UpToDate", 0)
        BY <1>10, <2>3 DEF ReadHeadAfter, c
      <3>2. ~git.switched => 0 >= git.arrived
        BY <1>3, <2>1, <2>2, <2>3
      <3> QED BY <1>1, <1>3, <1>5, <3>1, <3>2, ReturnOutcome
    <2>4. CASE git' = [Return("Pulled", 0) EXCEPT !.faulty = TRUE]
      BY <1>1, <1>5, <2>4, ReturnOutcome
    <2>5. CASE tip[c] # git.before /\ git' = Return("Pulled", CountNew(git.before, tip[c]))
      <3> DEFINE n == CountNew(git.before, tip[c])
      <3>1. n \in 0 .. MaxTip /\ (~git.switched => n >= git.arrived)
        BY <1>1, <1>3, <2>1, <2>2, <2>5 DEF CountNew
      <3>2. git' = Return("Pulled", n)
        BY <2>5
      <3> HIDE DEF n
      <3> QED BY <1>1, <3>1, <3>2, ReturnOutcome
    <2> QED BY <1>10, <2>3, <2>4, <2>5 DEF ReadHeadAfter, c
  <1>11. CASE Pull
    <2> DEFINE n == Ahead(c)
    <2>1. n \in 0 .. MaxTip
      BY <1>1, <1>2, <1>3 DEF Ahead
    <2>2. git.stage = "pull" /\ tip'[c] = tip[c] + n /\ git' = AfterPull(n)
      BY <1>1, <1>2, <1>11 DEF Pull, c
    <2> HIDE DEF n
    <2>3. CASE git.before # NoTip
      <3>1. /\ git'.stage = "after" /\ git'.arrived = n /\ git'.before = git.before
            /\ git'.root = git.root /\ git'.switched = git.switched
        BY <1>1, <2>2, <2>3 DEF AfterPull, GitCalls
      <3>2. ~git.switched => git.before + n <= tip[c] + n
        BY <1>1, <1>3, <2>1, <2>2, <2>3 DEF OutcomeInv, c
      <3> QED BY <1>4, <2>2, <3>1, <3>2 DEF OutcomeInv, OutcomeIsTrue, c
    <2>4. CASE git.before = NoTip
      <3>1. git'.stage = "done" /\ git'.kind # "Failed" /\ git'.faulty
        BY <1>1, <2>2, <2>4 DEF AfterPull, Return, GitCalls
      <3> QED BY <3>1 DEF OutcomeInv, OutcomeIsTrue
    <2> QED BY <2>3, <2>4
  <1> QED BY <1>6, <1>7, <1>8, <1>9, <1>10, <1>11 DEF GitStep

LEMMA OutcomeSyncStep ==
    ASSUME TypeInv, OutcomeInv, RequestSync \/ SyncStep
    PROVE  OutcomeInv'
  <1>1. head' = head
    BY DEF RequestSync, SyncStep, RunGit, DefinitionFails, DefinitionSynced,
       NoStateToSync, StateBlocked, StateEligible, StateFails, StateSynced,
       ReloadReads, ReloadFails, ReloadInstalls, envVars
  <1>2. ASSUME NEW c, StartSync(c) \/ git' = NoCall PROVE OutcomeInv'
    <2>1. CASE StartSync(c)
      <3>1. git' = [stage |-> "probe", root |-> c, before |-> NoTip, kind |-> "none",
                    commits |-> 0, arrived |-> 0, faulty |-> FALSE, switched |-> FALSE]
        BY <2>1 DEF StartSync, NoCall
      <3> QED BY <3>1 DEF OutcomeInv, OutcomeIsTrue
    <2>2. CASE git' = NoCall
      BY <2>2 DEF NoCall, OutcomeInv, OutcomeIsTrue
    <2> QED BY <1>2, <2>1, <2>2
  <1>3. ASSUME tip' = tip, git' = git PROVE OutcomeInv'
    BY <1>1, <1>3 DEF OutcomeInv, OutcomeIsTrue, Repo
  <1>4. CASE RunGit
    BY <1>1, <1>4, GitStepOutcome DEF RunGit
  <1>5. CASE RequestSync \/ StateEligible
    BY <1>2, <1>5 DEF RequestSync, StateEligible
  <1>6. CASE DefinitionFails \/ DefinitionSynced \/ StateFails \/ StateSynced
    BY <1>2, <1>6 DEF DefinitionFails, DefinitionSynced, StateFails, StateSynced
  <1>7. CASE NoStateToSync \/ StateBlocked \/ ReloadReads \/ ReloadFails \/ ReloadInstalls
    BY <1>3, <1>7 DEF NoStateToSync, StateBlocked, ReloadReads, ReloadFails, ReloadInstalls
  <1> QED BY <1>4, <1>5, <1>6, <1>7 DEF SyncStep

LEMMA OutcomeEnvironment == TypeInv /\ OutcomeInv /\ Environment => OutcomeInv'
  <1> SUFFICES ASSUME TypeInv, OutcomeInv, Environment PROVE OutcomeInv'
    OBVIOUS
  <1>1. /\ git \in GitCalls /\ tip \in [Checkouts -> 0 .. MaxTip] /\ MaxTip \in Nat
        /\ git.root \in Checkouts /\ Repo(git.root) \in Checkouts
        /\ git.stage = "after" => git.before # NoTip
    BY SyncConstants DEF TypeInv, TypeOK, Repo, GitCalls, HeadKnown
  <1>2. /\ git.before \in (0 .. MaxTip) \cup {NoTip} /\ git.arrived \in 0 .. MaxTip
    BY <1>1 DEF GitCalls
  <1>3. ASSUME NEW c \in Checkouts, NEW h \in Heads, SwitchCheckout(c, h) PROVE OutcomeInv'
    <2>1. /\ git'.switched /\ git'.stage = git.stage /\ git'.kind = git.kind
          /\ git'.arrived = git.arrived
      BY <1>1, <1>3 DEF SwitchCheckout, SwitchHead, GitCalls
    <2> QED BY <2>1 DEF OutcomeInv, OutcomeIsTrue
  <1>4. ASSUME NEW c \in Checkouts, Commit(c) PROVE OutcomeInv'
    <2>1. git' = git /\ head' = head
      BY <1>4 DEF Commit, LocalCommit
    <2>2. tip[Repo(git.root)] \in 0 .. MaxTip /\ tip'[Repo(git.root)] \in Nat
          /\ tip[Repo(git.root)] <= tip'[Repo(git.root)]
      BY <1>1, <1>4 DEF Commit, LocalCommit
    <2>3. Repo(git.root)' = Repo(git.root)
      BY <2>1 DEF Repo
    <2> QED BY <1>1, <1>2, <2>1, <2>2, <2>3 DEF OutcomeInv, OutcomeIsTrue
  <1>5. ASSUME git' = git, head' = head, tip' = tip PROVE OutcomeInv'
    BY <1>5 DEF OutcomeInv, OutcomeIsTrue, Repo
  <1>6. ASSUME NEW c \in Checkouts, Push(c) PROVE OutcomeInv'
    BY <1>5, <1>6 DEF Push, RemotePush
  <1>7. ASSUME NEW p \in Paths, NEW c \in Checkouts, Relink(p, c) PROVE OutcomeInv'
    BY <1>5, <1>7 DEF Relink
  <1>8. ASSUME NEW r \in Readmes, EditReadme(r) PROVE OutcomeInv'
    BY <1>5, <1>8 DEF EditReadme
  <1> QED BY <1>3, <1>4, <1>6, <1>7, <1>8 DEF Environment

\* A pull that is reported as failed has moved nothing, and one that is not
\* counts all it brought, whatever others commit meanwhile (git_sync::sync).
THEOREM OutcomesAreTrue == Spec => []OutcomeIsTrue
  <1>1. TypeInv /\ OutcomeInv /\ [Next]_vars => OutcomeInv'
    <2>1. OutcomeInv /\ UNCHANGED vars => OutcomeInv'
      BY DEF OutcomeInv, OutcomeIsTrue, Repo, vars
    <2> QED BY <2>1, OutcomeSyncStep, OutcomeEnvironment DEF Next
  <1>2. OutcomeInv => OutcomeIsTrue
    BY DEF OutcomeInv
  <1> QED BY <1>1, <1>2, TypeInit, TypeStep, OutcomeInit, PTL DEF Spec

----------------------------------------------------------------------------
(* The pill and the observations end up telling the same story *)

(***************************************************************************)
(* Freshness knows of a state exactly when the loaded index does, what is  *)
(* in flight is what the main thread is doing, and after a state pull the  *)
(* observation stands until the index is installed.                        *)
(***************************************************************************)
PillInv ==
    /\ fresh.splitRoot <=> storage # SingleRoot
    /\ pc \in {"idle", "install_refresh"} => status # "InFlight"
    /\ pc # "definition" => fresh.definition # "InFlight"
    /\ pc # "state" => fresh.state.latest # "InFlight"
    /\ pc \in {"reload_state", "install_state"} => fresh.state.latest = "Succeeded"

\* Binding keeps an observation or forgets it, and keeps that of a target.
LEMMA BindFields ==
    ASSUME NEW f \in Freshness, NEW st
    PROVE  LET g == Bind(f, st) IN
           /\ g.splitRoot <=> st # SingleRoot
           /\ g.definition \in {f.definition, "Unknown"}
           /\ g.state.latest \in {f.state.latest, "Unknown"}
           /\ g.target = f.target /\ g.target # NoTarget => g.state = f.state
  BY DEF Bind, Freshness, Unobserved

LEMMA RecordFields ==
    ASSUME NEW f \in Freshness, NEW a
    PROVE  LET g == RecordState(f, a) IN
           /\ g.splitRoot = f.splitRoot /\ g.definition = f.definition /\ g.target = f.target
           /\ f.splitRoot => g.state.latest = a
           /\ ~f.splitRoot => g.state = f.state
  BY DEF RecordState, Record, Freshness, Observations

LEMMA FreshFields ==
    ASSUME NEW f \in Freshness, NEW a
    PROVE  /\ [f EXCEPT !.local = a].splitRoot = f.splitRoot
           /\ [f EXCEPT !.local = a].definition = f.definition
           /\ [f EXCEPT !.local = a].state = f.state
           /\ [f EXCEPT !.local = a].target = f.target
           /\ [f EXCEPT !.definition = a].splitRoot = f.splitRoot
           /\ [f EXCEPT !.definition = a].definition = a
           /\ [f EXCEPT !.definition = a].state = f.state
           /\ [f EXCEPT !.definition = a].target = f.target
  BY DEF Freshness

LEMMA PillInit == Init => PillInv
  <1> SUFFICES ASSUME Init PROVE PillInv
    OBVIOUS
  <1> DEFINE f == [local |-> "Succeeded", definition |-> "Unknown", state |-> Unobserved,
                   definitionRoot |-> NoRoot, target |-> NoTarget, splitRoot |-> FALSE]
  <1>1. f \in Freshness /\ f.definition = "Unknown" /\ f.state.latest = "Unknown"
    BY DEF Freshness, Attempts, Unobserved, Observations, Successes, Targets
  <1>2. fresh = Bind(f, storage) /\ pc = "idle" /\ status = "None"
    BY DEF Init
  <1> HIDE DEF f
  <1> QED BY <1>1, <1>2, BindFields DEF PillInv

\* What a sync says when it comes to its end.
PillTold ==
    pc # "idle" /\ pc' = "idle" =>
        /\ NothingInFlight'
        /\ status' # status =>
            /\ status' = "Succeeded" => ~fresh'.splitRoot
            /\ status' = "SucceededWithState" /\ fresh'.target = fresh.target
                  => fresh'.target = NoTarget \/ fresh'.state.latest = "Succeeded"
            /\ status' \in {"Failed", "Unavailable"}
                  => /\ fresh'.definition = "Failed"
                     /\ fresh'.splitRoot => fresh'.state.latest = "Skipped"
            /\ status' = "Partial" => fresh'.state.latest # "Unknown" \/ ~fresh'.splitRoot

LEMMA PillSyncStep ==
    ASSUME TypeInv, PillInv, RequestSync \/ SyncStep
    PROVE  PillInv' /\ PillTold
  <1> USE DEF PillInv, PillTold, NothingInFlight
  <1>1. /\ fresh \in Freshness /\ storage \in Storages /\ fresh.splitRoot \in BOOLEAN
        /\ pc = "state" => storage \in SplitRoots
        /\ pc \in Places
    BY DEF TypeInv, TypeOK, SplitRootPulled, Freshness
  <1>2. \A a : LET g == [fresh EXCEPT !.definition = a] IN
               /\ g.splitRoot = fresh.splitRoot /\ g.definition = a
               /\ g.state = fresh.state /\ g.target = fresh.target
    BY <1>1, FreshFields
  <1>3. \A a : LET g == RecordState(fresh, a) IN
               /\ g.splitRoot = fresh.splitRoot /\ g.definition = fresh.definition
               /\ g.target = fresh.target
               /\ fresh.splitRoot => g.state.latest = a
               /\ ~fresh.splitRoot => g.state = fresh.state
    BY <1>1, RecordFields
  <1>4. CASE RequestSync
    <2> DEFINE g == Bind(fresh, storage)
    <2>1. g \in Freshness
      BY <1>1, BindType DEF TypeInv, TypeOK
    <2>2. /\ g.splitRoot <=> storage # SingleRoot
          /\ g.state.latest \in {fresh.state.latest, "Unknown"}
      BY <1>1, BindFields
    <2> HIDE DEF g
    <2>3. fresh'.splitRoot = g.splitRoot /\ fresh'.state = g.state
      BY <1>4, <2>1, FreshFields DEF RequestSync, g
    <2> QED BY <1>4, <2>2, <2>3 DEF RequestSync
  <1>5. CASE RunGit
    BY <1>5 DEF RunGit, Syncing
  <1>6. CASE DefinitionFails
    <2> DEFINE f == [fresh EXCEPT !.definition = "Failed"]
    <2>1. f \in Freshness
      BY <1>1, RecordType DEF Attempts
    <2>2. f.splitRoot = fresh.splitRoot /\ f.definition = "Failed" /\ f.state = fresh.state
      BY <1>2
    <2> HIDE DEF f
    <2>3. fresh' = RecordState(f, "Skipped")
      BY <1>6 DEF DefinitionFails, f
    <2>4. /\ fresh'.splitRoot = fresh.splitRoot /\ fresh'.definition = "Failed"
          /\ fresh.splitRoot => fresh'.state.latest = "Skipped"
          /\ ~fresh.splitRoot => fresh'.state = fresh.state
      BY <2>1, <2>2, <2>3, RecordFields
    <2> QED BY <1>1, <1>6, <2>4 DEF DefinitionFails
  <1>7. CASE DefinitionSynced
    BY <1>1, <1>2, <1>7 DEF DefinitionSynced
  <1>8. CASE NoStateToSync
    BY <1>1, <1>8 DEF NoStateToSync, Eligibility
  <1>9. CASE StateBlocked
    BY <1>1, <1>3, <1>9 DEF StateBlocked, Eligibility
  <1>10. CASE StateEligible
    BY <1>1, <1>3, <1>10 DEF StateEligible
  <1>11. CASE StateFails
    <2>1. fresh.splitRoot
      BY <1>1, <1>11 DEF StateFails, SplitRoots, SingleRoot
    <2> QED BY <1>1, <1>3, <1>11, <2>1 DEF StateFails
  <1>12. CASE StateSynced
    <2>1. fresh.splitRoot
      BY <1>1, <1>12 DEF StateSynced, SplitRoots, SingleRoot
    <2>2. /\ fresh'.splitRoot = fresh.splitRoot /\ fresh'.definition = fresh.definition
          /\ fresh'.state.latest = "Succeeded"
      BY <1>1, <1>12, <2>1 DEF StateSynced, RecordStateSuccess, RecordSuccess, Freshness
    <2> QED BY <1>12, <2>2 DEF StateSynced
  <1>13. CASE ReloadReads
    BY <1>13 DEF ReloadReads, Installing
  <1>14. CASE ReloadFails
    <2> DEFINE f == [fresh EXCEPT !.local = "Failed"]
    <2>1. f \in Freshness
      BY <1>1, RecordType DEF Attempts
    <2>2. f.splitRoot = fresh.splitRoot /\ f.definition = fresh.definition /\ f.state = fresh.state
      BY <1>1, FreshFields
    <2> HIDE DEF f
    <2>3. /\ fresh' = IF pc = "reload" THEN RecordState(f, "Skipped") ELSE f
          /\ pc \in {"idle", "reload", "reload_state"} /\ pc' = "idle" /\ storage' = storage
          /\ status' = IF pc = "idle" THEN status ELSE "Partial"
      BY <1>14 DEF ReloadFails, Installing, f
    <2>4. /\ fresh'.splitRoot = fresh.splitRoot /\ fresh'.definition = fresh.definition
          /\ pc = "reload" /\ fresh.splitRoot => fresh'.state.latest = "Skipped"
          /\ pc # "reload" \/ ~fresh.splitRoot => fresh'.state = fresh.state
      BY <2>1, <2>2, <2>3, RecordFields
    <2> QED BY <1>1, <2>3, <2>4
  <1>15. CASE ReloadInstalls
    <2> DEFINE g == Bind(fresh, draft)
    <2>1. g \in Freshness
      BY <1>1, BindType DEF TypeInv, TypeOK
    <2>2. /\ g.splitRoot <=> draft # SingleRoot
          /\ g.definition \in {fresh.definition, "Unknown"}
          /\ g.state.latest \in {fresh.state.latest, "Unknown"}
          /\ g.target = fresh.target /\ g.target # NoTarget => g.state = fresh.state
      BY <1>1, BindFields
    <2> HIDE DEF g
    <2>3. /\ fresh'.splitRoot = g.splitRoot /\ fresh'.state = g.state
          /\ fresh'.definition = g.definition /\ fresh'.target = g.target
      BY <1>15, <2>1, FreshFields DEF ReloadInstalls, g
    <2> QED BY <1>15, <2>2, <2>3 DEF ReloadInstalls
  <1> QED
    BY <1>4, <1>5, <1>6, <1>7, <1>8, <1>9, <1>10, <1>11, <1>12, <1>13, <1>14, <1>15
    DEF SyncStep

LEMMA PillStep == TypeInv /\ PillInv /\ [Next]_vars => PillInv' /\ PillTold
  <1>1. PillInv /\ (UNCHANGED vars \/ Environment) => PillInv' /\ PillTold
    BY DEF PillInv, PillTold, vars, Environment, SwitchCheckout, Relink, EditReadme, Commit,
       Push, ByOthers
  <1> QED BY <1>1, PillSyncStep DEF Next

\* Whichever step ends a sync, apply_pending_sync leaves nothing in flight and
\* a pill that agrees with what freshness has recorded.
THEOREM PillsMatchObservations == Spec => PillMatchesObservations
  <1>1. TypeInv /\ PillInv /\ [Next]_vars =>
           /\ PillInv'
           /\ [pc # "idle" /\ pc' = "idle" =>
                 /\ NothingInFlight'
                 /\ status' # status =>
                     /\ status' = "Succeeded" => ~fresh'.splitRoot
                     /\ status' = "SucceededWithState" /\ fresh'.target = fresh.target
                           => fresh'.target = NoTarget \/ fresh'.state.latest = "Succeeded"
                     /\ status' \in {"Failed", "Unavailable"}
                           => /\ fresh'.definition = "Failed"
                              /\ fresh'.splitRoot => fresh'.state.latest = "Skipped"
                     /\ status' = "Partial" =>
                           fresh'.state.latest # "Unknown" \/ ~fresh'.splitRoot]_vars
    BY PillStep DEF PillTold
  <1> QED BY <1>1, TypeInit, TypeStep, PillInit, PTL DEF Spec, PillMatchesObservations
=============================================================================
