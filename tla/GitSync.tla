------------------------------ MODULE GitSync ------------------------------
(***************************************************************************)
(* `git_sync::sync`: one fast-forward pull of a checkout, as the sequence  *)
(* of git commands the function issues.  Other processes (agents, the      *)
(* user's shell, the remote) act on the same repositories between any two  *)
(* of those commands, and every command can fail.                          *)
(*                                                                         *)
(* A commit is a position on a line: tip[c] is the position of HEAD in     *)
(* checkout c and upstream[c] that of its upstream branch.                 *)
(***************************************************************************)
EXTENDS Integers

CONSTANTS
    Checkouts,      \* directories that can be the root of a git checkout
    Def,            \* the checkout that holds the workflow definition
    Branches,       \* branch names
    NoTip,          \* HEAD could not be read
    MaxTip          \* bound: the highest commit position

ASSUME SyncConstants ==
    /\ Def \in Checkouts
    /\ Branches \cap {"detached", "gone", "foreign"} = {}
    /\ MaxTip \in Nat
    /\ NoTip \notin 0 .. MaxTip

VARIABLES
    head,           \* what is checked out in each checkout
    tip,            \* position of HEAD
    upstream,       \* position of the upstream branch
    git             \* the progress of the current `sync` call

repoVars == <<head, tip, upstream>>

(***************************************************************************)
(* "foreign": the directory exists, but git's top level for it is the      *)
(* enclosing definition repository, and so is the target of a pull.        *)
(***************************************************************************)
Heads == Branches \cup {"detached", "gone", "foreign"}
Repo(c) == IF head[c] = "foreign" THEN Def ELSE c
OnBranch(c) == head[Repo(c)] \in Branches

Kinds == {"none", "UpToDate", "Pulled", "Failed"}
Stages == {"idle", "probe", "before", "pull", "after", "done"}

GitCalls == [stage : Stages, root : Checkouts, before : (0 .. MaxTip) \cup {NoTip},
             kind : Kinds, commits : 0 .. MaxTip,
             \* ghosts: commits the pull itself brought, whether a later
             \* command failed, whether HEAD was switched meanwhile
             arrived : 0 .. MaxTip, faulty : BOOLEAN, switched : BOOLEAN]

NoCall == [stage |-> "idle", root |-> Def, before |-> NoTip, kind |-> "none",
           commits |-> 0, arrived |-> 0, faulty |-> FALSE, switched |-> FALSE]

----------------------------------------------------------------------------
(* The steps of one `sync` call *)

StartSync(c) == git' = [NoCall EXCEPT !.stage = "probe", !.root = c]

Return(kind, n) == [git EXCEPT !.stage = "done", !.kind = kind, !.commits = n]

\* No upstream, no origin, not a repository, or the probe itself failed.
ProbeUnavailable ==
    /\ git.stage = "probe"
    /\ git' = Return("Failed", 0)

\* `@{u}` resolves only on a branch.
ProbeAvailable ==
    /\ git.stage = "probe"
    /\ OnBranch(git.root)
    /\ git' = [git EXCEPT !.stage = "before"]

ReadHeadBefore ==
    /\ git.stage = "before"
    /\ \E h \in {tip[Repo(git.root)], NoTip} :
          git' = [git EXCEPT !.stage = "pull", !.before = h]

PullFails ==
    /\ git.stage = "pull"
    /\ git' = Return("Failed", 0)

\* How far HEAD of c moves when it fast-forwards to its upstream.
Ahead(c) == IF upstream[c] > tip[c] THEN upstream[c] - tip[c] ELSE 0

\* After a pull whose starting HEAD is unknown, its output is the only hint.
AfterPull(n) ==
    IF git.before # NoTip
    THEN [git EXCEPT !.stage = "after", !.arrived = n]
    ELSE [Return(IF n = 0 THEN "UpToDate" ELSE "Pulled", 0)
             EXCEPT !.arrived = n, !.faulty = TRUE]

Pull ==
    /\ git.stage = "pull"
    /\ OnBranch(git.root)
    /\ LET c == Repo(git.root) IN
          /\ tip' = [tip EXCEPT ![c] = @ + Ahead(c)]
          /\ git' = AfterPull(Ahead(c))

\* Mutated form: a pull that went through is reported as failed.
HeadAfterUnreadableFails ==
    /\ git.stage = "after"
    /\ git' = [Return("Failed", 0) EXCEPT !.faulty = TRUE]

\* HEAD cannot be read any more: reported as "nothing new".
HeadAfterUnreadable ==
    /\ git.stage = "after"
    /\ git' = [Return("UpToDate", 0) EXCEPT !.faulty = TRUE]

\* `rev-list --count before..after`
CountNew(from, to) == IF to > from THEN to - from ELSE 0

ReadHeadAfter ==
    /\ git.stage = "after"
    /\ LET after == tip[Repo(git.root)] IN
          IF after = git.before
          THEN git' = Return("UpToDate", 0)
          ELSE \/ git' = Return("Pulled", CountNew(git.before, after))
               \/ git' = [Return("Pulled", 0) EXCEPT !.faulty = TRUE]

GitStep ==
    \/ (ProbeUnavailable \/ PullFails \/ HeadAfterUnreadable
          \/ ProbeAvailable \/ ReadHeadBefore \/ ReadHeadAfter) /\ UNCHANGED tip
    \/ Pull

----------------------------------------------------------------------------
(* Everybody else *)

RemotePush(c) ==
    /\ upstream[c] < MaxTip
    /\ upstream' = [upstream EXCEPT ![c] = @ + 1]
    /\ UNCHANGED <<head, tip, git>>

LocalCommit(c) ==
    /\ head[c] \in Branches \cup {"detached"}
    /\ tip[c] < MaxTip
    /\ tip' = [tip EXCEPT ![c] = @ + 1]
    /\ UNCHANGED <<head, upstream, git>>

\* Checkout of another branch, of a commit, removal, or re-creation.
SwitchHead(c, h, n) ==
    /\ h # head[c]
    /\ c = Def => h # "foreign"
    /\ head' = [head EXCEPT ![c] = h]
    /\ tip' = [tip EXCEPT ![c] = n]
    /\ git' = [git EXCEPT !.switched = TRUE]
    /\ UNCHANGED upstream

=============================================================================
