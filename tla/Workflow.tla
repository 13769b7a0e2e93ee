------------------------------ MODULE Workflow ------------------------------
(***************************************************************************)
(* One workflow on disk and in git: the index of its files (WorkflowIndex) *)
(* and the stage history of the commits agents make of them (GitHistory).  *)
(***************************************************************************)
EXTENDS WorkflowIndex, GitHistory

CONSTANTS
    FileName,       \* FileName[slug]: the name slug.md
    Others,         \* paths in the folder that are no entities
    MaxCommits, MaxSkew

VARIABLES
    log,            \* the first-parent log of the branch, oldest first
    history,        \* what the last reading of it gave
    commits

historyVars == <<log, history, commits>>

GitPath(p) ==
    (IF p.root = "archive" THEN <<"_archive">> ELSE << >>) \o
    (IF p.form = "flat" THEN <<FileName[p.slug]>> ELSE <<p.slug, "index.md">>)

Tracked == {p \in Paths : p.root \in {"main", "archive"}}
NoEntity == [yaml |-> FALSE, id |-> "", status |-> ""]
Blob(c) == [yaml |-> c.yaml, id |-> c.id, status |-> c.status]

\* The tree of the files as they are, and the one of the last commit.
TreeOf(paths) ==
    [g \in {GitPath(p) : p \in paths} \cup Others |->
        IF g \in Others THEN NoEntity
        ELSE Blob(OnDisk(CHOOSE p \in paths : GitPath(p) = g))]
Present == {p \in Tracked : files[p] # {}}
HeadTree == IF log = << >> THEN << >> ELSE Last(log).tree

Added == {GitPath(p) : p \in Present} \ DOMAIN HeadTree
Deleted == {GitPath(p) : p \in Tracked \ Present} \cap DOMAIN HeadTree
Modified == {GitPath(p) : p \in {q \in Present : ~Clean(q)}} \cap DOMAIN HeadTree

\* _archive sorts before every slug.
LineOrder(a, b) ==
    \/ ArchivePath(a.new) /\ ~ArchivePath(b.new)
    \/ /\ ArchivePath(a.new) = ArchivePath(b.new)
       /\ \E p, q \in Tracked : GitPath(p) = a.new /\ GitPath(q) = b.new /\ PathBefore(p, q)

\* Somebody commits every change in the folder: git reports a removal and an
\* addition as a rename where it finds them similar. Clocks may go back.
Commit(renames, others, time) ==
    /\ commits < MaxCommits /\ commits' = commits + 1
    /\ Added \cup Deleted \cup Modified # {}
    /\ LET Plain(kind, paths) == {[kind |-> kind, old |-> g, new |-> g] : g \in paths}
           moved == {r.new : r \in renames} \cup {r.old : r \in renames}
           lines == renames \cup Plain("A", Added \ moved) \cup Plain("D", Deleted \ moved)
                    \cup Plain("M", Modified)
           commit == [time |-> time, tree |-> TreeOf(Present),
                      lines |-> SetToSortSeq(lines, LineOrder) \o SetToSeq(Plain("M", others))]
       IN  log' = Append(log, commit)
    /\ head' = [p \in Paths |-> IF p \in Tracked THEN files[p] ELSE head[p]]
    /\ steady' = {p \in steady : head'[p] = head[p]}
    /\ UNCHANGED <<files, load, index, edits, loads, vanished, history>>

Renames == {{}} \cup {{[kind |-> "R", old |-> d, new |-> a]} : d \in Deleted, a \in Added}
Times == IF log = << >> THEN {1}
         ELSE {Last(log).time + 1, Last(log).time - MaxSkew}

ReadHistory ==
    /\ \E probe \in {"ok", "shallow"} :
         history' = [History(log, probe) EXCEPT !.upto = Len(log)]
    /\ history' # history
    /\ UNCHANGED <<indexVars, log, commits>>

WorkflowInit == IndexInit /\ log = << >> /\ history = Unavailable /\ commits \in 0 .. MaxCommits

WorkflowNext ==
    \/ IndexNext /\ UNCHANGED historyVars
    \/ \E renames \in Renames, other \in SUBSET Others, time \in Times :
          Cardinality(other) <= 1 /\ Commit(renames, other, time)
    \/ ReadHistory

WorkflowSpec == WorkflowInit /\ [][WorkflowNext]_<<indexVars, historyVars>>

(***************************************************************************)
(* What the timelines and the metrics tell.                                *)
(***************************************************************************)
Current == history.available /\ history.upto = Len(log)
OnlyOne(id) ==
    \A k \in DOMAIN log :
        Cardinality({g \in DOMAIN log[k].tree : log[k].tree[g].id = id}) <= 1
InOrder == \A i, j \in DOMAIN log : i <= j => log[i].time <= log[j].time

TimelineReachesTask ==
    Current /\ InOrder /\ log # << >> =>
    \A g \in DOMAIN HeadTree \ Others :
        LET blob == HeadTree[g]
            line == Timeline(history, blob.id) IN
        OnlyOne(blob.id) =>
            /\ line # << >> /\ Head(line).from = "none"
            /\ \A k \in 1 .. Len(line) - 1 : line[k + 1].from = line[k].to
            /\ \A k \in DOMAIN line : line[k].from # line[k].to
            /\ \/ Last(line).to = blob.status
               \/ ArchivePath(g) /\ Last(line).to = "done"

MetricsAddUp ==
    history.available =>
    LET ids == EntityIds(history)
        stages == {e.to : e \in Range(history.events)}
        Cycle(id) == CycleTime(history, id)
        Spent(stage) == Dwell(history, stage)
        Count(stage) == Cardinality(InProgress(history, stage))
    IN  /\ MapThenSumSet(Cycle, ids) = MapThenSumSet(Spent, stages)
        /\ \A id \in ids : Cycle(id) >= 0
        /\ MapThenSumSet(Count, stages) = Cardinality(ids)
        /\ InProgress(history, "done") \subseteq Completed(history)

\* The history is told right.  The timeline of a committed task is a chain of
\* stages that starts where the task began and ends in the stage its file has
\* now, or in done once the task is archived, as long as its id names one file
\* at a time and the commits' clocks agree: renames, removals and files that are
\* no entities included (git_history.rs:77-118, index.rs:325-336).  And the
\* metrics add up, whatever the clocks said: every second of a cycle time is a
\* second spent in one stage, no cycle time is negative, and every entity is in
\* one stage (metrics.rs:17-57).
HistoryIsTrue == TimelineReachesTask /\ MetricsAddUp
=============================================================================
