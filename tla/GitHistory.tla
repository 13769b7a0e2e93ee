----------------------------- MODULE GitHistory -----------------------------
(***************************************************************************)
(* The stage history of a workflow as git's first-parent log tells it      *)
(* (git_history.rs), and what the index and the metrics make of it         *)
(* (index.rs, metrics.rs).                                                 *)
(*                                                                         *)
(* A commit has its time, the lines of its name-status and the tree after  *)
(* it. A path is the sequence of its names below the workflow's folder; the*)
(* tree maps paths to the frontmatter of their blobs. A commit never       *)
(* changes, so the calls of git log and git show are one reading.          *)
(***************************************************************************)
EXTENDS Integers, Sequences, FiniteSets, SequencesExt

CONSTANTS
    MarkdownNames   \* the file names that end in .md

\* upto is the length of the log that was read.
Unavailable == [available |-> FALSE, events |-> << >>, upto |-> 0]

EntityPath(path) ==
    /\ path[1] # "_mods" /\ path # <<"README.md">> /\ Last(path) \in MarkdownNames
    /\ \/ Len(path) = 1
       \/ Len(path) = 2 /\ path[2] = "index.md"
       \/ Len(path) = 2 /\ path[1] = "_archive" /\ path[2] # "README.md"
       \/ Len(path) = 3 /\ path[1] = "_archive" /\ path[3] = "index.md"
ArchivePath(path) == path[1] = "_archive"

\* parse_touches of one commit: a rename between two entity paths, or any other
\* line that leaves an entity; removals say nothing.
Touches(commit) ==
    LET Counts(line) ==
            /\ line.kind # "D" /\ EntityPath(line.new)
            /\ line.kind = "R" => EntityPath(line.old)
        lines == SelectSeq(commit.lines, Counts)
    IN  [i \in DOMAIN lines |->
            [at |-> commit.time, blob |-> commit.tree[lines[i].new],
             archived |-> lines[i].kind = "R" /\ ArchivePath(lines[i].new)]]

AllTouches(log) == FlattenSeq([i \in DOMAIN log |-> Touches(log[i])])

\* A blob without a frontmatter, an id or a status makes the history unavailable.
HasMetadata(blob) == blob.yaml /\ blob.id # "" /\ blob.status # ""

\* The status each id had last: the archive means done, whatever the file says.
StatusOf(touch) == IF touch.archived THEN "done" ELSE touch.blob.status
Event(seen, touch) ==
    [id |-> touch.blob.id, from |-> seen, to |-> StatusOf(touch), at |-> touch.at]

\* A mutated form of LastStatus: the stage an entity was first seen in.
FirstStatus(events, id) ==
    LET Mine(e) == e.id = id
        first == SelectInSeq(events, Mine)
    IN  IF first = 0 THEN "none" ELSE events[first].to

\* The last stage an entity was seen in.
LastStatus(events, id) ==
    LET Mine(e) == e.id = id
        last == SelectLastInSeq(events, Mine)
    IN  IF last = 0 THEN "none" ELSE events[last].to

Observe(events, touch) ==
    LET seen == LastStatus(events, touch.blob.id) IN
    IF seen = StatusOf(touch) THEN events ELSE Append(events, Event(seen, touch))

\* load: nothing from a shallow clone or where git fails, else every change of
\* stage in log order.
History(log, probe) ==
    LET touches == AllTouches(log) IN
    IF probe # "ok" \/ \E t \in Range(touches) : ~HasMetadata(t.blob) THEN Unavailable
    ELSE [Unavailable EXCEPT !.available = TRUE, !.events = FoldLeft(Observe, << >>, touches)]

\* A stable sort by time.
Sorted(events) ==
    LET Earlier(i, j) ==
            \/ events[i].at < events[j].at
            \/ events[i].at = events[j].at /\ i < j
        order == SetToSortSeq(DOMAIN events, Earlier)
    IN  [k \in DOMAIN order |-> events[order[k]]]

OfEntity(events, id) == LET Mine(e) == e.id = id IN SelectSeq(events, Mine)
Timeline(history, id) == Sorted(OfEntity(history.events, id))
EntityIds(history) == {e.id : e \in Range(history.events)}

(***************************************************************************)
(* Metrics::from_events.                                                   *)
(***************************************************************************)
\* The seconds spent in a stage, over the pairs of events that leave it.
Dwell(history, stage) ==
    LET Spent(id) ==
            LET line == Timeline(history, id)
                Leaves(k) == IF line[k].to = stage THEN line[k + 1].at - line[k].at ELSE 0
            IN  MapThenSumSet(Leaves, 1 .. Len(line) - 1)
    IN  MapThenSumSet(Spent, EntityIds(history))

CycleTime(history, id) ==
    LET line == Timeline(history, id) IN Last(line).at - Head(line).at

InProgress(history, stage) ==
    {id \in EntityIds(history) : Last(Timeline(history, id)).to = stage}

Completed(history) ==
    {id \in EntityIds(history) : \E e \in Range(Timeline(history, id)) : e.to = "done"}
=============================================================================
