--------------------------- MODULE WorkflowIndex ---------------------------
(***************************************************************************)
(* The index of one workflow: how a load reads the README's folder, its    *)
(* worktree copies and its archive one file after the other                *)
(* (parser/snapshot.rs, worktree.rs, archive.rs), merges them, and is      *)
(* installed over the index before it (index.rs, app/overview.rs), while   *)
(* agents write, remove and archive the same files.                        *)
(*                                                                         *)
(* A file is a root (the workflow's folder, its archive, or the same folder*)
(* in a worktree), a slug and a form: slug.md or slug/index.md.  What is on*)
(* it is a set of at most one content; a content is its frontmatter and the*)
(* name of its body.  The README's stages do not change.                   *)
(***************************************************************************)
EXTENDS Gates, Sorting

CONSTANTS
    Slugs,          \* the slugs in the order of the file names
    Worktrees,      \* the worktree roots in scan order
    IdStyle,        \* "slug" or "sequential": id-style of the README
    TopologyVerified, \* the entity folder is no unverified state checkout
    MainContents, CopyContents,     \* what other processes write
    Folders,        \* what may be on disk at the start
    Commits,        \* which of the paths may be committed then
    MaxEdits, MaxLoads

ASSUME IndexAssumption ==
    /\ Slugs \in Seq(Range(Slugs)) /\ IsInjective(Slugs)
    /\ Worktrees \in Seq(Range(Worktrees)) /\ IsInjective(Worktrees)
    /\ {"main", "archive", "none"} \cap Range(Worktrees) = {}
    /\ TopologyVerified \in BOOLEAN
    /\ MaxEdits \in Nat /\ MaxLoads \in Nat

VARIABLES
    files,      \* what is on each path
    head,       \* what their HEAD has on each path
    load,       \* the load that is running
    index,      \* the installed index
    edits, loads,
    steady,     \* the paths nobody touched since the last load began
    vanished    \* the paths that were removed since then

indexVars == <<files, head, load, index, edits, loads, steady, vanished>>
env == <<files, head, edits, steady, vanished>>

Paths == [root : {"main", "archive"} \cup Range(Worktrees), slug : Range(Slugs),
          form : {"folder", "flat"}]
Nowhere == [root |-> "none", slug |-> "none", form |-> "none"]
Rank(slug) == CHOOSE i \in DOMAIN Slugs : Slugs[i] = slug

\* The order of paths in one folder: slug/index.md comes before slug.md.
PathBefore(p, q) ==
    \/ Rank(p.slug) < Rank(q.slug)
    \/ p.slug = q.slug /\ p.form = "folder" /\ q.form = "flat"

In(root) == {p \in Paths : p.root = root /\ files[p] # {}}
Listing(root) == Ranked([p \in In(root) |-> {q \in In(root) : PathBefore(q, p)}])
OnDisk(p) == CHOOSE c \in files[p] : TRUE
Clean(p) == files[p] # {} /\ head[p] = files[p]

\* What may be written: at most one content on a path, and what a gate record is.
Written == MainContents \cup CopyContents \cup UNION {f[p] : f \in Folders, p \in Paths}

ASSUME ContentsAssumption ==
    /\ \A f \in Folders : f \in [Paths -> SUBSET Written]
    /\ \A c \in Written : Serialized(c.gates)

(***************************************************************************)
(* One file.                                                               *)
(***************************************************************************)
\* A blank id is the slug where the README says so.
ResolveId(c, p) == IF c.id = NoText /\ IdStyle = "slug" THEN p.slug ELSE c.id

Parses(p, c) == c.yaml /\ ResolveId(c, p) # NoText /\ c.status \in StageNames

\* gate_preparation, with the state of git at the moment of the probe.
Preparation(gates, status, body, cleanly) ==
    LET proven == TopologyVerified /\ Proven(status, body, cleanly) IN
    IF ToProve(gates, status)
    THEN [proven |-> proven, diagnosed |-> ~proven]
    ELSE [proven |-> FALSE, diagnosed |-> FALSE]

Entity(p, c) ==
    [path |-> p, origin |-> p, id |-> ResolveId(c, p), status |-> c.status,
     gates |-> c.gates, completed |-> c.completed, body |-> c.body,
     preparation |-> [proven |-> FALSE, diagnosed |-> FALSE], readiness |-> "None",
     source |-> Nowhere, mainBody |-> "none"]

Prepared(e) ==
    [e EXCEPT !.preparation = Preparation(e.gates, e.status, e.body, Clean(e.path))]

(***************************************************************************)
(* The merge of the main rows with one worktree copy.                      *)
(***************************************************************************)
Tagged(copy) == [copy EXCEPT !.source = copy.path, !.mainBody = "none"]

\* A mutated form of Merged: the gate record goes with the copy.
MergedWithGates(row, copy) ==
    [row EXCEPT !.path = copy.path, !.body = copy.body, !.source = copy.path,
                !.mainBody = row.body, !.gates = copy.gates]

\* The row keeps the frontmatter and its proof, the copy gives the body.
Merged(row, copy) ==
    [row EXCEPT !.path = copy.path, !.body = copy.body, !.source = copy.path,
                !.mainBody = row.body]

\* A mutated form of MergedWorktreeItem: a copy that is equal to the main file
\* no longer takes back what an earlier copy changed.
MergedUnlessSameBody(row, copy) ==
    IF files[copy.path] = {} /\ files[row.path] # {} THEN row
    ELSE IF files[row.path] = {} THEN Tagged(copy)
    ELSE IF files[copy.path] = files[row.origin] THEN row
    ELSE Merged(row, copy)

MergedWorktreeItem(row, copy) ==
    IF files[copy.path] = {} /\ files[row.path] # {} THEN row
    ELSE IF files[row.path] = {} THEN Tagged(copy)
    ELSE IF files[copy.path] = files[row.path] THEN row
    ELSE Merged(row, copy)

ArchivedSlugExists(slug) == \E p \in In("archive") : p.slug = slug

\* The place of the last of some rows that have the id.
LastOf(rows, id) ==
    CHOOSE i \in DOMAIN rows : rows[i].id = id /\ \A j \in DOMAIN rows : j > i => rows[j].id # id

\* The map by slug keeps the last of two rows with one slug.
BySlug(items) ==
    [slug \in {items[i].path.slug : i \in DOMAIN items} |->
        items[CHOOSE i \in DOMAIN items :
                 /\ items[i].path.slug = slug
                 /\ \A j \in DOMAIN items : j > i => items[j].path.slug # slug]]

\* One copy comes to the rows by slug.
MergeCopy(rows, copy) ==
    LET slug == copy.path.slug IN
    IF slug \in DOMAIN rows THEN [rows EXCEPT ![slug] = MergedWorktreeItem(@, copy)]
    ELSE IF ArchivedSlugExists(slug) THEN rows
    ELSE [s \in DOMAIN rows \cup {slug} |-> IF s = slug THEN Tagged(copy) ELSE rows[s]]

ListOf(rows) ==
    LET order == Ranked([s \in DOMAIN rows |-> {r \in DOMAIN rows : Rank(r) < Rank(s)}])
    IN  [i \in DOMAIN order |-> rows[order[i]]]

(***************************************************************************)
(* The index.                                                              *)
(***************************************************************************)
WithReadiness(e) ==
    [e EXCEPT !.readiness = Readiness(e.gates, e.status, e.preparation.proven)]

\* by_id after rebuild_lookup_maps: the last row with the id, active rows last.
ById(ix, id) == LET rows == ix.archived \o ix.active IN rows[LastOf(rows, id)]

\* shared has the ids that two rows have had since the activity was found.
EmptyIndex == [loaded |-> FALSE, active |-> << >>, errors |-> {}, archived |-> << >>, archiveErrors |-> {},
               archiveLoaded |-> FALSE, archiveFailed |-> FALSE, reloadFailed |-> FALSE,
               activity |-> << >>, shared |-> {}]

\* The path of the last active row with the id.
PathOf(ix, id) == ix.active[LastOf(ix.active, id)].path
Ids(ix) == {e.id : e \in Range(ix.active)}
Shared(rows) == {rows[i].id : i \in {j \in DOMAIN rows :
                    \E k \in DOMAIN rows : k # j /\ rows[k].id = rows[j].id}}

\* Activity survives for an id whose row still has the same path.
Retained(old, new) ==
    [id \in {i \in DOMAIN old.activity :
                /\ i \in Ids(old)
                /\ \E e \in Range(new.active) : e.id = i /\ e.path = PathOf(old, i)}
        |-> old.activity[id]]

Idle == [phase |-> "Idle", left |-> << >>, roots |-> << >>, items |-> << >>,
         copies |-> << >>, rows |-> << >>, errors |-> {}, archived |-> << >>, archiveErrors |-> {},
         reload |-> TRUE, scope |-> "Active"]

\* Completed entities first, the latest first; the path decides between equals.
ArchiveOrder(a, b) ==
    \/ a.completed > b.completed
    \/ a.completed = b.completed /\ PathBefore(a.path, b.path)

Install(active, archived) ==
    LET new == [EmptyIndex EXCEPT !.loaded = TRUE, !.active = [i \in DOMAIN active |-> WithReadiness(active[i])],
                                  !.errors = load.errors, !.archived = archived,
                                  !.archiveErrors = load.archiveErrors,
                                  !.archiveLoaded = load.scope = "Archived"]
    IN  index' = [new EXCEPT !.activity = Retained(index, new),
                             !.shared = index.shared \cup Shared(active)]

(***************************************************************************)
(* A load, one file at a time.                                             *)
(***************************************************************************)
BeginLoad(scope) ==
    /\ load.phase = "Idle" /\ loads < MaxLoads
    /\ loads' = loads + 1
    /\ load' = [Idle EXCEPT !.phase = "Items", !.left = Listing("main"),
                            !.roots = Worktrees, !.scope = scope]
    /\ steady' = Paths /\ vanished' = {}
    /\ UNCHANGED <<files, head, index, edits>>

\* A file that is gone when it is read fails the load. A reload keeps the index
\* it had; an archive that could not be read counts as read and is empty.
Fail ==
    /\ load.left # << >> /\ files[Head(load.left)] = {}
    /\ load' = Idle
    /\ index' = IF ~load.reload
                THEN [index EXCEPT !.archiveFailed = TRUE, !.archiveLoaded = TRUE]
                ELSE [index EXCEPT !.archiveFailed = @ \/ load.phase = "Archive",
                                   !.reloadFailed = TRUE]
    /\ UNCHANGED <<env, loads>>

Reading(phase) ==
    /\ load.phase = phase /\ load.left # << >> /\ files[Head(load.left)] # {}
    /\ UNCHANGED <<env, loads, index>>

ReadItem ==
    /\ Reading("Items")
    /\ LET p == Head(load.left)
           read == [load EXCEPT !.left = Tail(@)] IN
       load' = IF Parses(p, OnDisk(p))
               THEN [read EXCEPT !.items = Append(@, Prepared(Entity(p, OnDisk(p))))]
               ELSE [read EXCEPT !.errors = @ \cup {p}]

ReadCopy ==
    /\ Reading("Copies")
    /\ LET p == Head(load.left)
           read == [load EXCEPT !.left = Tail(@)] IN
       load' = IF Parses(p, OnDisk(p))
               THEN [read EXCEPT !.copies = Append(@, Entity(p, OnDisk(p)))]
               ELSE [read EXCEPT !.errors = @ \cup {p}]

\* The next worktree that has the workflow's folder.
ScanWorktree ==
    /\ load.phase \in {"Items", "Copies"} /\ load.left = << >> /\ load.roots # << >>
    /\ load' = [load EXCEPT !.phase = "Copies", !.left = Listing(Head(load.roots)),
                            !.roots = Tail(@)]
    /\ UNCHANGED <<env, loads, index>>

\* The copies are proved after the scan. Without any, the rows are the items as
\* they are; otherwise they are kept by slug and merged one copy at a time.
BeginMerge ==
    /\ load.phase \in {"Items", "Copies"} /\ load.left = << >> /\ load.roots = << >>
    /\ load' = IF load.copies = << >> THEN [load EXCEPT !.phase = "Loaded"]
               ELSE [load EXCEPT !.phase = "Merge", !.rows = BySlug(load.items),
                                 !.copies = [i \in DOMAIN @ |-> Prepared(@[i])]]
    /\ UNCHANGED <<env, loads, index>>

MergeNext ==
    /\ load.phase = "Merge" /\ load.copies # << >>
    /\ load' = [load EXCEPT !.rows = MergeCopy(@, Head(load.copies)), !.copies = Tail(@)]
    /\ UNCHANGED <<env, loads, index>>

EndMerge ==
    /\ load.phase = "Merge" /\ load.copies = << >>
    /\ load' = [load EXCEPT !.phase = "Loaded", !.items = ListOf(load.rows)]
    /\ UNCHANGED <<env, loads, index>>

\* A reload in the archived scope reads the archive before it installs.
LoadedActive ==
    /\ load.phase = "Loaded"
    /\ IF load.scope = "Archived"
       THEN /\ load' = [load EXCEPT !.phase = "Archive", !.left = Listing("archive")]
            /\ UNCHANGED index
       ELSE /\ load' = Idle
            /\ Install(load.items, << >>)
    /\ UNCHANGED <<env, loads>>

\* The user shows the archive of an index that has not read it yet.
OpenArchive ==
    /\ load.phase = "Idle" /\ loads < MaxLoads /\ index.loaded /\ ~index.archiveLoaded
    /\ loads' = loads + 1
    /\ load' = [Idle EXCEPT !.phase = "Archive", !.left = Listing("archive"), !.reload = FALSE]
    /\ UNCHANGED <<env, index>>

ReadArchived ==
    /\ Reading("Archive")
    /\ LET p == Head(load.left)
           read == [load EXCEPT !.left = Tail(@)] IN
       load' = IF Parses(p, OnDisk(p))
               THEN [read EXCEPT !.archived = Append(@, Entity(p, OnDisk(p)))]
               ELSE [read EXCEPT !.archiveErrors = @ \cup {p}]

LoadedArchive ==
    /\ load.phase = "Archive" /\ load.left = << >>
    /\ LET read == Range(load.archived)
           archived == Ranked([e \in read |-> {d \in read : ArchiveOrder(d, e)}]) IN
       IF load.reload
       THEN Install(load.items, archived)
       ELSE index' = [index EXCEPT !.archived = archived, !.archiveLoaded = TRUE,
                                   !.archiveErrors = load.archiveErrors]
    /\ load' = Idle
    /\ UNCHANGED <<env, loads>>

\* A session scan attributes an activity to some of the rows.
Scanned ==
    /\ load.phase = "Idle" /\ index.activity = << >> /\ loads < MaxLoads
    /\ \E busy \in SUBSET Ids(index) \ {{}} :
         index' = [index EXCEPT !.activity = [id \in busy |-> PathOf(index, id)],
                                !.shared = Shared(index.active)]
    /\ UNCHANGED <<env, loads, load>>

(***************************************************************************)
(* Other processes: an editor or an agent writes or removes a file, the    *)
(* first officer archives a task, a worktree goes away.                    *)
(***************************************************************************)
Touch(paths) ==
    /\ edits < MaxEdits /\ edits' = edits + 1
    /\ steady' = steady \ paths
    /\ vanished' = vanished \cup {p \in paths : files[p] # {} /\ files'[p] = {}}
    /\ UNCHANGED <<head, load, index, loads>>

Write(p, c) ==
    /\ files[p] # {c}
    /\ files' = [files EXCEPT ![p] = {c}]
    /\ Touch({p})

Delete(p) ==
    /\ files[p] # {}
    /\ files' = [files EXCEPT ![p] = {}]
    /\ Touch({p})

Archive(p) ==
    LET q == [p EXCEPT !.root = "archive"] IN
    /\ p.root = "main" /\ files[p] # {} /\ files[q] = {}
    /\ files' = [files EXCEPT ![p] = {}, ![q] = files[p]]
    /\ Touch({p, q})

RemoveWorktree(w) ==
    /\ In(w) # {}
    /\ files' = [p \in Paths |-> IF p.root = w THEN {} ELSE files[p]]
    /\ Touch(In(w))

Edit ==
    \/ \E p \in Paths, c \in MainContents : p.root = "main" /\ Write(p, c)
    \/ \E p \in Paths, c \in CopyContents : p.root \in Range(Worktrees) /\ Write(p, c)
    \/ \E p \in Paths : Delete(p)
    \/ \E p \in Paths : Archive(p)
    \/ \E w \in Range(Worktrees) : RemoveWorktree(w)

LoadStep ==
    \/ \E scope \in {"Active", "Archived"} : BeginLoad(scope)
    \/ Fail \/ ReadItem \/ ReadCopy \/ ScanWorktree \/ BeginMerge \/ MergeNext \/ EndMerge
    \/ LoadedActive \/ OpenArchive \/ ReadArchived \/ LoadedArchive \/ Scanned

IndexInit ==
    /\ files \in Folders
    /\ \E committed \in Commits :
         head = [p \in Paths |-> IF p \in committed THEN files[p] ELSE {}]
    /\ load = Idle /\ index = EmptyIndex
    /\ edits \in 0 .. MaxEdits /\ loads \in 0 .. MaxLoads
    /\ steady = Paths /\ vanished = {}

IndexNext == Edit \/ LoadStep

(***************************************************************************)
(* What a reader of the list relies on.                                    *)
(***************************************************************************)
Fresh == load.phase = "Idle" /\ index.loaded /\ ~index.reloadFailed
Parsed(root, slug) == {p \in In(root) : p.slug = slug /\ Parses(p, OnDisk(p))}
CopiesOf(slug) == UNION {Parsed(w, slug) : w \in Range(Worktrees)}
SteadySlug(slug) == \A p \in Paths : p.slug = slug => p \in steady
RowsOf(slug) == {e \in Range(index.active) : e.path.slug = slug}

\* The order in which a load reads the files outside the archive.
RootPlace(root) ==
    IF root = "main" THEN 0 ELSE CHOOSE i \in DOMAIN Worktrees : Worktrees[i] = root
ReadBefore(p, q) ==
    \/ RootPlace(p.root) < RootPlace(q.root)
    \/ p.root = q.root /\ PathBefore(p, q)
FirstRead(paths) == CHOOSE p \in paths : \A q \in paths \ {p} : ReadBefore(p, q)
LastRead(paths) == CHOOSE p \in paths : \A q \in paths \ {p} : ReadBefore(q, p)

\* The frontmatter of a row: what the file p says, and what follows from it.
OwnedBy(e, p) ==
    LET c == OnDisk(p)
        proof == Preparation(c.gates, c.status, c.body, Clean(p)) IN
    /\ e.origin = p /\ e.id = ResolveId(c, p) /\ e.status = c.status /\ e.gates = c.gates
    /\ e.preparation = proof /\ e.readiness = Readiness(c.gates, c.status, proof.proven)

ShowsWhatFilesSay ==
    Fresh =>
    \A slug \in Range(Slugs) : SteadySlug(slug) =>
        LET mains == Parsed("main", slug)
            copies == CopiesOf(slug)
            rows == RowsOf(slug)
            owner == IF mains # {} THEN LastRead(mains) ELSE FirstRead(copies)
            hidden == mains = {} /\ \E p \in In("archive") : p.slug = slug
        IN  /\ {p \in index.errors : p.slug = slug} =
                 {p \in Paths : p.slug = slug /\ p.root # "archive" /\ files[p] # {}
                                /\ ~Parses(p, OnDisk(p))}
            /\ copies = {} =>
                 /\ \A e \in rows : e.path \in mains /\ OwnedBy(e, e.path)
                 /\ mains # {} => owner \in {e.path : e \in rows}
            /\ copies # {} => IF hidden THEN rows = {} ELSE \E e \in rows :
                 /\ rows = {e} /\ OwnedBy(e, owner)
                 /\ e.body = OnDisk(LastRead(copies)).body
                 /\ e.source = Nowhere <=>
                      mains # {} /\ \A q \in copies : files[q] = files[owner]

ArchivedStaysAway ==
    Fresh =>
    \A slug \in Range(Slugs) :
        /\ \E p \in steady : p.root = "archive" /\ p.slug = slug /\ files[p] # {}
        /\ \A p \in Paths : p.root = "main" /\ p.slug = slug => p \in steady /\ files[p] = {}
        => RowsOf(slug) = {}

ActivityFollowsTask ==
    \A id \in DOMAIN index.activity :
        /\ id \in Ids(index) /\ ById(index, id) \in Range(index.active)
        /\ id \notin index.shared => ById(index, id).path = index.activity[id]

\* The rows are what the files say.  When nobody touches any file of a task
\* during a load, the list shows the task as the files declare it: main's
\* frontmatter with the body of the last worktree copy, marked when a copy
\* differs; without main the first copy's frontmatter, unless the task is
\* archived; nothing when no file of it parses; and every file that does not
\* parse as an error (parser/snapshot.rs:11-61, parser/worktree.rs:115-160).
\* Whatever happens to the copies, an archived task without main file is not
\* brought back by one left in a worktree (parser/worktree.rs:136-139).  And an
\* activity that outlives a reload still belongs to the row it was found for, as
\* long as no two rows have its id: an id whose row moved to another file gets
\* none, and the details opened by the id are a row's, not an archived
\* namesake's (index.rs:180-213,479-489).
RowsAreTrue == ShowsWhatFilesSay /\ ArchivedStaysAway /\ ActivityFollowsTask

\* The main copy decides what a task is: whatever happens to its worktree
\* copies while a load runs, short of one vanishing, a row whose main file
\* stayed as it is carries that file's identity, status, gate record and
\* preparation proof (README.md:136-137, parser/worktree.rs:190-218).
MainDecides ==
    Fresh =>
    \A p \in steady :
        LET twins == {q \in Paths : q.root = "main" /\ q.slug = p.slug} IN
        /\ p.root = "main" /\ files[p] # {} /\ Parses(p, OnDisk(p))
        /\ \A q \in twins \ {p} : q \in steady /\ files[q] = {}
        /\ \A q \in vanished : q.slug # p.slug
        => \E e \in RowsOf(p.slug) : RowsOf(p.slug) = {e} /\ OwnedBy(e, p)

\* The approval that the row e waits to be applied.
RecordedFor(e, reason) ==
    \E doc \in e.gates : \E r \in Range(doc.records) :
        LET a == r.attempts[Len(r.attempts)] IN
        /\ {q \in Range(doc.records) : q.stage = e.status} = {r}
        /\ \E s \in Range(Stages) : s.name = e.status /\ s.gate /\ ~s.terminal
        /\ a.withdrawal = {} /\ a.briefing.bound
        /\ \E answer \in a.resolution, p \in a.application, s \in Range(Stages) :
            /\ answer.decision = "Approve" /\ answer.briefing = a.briefing.id
            /\ p.state = "Pending" /\ p.target = s.name /\ s.name # e.status
            /\ s.terminal <=> reason = "MergePending"
        /\ \A q \in Range(doc.records) : \A i \in DOMAIN q.attempts :
             q.attempts[i].briefing.id = a.briefing.id => q = r /\ i = Len(r.attempts)

\* An approval that waits to be applied is one that was recorded: by the latest
\* attempt of the only record for the row's stage, which is a gate, bound to its
\* Briefing and not withdrawn, pending, and for another stage of the workflow;
\* it waits for a merge exactly when that stage is terminal (README.md:126-129).
ApprovalIsRecorded ==
    \A e \in Range(index.active) :
        LET reason == Attention(e.gates, e.readiness, e.preparation.diagnosed) IN
        reason \in {"AdvancePending", "MergePending"} => RecordedFor(e, reason)
=============================================================================
