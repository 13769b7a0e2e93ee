----------------------------- MODULE Discovery ------------------------------
(***************************************************************************)
(* The search for workflows below a directory: every entry of the tree is   *)
(* visited, links are followed, some names are never entered, and a         *)
(* directory whose README is marked is a workflow.  Meanwhile directories  *)
(* may be removed.                                                          *)
(*                                                                         *)
(* An entry is a directory's place among the entries above it.  The walk    *)
(* goes depth first in the order of the file system, which is any order;   *)
(* here the entries that are known may come in every order.                *)
(***************************************************************************)
EXTENDS Naturals, Sequences, FiniteSets, SequencesExt

CONSTANTS
    Dirs,       \* the directories, by their real paths, in order
    Top         \* the one that is scanned

ASSUME DiscoveryConstants == Dirs \subseteq Nat /\ IsFiniteSet(Dirs) /\ Top \in Dirs

\* The trees a walk may find, with nothing removed yet
Trees == [marked : SUBSET Dirs, unreadable : SUBSET Dirs, removed : {{}}, fragile : SUBSET Dirs,
          entries : SUBSET [in : Dirs, to : Dirs, pruned : BOOLEAN], topPruned : BOOLEAN]

VARIABLES
    tree,       \* marked, unreadable, removed and fragile directories (the ones
                \* that may still be removed), the entries, and whether the
                \* scanned directory's own name is a pruned one
    todo,       \* entries the walk has still to visit
    visited,    \* real paths it has been at
    found,      \* workflows, out_paths
    walk        \* "idle", "on", "done", "failed"

discoveryVars == <<tree, todo, visited, found, walk>>

\* What a directory holds: entries with a name that is pruned or not.  A link
\* may lead to any directory.
Entries(t, d) == {e \in t.entries : e.in = d}
There(t, d) == d \notin t.removed

DiscoveryInit(t) ==
    /\ tree = t
    /\ todo = {} /\ visited = {} /\ found = {} /\ walk = "idle"

StartWalk ==
    /\ walk = "idle"
    /\ walk' = "on"
    /\ todo' = {[at |-> Top, above |-> <<>>, pruned |-> tree.topPruned]}
    /\ UNCHANGED <<tree, visited, found>>

\* Mutated form: the name of the directory that is scanned counts as well.
PrunedByName(e) == e.pruned

\* is_pruned
IsPruned(e) == e.pruned /\ e.above # <<>>

\* walk_error_decision: a link to a directory above ends there, so does an
\* entry that is gone; the walk fails on any other error, and it finds nothing
\* where there is nothing to scan.
Loops(e) == e.at \in ToSet(e.above)

\* What an entry leads to, once it is yielded
Below(e) ==
    {[at |-> c.to, above |-> Append(e.above, e.at), pruned |-> c.pruned] : c \in Entries(tree, e.at)}

\* One turn of the loop.  A directory that was visited by another way is not
\* looked at again, but it is entered.
Visit ==
    /\ walk = "on"
    /\ \E e \in todo :
        IF e.above = <<>> /\ ~There(tree, e.at)
        THEN walk' = "done" /\ todo' = {} /\ found' = {} /\ UNCHANGED visited
        ELSE IF IsPruned(e) \/ ~There(tree, e.at) \/ Loops(e)
        THEN todo' = todo \ {e} /\ UNCHANGED <<visited, found, walk>>
        ELSE /\ visited' = visited \cup {e.at}
             /\ found' = IF e.at \notin visited /\ e.at \in tree.marked
                         THEN found \cup {e.at} ELSE found
             /\ IF e.at \in tree.unreadable
                THEN walk' = "failed" /\ todo' = {}
                ELSE todo' = (todo \ {e}) \cup Below(e) /\ UNCHANGED walk
    /\ UNCHANGED tree

Finish ==
    /\ walk = "on" /\ todo = {}
    /\ walk' = "done"
    /\ UNCHANGED <<tree, todo, visited, found>>

\* Someone removes a directory while the walk goes on.
Vanish ==
    /\ walk = "on"
    /\ \E d \in tree.fragile \ tree.removed : tree' = [tree EXCEPT !.removed = @ \cup {d}]
    /\ UNCHANGED <<todo, visited, found, walk>>

----------------------------------------------------------------------------
\* The directories that can be reached without a pruned name: those in every
\* set that holds the scanned one and, with a directory, what it leads to
Closed(t, S) ==
    /\ There(t, Top) => Top \in S
    /\ \A c \in t.entries : c.in \in S /\ ~c.pruned /\ There(t, c.to) => c.to \in S
Reachable(t) == {d \in Dirs : \A S \in SUBSET Dirs : Closed(t, S) => d \in S}

\* The scan's answer is the marked directories that can be reached: it leaves
\* out none that stayed, and names none that is not one, whatever order links
\* and removals bring the entries in.
WalkIsExact ==
    walk = "done" =>
        /\ Reachable(tree) \cap tree.marked \subseteq found
        /\ found \subseteq Reachable([tree EXCEPT !.removed = {}]) \cap tree.marked
=============================================================================
