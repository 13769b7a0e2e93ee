------------------------------- MODULE Session -------------------------------
(***************************************************************************)
(* OverviewSession: one slot per discovered workflow, loaded on first      *)
(* visit, and the index of the active one.  Positions count from 1.        *)
(*                                                                         *)
(* Of a loaded workflow the model keeps what the workers and the watcher   *)
(* bring to it: which history and which session activity it shows, whether *)
(* its last read failed, and (ghost) whether the directory has changed     *)
(* since that read, with a watcher running or without.                     *)
(***************************************************************************)
EXTENDS Naturals, Sequences, FiniteSets, SequencesExt

CONSTANTS
    Dirs,       \* workflow directories, as numbers in the order of their paths
    NoSlot,     \* a slot that has not been loaded
    Nothing,    \* no result shown
    Loading     \* the history is being loaded

Lists == UNION {[1 .. n -> Dirs] : n \in 0 .. Cardinality(Dirs)}

\* What a discovery that finds the directories of S returns: sorted by path.
Listings(S) ==
    {list \in Lists : /\ ToSet(list) = S
                      /\ \A i, j \in DOMAIN list : i < j => list[i] < list[j]}

Slots == [dir : Dirs,
          shown : BOOLEAN,                      \* a real index, not `empty`
          history : {Nothing, Loading} \cup Dirs,
          activity : {Nothing} \cup Dirs,
          failed : BOOLEAN,
          behind : {"no", "unwatched", "watched"}]

ASSUME SessionConstants ==
    /\ Dirs \subseteq Nat /\ IsFiniteSet(Dirs)
    /\ NoSlot \notin Slots
    /\ {Nothing, Loading} \cap Dirs = {}

Position(list, d) == CHOOSE i \in DOMAIN list : list[i] = d

(***************************************************************************)
(* Slots                                                                   *)
(***************************************************************************)
\* OverviewState::empty with an error: nothing to show, nothing loading.
EmptySlot(d) == [dir |-> d, shown |-> FALSE, history |-> Nothing,
                 activity |-> Nothing, failed |-> TRUE, behind |-> "no"]

LoadedSlot(d) == [dir |-> d, shown |-> TRUE, history |-> Loading,
                  activity |-> Nothing, failed |-> FALSE, behind |-> "no"]

\* A reload in place keeps the published activity; a failed one keeps all.
Reloaded(slot) == [slot EXCEPT !.shown = TRUE, !.history = Loading,
                               !.failed = FALSE, !.behind = "no"]
ReloadFailed(slot) == [slot EXCEPT !.failed = TRUE, !.behind = "no"]

(***************************************************************************)
(* The session                                                             *)
(***************************************************************************)
Sessions == [discovery : Lists, workflows : Seq(Slots \cup {NoSlot}), active : Nat]

FromDiscovery(list, slot) ==
    [discovery |-> list,
     workflows |-> [i \in 1 .. Len(list) |-> IF i = 1 THEN slot ELSE NoSlot],
     active |-> 1]

ActiveDir(s) == s.discovery[s.active]
ActiveSlot(s) == s.workflows[s.active]
ActiveLoaded(s) == ActiveSlot(s) # NoSlot
InstallActive(s, slot) == [s EXCEPT !.workflows[s.active] = slot]

CycleNext(s) == IF s.active = Len(s.discovery) THEN 1 ELSE s.active + 1
CyclePrev(s) == IF s.active = 1 THEN Len(s.discovery) ELSE s.active - 1

Select(s, i) == [s EXCEPT !.active = i]

\* Mutated form: slots stay at their positions while the list moves.
ReplaceDiscoveryInPlace(s, list) ==
    [discovery |-> list,
     workflows |-> [i \in 1 .. Len(list) |->
                      IF i <= Len(s.workflows) THEN s.workflows[i] ELSE NoSlot],
     active |-> IF ActiveDir(s) \in ToSet(list) THEN Position(list, ActiveDir(s)) ELSE 1]

ReplaceDiscovery(s, list) ==
    [discovery |-> list,
     workflows |-> [i \in 1 .. Len(list) |->
                      IF list[i] \in ToSet(s.discovery)
                      THEN s.workflows[Position(s.discovery, list[i])]
                      ELSE NoSlot],
     active |-> IF ActiveDir(s) \in ToSet(list) THEN Position(list, ActiveDir(s)) ELSE 1]
=============================================================================
