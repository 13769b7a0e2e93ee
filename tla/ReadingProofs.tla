--------------------------- MODULE ReadingProofs ----------------------------
(***************************************************************************)
(* What is read from disk, and when: the search for workflows, the keys of *)
(* the configuration, and the watcher that says when to read again.        *)
(*                                                                         *)
(* The walk: what a visited directory leads to was visited or waits, so    *)
(* that the visited ones are closed when nothing waits; and every closed   *)
(* set of directories holds whatever was or will be visited.               *)
(*                                                                         *)
(* The keys: the bindings that keep a key differ, and of six defaults one  *)
(* is free while at most five keys are used, so that each replacement      *)
(* leaves the replaced ones distinct, too; none is a key of the overview,  *)
(* hence of its arms only the one of the pane has a pane's key.            *)
(*                                                                         *)
(* The watcher implements the source of refresh signals, for any debounce  *)
(* windows and any number of raw events: every event, the open burst and   *)
(* every untaken signal have room in the channel; without a shutdown the   *)
(* thread only ends once the backend is gone and its channel is empty, so  *)
(* that nothing can be owed any more; and the watcher is only closed after *)
(* the thread.                                                             *)
(*                                                                         *)
(* The index: a load reads the files of every root in one order, main      *)
(* files first, then each worktree's, while other processes write. Of the  *)
(* paths that stay as they are meanwhile, a file was read exactly if it is *)
(* behind the reader (PathRead). Copies are merged in the order in which   *)
(* they were read, and the row of a task that stays shows the last of      *)
(* those that were merged (RowTells). A complete list of rows tells what   *)
(* the files of the tasks that stay say (Told), before it is installed and *)
(* after, for nothing is told of a task once a file of it is touched. That *)
(* makes WorkflowInv inductive, and what a reader of the list relies on    *)
(* follows from it.                                                        *)
(***************************************************************************)
EXTENDS Startup, Watcher, Workflow, SequenceTheorems, FiniteSetTheorems, WellFoundedInduction, TLAPS

----------------------------------------------------------------------------
(* The walk *)

TreeOK ==
    /\ tree \in [marked : SUBSET Dirs, unreadable : SUBSET Dirs,
                 removed : SUBSET Dirs, fragile : SUBSET Dirs,
                 entries : SUBSET [in : Dirs, to : Dirs, pruned : BOOLEAN],
                 topPruned : BOOLEAN]

\* The tree as it was before anything was removed from it.
Whole == [tree EXCEPT !.removed = {}]

\* An entry is below directories that were visited, and only the scanned one is
\* below none.
EntriesOK ==
    \A e \in todo :
        /\ e \in [at : Dirs, above : Seq(Dirs), pruned : BOOLEAN]
        /\ ToSet(e.above) \subseteq visited
        /\ e.above = <<>> => e.at = Top /\ visited = {} /\ todo = {e}

Waits(d) == \E e \in todo : e.at = d /\ ~IsPruned(e)

\* What a visited directory leads to was visited, or waits to be.
NothingLeftOut ==
    walk \in {"on", "done"} =>
        /\ There(tree, Top) => Top \in visited \/ Waits(Top)
        /\ \A c \in tree.entries : c.in \in visited /\ ~c.pruned /\ There(tree, c.to) =>
              c.to \in visited \/ Waits(c.to)
        /\ visited \cap tree.marked \subseteq found

\* Where the walk has been, and will go, can be reached.
OnlyReached(S) ==
    Closed(Whole, S) =>
        /\ visited \subseteq S
        /\ \A e \in todo : ~IsPruned(e) => e.at \in S

WalkInv ==
    /\ TreeOK /\ EntriesOK
    /\ visited \subseteq Dirs /\ found \subseteq visited \cap tree.marked
    /\ walk \in {"idle", "on", "done", "failed"}
    /\ walk = "idle" => visited = {}
    /\ walk = "done" => todo = {}
    /\ NothingLeftOut
    /\ \A S \in SUBSET Dirs : OnlyReached(S)

LEMMA WholeIs ==
    ASSUME TreeOK
    PROVE  /\ Whole.entries = tree.entries /\ \A d : There(Whole, d)
           /\ Whole.marked = tree.marked
BY DEF TreeOK, Whole, There

LEMMA ClosedWhole ==
    ASSUME TreeOK, TreeOK', tree'.entries = tree.entries, NEW S
    PROVE  Closed(Whole, S)' <=> Closed(Whole, S)
<1>1. /\ Whole'.entries = Whole.entries
      /\ \A d : There(Whole, d)' /\ There(Whole, d)
      BY DEF TreeOK, Whole, There
<1>2. Closed(Whole, S) <=>
         Top \in S /\ \A c \in Whole.entries : c.in \in S /\ ~c.pruned => c.to \in S
      BY <1>1 DEF Closed
<1>3. Closed(Whole, S)' <=>
         Top \in S /\ \A c \in Whole'.entries : c.in \in S /\ ~c.pruned => c.to \in S
      BY <1>1 DEF Closed
<1> QED BY <1>1, <1>2, <1>3

LEMMA StartWalkKeeps ==
    ASSUME WalkInv, StartWalk PROVE WalkInv'
<1> DEFINE top == [at |-> Top, above |-> <<>>, pruned |-> tree.topPruned]
<1>1. /\ walk = "idle" /\ walk' = "on" /\ todo' = {top} /\ visited = {}
      /\ tree' = tree /\ visited' = visited /\ found' = found /\ found = {}
      BY DEF WalkInv, StartWalk
<1>2. TreeOK /\ TreeOK' /\ tree.topPruned \in BOOLEAN
      BY <1>1 DEF WalkInv, TreeOK
<1>3. top.at = Top /\ top.above = <<>> /\ ~IsPruned(top)
      /\ top \in [at : Dirs, above : Seq(Dirs), pruned : BOOLEAN]
      BY <1>2, DiscoveryConstants DEF IsPruned
<1>4. EntriesOK'
  <2> HIDE DEF top
  <2> QED BY <1>1, <1>3 DEF EntriesOK, ToSet
<1>5. NothingLeftOut'
  <2> HIDE DEF top
  <2> QED BY <1>1, <1>3 DEF NothingLeftOut, Waits, IsPruned
<1>6. ASSUME NEW S \in SUBSET Dirs PROVE OnlyReached(S)'
  <2> HIDE DEF top
  <2>1. Closed(Whole, S) => Top \in S
        BY <1>2, WholeIs DEF Closed
  <2> QED BY <1>1, <1>2, <1>3, <2>1, ClosedWhole DEF OnlyReached
<1> QED BY <1>1, <1>2, <1>4, <1>5, <1>6 DEF WalkInv

\* What an entry that is looked into leads to
LEMMA BelowIs ==
    ASSUME WalkInv, NEW e \in todo, NEW b \in Below(e)
    PROVE  /\ b \in [at : Dirs, above : Seq(Dirs), pruned : BOOLEAN]
           /\ b.above # <<>> /\ ToSet(b.above) \subseteq visited \cup {e.at}
           /\ \E c \in tree.entries : c.in = e.at /\ b.at = c.to /\ b.pruned = c.pruned
<1>1. /\ e.at \in Dirs /\ e.above \in Seq(Dirs) /\ ToSet(e.above) \subseteq visited
      /\ tree.entries \in SUBSET [in : Dirs, to : Dirs, pruned : BOOLEAN]
      BY DEF WalkInv, EntriesOK, TreeOK
<1>2. PICK c \in tree.entries :
         c.in = e.at /\ b = [at |-> c.to, above |-> Append(e.above, e.at), pruned |-> c.pruned]
      BY DEF Below, Entries
<1>3. b.at = c.to /\ b.above = Append(e.above, e.at) /\ b.pruned = c.pruned
      BY <1>2
<1>4. /\ Append(e.above, e.at) \in Seq(Dirs) /\ Append(e.above, e.at) # <<>>
      /\ \A i \in DOMAIN Append(e.above, e.at) :
            Append(e.above, e.at)[i] \in ToSet(e.above) \cup {e.at}
      BY <1>1 DEF ToSet
<1>5. b \in [at : Dirs, above : Seq(Dirs), pruned : BOOLEAN]
      BY <1>1, <1>2, <1>4
<1>6. ToSet(b.above) \subseteq visited \cup {e.at}
      BY <1>1, <1>3, <1>4 DEF ToSet
<1> QED BY <1>2, <1>3, <1>4, <1>5, <1>6

\* An entry that is passed by: pruned, gone, or above itself.
LEMMA PassKeeps ==
    ASSUME WalkInv, walk = "on", NEW e \in todo,
           IsPruned(e) \/ ~There(tree, e.at) \/ Loops(e),
           todo' = todo \ {e}, UNCHANGED <<tree, visited, found, walk>>
    PROVE  WalkInv'
<1>1. TreeOK /\ TreeOK'
      BY DEF WalkInv, TreeOK
<1>2. EntriesOK'
      BY DEF WalkInv, EntriesOK
<1>3. e.at \in visited \/ IsPruned(e) \/ ~There(tree, e.at)
      BY DEF WalkInv, EntriesOK, Loops
<1>4. ASSUME NEW d, Waits(d), There(tree, d) PROVE d \in visited \/ Waits(d)'
      BY <1>3, <1>4 DEF Waits, IsPruned
<1>5. NothingLeftOut'
      BY <1>4 DEF WalkInv, NothingLeftOut, There
<1>6. ASSUME NEW S \in SUBSET Dirs PROVE OnlyReached(S)'
      BY <1>1, ClosedWhole DEF WalkInv, OnlyReached, IsPruned
<1> QED BY <1>1, <1>2, <1>5, <1>6 DEF WalkInv

\* A directory that is looked into
LEMMA EnterKeeps ==
    ASSUME WalkInv, walk = "on", NEW e \in todo,
           ~IsPruned(e), There(tree, e.at), ~Loops(e),
           visited' = visited \cup {e.at},
           found' = IF e.at \notin visited /\ e.at \in tree.marked
                    THEN found \cup {e.at} ELSE found,
           IF e.at \in tree.unreadable
           THEN walk' = "failed" /\ todo' = {}
           ELSE todo' = (todo \ {e}) \cup Below(e) /\ UNCHANGED walk,
           UNCHANGED tree
    PROVE  WalkInv'
<1>1. TreeOK /\ TreeOK' /\ e.at \in Dirs
      BY DEF WalkInv, TreeOK, EntriesOK
<1>2. /\ visited' \subseteq Dirs /\ found' \subseteq visited' \cap tree'.marked
      /\ visited' \cap tree'.marked \subseteq found' \/ walk' # "on"
      /\ walk' \in {"on", "failed"}
      BY <1>1 DEF WalkInv, NothingLeftOut
<1>3. EntriesOK'
  <2>1. SUFFICES ASSUME NEW b \in todo', e.at \notin tree.unreadable
                 PROVE  /\ b \in [at : Dirs, above : Seq(Dirs), pruned : BOOLEAN]
                        /\ ToSet(b.above) \subseteq visited' /\ b.above # <<>>
        BY DEF EntriesOK
  <2>2. CASE b \in Below(e)
        BY <2>2, BelowIs
  <2>3. CASE b \in todo \ {e}
        BY <2>3 DEF WalkInv, EntriesOK
  <2> QED BY <2>1, <2>2, <2>3
<1>4. NothingLeftOut'
  <2>1. SUFFICES ASSUME e.at \notin tree.unreadable PROVE NothingLeftOut'
        BY DEF NothingLeftOut
  <2>2. ASSUME NEW d, d \in visited \/ Waits(d) PROVE d \in visited' \/ Waits(d)'
        BY <2>1, <2>2 DEF Waits, IsPruned
  <2>3. ASSUME NEW c \in tree.entries, c.in = e.at, ~c.pruned PROVE Waits(c.to)'
    <3> DEFINE b == [at |-> c.to, above |-> Append(e.above, e.at), pruned |-> c.pruned]
    <3>1. b \in Below(e)
          BY <2>3 DEF Below, Entries
    <3>2. b \in todo' /\ b.at = c.to /\ ~b.pruned
          BY <2>1, <2>3, <3>1
    <3> QED BY <3>2 DEF Waits, IsPruned
  <2> QED BY <1>2, <2>1, <2>2, <2>3 DEF WalkInv, NothingLeftOut, There
<1>5. ASSUME NEW S \in SUBSET Dirs PROVE OnlyReached(S)'
  <2>1. SUFFICES ASSUME Closed(Whole, S)
                 PROVE  visited' \subseteq S /\ \A b \in todo' : ~IsPruned(b) => b.at \in S
        BY <1>1, ClosedWhole DEF OnlyReached, IsPruned
  <2>2. e.at \in S /\ visited \subseteq S /\ \A b \in todo : ~IsPruned(b) => b.at \in S
        BY <2>1 DEF WalkInv, OnlyReached
  <2>3. ASSUME NEW b \in Below(e), ~IsPruned(b) PROVE b.at \in S
    <3>1. PICK c \in tree.entries : c.in = e.at /\ b.at = c.to /\ b.pruned = c.pruned
          BY BelowIs
    <3>2. ~c.pruned
          BY <2>3, <3>1, BelowIs DEF IsPruned
    <3> QED BY <1>1, <2>1, <2>2, <3>1, <3>2, WholeIs DEF Closed
  <2> QED BY <2>2, <2>3
<1> QED BY <1>1, <1>2, <1>3, <1>4, <1>5 DEF WalkInv

LEMMA VisitKeeps ==
    ASSUME WalkInv, Visit PROVE WalkInv'
<1>1. walk = "on" /\ UNCHANGED tree
      BY DEF Visit
<1>2. PICK e \in todo :
        IF e.above = <<>> /\ ~There(tree, e.at)
        THEN walk' = "done" /\ todo' = {} /\ found' = {} /\ UNCHANGED visited
        ELSE IF IsPruned(e) \/ ~There(tree, e.at) \/ Loops(e)
        THEN todo' = todo \ {e} /\ UNCHANGED <<visited, found, walk>>
        ELSE /\ visited' = visited \cup {e.at}
             /\ found' = IF e.at \notin visited /\ e.at \in tree.marked
                         THEN found \cup {e.at} ELSE found
             /\ IF e.at \in tree.unreadable
                THEN walk' = "failed" /\ todo' = {}
                ELSE todo' = (todo \ {e}) \cup Below(e) /\ UNCHANGED walk
      BY DEF Visit
<1>3. CASE e.above = <<>> /\ ~There(tree, e.at)
  <2>1. /\ walk' = "done" /\ todo' = {} /\ found' = {} /\ visited' = visited
        /\ visited = {} /\ ~There(tree, Top) /\ TreeOK /\ TreeOK'
        BY <1>1, <1>2, <1>3 DEF WalkInv, EntriesOK, TreeOK
  <2>2. NothingLeftOut'
        BY <1>1, <2>1 DEF NothingLeftOut, There
  <2>3. ASSUME NEW S \in SUBSET Dirs PROVE OnlyReached(S)'
        BY <2>1 DEF OnlyReached
  <2> QED BY <2>1, <2>2, <2>3 DEF WalkInv, EntriesOK
<1>4. CASE /\ ~(e.above = <<>> /\ ~There(tree, e.at))
           /\ IsPruned(e) \/ ~There(tree, e.at) \/ Loops(e)
      BY <1>1, <1>2, <1>4, PassKeeps
<1>5. CASE ~IsPruned(e) /\ There(tree, e.at) /\ ~Loops(e)
      BY <1>1, <1>2, <1>5, EnterKeeps
<1> QED BY <1>3, <1>4, <1>5

LEMMA VanishKeeps ==
    ASSUME WalkInv, Vanish PROVE WalkInv'
<1>1. PICK d \in tree.fragile \ tree.removed : tree' = [tree EXCEPT !.removed = @ \cup {d}]
      BY DEF Vanish
<1>2. /\ TreeOK /\ TreeOK' /\ tree'.entries = tree.entries /\ tree'.marked = tree.marked
      /\ \A x : There(tree, x)' => There(tree, x)
      BY <1>1 DEF WalkInv, TreeOK, There
<1>3. UNCHANGED <<todo, visited, found, walk>>
      BY DEF Vanish
<1>4. EntriesOK'
      BY <1>3 DEF WalkInv, EntriesOK
<1>5. NothingLeftOut'
      BY <1>2, <1>3 DEF WalkInv, NothingLeftOut, Waits, IsPruned
<1>6. ASSUME NEW S \in SUBSET Dirs PROVE OnlyReached(S)'
      BY <1>2, <1>3, ClosedWhole DEF WalkInv, OnlyReached, IsPruned
<1> QED BY <1>2, <1>3, <1>4, <1>5, <1>6 DEF WalkInv

LEMMA FinishKeeps ==
    ASSUME WalkInv, Finish PROVE WalkInv'
<1>1. /\ UNCHANGED <<tree, todo, visited, found>> /\ walk = "on" /\ walk' = "done"
      /\ todo = {}
      BY DEF Finish
<1>2. TreeOK /\ TreeOK' /\ EntriesOK'
      BY <1>1 DEF WalkInv, TreeOK, EntriesOK
<1>3. NothingLeftOut'
      BY <1>1 DEF WalkInv, NothingLeftOut, Waits, IsPruned, There
<1>4. ASSUME NEW S \in SUBSET Dirs PROVE OnlyReached(S)'
      BY <1>1, <1>2, ClosedWhole DEF WalkInv, OnlyReached
<1> QED BY <1>1, <1>2, <1>3, <1>4 DEF WalkInv

LEMMA WalkStays ==
    ASSUME WalkInv, UNCHANGED discoveryVars PROVE WalkInv'
<1>1. UNCHANGED <<tree, todo, visited, found, walk>>
      BY DEF discoveryVars
<1>2. TreeOK /\ TreeOK' /\ EntriesOK'
      BY <1>1 DEF WalkInv, TreeOK, EntriesOK
<1>3. NothingLeftOut'
      BY <1>1 DEF WalkInv, NothingLeftOut, Waits, IsPruned, There
<1>4. ASSUME NEW S \in SUBSET Dirs PROVE OnlyReached(S)'
      BY <1>1, <1>2, ClosedWhole DEF WalkInv, OnlyReached, IsPruned
<1> QED BY <1>1, <1>2, <1>3, <1>4 DEF WalkInv

LEMMA WalkStarts == Init => WalkInv
<1> SUFFICES ASSUME Init PROVE WalkInv
    OBVIOUS
<1>1. start.tree \in Trees
      BY StartsConstants DEF Init
<1>2. tree = start.tree /\ todo = {} /\ visited = {} /\ found = {} /\ walk = "idle"
      BY DEF Init, DiscoveryInit
<1>3. TreeOK
      BY <1>1, <1>2 DEF Trees, TreeOK
<1> QED BY <1>2, <1>3 DEF WalkInv, EntriesOK, NothingLeftOut, OnlyReached

LEMMA WalkStep ==
    ASSUME WalkInv, [Next]_vars PROVE WalkInv'
<1>1. CASE Scan
      BY <1>1, StartWalkKeeps, VisitKeeps, FinishKeeps, VanishKeeps DEF Scan
<1>2. CASE ~Scan
  <2>1. UNCHANGED discoveryVars
        BY <1>2 DEF Next, vars, ReadConfig, Load, Draw, Resize, Rewrite, Reload, Press,
                    TogglePreview
  <2> QED BY <2>1, WalkStays
<1> QED BY <1>1, <1>2

LEMMA WalkAnswers == WalkInv => WalkIsExact
<1> SUFFICES ASSUME WalkInv, walk = "done"
             PROVE  /\ Reachable(tree) \cap tree.marked \subseteq found
                    /\ found \subseteq Reachable(Whole) \cap tree.marked
    BY DEF WalkIsExact, Whole
<1>1. Closed(tree, visited) /\ visited \in SUBSET Dirs
  <2>1. \A d : ~Waits(d)
        BY DEF WalkInv, Waits
  <2> QED BY <2>1 DEF WalkInv, NothingLeftOut, Closed
<1>2. Reachable(tree) \subseteq visited
      BY <1>1 DEF Reachable
<1>3. visited \subseteq Reachable(Whole)
      BY DEF WalkInv, OnlyReached, Reachable
<1> QED BY <1>2, <1>3 DEF WalkInv, NothingLeftOut

\* The scan's answer is exactly the workflows that can be reached, for every
\* tree, every order of its entries, and whatever is removed meanwhile
\* (`discover_workflows`).
THEOREM WalksAreExact == Spec => []WalkIsExact
<1>1. Init => WalkInv
      BY WalkStarts
<1>2. WalkInv /\ [Next]_vars => WalkInv'
      BY WalkStep
<1>3. WalkInv => WalkIsExact
      BY WalkAnswers
<1> QED BY <1>1, <1>2, <1>3, PTL DEF Spec

----------------------------------------------------------------------------
(* The keys of the configuration *)


Taken == ReservedKeys \cup {Unreadable, NoKey}

LEMMA SixBindings ==
    /\ DOMAIN Specs = 1 .. 6 /\ Len(Specs) = 6
    /\ DefaultOf(1) = "/" /\ DefaultOf(2) = ":" /\ DefaultOf(3) = "T"
    /\ DefaultOf(4) = "M" /\ DefaultOf(5) = "A" /\ DefaultOf(6) = "R"
BY DEF Specs, DefaultOf

LEMMA KeysDiffer ==
    /\ \A k \in {"/", ":", "T", "M", "A", "R"} : k \notin Taken
    /\ Unreadable # NoKey
BY Zenon DEF Taken, ReservedKeys, Unreadable, NoKey, Space

LEMMA DefaultsAreFree ==
    /\ \A i \in 1 .. 6 : DefaultOf(i) \notin Taken
    /\ \A i, j \in 1 .. 6 : DefaultOf(i) = DefaultOf(j) => i = j
<1>1. \A i \in 1 .. 6 : i \in {1, 2, 3, 4, 5, 6}
    OBVIOUS
<1>2. \A i \in 1 .. 6 : DefaultOf(i) \notin Taken
    BY <1>1, SixBindings, KeysDiffer
<1>3. \A i, j \in 1 .. 6 : DefaultOf(i) = DefaultOf(j) => i = j
    BY <1>1, SixBindings
<1> QED BY <1>2, <1>3

LEMMA Counted ==
    ASSUME NEW n \in Nat PROVE IsFiniteSet(1 .. n) /\ Cardinality(1 .. n) = n
BY FS_Interval

LEMMA Six == IsFiniteSet(1 .. 6) /\ Cardinality(1 .. 6) = 6
BY Counted

\* A set of bindings has a first one.
LEMMA FirstOfSix ==
    ASSUME NEW S \in SUBSET (1 .. 6), S # {}
    PROVE  \E i \in S : \A j \in S : i <= j
<1> DEFINE Leads(i) == i \in S /\ \A j \in S : i <= j
<1>1. SUFFICES \E i : Leads(i)
    OBVIOUS
<1>2. \A j \in S : j = 1 \/ j = 2 \/ j = 3 \/ j = 4 \/ j = 5 \/ j = 6
    OBVIOUS
<1>3. 1 \in S => Leads(1)
    BY <1>2
<1>4. 1 \notin S /\ 2 \in S => Leads(2)
    BY <1>2
<1>5. 1 \notin S /\ 2 \notin S /\ 3 \in S => Leads(3)
    BY <1>2
<1>6. 1 \notin S /\ 2 \notin S /\ 3 \notin S /\ 4 \in S => Leads(4)
    BY <1>2
<1>7. 1 \notin S /\ 2 \notin S /\ 3 \notin S /\ 4 \notin S /\ 5 \in S => Leads(5)
    BY <1>2
<1>8. 1 \notin S /\ 2 \notin S /\ 3 \notin S /\ 4 \notin S /\ 5 \notin S => Leads(6)
  <2>1. (\A j \in S : j = 6) => 6 \in S
      OBVIOUS
  <2> QED BY <1>2, <2>1
<1> HIDE DEF Leads
<1> QED BY <1>3, <1>4, <1>5, <1>6, <1>7, <1>8

LEMMA FirstPassIs ==
    ASSUME NEW b, DOMAIN b = 1 .. 6, \A i \in 1 .. 6 : b[i] # NoKey
    PROVE  /\ DOMAIN FirstPass(b) = 1 .. 6
           /\ \A i \in 1 .. 6 : FirstPass(b)[i] \notin Taken
           /\ \A i \in 1 .. 6 : Configured(b, i) => FirstPass(b)[i] = b[i]
<1>1. /\ DOMAIN FirstPass(b) = 1 .. 6
      /\ \A i \in 1 .. 6 : FirstPass(b)[i] = IF Configured(b, i) THEN b[i] ELSE DefaultOf(i)
    BY DEF FirstPass
<1>2. \A i \in 1 .. 6 : Configured(b, i) => b[i] = DefaultOf(i) \/ b[i] \notin Taken
    BY DEF Configured, Taken
<1>3. ASSUME NEW i \in 1 .. 6 PROVE FirstPass(b)[i] \notin Taken
    BY <1>1, <1>2, DefaultsAreFree
<1> QED BY <1>1, <1>3

LEMMA Reassigned ==
    ASSUME NEW b, NEW i
    PROVE  i \in Reassign(b) <=> /\ \E h \in Groups(FirstPass(b)) : i \in h
                                 /\ \A h \in Groups(FirstPass(b)) : i # Winner(b, h)
<1> DEFINE groups == Groups(FirstPass(b))
           keep == {Winner(b, h) : h \in groups}
<1>1. Reassign(b) = (UNION groups) \ keep
    BY Zenon DEF Reassign
<1>2. i \in keep <=> \E h \in groups : i = Winner(b, h)
    OBVIOUS
<1> HIDE DEF keep, groups
<1>3. i \in Reassign(b) <=> i \in UNION groups /\ i \notin keep
    BY <1>1
<1> QED BY <1>2, <1>3 DEF groups

\* The bindings that keep their key differ.
LEMMA KeptDiffer ==
    ASSUME NEW b, DOMAIN b = 1 .. 6, \A i \in 1 .. 6 : b[i] # NoKey,
           NEW i \in 1 .. 6 \ Reassign(b), NEW j \in 1 .. 6 \ Reassign(b),
           FirstPass(b)[i] = FirstPass(b)[j]
    PROVE  i = j
<1> SUFFICES ASSUME i # j PROVE FALSE
    OBVIOUS
<1> DEFINE K == FirstPass(b)
           g == Alike(K, i)
<1>1. DOMAIN K = 1 .. 6
    BY FirstPassIs
<1>2. i \in g /\ j \in g /\ g \subseteq 1 .. 6
    BY <1>1 DEF Alike
<1>3. IsFiniteSet(g) /\ Cardinality(g) \in Nat
    BY <1>2, Six, FS_Subset, FS_CardinalityType
<1>4. Cardinality(g) > 1
  <2>1. IsFiniteSet({i}) /\ Cardinality({i}) = 1
      BY FS_Singleton
  <2>2. Cardinality({i} \cup {j}) = 2
      BY SMTT(30), <2>1, FS_AddElement
  <2>3. {i} \cup {j} \in SUBSET g
      BY <1>2
  <2>4. 2 <= Cardinality(g)
      BY <2>2, <2>3, <1>3, FS_Subset
  <2> QED BY <1>3, <2>4
<1>5. g \in Groups(K)
    BY <1>1, <1>4 DEF Groups
<1>6. \A h \in Groups(K) : i \in h \/ j \in h => h = g
  <2> SUFFICES ASSUME NEW h \in Groups(K), i \in h \/ j \in h PROVE h = g
      OBVIOUS
  <2>1. PICK k \in 1 .. 6 : h = {l \in 1 .. 6 : K[l] = K[k]}
      BY <1>1 DEF Groups, Alike
  <2>2. g = {l \in 1 .. 6 : K[l] = K[i]}
      BY <1>1 DEF Alike
  <2>3. K[k] = K[i]
      BY <2>1
  <2> QED BY <2>1, <2>2, <2>3
<1>8. /\ \E h \in Groups(K) : i = Winner(b, h)
      /\ \E h \in Groups(K) : j = Winner(b, h)
    BY Zenon, <1>2, <1>5, Reassigned
<1>9. \A h \in Groups(K) : h \subseteq 1 .. 6 /\ h # {}
    BY <1>1 DEF Groups, Alike
<1>10. \A h \in Groups(K) : Winner(b, h) \in h
  <2> TAKE h \in Groups(K)
  <2> DEFINE first(S) == CHOOSE k \in S : \A l \in S : k <= l
             chosen == {k \in h : Configured(b, k)}
  <2>1. \A S \in SUBSET (1 .. 6) : S # {} => first(S) \in S
      BY FirstOfSix
  <2>2. chosen \in SUBSET (1 .. 6) /\ chosen \subseteq h
      BY <1>9
  <2>3. Winner(b, h) = IF chosen # {} THEN first(chosen) ELSE first(h)
      BY Zenon DEF Winner
  <2> QED BY <1>9, <2>1, <2>2, <2>3
<1> QED BY <1>6, <1>8, <1>10

\* A key that is one binding's alone stays its key.
LEMMA OwnKeyStays ==
    ASSUME NEW b, DOMAIN b = 1 .. 6, \A i \in 1 .. 6 : b[i] # NoKey,
           NEW i \in 1 .. 6, b[i] \notin ReservedKeys \cup {Unreadable},
           Cardinality(Alike(b, i)) = 1
    PROVE  i \notin Reassign(b) /\ FirstPass(b)[i] = b[i]
<1> DEFINE K == FirstPass(b)
<1>1. Configured(b, i)
    BY DEF Configured
<1>2. DOMAIN K = 1 .. 6 /\ \A j \in 1 .. 6 : Configured(b, j) => K[j] = b[j]
    BY FirstPassIs
<1>3. SUFFICES ASSUME NEW h \in Groups(K), i \in h PROVE Winner(b, h) = i
    BY Zenon, <1>1, <1>2, Reassigned
<1> DEFINE first(S) == CHOOSE k \in S : \A l \in S : k <= l
           chosen == {k \in h : Configured(b, k)}
<1>4. Alike(b, i) = {i}
  <2>1. i \in Alike(b, i) /\ Alike(b, i) \subseteq 1 .. 6
      BY DEF Alike
  <2>2. IsFiniteSet(Alike(b, i))
      BY <2>1, Six, FS_Subset
  <2>3. PICK x : Alike(b, i) = {x}
      BY <2>2, FS_Singleton
  <2> QED BY <2>1, <2>3
<1>5. chosen = {i}
  <2>1. \A k \in h : k \in 1 .. 6 /\ K[k] = K[i]
      BY <1>2, <1>3 DEF Groups, Alike
  <2>2. \A k \in chosen : b[k] = b[i]
      BY <1>1, <1>2, <2>1
  <2>3. \A k \in chosen : k \in Alike(b, i)
      BY <2>1, <2>2 DEF Alike
  <2> QED BY <1>1, <1>3, <1>4, <2>3
<1>6. first({i}) = i
  <2>1. i \in {i} /\ \A l \in {i} : i <= l
      OBVIOUS
  <2>2. \E k \in {i} : \A l \in {i} : k <= l
      BY <2>1
  <2> QED BY <2>2
<1>7. Winner(b, h) = IF chosen # {} THEN first(chosen) ELSE first(h)
    BY Zenon DEF Winner
<1> QED BY <1>5, <1>6, <1>7

\* With at most five keys in use, there is a free one.
LEMMA AKeyIsFree ==
    ASSUME NEW K, NEW D \in SUBSET (1 .. 6), NEW i \in 1 .. 6, i \notin D
    PROVE  \E d \in 1 .. 6 : DefaultOf(d) \notin {K[j] : j \in D}
<1> SUFFICES ASSUME \A d \in 1 .. 6 : \E j \in D : DefaultOf(d) = K[j] PROVE FALSE
    OBVIOUS
<1> DEFINE f == [d \in 1 .. 6 |-> CHOOSE j \in D : DefaultOf(d) = K[j]]
<1>1. f \in [1 .. 6 -> D] /\ \A d \in 1 .. 6 : DefaultOf(d) = K[f[d]]
    OBVIOUS
<1>2. IsFiniteSet(1 .. 6) /\ Cardinality(1 .. 6) = 6
    BY Six
<1>3. IsFiniteSet(1 .. 6 \ {i}) /\ Cardinality(1 .. 6 \ {i}) = 5
    BY <1>2, FS_RemoveElement
<1>4. IsFiniteSet(D) /\ Cardinality(D) <= 5 /\ Cardinality(D) \in Nat
    BY <1>3, FS_Subset, FS_CardinalityType
<1>5. PICK x, y \in 1 .. 6 : x # y /\ f[x] = f[y]
  <2> HIDE DEF f
  <2>1. Cardinality(D) < Cardinality(1 .. 6)
      BY <1>2, <1>4
  <2> QED BY <1>1, <1>2, <1>4, <2>1, FS_PigeonHole
<1>6. DefaultOf(x) = DefaultOf(y)
    BY <1>1, <1>5
<1> QED BY <1>5, <1>6, DefaultsAreFree

LEMMA FallbackIsFree ==
    ASSUME NEW used, NEW i \in 1 .. 6, \E d \in 1 .. 6 : DefaultOf(d) \notin used
    PROVE  FallbackKeyFor(DefaultOf(i), used) \notin used \cup Taken
<1> DEFINE I == {d \in 1 .. Len(Defaults) : Defaults[d] \notin used}
           free == IF I # {} THEN Min(I) ELSE 0
<1>1. DOMAIN Defaults = 1 .. 6 /\ \A d \in 1 .. 6 : Defaults[d] = DefaultOf(d)
    BY SixBindings DEF Defaults
<1>2. Len(Defaults) = 6
    BY <1>1, SixBindings DEF Defaults
<1>3. I \in SUBSET (1 .. 6) /\ I # {}
    BY <1>1, <1>2
<1>4. Min(I) \in I
    BY <1>3, FirstOfSix DEF Min
<1>5. FallbackKeyFor(DefaultOf(i), used)
         = IF DefaultOf(i) \notin used \/ free = 0 THEN DefaultOf(i) ELSE Defaults[free]
    BY Zenon DEF FallbackKeyFor, SelectInSeq
<1>6. free \in 1 .. 6 /\ Defaults[free] = DefaultOf(free) /\ DefaultOf(free) \notin used
    BY <1>1, <1>3, <1>4
<1> HIDE DEF I, free
<1> QED BY <1>5, <1>6, DefaultsAreFree

\* What is true of the keys once the first n bindings have given up theirs
\* where they must.
Done(b, n) == {j \in 1 .. 6 : j \notin Reassign(b) \/ j <= n}
Resolving(b, acc, n) ==
    /\ DOMAIN acc.keys = 1 .. 6
    /\ acc.used = {acc.keys[j] : j \in Done(b, n)}
    /\ \A j, k \in Done(b, n) : acc.keys[j] = acc.keys[k] => j = k
    /\ \A j \in 1 .. 6 : acc.keys[j] \notin Taken
    /\ \A j \in 1 .. 6 : j \notin Reassign(b) => acc.keys[j] = FirstPass(b)[j]

Passed(b, acc, i) == IF i \in Reassign(b) THEN Replace(acc, i) ELSE acc

LEMMA ReplacementsResolve ==
    ASSUME NEW b, NEW acc, NEW i \in 1 .. 6, Resolving(b, acc, i - 1)
    PROVE  Resolving(b, Passed(b, acc, i), i)
<1>1. CASE i \notin Reassign(b)
  <2>1. Passed(b, acc, i) = acc
      BY <1>1 DEF Passed
  <2>2. Done(b, i) = Done(b, i - 1)
      BY <1>1 DEF Done
  <2> QED BY <2>1, <2>2 DEF Resolving
<1>2. CASE i \in Reassign(b)
  <2> DEFINE key == FallbackKeyFor(DefaultOf(i), acc.used)
             D == Done(b, i - 1)
             new == Replace(acc, i)
  <2>1. new.keys = [acc.keys EXCEPT ![i] = key] /\ new.used = acc.used \cup {key}
      BY DEF Replace
  <2>2. D \in SUBSET (1 .. 6) /\ i \notin D /\ Done(b, i) = D \cup {i}
      BY <1>2 DEF Done
  <2>3. acc.used = {acc.keys[j] : j \in D} /\ DOMAIN acc.keys = 1 .. 6
      BY DEF Resolving
  <2>4. key \notin acc.used \cup Taken
    <3>1. \E d \in 1 .. 6 : DefaultOf(d) \notin acc.used
        BY <2>2, <2>3, AKeyIsFree
    <3> QED BY <3>1, FallbackIsFree
  <2> HIDE DEF key, D, new
  <2>5. /\ DOMAIN new.keys = 1 .. 6 /\ new.keys[i] = key
        /\ \A j \in 1 .. 6 : j # i => new.keys[j] = acc.keys[j]
      BY <2>1, <2>3
  <2>6. new.used = {new.keys[j] : j \in Done(b, i)}
    <3>1. \A x : x \in new.used <=> x = key \/ \E j \in D : x = acc.keys[j]
        BY <2>1, <2>3
    <3>2. \A x : x \in {new.keys[j] : j \in Done(b, i)} <=> x = key \/ \E j \in D : x = acc.keys[j]
        BY <2>2, <2>5
    <3> QED BY <3>1, <3>2
  <2>7. \A j, k \in Done(b, i) : new.keys[j] = new.keys[k] => j = k
    <3> SUFFICES ASSUME NEW j \in Done(b, i), NEW k \in Done(b, i), new.keys[j] = new.keys[k]
                 PROVE  j = k
        OBVIOUS
    <3>1. CASE j \in D /\ k \in D
        BY <2>2, <2>5, <3>1 DEF Resolving, D
    <3>2. \A l \in D : new.keys[l] # key
        BY <2>2, <2>3, <2>4, <2>5
    <3> QED BY <2>2, <2>5, <3>1, <3>2
  <2>8. \A j \in 1 .. 6 : new.keys[j] \notin Taken
      BY <2>4, <2>5 DEF Resolving
  <2>9. \A j \in 1 .. 6 : j \notin Reassign(b) => new.keys[j] = FirstPass(b)[j]
      BY <1>2, <2>5 DEF Resolving
  <2>10. Passed(b, acc, i) = new
      BY <1>2 DEF Passed, new
  <2> QED BY <2>5, <2>6, <2>7, <2>8, <2>9, <2>10 DEF Resolving
<1> QED BY <1>1, <1>2

LEMMA ResolveIs ==
    ASSUME NEW b, DOMAIN b = 1 .. 6, \A i \in 1 .. 6 : b[i] # NoKey
    PROVE  /\ DOMAIN Resolve(b) = 1 .. 6
           /\ \A i, j \in 1 .. 6 : Resolve(b)[i] = Resolve(b)[j] => i = j
           /\ \A i \in 1 .. 6 : Resolve(b)[i] \notin Taken
           /\ \A i \in 1 .. 6 : i \notin Reassign(b) => Resolve(b)[i] = FirstPass(b)[i]
<1> DEFINE first == [keys |-> FirstPass(b),
                     used |-> {FirstPass(b)[i] : i \in DOMAIN Specs \ Reassign(b)}]
           v1 == Passed(b, first, 1)
           v2 == Passed(b, v1, 2)
           v3 == Passed(b, v2, 3)
           v4 == Passed(b, v3, 4)
           v5 == Passed(b, v4, 5)
           v6 == Passed(b, v5, 6)
           Is(f) == f = [i \in 0 .. Len(Specs) |->
                            IF i = 0 THEN first
                            ELSE IF i \in Reassign(b) THEN Replace(f[i - 1], i) ELSE f[i - 1]]
           upTo == CHOOSE f : Is(f)
           all == [i \in 0 .. 6 |-> IF i = 0 THEN first ELSE IF i = 1 THEN v1 ELSE
                      IF i = 2 THEN v2 ELSE IF i = 3 THEN v3 ELSE IF i = 4 THEN v4 ELSE
                      IF i = 5 THEN v5 ELSE v6]
<1>1. Resolve(b) = upTo[6].keys
    BY Zenon, SixBindings DEF Resolve
<1>2. Resolving(b, first, 0)
  <2>1. /\ DOMAIN FirstPass(b) = 1 .. 6
        /\ \A i \in 1 .. 6 : FirstPass(b)[i] \notin Taken
      BY FirstPassIs
  <2>2. Done(b, 0) = 1 .. 6 \ Reassign(b)
      BY DEF Done
  <2>3. \A i, j \in 1 .. 6 \ Reassign(b) : FirstPass(b)[i] = FirstPass(b)[j] => i = j
      BY KeptDiffer
  <2>4. first.keys = FirstPass(b) /\ first.used = {FirstPass(b)[i] : i \in Done(b, 0)}
      BY <2>2, SixBindings
  <2> HIDE DEF first
  <2> QED BY <2>1, <2>2, <2>3, <2>4 DEF Resolving
<1> HIDE DEF first
<1>3. Resolving(b, v6, 6)
  <2>1. Resolving(b, v1, 1)
      BY <1>2, ReplacementsResolve, 1 - 1 = 0
  <2> HIDE DEF v1
  <2>2. Resolving(b, v2, 2)
      BY <2>1, ReplacementsResolve, 2 - 1 = 1
  <2> HIDE DEF v2
  <2>3. Resolving(b, v3, 3)
      BY <2>2, ReplacementsResolve, 3 - 1 = 2
  <2> HIDE DEF v3
  <2>4. Resolving(b, v4, 4)
      BY <2>3, ReplacementsResolve, 4 - 1 = 3
  <2> HIDE DEF v4
  <2>5. Resolving(b, v5, 5)
      BY <2>4, ReplacementsResolve, 5 - 1 = 4
  <2> HIDE DEF v5
  <2> QED BY <2>5, ReplacementsResolve, 6 - 1 = 5
<1> HIDE DEF v1, v2, v3, v4, v5, v6
<1>4. Is(all)
  <2>1. \A i : i \in 0 .. 6 <=> i = 0 \/ i = 1 \/ i = 2 \/ i = 3 \/ i = 4 \/ i = 5 \/ i = 6
      OBVIOUS
  <2>2. /\ all[0] = first /\ all[1] = v1 /\ all[2] = v2 /\ all[3] = v3 /\ all[4] = v4
        /\ all[5] = v5 /\ all[6] = v6
      BY <2>1
  <2>3. 1 - 1 = 0 /\ 2 - 1 = 1 /\ 3 - 1 = 2 /\ 4 - 1 = 3 /\ 5 - 1 = 4 /\ 6 - 1 = 5
      OBVIOUS
  <2> DEFINE Step(i) == IF i = 0 THEN first
                        ELSE IF i \in Reassign(b) THEN Replace(all[i - 1], i) ELSE all[i - 1]
             again == [i \in 0 .. 6 |-> Step(i)]
  <2>4. DOMAIN all = 0 .. 6 /\ all = [i \in 0 .. 6 |-> all[i]]
      OBVIOUS
  <2> HIDE DEF all
  <2>5. /\ Step(0) = all[0] /\ Step(1) = all[1] /\ Step(2) = all[2] /\ Step(3) = all[3]
        /\ Step(4) = all[4] /\ Step(5) = all[5] /\ Step(6) = all[6]
      BY <2>2, <2>3 DEF v1, v2, v3, v4, v5, v6, Passed
  <2> HIDE DEF Step
  <2>6. \A i \in 0 .. 6 : Step(i) = all[i]
      BY <2>1, <2>5
  <2>7. again = all
      BY <2>4, <2>6
  <2> QED BY <2>7, SixBindings DEF Step
<1>5. Is(upTo)
  <2> HIDE DEF Is, all
  <2> QED BY <1>4
<1>6. upTo[6] = v6
  <2> HIDE DEF upTo
  <2>1. \A i \in 0 .. 6 : upTo[i] = IF i = 0 THEN first
                        ELSE IF i \in Reassign(b) THEN Replace(upTo[i - 1], i) ELSE upTo[i - 1]
      BY <1>5, SixBindings
  <2>2. upTo[0] = first
      BY <2>1
  <2>3. \A i \in 1 .. 6 : upTo[i] = Passed(b, upTo[i - 1], i)
      BY <2>1 DEF Passed
  <2>4. upTo[1] = v1
      BY <2>2, <2>3, 1 - 1 = 0 DEF v1
  <2>5. upTo[2] = v2
      BY <2>3, <2>4, 2 - 1 = 1 DEF v2
  <2>6. upTo[3] = v3
      BY <2>3, <2>5, 3 - 1 = 2 DEF v3
  <2>7. upTo[4] = v4
      BY <2>3, <2>6, 4 - 1 = 3 DEF v4
  <2>8. upTo[5] = v5
      BY <2>3, <2>7, 5 - 1 = 4 DEF v5
  <2> QED BY <2>3, <2>8, 6 - 1 = 5 DEF v6
<1>7. Resolving(b, upTo[6], 6)
    BY <1>3, <1>6
<1>8. Done(b, 6) = 1 .. 6
    BY DEF Done
<1> HIDE DEF upTo
<1> QED BY <1>1, <1>7, <1>8 DEF Resolving

\* The fixed arms before and after those of the panes
Before(at) ==
    << Arm("?", TRUE, "help"), Arm("q", TRUE, IF at.preview THEN "close" ELSE "quit"),
       Arm("j", TRUE, "next"), Arm("k", TRUE, "previous"),
       Arm(Space, at.preview, "page down"), Arm("b", at.preview, "page up"),
       Arm("g", at.preview, "top"), Arm("G", at.preview, "bottom"),
       Arm("a", TRUE, "scope"), Arm("w", at.preview, "wrap"), Arm("o", at.preview, "open"),
       Arm("s", ~at.preview, "sort"), Arm("B", TRUE, "gate room"),
       Arm("D", ~at.preview, "definition") >>
Panes(keys_, at) == [i \in DOMAIN keys_ |-> Arm(keys_[i], ~at.preview, Specs[i].name)]
After(at) == << Arm("Y", ~at.preview, "sync"), Arm("P", at.multi /\ ~at.pinned, "picker") >>

LEMMA ArmsAre ==
    ASSUME NEW K, DOMAIN K = 1 .. 6, NEW at
    PROVE  /\ Len(Arms(K, at)) = 22
           /\ \A n \in 1 .. 14 : Arms(K, at)[n] = Before(at)[n]
           /\ \A n \in 1 .. 6 : Arms(K, at)[14 + n] = Panes(K, at)[n]
           /\ \A n \in 1 .. 2 : Arms(K, at)[20 + n] = After(at)[n]
<1> DEFINE A == Before(at)
           B == Panes(K, at)
           C == After(at)
           V == {A[n] : n \in 1 .. 14} \cup {B[n] : n \in 1 .. 6} \cup {C[n] : n \in 1 .. 2}
<1>1. Arms(K, at) = A \o B \o C
    BY Zenon DEF Arms, Before, Panes, After
<1>2. Len(A) = 14 /\ A = [n \in 1 .. 14 |-> A[n]]
    BY DEF Before
<1>3. Len(B) = 6 /\ B = [n \in 1 .. 6 |-> B[n]]
    BY DEF Panes
<1>4. Len(C) = 2 /\ C = [n \in 1 .. 2 |-> C[n]]
    BY DEF After
<1> HIDE DEF A, B, C
<1>5. A \in Seq(V) /\ B \in Seq(V) /\ C \in Seq(V)
    BY <1>2, <1>3, <1>4
<1> HIDE DEF V
<1>6. PICK AB : AB = A \o B
    OBVIOUS
<1>7. /\ AB \in Seq(V) /\ Len(AB) = 20
      /\ \A n \in 1 .. 20 : AB[n] = IF n <= 14 THEN A[n] ELSE B[n - 14]
    BY <1>2, <1>3, <1>5, <1>6, ConcatProperties
<1>8. PICK all : all = AB \o C
    OBVIOUS
<1>9. /\ Len(all) = 22
      /\ \A n \in 1 .. 22 : all[n] = IF n <= 20 THEN AB[n] ELSE C[n - 20]
  <2>1. Len(AB) = 20 /\ Len(C) = 2 /\ AB \in Seq(V) /\ C \in Seq(V)
      BY <1>4, <1>5, <1>7
  <2>2. /\ Len(all) = Len(AB) + Len(C)
        /\ \A n \in 1 .. Len(AB) + Len(C) : all[n] = IF n <= Len(AB) THEN AB[n] ELSE C[n - Len(AB)]
      BY <1>8, <2>1, ConcatProperties
  <2>3. Len(AB) + Len(C) = 22
      BY <2>1
  <2> QED BY <2>1, <2>2, <2>3
<1>10. \A n \in 1 .. 14 : all[n] = A[n]
    BY <1>7, <1>9
<1>11. ASSUME NEW n \in 1 .. 6 PROVE all[14 + n] = B[n]
  <2>1. all[14 + n] = AB[14 + n]
      BY <1>9
  <2>2. (14 + n) - 14 = n /\ 14 + n \in 1 .. 20 /\ ~(14 + n <= 14)
      OBVIOUS
  <2> QED BY <1>7, <2>1, <2>2
<1>12. ASSUME NEW n \in 1 .. 2 PROVE all[20 + n] = C[n]
  <2>1. (20 + n) - 20 = n /\ 20 + n \in 1 .. 22 /\ ~(20 + n <= 20)
      OBVIOUS
  <2> QED BY <1>9, <2>1
<1> QED BY <1>1, <1>6, <1>8, <1>9, <1>10, <1>11, <1>12 DEF A, B, C

LEMMA FixedArms ==
    ASSUME NEW at
    PROVE  /\ \A n \in 1 .. 14 : Before(at)[n].key \in ReservedKeys
           /\ \A n \in 1 .. 2 : After(at)[n].key \in ReservedKeys
<1>1. \A n \in 1 .. 14 : n = 1 \/ n = 2 \/ n = 3 \/ n = 4 \/ n = 5 \/ n = 6 \/ n = 7 \/ n = 8
                         \/ n = 9 \/ n = 10 \/ n = 11 \/ n = 12 \/ n = 13 \/ n = 14
    OBVIOUS
<1>2. /\ Before(at)[1].key = "?" /\ Before(at)[2].key = "q" /\ Before(at)[3].key = "j"
      /\ Before(at)[4].key = "k" /\ Before(at)[5].key = Space /\ Before(at)[6].key = "b"
      /\ Before(at)[7].key = "g" /\ Before(at)[8].key = "G" /\ Before(at)[9].key = "a"
      /\ Before(at)[10].key = "w" /\ Before(at)[11].key = "o" /\ Before(at)[12].key = "s"
      /\ Before(at)[13].key = "B" /\ Before(at)[14].key = "D"
    BY DEF Before, Arm
<1>3. /\ After(at)[1].key = "Y" /\ After(at)[2].key = "P"
    BY DEF After, Arm
<1>4. \A n \in 1 .. 2 : n = 1 \/ n = 2
    OBVIOUS
<1> QED BY <1>1, <1>2, <1>3, <1>4 DEF ReservedKeys

LEMMA PaneArms ==
    ASSUME NEW K, DOMAIN K = 1 .. 6, NEW p \in BOOLEAN, NEW at, at.preview = p, NEW i \in 1 .. 6
    PROVE  /\ Panes(K, at)[i].key = K[i] /\ Panes(K, at)[i].act = Specs[i].name
           /\ Panes(K, at)[i].when <=> ~p
BY DEF Panes, Arm

\* Of the arms, a pane's key has only its own.
LEMMA PaneKeyOpens ==
    ASSUME NEW K, DOMAIN K = 1 .. 6, \A i, j \in 1 .. 6 : K[i] = K[j] => i = j,
           \A i \in 1 .. 6 : K[i] \notin Taken,
           NEW p \in BOOLEAN, NEW at, at.preview = p, NEW i \in 1 .. 6
    PROVE  KeyAction(K, K[i], at) = IF p THEN "none" ELSE Specs[i].name
<1> DEFINE arms == Arms(K, at)
           I == {n \in 1 .. Len(arms) : arms[n].key = K[i] /\ arms[n].when}
           hit == IF I # {} THEN Min(I) ELSE 0
<1>1. KeyAction(K, K[i], at) = IF hit = 0 THEN "none" ELSE arms[hit].act
    BY Zenon DEF KeyAction, SelectInSeq
<1>2. Len(arms) = 22
    BY ArmsAre
<1>3. \A n \in 1 .. 22 : \/ n \in 1 .. 14
                         \/ \E m \in 1 .. 6 : n = 14 + m
                         \/ \E m \in 1 .. 2 : n = 20 + m
  <2> TAKE n \in 1 .. 22
  <2>1. n - 14 \in 1 .. 6 => n = 14 + (n - 14)
      OBVIOUS
  <2>2. n - 20 \in 1 .. 2 => n = 20 + (n - 20)
      OBVIOUS
  <2>3. n \in 1 .. 14 \/ n - 14 \in 1 .. 6 \/ n - 20 \in 1 .. 2
      OBVIOUS
  <2> QED BY <2>1, <2>2, <2>3
<1>4. \A n \in 1 .. 14 : arms[n].key # K[i]
    BY ArmsAre, FixedArms DEF Taken
<1>5. \A n \in 1 .. 2 : arms[20 + n].key # K[i]
    BY ArmsAre, FixedArms DEF Taken
<1>6. \A n \in 1 .. 6 : /\ arms[14 + n].key = K[n] /\ arms[14 + n].act = Specs[n].name
                        /\ arms[14 + n].when <=> ~p
    BY ArmsAre, PaneArms
<1> HIDE DEF arms
<1>7. \A n \in I : n = 14 + i /\ ~p
  <2> TAKE n \in I
  <2>1. n \in 1 .. 22 /\ arms[n].key = K[i] /\ arms[n].when
      BY <1>2
  <2>2. PICK m \in 1 .. 6 : n = 14 + m
      BY <1>3, <1>4, <1>5, <2>1
  <2>3. K[m] = K[i] /\ ~p
      BY <1>6, <2>1, <2>2
  <2> QED BY <2>2, <2>3
<1>8. CASE p
  <2>1. I = {}
      BY <1>7, <1>8
  <2> QED BY <1>1, <1>8, <2>1
<1>9. CASE ~p
  <2>1. PICK m : m = 14 + i
      OBVIOUS
  <2>2. m \in 1 .. 22 /\ m # 0 /\ m <= m
      BY <2>1
  <2>3. I = {m}
      BY <1>2, <1>6, <1>7, <1>9, <2>1, <2>2
  <2> HIDE DEF I
  <2>4. Min({m}) = m
    <3>1. \E x \in {m} : \A y \in {m} : x <= y
        BY <2>2
    <3> QED BY <3>1 DEF Min
  <2>5. hit = m /\ hit # 0 /\ arms[hit].act = Specs[i].name
      BY <1>6, <2>1, <2>2, <2>3, <2>4
  <2> HIDE DEF hit
  <2> QED BY <1>1, <1>9, <2>5
<1> QED BY <1>8, <1>9


----------------------------------------------------------------------------
(* What is configured *)

KeysInv ==
    /\ DOMAIN bindings = 1 .. 6 /\ \A i \in 1 .. 6 : bindings[i] # NoKey
    /\ DOMAIN keys = 1 .. 6
    /\ \A i, j \in 1 .. 6 : keys[i] = keys[j] => i = j
    /\ \A i \in 1 .. 6 : keys[i] \notin Taken
    /\ step = "config" => did.key = NoKey
    /\ step # "config" => keys = Resolve(bindings)
    /\ \E family \in DOMAIN Starts : start \in Starts[family]
    /\ preview \in BOOLEAN
    /\ KeysOpenTheirPane

LEMMA ConfiguredBindings ==
    ASSUME NEW family \in DOMAIN Starts, start \in Starts[family], NEW b,
           b = LoadStartupConfig(start.env, start.files).bindings
    PROVE  DOMAIN b = 1 .. 6 /\ \A i \in 1 .. 6 : b[i] # NoKey
<1> DEFINE path == ConfigPath(start.env)
           file == IF path = "none" THEN [state |-> "missing", bindings |-> <<>>]
                   ELSE start.files[path]
<1>1. b = [i \in DOMAIN Specs |-> IF file.state = "good" /\ i \in DOMAIN file.bindings
                                  THEN file.bindings[i] ELSE DefaultOf(i)]
    BY DEF LoadStartupConfig
<1>2. path \in {"xdg", "home", "none"}
    BY DEF ConfigPath
<1>3. file.state = "good" => file = start.files[path] /\ path \in {"home", "xdg"}
    BY <1>2
<1>4. \A q \in {"home", "xdg"} : \A i \in DOMAIN start.files[q].bindings :
         start.files[q].bindings[i] # NoKey
    BY StartsConstants
<1> HIDE DEF path, file
<1>5. ASSUME NEW i \in 1 .. 6 PROVE b[i] # NoKey
    BY <1>1, <1>3, <1>4, SixBindings, DefaultsAreFree DEF Taken
<1> QED BY <1>1, <1>5, SixBindings

LEMMA KeysStart == Init => KeysInv
<1> SUFFICES ASSUME Init PROVE KeysInv
    OBVIOUS
<1>1. /\ bindings = Defaults /\ keys = Defaults /\ step = "config" /\ preview = FALSE
      /\ did = [key |-> NoKey, act |-> "none", preview |-> FALSE]
      /\ \E family \in DOMAIN Starts : start \in Starts[family]
    BY DEF Init
<1>2. DOMAIN Defaults = 1 .. 6 /\ \A i \in 1 .. 6 : Defaults[i] = DefaultOf(i)
    BY SixBindings DEF Defaults
<1>3. \A i \in 1 .. 6 : keys[i] \notin Taken /\ keys[i] # did.key /\ bindings[i] # NoKey
    BY <1>1, <1>2, DefaultsAreFree DEF Taken
<1>4. \A i, j \in 1 .. 6 : keys[i] = keys[j] => i = j
    BY <1>1, <1>2, DefaultsAreFree
<1> QED BY <1>1, <1>2, <1>3, <1>4 DEF KeysInv, KeysOpenTheirPane

LEMMA ReadConfigKeeps ==
    ASSUME KeysInv, ReadConfig PROVE KeysInv'
<1>1. /\ step = "config" /\ step' = "scan" /\ keys' = Resolve(bindings')
      /\ bindings' = LoadStartupConfig(start.env, start.files).bindings
      /\ UNCHANGED <<start, preview, did>>
    BY DEF ReadConfig, keyVars
<1>2. DOMAIN bindings' = 1 .. 6 /\ \A i \in 1 .. 6 : bindings'[i] # NoKey
    BY <1>1, ConfiguredBindings DEF KeysInv
<1>3. PICK b : b = bindings'
    OBVIOUS
<1>4. /\ DOMAIN keys' = 1 .. 6
      /\ \A i, j \in 1 .. 6 : keys'[i] = keys'[j] => i = j
      /\ \A i \in 1 .. 6 : keys'[i] \notin Taken
    BY <1>1, <1>2, <1>3, ResolveIs
<1>5. \A i \in 1 .. 6 : did'.key # keys'[i]
    BY <1>1, <1>4 DEF KeysInv, Taken
<1> QED BY <1>1, <1>2, <1>4, <1>5 DEF KeysInv, KeysOpenTheirPane

LEMMA PressKeeps ==
    ASSUME KeysInv, Press PROVE KeysInv'
<1>1. /\ step = "frames" /\ UNCHANGED <<bindings, keys, start>>
      /\ step' \in {"ended", "frames"}
    BY DEF Press, configVars
<1>2. PICK key, act : /\ act = KeyAction(keys, key, At)
                      /\ did' = [key |-> key, act |-> act, preview |-> preview]
                      /\ preview' = IF act = "close" THEN FALSE ELSE preview
    BY DEF Press
<1>3. preview' \in BOOLEAN
    BY <1>2 DEF KeysInv
<1>4. KeysOpenTheirPane'
  <2> SUFFICES ASSUME NEW i \in 1 .. 6, key = keys[i]
               PROVE  act = IF preview THEN "none" ELSE Specs[i].name
      BY <1>1, <1>2 DEF KeysOpenTheirPane, KeysInv
  <2>1. At.preview = preview
      BY DEF At
  <2> QED BY <1>2, <2>1, PaneKeyOpens DEF KeysInv
<1> QED BY <1>1, <1>3, <1>4 DEF KeysInv

LEMMA KeysStep ==
    ASSUME KeysInv, [Next]_vars PROVE KeysInv'
<1>1. CASE ReadConfig
    BY <1>1, ReadConfigKeeps
<1>2. CASE Press
    BY <1>2, PressKeeps
<1>3. CASE TogglePreview
    BY <1>3 DEF TogglePreview, KeysInv, KeysOpenTheirPane, configVars
<1>4. CASE ~ReadConfig /\ ~Press /\ ~TogglePreview
  <2>1. UNCHANGED <<bindings, keys, start, preview, did>>
      BY <1>4 DEF Next, vars, Scan, Load, Draw, Resize, Rewrite, Reload, configVars, keyVars
  <2>2. (step = "config") <=> (step' = "config")
      BY <1>4 DEF Next, vars, Scan, Load, Draw, Resize, Rewrite, Reload
  <2> QED BY <2>1, <2>2 DEF KeysInv, KeysOpenTheirPane
<1> QED BY <1>1, <1>2, <1>3, <1>4

LEMMA KeysAnswer == KeysInv => KeysAreSound
<1> SUFFICES ASSUME KeysInv PROVE KeysAreDistinct
    BY DEF KeysAreSound, KeysInv
<1> SUFFICES ASSUME step # "config"
             PROVE  \A i \in 1 .. 6 : /\ bindings[i] \notin ReservedKeys \cup {Unreadable}
                                      /\ Cardinality(Alike(bindings, i)) = 1
                                      => keys[i] = bindings[i]
    BY DEF KeysAreDistinct, KeysInv
<1>1. keys = Resolve(bindings) /\ DOMAIN bindings = 1 .. 6
      /\ \A i \in 1 .. 6 : bindings[i] # NoKey
    BY DEF KeysInv
<1>2. PICK b : b = bindings
    OBVIOUS
<1> QED BY <1>1, <1>2, OwnKeyStays, ResolveIs

\* The keys of the six panes are distinct, a key that is one pane's alone in the
\* configuration is that pane's, and in the list it opens that pane, whatever is
\* configured and pressed (`ResolvedKeymap::from_config`,
\* `handle_overview_key_with_keymap`).
THEOREM KeysAreGood == Spec => []KeysAreSound
<1>1. Init => KeysInv
      BY KeysStart
<1>2. KeysInv /\ [Next]_vars => KeysInv'
      BY KeysStep
<1>3. KeysInv => KeysAreSound
      BY KeysAnswer
<1> QED BY <1>1, <1>2, <1>3, PTL DEF Spec

----------------------------------------------------------------------------
(* The watcher *)

Burst == IF thread = "burst" THEN 1 ELSE 0

Typed ==
    /\ raw \in Seq(Kinds) /\ signals \in Nat
    /\ thread \in {"wait", "burst", "gone"} /\ main \in {"open", "joining", "closed"}

HasRoom == Len(raw) + signals + Burst <= MaxEvents

EndsInOrder ==
    /\ (shutdown <=> main # "open")
    /\ main = "open" /\ thread = "gone" => ~backend /\ raw = <<>>
    /\ main = "closed" => thread = "gone" /\ ~backend /\ raw = <<>> /\ signals = 0

WatcherInv == Typed /\ HasRoom /\ EndsInOrder

----------------------------------------------------------------------------
(* The channel *)

LEMMA ToSetEmpty == ToSet(<<>>) = {}
BY DEF ToSet

LEMMA ToSetAppend == ASSUME NEW s \in Seq(Kinds), NEW e \in Kinds
                     PROVE  /\ Append(s, e) \in Seq(Kinds) /\ Len(Append(s, e)) = Len(s) + 1
                            /\ ToSet(Append(s, e)) = ToSet(s) \cup {e}
<1>1. /\ Append(s, e) \in Seq(Kinds) /\ Len(Append(s, e)) = Len(s) + 1
      /\ DOMAIN s = 1 .. Len(s) /\ DOMAIN Append(s, e) = 1 .. (Len(s) + 1) /\ Len(s) \in Nat
    OBVIOUS
<1>2. /\ \A i \in 1 .. Len(s) : Append(s, e)[i] = s[i]
      /\ Append(s, e)[Len(s) + 1] = e
    OBVIOUS
<1>3. QED
    BY <1>1, <1>2 DEF ToSet

LEMMA ToSetTail == ASSUME NEW s \in Seq(Kinds), s # <<>>
                   PROVE  /\ Tail(s) \in Seq(Kinds) /\ Len(Tail(s)) = Len(s) - 1 /\ Len(s) \in Nat \ {0}
                          /\ ToSet(s) = ToSet(Tail(s)) \cup {Head(s)}
<1>1. /\ Tail(s) \in Seq(Kinds) /\ Len(Tail(s)) = Len(s) - 1 /\ Len(s) \in Nat \ {0}
      /\ DOMAIN s = 1 .. Len(s) /\ DOMAIN Tail(s) = 1 .. (Len(s) - 1)
    OBVIOUS
<1>2. /\ Head(s) = s[1]
      /\ \A i \in 1 .. (Len(s) - 1) : Tail(s)[i] = s[i + 1]
    OBVIOUS
<1>3. \A i \in 1 .. Len(s) : i = 1 \/ (i - 1 \in 1 .. (Len(s) - 1) /\ Tail(s)[i - 1] = s[i])
    BY <1>1, <1>2
<1>4. ASSUME NEW x \in ToSet(s) PROVE x \in ToSet(Tail(s)) \cup {Head(s)}
  <2>1. PICK i \in 1 .. Len(s) : x = s[i]
      BY <1>1, <1>4 DEF ToSet
  <2>2. CASE i = 1
      BY <1>2, <2>1, <2>2
  <2>3. CASE i - 1 \in 1 .. (Len(s) - 1) /\ Tail(s)[i - 1] = s[i]
      BY <1>1, <2>1, <2>3 DEF ToSet
  <2>4. QED
      BY <1>3, <2>2, <2>3
<1>5. ASSUME NEW x \in ToSet(Tail(s)) PROVE x \in ToSet(s)
  <2>1. PICK i \in 1 .. (Len(s) - 1) : x = Tail(s)[i]
      BY <1>1, <1>5 DEF ToSet
  <2>2. i + 1 \in 1 .. Len(s) /\ x = s[i + 1]
      BY <1>1, <1>2, <2>1
  <2>3. QED
      BY <1>1, <2>2 DEF ToSet
<1>6. Head(s) \in ToSet(s)
    BY <1>1, <1>2 DEF ToSet
<1>7. QED
    BY <1>1, <1>4, <1>5, <1>6

----------------------------------------------------------------------------
(* The invariant *)

LEMMA WatcherStarts == WatcherInit => WatcherInv
BY WatcherConstants DEF WatcherInit, WatcherInv, Typed, HasRoom, EndsInOrder, Burst

LEMMA WatcherStep == WatcherInv /\ [WatcherNext]_watcherVars => WatcherInv'
<1> SUFFICES ASSUME WatcherInv, [WatcherNext]_watcherVars PROVE WatcherInv'
    OBVIOUS
<1> USE WatcherConstants DEF WatcherInv, Typed, HasRoom, EndsInOrder, Burst
<1>1. CASE \E event \in Kinds : BackendEvent(event)
    BY <1>1, ToSetAppend DEF BackendEvent
<1>2. CASE BackendDies
    BY <1>2 DEF BackendDies
<1>3. CASE WaitTakes
    BY <1>3, ToSetTail DEF WaitTakes, Signal
<1>4. CASE WaitEnds
    BY <1>4 DEF WaitEnds
<1>5. CASE BurstTakes
    BY <1>5, ToSetTail DEF BurstTakes
<1>6. CASE BurstTimesOut \/ BurstDisconnected
    BY <1>6 DEF BurstTimesOut, BurstDisconnected, Signal
<1>7. CASE Tick \/ SetDependencies \/ Drop \/ UNCHANGED watcherVars
    BY <1>7 DEF Tick, SetDependencies, Drop, watcherVars
<1>8. CASE TakeSignal
    BY <1>8 DEF TakeSignal
<1>9. CASE Joined
    BY <1>9 DEF Joined
<1>10. QED
    BY <1>1, <1>2, <1>3, <1>4, <1>5, <1>6, <1>7, <1>8, <1>9 DEF WatcherNext, Thread

----------------------------------------------------------------------------
(* The refinement *)

LEMMA OwedIsBoolean == Owed \in BOOLEAN /\ Owed' \in BOOLEAN
BY DEF Owed

\* A signal is sent; what is owed may be settled by it.
LEMMA Emits == ASSUME Power \in {"on", "closing"}, signals < MaxEvents, signals' = signals + 1,
                      Owed' => Owed, UNCHANGED Power
               PROVE  Source!SourceNext
<1>1. Owed' \in {Owed, FALSE}
    BY OwedIsBoolean
<1>2. QED
    BY <1>1 DEF Source!SourceNext, Source!Emit

\* The thread ends on its own, with a last signal of what it owed.
LEMMA Dies == ASSUME Power = "on", Power' = "dead", ~Owed',
                     IF Owed THEN signals < MaxEvents /\ signals' = signals + 1 ELSE signals' = signals
              PROVE  Source!SourceNext
<1>1. Owed' = FALSE
    BY OwedIsBoolean
<1>2. QED
    BY <1>1 DEF Source!SourceNext, Source!Die

LEMMA StepsRefine == WatcherInv /\ [WatcherNext]_watcherVars => [Source!SourceNext]_Source!sourceVars
<1> SUFFICES ASSUME WatcherInv, [WatcherNext]_watcherVars
             PROVE  Source!SourceNext \/ UNCHANGED <<Power, Owed, signals>>
    BY DEF Source!sourceVars
<1> USE DEF WatcherInv, Typed, Power, Owed
<1>1. ASSUME NEW event \in Kinds, BackendEvent(event)
      PROVE  Source!Notice \/ UNCHANGED <<Power, Owed, signals>>
    BY <1>1, ToSetAppend DEF BackendEvent, Source!Notice, EndsInOrder
<1>2. CASE BackendDies
    BY <1>2 DEF BackendDies
<1>3. CASE WaitTakes
  <2>1. ToSet(raw) = ToSet(raw') \cup {Head(raw)}
      BY <1>3, ToSetTail DEF WaitTakes
  <2>2. CASE shutdown
      BY <1>3, <2>2 DEF WaitTakes, EndsInOrder, Source!SourceNext, Source!Forget
  <2>3. CASE ~shutdown /\ ~Relevant(Head(raw))
      BY <1>3, <2>1, <2>3 DEF WaitTakes, Relevant
  <2>4. CASE ~shutdown /\ UNCHANGED <<thread, left>> /\ Signal
    <3>1. signals < MaxEvents /\ signals' = signals + 1
        BY <1>3, <2>4, ToSetTail, WatcherConstants DEF WaitTakes, Signal, HasRoom, Burst
    <3>2. Power = "on" /\ UNCHANGED Power /\ (Owed' => Owed)
        BY <1>3, <2>1, <2>4 DEF WaitTakes, EndsInOrder
    <3>3. QED
        BY <3>1, <3>2, Emits
  <2>5. CASE ~shutdown /\ thread' = "burst" /\ UNCHANGED signals
      BY <1>3, <2>5 DEF WaitTakes, EndsInOrder, Source!SourceNext, Source!Notice
  <2>6. QED
      BY <1>3, <2>2, <2>3, <2>4, <2>5 DEF WaitTakes
<1>4. CASE WaitEnds
    BY <1>4, ToSetEmpty DEF WaitEnds, EndsInOrder, Source!SourceNext, Source!Die, Source!Forget
<1>5. CASE BurstTakes
    BY <1>5 DEF BurstTakes, EndsInOrder, Source!SourceNext, Source!Forget
<1>6. CASE BurstTimesOut \/ BurstDisconnected
  <2>1. signals < MaxEvents /\ signals' = signals + 1
      BY <1>6, WatcherConstants DEF BurstTimesOut, BurstDisconnected, Signal, HasRoom, Burst
  <2>2. Owed /\ ~Owed' /\ Power \in {"on", "closing"}
      BY <1>6, ToSetEmpty DEF BurstTimesOut, BurstDisconnected, EndsInOrder
  <2>3. Power' = Power \/ (Power = "on" /\ Power' = "dead")
      BY <1>6, <2>2 DEF BurstTimesOut, BurstDisconnected
  <2>4. CASE Power' = Power
      BY <2>1, <2>2, <2>4, Emits
  <2>5. CASE Power = "on" /\ Power' = "dead"
      BY <2>1, <2>2, <2>5, Dies
  <2>6. QED
      BY <2>3, <2>4, <2>5
<1>7. CASE Tick \/ SetDependencies \/ UNCHANGED watcherVars
    BY <1>7 DEF Tick, SetDependencies, watcherVars
<1>8. CASE TakeSignal
    BY <1>8 DEF TakeSignal, Source!SourceNext, Source!Take
<1>9. CASE Drop
    BY <1>9 DEF Drop, Source!SourceNext, Source!Close
<1>10. CASE Joined
    BY <1>10 DEF Joined, Source!SourceNext, Source!Stop
<1>11. QED
    BY <1>1, <1>2, <1>3, <1>4, <1>5, <1>6, <1>7, <1>8, <1>9, <1>10
    DEF WatcherNext, Thread, Source!SourceNext

\* No relevant change is dropped without a signal, except by a shutdown: the
\* debounce thread implements the abstract source of signals (core watcher.rs).
THEOREM DebouncingImplementsSource == WatcherSpec => ImplementsSource
<1>1. WatcherInit => WatcherInv
    BY WatcherStarts
<1>2. WatcherInv /\ [WatcherNext]_watcherVars => WatcherInv'
    BY WatcherStep
<1>3. WatcherInit => Source!Started
    BY ToSetEmpty DEF WatcherInit, Source!Started, Power, Owed
<1>4. WatcherInv /\ [WatcherNext]_watcherVars => [Source!SourceNext]_Source!sourceVars
    BY StepsRefine
<1>5. QED
    BY <1>1, <1>2, <1>3, <1>4, PTL DEF WatcherSpec, ImplementsSource, Source!SourceSpec
----------------------------------------------------------------------------
(* Gate records *)

\* What makes the attempt a of the record r an approval that waits to be applied.
Approves(doc, r, a, status) ==
    /\ r \in Range(doc.records) /\ r.stage = status /\ a = r.attempts[Len(r.attempts)]
    /\ a.withdrawal = {}
    /\ \E answer \in a.resolution, p \in a.application :
         /\ a.resolution = {answer} /\ a.application = {p}
         /\ p.state = "Pending" /\ p.target # status /\ answer.decision = "Approve"

Awaits(gates, status, readiness) ==
    \E doc \in gates : \E r \in Range(doc.records) :
        LET a == r.attempts[Len(r.attempts)] IN
        /\ Approves(doc, r, a, status)
        /\ \E p \in a.application, s \in Range(Stages) :
             /\ s.name = p.target
             /\ s.terminal <=> readiness = "ApprovedAwaitingMerge"

LEMMA ReadinessApproves ==
    ASSUME NEW gates, NEW status, NEW proven, NEW readiness, Serialized(gates),
           readiness = Readiness(gates, status, proven),
           readiness \in {"ApprovedAwaitingAdvance", "ApprovedAwaitingMerge"}
    PROVE  /\ Kind(gates) = "Valid" /\ AtGate(status)
           /\ Awaits(gates, status, readiness)
<1> DEFINE selected == SelectedAttempt(gates, status)
           attempt == CHOOSE a \in selected : TRUE
           answer == CHOOSE x \in attempt.resolution : TRUE
           p == CHOOSE x \in attempt.application : TRUE
<1>1. /\ Kind(gates) # "Invalid" /\ AtGate(status) /\ selected # {}
      /\ attempt.withdrawal = {} /\ attempt.resolution # {}
      /\ readiness = Answered(attempt, answer, status)
  <2>1. readiness = IF Kind(gates) = "Invalid" THEN "Invalid"
        ELSE IF ~AtGate(status) THEN "None"
        ELSE IF selected = {} THEN (IF proven THEN "NeedsPreparation" ELSE "Validating")
        ELSE IF attempt.withdrawal # {} THEN "WithdrawnAwaitingPrepare"
        ELSE IF attempt.resolution = {} THEN "AwaitingCaptain"
        ELSE Answered(attempt, answer, status)
    BY Zenon DEF Readiness
  <2> HIDE DEF selected, attempt, answer
  <2> QED BY <2>1
<1>2. Kind(gates) = "Valid" /\ attempt \in selected
  BY <1>1 DEF Kind, SelectedAttempt
<1>3a. PICK doc \in gates : \E r \in Range(doc.records) :
         r.stage = status /\ attempt = r.attempts[Len(r.attempts)]
  <2> HIDE DEF attempt
  <2> QED BY <1>2, Zenon DEF SelectedAttempt, Last
<1>3. PICK r \in Range(doc.records) :
         r.stage = status /\ attempt = r.attempts[Len(r.attempts)]
  BY <1>3a
<1>4. Valid(doc)
  BY <1>2, <1>3 DEF Kind
<1>5. r.attempts \in Seq(Range(r.attempts)) /\ r.attempts # <<>>
  BY <1>3, <1>4, Zenon DEF Valid, Serialized
<1>6. attempt \in Range(r.attempts)
  <2>1. Len(r.attempts) \in DOMAIN r.attempts
    BY <1>5
  <2> QED BY <1>3, <2>1 DEF Range
<1>7. /\ attempt.resolution = {answer}
      /\ answer.decision \in {"Approve", "Revise", "Hold"}
      /\ attempt.application # {} =>
           attempt.application = {p} /\ p.state \in {"Pending", "Consumed", "Superseded"}
  <2>1. /\ \A x \in attempt.resolution :
             attempt.resolution = {x} /\ x.decision \in {"Approve", "Revise", "Hold"}
        /\ \A x \in attempt.application :
             attempt.application = {x} /\ x.state \in {"Pending", "Consumed", "Superseded"}
    <3> HIDE DEF attempt
    <3>1. \A a \in Range(r.attempts) :
                /\ \A x \in a.resolution :
                     a.resolution = {x} /\ x.decision \in {"Approve", "Revise", "Hold"}
                /\ \A x \in a.application :
                     a.application = {x} /\ x.state \in {"Pending", "Consumed", "Superseded"}
      BY <1>3a, <1>3, Zenon DEF Serialized
    <3> QED BY <1>6, <3>1, Zenon
  <2>2. answer \in attempt.resolution
    BY <1>1, Zenon
  <2>3. attempt.application # {} => p \in attempt.application
    BY Zenon
  <2> HIDE DEF attempt, answer, p
  <2> QED BY <2>1, <2>2, <2>3
<1>8. attempt.application # {} /\ readiness = Application(answer, p, status)
  <2>1. readiness = IF attempt.application # {} THEN Application(answer, p, status)
        ELSE [Hold |-> "Held", Revise |-> "FeedbackPending", Approve |-> "Invalid"][answer.decision]
    BY <1>1, Zenon DEF Answered
  <2> HIDE DEF attempt, answer, p
  <2> QED BY <1>7, <2>1
<1>9. /\ p.state = "Pending" /\ p.target # status /\ answer.decision = "Approve"
      /\ \E s \in Range(Stages) :
            s.name = p.target /\ (s.terminal <=> readiness = "ApprovedAwaitingMerge")
  <2>1. readiness = IF p.state # "Pending" THEN p.state
        ELSE IF p.target = status \/ answer.decision # "Approve" THEN "Invalid"
        ELSE IF StagesNamed(p.target) = {} THEN "Invalid"
        ELSE IF \E s \in StagesNamed(p.target) : s.terminal THEN "ApprovedAwaitingMerge"
        ELSE "ApprovedAwaitingAdvance"
    BY <1>8, Zenon DEF Application
  <2>2. /\ p.state = "Pending" /\ p.target # status /\ answer.decision = "Approve"
        /\ StagesNamed(p.target) # {}
        /\ readiness = "ApprovedAwaitingMerge" <=> \E s \in StagesNamed(p.target) : s.terminal
    <3> HIDE DEF attempt, answer, p
    <3> QED BY <1>7, <1>8, <2>1
  <2>3. \A s \in StagesNamed(p.target) :
           s \in Range(Stages) /\ s.name = p.target /\ s.terminal \in BOOLEAN
    BY StagesAssumption, Zenon DEF StagesNamed
  <2> HIDE DEF attempt, answer, p
  <2>4. \E s \in StagesNamed(p.target) : s.terminal <=> readiness = "ApprovedAwaitingMerge"
    BY <2>2, <2>3
  <2> QED BY <2>2, <2>3, <2>4, Zenon
<1>10. Approves(doc, r, attempt, status)
  <2> HIDE DEF attempt, answer, p
  <2> QED BY <1>1, <1>3, <1>7, <1>8, <1>9 DEF Approves
<1>11. p \in attempt.application
  <2> HIDE DEF attempt
  <2> QED BY <1>8, Zenon
<1>12. \E s \in Range(Stages) :
         s.name = p.target /\ (s.terminal <=> readiness = "ApprovedAwaitingMerge")
  BY <1>9
<1>13. Awaits(gates, status, readiness)
  <2> HIDE DEF attempt, p, answer, selected
  <2> QED BY <1>3, <1>3a, <1>10, <1>11, <1>12, Zenon DEF Awaits
<1> HIDE DEF attempt, p, answer, selected
<1> QED BY <1>1, <1>2, <1>13

\* In a valid document the record of a stage is the only one, and a Briefing is
\* one attempt's.
LEMMA IdentitiesDiffer ==
    ASSUME NEW doc, Valid(doc), doc.records \in Seq(Range(doc.records)),
           NEW r \in Range(doc.records)
    PROVE  /\ {q \in Range(doc.records) : q.stage = r.stage} = {r}
           /\ \A q \in Range(doc.records) : \A i \in DOMAIN q.attempts, j \in DOMAIN r.attempts :
                q.attempts[i].briefing.id = r.attempts[j].briefing.id => q = r /\ i = j
<1> DEFINE stage == [i \in DOMAIN doc.records |-> doc.records[i].stage]
           briefing == [at \in Places(doc) |-> AttemptAt(doc, at).briefing.id]
<1>1. IsInjective(stage) /\ IsInjective(briefing)
  BY Zenon DEF Valid, ValidIdentities, Distinct
<1>2. PICK k \in DOMAIN doc.records : r = doc.records[k]
  BY DEF Range
<1>3. ASSUME NEW q \in Range(doc.records), q.stage = r.stage PROVE q = r
  <2>1. PICK m \in DOMAIN doc.records : q = doc.records[m]
    BY DEF Range
  <2>2. stage[m] = stage[k]
    BY <1>2, <1>3, <2>1
  <2> HIDE DEF stage
  <2>3. DOMAIN stage = DOMAIN doc.records
    BY DEF stage
  <2> QED BY <1>1, <1>2, <2>1, <2>2, <2>3 DEF IsInjective
<1>4. ASSUME NEW q \in Range(doc.records), NEW i \in DOMAIN q.attempts, NEW j \in DOMAIN r.attempts,
             q.attempts[i].briefing.id = r.attempts[j].briefing.id
      PROVE  q = r /\ i = j
  <2>1. PICK m \in DOMAIN doc.records : q = doc.records[m]
    BY DEF Range
  <2>2. <<m, i>> \in Places(doc) /\ <<k, j>> \in Places(doc)
    BY <1>2, <2>1 DEF Places
  <2>3. briefing[<<m, i>>] = briefing[<<k, j>>]
    BY <1>2, <1>4, <2>1, <2>2 DEF AttemptAt
  <2>4. DOMAIN briefing = Places(doc)
    OBVIOUS
  <2> HIDE DEF briefing
  <2>5. <<m, i>> = <<k, j>>
    BY <1>1, <2>2, <2>3, <2>4 DEF IsInjective
  <2> QED BY <1>2, <2>1, <2>5
<1> QED BY <1>3, <1>4

\* A row of a record that was read, with the readiness it has.
IsJudged(e) ==
    Serialized(e.gates) /\ e.readiness = Readiness(e.gates, e.status, e.preparation.proven)

LEMMA AttentionIs ==
    ASSUME NEW gates, NEW readiness, NEW diagnosed, NEW reason,
           reason = Attention(gates, readiness, diagnosed),
           reason \in {"AdvancePending", "MergePending"}
    PROVE  /\ readiness \in {"ApprovedAwaitingAdvance", "ApprovedAwaitingMerge"}
           /\ readiness = "ApprovedAwaitingMerge" <=> reason = "MergePending"
BY DEF Attention

LEMMA JudgedIsRecorded ==
    ASSUME \A e \in Range(index.active) : IsJudged(e)
    PROVE  ApprovalIsRecorded
<1> SUFFICES ASSUME NEW e \in Range(index.active), NEW reason,
                    reason = Attention(e.gates, e.readiness, e.preparation.diagnosed),
                    reason \in {"AdvancePending", "MergePending"}
             PROVE  RecordedFor(e, reason)
  BY Zenon DEF ApprovalIsRecorded
<1>1. /\ Serialized(e.gates) /\ e.readiness = Readiness(e.gates, e.status, e.preparation.proven)
      /\ e.readiness \in {"ApprovedAwaitingAdvance", "ApprovedAwaitingMerge"}
      /\ e.readiness = "ApprovedAwaitingMerge" <=> reason = "MergePending"
  BY AttentionIs DEF IsJudged
<1>2. Kind(e.gates) = "Valid" /\ AtGate(e.status) /\ Awaits(e.gates, e.status, e.readiness)
  BY <1>1, ReadinessApproves
<1>3a. PICK doc \in e.gates : \E r \in Range(doc.records) :
        LET a == r.attempts[Len(r.attempts)] IN
        /\ Approves(doc, r, a, e.status)
        /\ \E p \in a.application, s \in Range(Stages) :
             /\ s.name = p.target
             /\ s.terminal <=> e.readiness = "ApprovedAwaitingMerge"
  BY <1>2, Zenon DEF Awaits
<1>3. PICK r \in Range(doc.records) :
        LET a == r.attempts[Len(r.attempts)] IN
        /\ Approves(doc, r, a, e.status)
        /\ \E p \in a.application, s \in Range(Stages) :
             /\ s.name = p.target
             /\ s.terminal <=> e.readiness = "ApprovedAwaitingMerge"
  BY <1>3a, Zenon
<1> DEFINE a == r.attempts[Len(r.attempts)]
<1>4. Valid(doc) /\ doc.records \in Seq(Range(doc.records))
      /\ r.attempts \in Seq(Range(r.attempts)) /\ r.attempts # <<>>
  <2>1. e.gates # Absent
    BY DEF Absent
  <2> QED BY <1>1, <1>2, <2>1 DEF Kind, Serialized, Valid
<1>5. Len(r.attempts) \in DOMAIN r.attempts /\ a \in Range(r.attempts)
  BY <1>4 DEF Range
<1>6. ValidAttempt(a)
  BY <1>4, <1>5, Zenon DEF Valid
<1>7. a.briefing.bound /\ \A x \in a.resolution : x.briefing = a.briefing.id
  <2> HIDE DEF a
  <2> QED BY <1>6, Zenon DEF ValidAttempt, ValidResolution
<1>8. {q \in Range(doc.records) : q.stage = e.status} = {r}
  <2>1. r \in Range(doc.records) /\ r.stage = e.status
    BY <1>3, Zenon DEF Approves
  <2> QED BY <2>1, <1>4, IdentitiesDiffer
<1>9. \A q \in Range(doc.records) : \A i \in DOMAIN q.attempts :
        q.attempts[i].briefing.id = a.briefing.id => q = r /\ i = Len(r.attempts)
  <2>1. r \in Range(doc.records)
    BY <1>3, Zenon
  <2> HIDE DEF a
  <2>2. a = r.attempts[Len(r.attempts)]
    BY DEF a
  <2>3. \A q \in Range(doc.records) : \A i \in DOMAIN q.attempts, j \in DOMAIN r.attempts :
          q.attempts[i].briefing.id = r.attempts[j].briefing.id => q = r /\ i = j
    BY <2>1, <1>4, IdentitiesDiffer, Zenon
  <2> QED BY <1>5, <2>2, <2>3, Zenon
<1>10. \E s \in Range(Stages) : s.name = e.status /\ s.gate /\ ~s.terminal
  BY <1>2 DEF AtGate, StagesNamed
<1>11. a.withdrawal = {} /\ \E answer \in a.resolution, p \in a.application, s \in Range(Stages) :
                /\ answer.decision = "Approve" /\ answer.briefing = a.briefing.id
                /\ p.state = "Pending" /\ p.target = s.name /\ s.name # e.status
                /\ s.terminal <=> reason = "MergePending"
  <2>1. Approves(doc, r, a, e.status)
    BY <1>3, Zenon
  <2>2. PICK p \in a.application, s \in Range(Stages) :
             s.name = p.target /\ (s.terminal <=> e.readiness = "ApprovedAwaitingMerge")
    BY <1>3, Zenon
  <2> HIDE DEF a
  <2>3. PICK answer \in a.resolution :
         /\ a.application = {p} /\ p.state = "Pending" /\ p.target # e.status
         /\ answer.decision = "Approve" /\ a.withdrawal = {}
    BY <2>1, <2>2 DEF Approves
  <2>4. s.terminal \in BOOLEAN
    BY StagesAssumption
  <2>5. s.terminal <=> reason = "MergePending"
    BY <1>1, <2>2, <2>4
  <2> QED BY <1>7, <2>2, <2>3, <2>5
<1> QED
  BY <1>3a, <1>3, <1>7, <1>8, <1>9, <1>10, <1>11, Zenon DEF RecordedFor
----------------------------------------------------------------------------
(* Positions and lists *)

\* A set of positions that has a member has a first one.
LEMMA FirstIn ==
    ASSUME NEW n \in Nat, NEW I \in SUBSET (1 .. n), I # {}
    PROVE  \E k \in I : \A j \in I : k <= j
<1> DEFINE Below1(k) == {j \in 1 .. n : j \in I /\ j < k}
           T == {Below1(k) : k \in I}
<1>1. T \subseteq FiniteSubsetsOf(1 .. n) /\ T # {}
  <2>1. IsFiniteSet(1 .. n)
      BY FS_Interval
  <2>2. \A k : Below1(k) \in SUBSET (1 .. n)
      OBVIOUS
  <2>3. \A k : IsFiniteSet(Below1(k))
      BY <2>1, <2>2, FS_Subset
  <2>4. QED
      BY <2>2, <2>3 DEF FiniteSubsetsOf
<1>2. PICK B \in T : \A C \in T : ~(<<C, B>> \in StrictSubsetOrdering(1 .. n))
    BY <1>1, FS_StrictSubsetOrderingWellFounded, FS_Interval, WFMin
<1>3. PICK k \in I : B = Below1(k)
    OBVIOUS
<1>4. ASSUME NEW j \in I, j < k PROVE FALSE
  <2>1. Below1(j) \in T /\ Below1(j) \in SUBSET (1 .. n) /\ B \in SUBSET (1 .. n)
      BY <1>3
  <2>2. Below1(j) \subseteq B
      BY <1>3, <1>4
  <2>3. j \in B /\ j \notin Below1(j)
      BY <1>3, <1>4
  <2> HIDE DEF Below1, T
  <2>4. <<Below1(j), B>> \in StrictSubsetOrdering(1 .. n)
      BY <2>1, <2>2, <2>3 DEF StrictSubsetOrdering
  <2>5. QED
      BY <1>2, <2>1, <2>4
<1>5. QED
    BY <1>4

LEMMA LastIn ==
    ASSUME NEW n \in Nat, NEW I \in SUBSET (1 .. n), I # {}
    PROVE  \E k \in I : \A j \in I : j <= k
<1> DEFINE J == {j \in 1 .. n + 1 : \A i \in I : i < j}
<1>1. n + 1 \in J
    OBVIOUS
<1>2. PICK m \in J : \A j \in J : m <= j
  <2> HIDE DEF J
  <2>1. J \in SUBSET (1 .. n + 1)
      BY DEF J
  <2>2. n + 1 \in Nat /\ J # {}
      BY <1>1
  <2> QED BY <2>1, <2>2, FirstIn
<1>3. m > 1
  <2>1. PICK i \in I : TRUE
      OBVIOUS
  <2> QED BY <2>1
<1>4. m - 1 \in I
  <2>1. m - 1 \in 1 .. n + 1 /\ m - 1 \notin J
      BY <1>2, <1>3
  <2>2. PICK i \in I : ~(i < m - 1)
      BY <2>1
  <2> QED BY <2>2
<1>5. QED
    BY <1>4

\* A list of whatever is in it.
IsList(s) == s \in Seq(Range(s))

LEMMA ListIs ==
    ASSUME NEW s, IsList(s)
    PROVE  /\ Len(s) \in Nat /\ DOMAIN s = 1 .. Len(s) /\ \A i \in DOMAIN s : s[i] \in Range(s)
           /\ s = <<>> <=> Range(s) = {}
           /\ \A x \in Range(s) : \E i \in DOMAIN s : s[i] = x
BY DEF IsList, Range

LEMMA EmptyIsList == IsList(<<>>) /\ Range(<<>>) = {}
BY DEF IsList, Range

LEMMA AppendIs ==
    ASSUME NEW s, NEW x, IsList(s)
    PROVE  /\ IsList(Append(s, x)) /\ Range(Append(s, x)) = Range(s) \cup {x}
           /\ Len(s) \in Nat
           /\ DOMAIN s = 1 .. Len(s) /\ DOMAIN Append(s, x) = 1 .. Len(s) + 1
           /\ \A i \in 1 .. Len(s) : Append(s, x)[i] = s[i]
           /\ Append(s, x)[Len(s) + 1] = x
<1> DEFINE S == Range(s) \cup {x}
<1>1. s \in Seq(S) /\ x \in S
  BY SeqMonotonic DEF IsList
<1>2. /\ Append(s, x) \in Seq(S) /\ Len(Append(s, x)) = Len(s) + 1 /\ Len(s) \in Nat
      /\ DOMAIN s = 1 .. Len(s) /\ DOMAIN Append(s, x) = 1 .. Len(s) + 1
      /\ \A i \in 1 .. Len(s) : Append(s, x)[i] = s[i]
      /\ Append(s, x)[Len(s) + 1] = x
  <2> HIDE DEF S
  <2> QED BY <1>1
<1>3. Range(Append(s, x)) = S
  BY <1>2 DEF Range
<1> QED BY <1>2, <1>3 DEF IsList

LEMMA TailIs ==
    ASSUME NEW s, IsList(s), s # <<>>
    PROVE  /\ IsList(Tail(s)) /\ Range(s) = {Head(s)} \cup Range(Tail(s))
           /\ Len(s) \in Nat \ {0} /\ DOMAIN s = 1 .. Len(s) /\ DOMAIN Tail(s) = 1 .. Len(s) - 1
           /\ Head(s) = s[1] /\ \A i \in 1 .. Len(s) - 1 : Tail(s)[i] = s[i + 1]
<1> DEFINE S == Range(s)
<1>1. s \in Seq(S)
  BY DEF IsList
<1>2. /\ Tail(s) \in Seq(S) /\ Len(Tail(s)) = Len(s) - 1 /\ Len(s) \in Nat \ {0}
      /\ DOMAIN s = 1 .. Len(s) /\ DOMAIN Tail(s) = 1 .. Len(s) - 1
      /\ Head(s) = s[1] /\ \A i \in 1 .. Len(s) - 1 : Tail(s)[i] = s[i + 1]
  <2> HIDE DEF S
  <2> QED BY <1>1
<1>3. Tail(s) \in Seq(Range(Tail(s)))
  <2> HIDE DEF S
  <2> QED BY <1>2, SeqOfRange
<1>4. ASSUME NEW i \in 1 .. Len(s), i # 1 PROVE s[i] \in Range(Tail(s))
  <2>1. i - 1 \in 1 .. Len(s) - 1 /\ Tail(s)[i - 1] = s[(i - 1) + 1] /\ (i - 1) + 1 = i
    BY <1>2, <1>4
  <2> QED BY <1>2, <2>1 DEF Range
<1>5. Head(s) \in Range(s)
  BY <1>2 DEF Range
<1>6. ASSUME NEW x \in Range(Tail(s)) PROVE x \in Range(s)
  <2>1. PICK i \in 1 .. Len(s) - 1 : x = Tail(s)[i]
    BY <1>2 DEF Range
  <2>2. x = s[i + 1] /\ i + 1 \in DOMAIN s
    BY <1>2, <2>1
  <2> QED BY <2>2 DEF Range
<1>7. ASSUME NEW x \in Range(s) PROVE x \in {Head(s)} \cup Range(Tail(s))
  <2>1. PICK i \in 1 .. Len(s) : x = s[i]
    BY <1>2 DEF Range
  <2> QED BY <1>2, <1>4, <2>1
<1>8. Range(s) = {Head(s)} \cup Range(Tail(s))
  BY <1>5, <1>6, <1>7
<1> QED BY <1>2, <1>3, <1>8 DEF IsList

\* A list made position by position.
LEMMA MadeList ==
    ASSUME NEW n \in Nat, NEW s, DOMAIN s = 1 .. n, s = [i \in 1 .. n |-> s[i]]
    PROVE  IsList(s) /\ Len(s) = n
<1>1. s \in [1 .. n -> Range(s)]
  BY DEF Range
<1> QED BY <1>1, SeqDef DEF IsList

----------------------------------------------------------------------------
(* Sorting *)

\* Of two elements one comes before the other, with all that comes before it.
LinearOn(S, before) ==
    /\ before \in [S -> SUBSET S]
    /\ \A t \in S : t \notin before[t]
    /\ \A t, u \in S : t = u \/ t \in before[u] \/ u \in before[t]
    /\ \A t, u \in S : t \in before[u] => before[t] \subseteq before[u]

\* The sequence of a set has each element once, what comes before it before it.
LEMMA RankedIs ==
    ASSUME NEW S, IsFiniteSet(S), NEW before, LinearOn(S, before)
    PROVE  /\ IsList(Ranked(before)) /\ Range(Ranked(before)) = S
           /\ \A i, j \in DOMAIN Ranked(before) : i < j =>
                Ranked(before)[i] \in before[Ranked(before)[j]]
<1> DEFINE n == Cardinality(S)
           T == 0 .. n - 1
           rank == [t \in S |-> Cardinality(before[t])]
           r == Ranked(before)
<1>1. n \in Nat /\ DOMAIN before = S
    BY FS_CardinalityType DEF LinearOn
<1>2. ASSUME NEW t \in S PROVE IsFiniteSet(before[t]) /\ Cardinality(before[t]) \in T
  <2>1. before[t] \in SUBSET S /\ before[t] # S
      BY DEF LinearOn
  <2>2. /\ IsFiniteSet(before[t]) /\ Cardinality(before[t]) <= n
        /\ Cardinality(before[t]) # n
      BY <2>1, FS_Subset
  <2>3. Cardinality(before[t]) \in Nat
      BY <2>2, FS_CardinalityType
  <2>4. QED
      BY <1>1, <2>2, <2>3
<1>3. IsFiniteSet(T) /\ Cardinality(T) = n
    BY <1>1, FS_Interval
<1>4. ASSUME NEW t \in S, NEW u \in S, t \in before[u]
      PROVE  Cardinality(before[t]) < Cardinality(before[u])
  <2>1. before[t] \in SUBSET before[u] /\ before[t] # before[u]
      BY <1>4 DEF LinearOn
  <2>2. Cardinality(before[t]) <= Cardinality(before[u]) /\ Cardinality(before[t]) # Cardinality(before[u])
      BY <1>2, <2>1, FS_Subset
  <2>3. QED
      BY <1>2, <2>2
<1>5. rank \in Injection(S, T)
  <2>1. rank \in [S -> T]
      BY <1>2
  <2>2. ASSUME NEW t \in S, NEW u \in S, rank[t] = rank[u] PROVE t = u
      BY <1>2, <1>4, <2>2 DEF LinearOn
  <2>3. QED
      BY <2>1, <2>2 DEF Injection, IsInjective
<1>6. rank \in Surjection(S, T)
    BY <1>3, <1>5, FS_Injection
<1>7. ASSUME NEW i \in 1 .. n PROVE \E t \in S : Cardinality(before[t]) = i - 1
  <2>1. i - 1 \in T
      BY <1>1
  <2>2. QED
      BY <1>6, <2>1 DEF Surjection
<1>8. DOMAIN r = 1 .. n /\ \A i \in 1 .. n : r[i] \in S /\ Cardinality(before[r[i]]) = i - 1
    BY <1>1, <1>7 DEF Ranked
<1>9. IsList(r)
  <2>1. r = [i \in 1 .. n |-> r[i]]
      BY <1>1 DEF Ranked
  <2> QED BY <1>1, <1>8, <2>1, MadeList
<1>10. Range(r) = S
  <2>1. ASSUME NEW t \in S PROVE \E i \in 1 .. n : r[i] = t
    <3>1. PICK c \in T : c = Cardinality(before[t])
        BY <1>2
    <3>2. c + 1 \in 1 .. n /\ (c + 1) - 1 = c
        BY <1>1, <3>1
    <3>3. r[c + 1] \in S /\ Cardinality(before[r[c + 1]]) = c
        BY <1>8, <3>2
    <3>4. rank[r[c + 1]] = rank[t] /\ DOMAIN rank = S
        BY <3>1, <3>3
    <3>5. r[c + 1] = t
      <4> HIDE DEF rank, r
      <4> QED BY <1>5, <3>3, <3>4 DEF Injection, IsInjective
    <3> QED BY <3>2, <3>5
  <2> QED BY <1>8, <2>1 DEF Range
<1>11. ASSUME NEW i \in 1 .. n, NEW j \in 1 .. n, i < j PROVE r[i] \in before[r[j]]
  <2>1. PICK t \in S : t = r[i] /\ Cardinality(before[t]) = i - 1
      BY <1>8
  <2>2. PICK u \in S : u = r[j] /\ Cardinality(before[u]) = j - 1
      BY <1>8
  <2>3. t # u
      BY <1>1, <1>11, <2>1, <2>2
  <2>4. u \notin before[t]
      BY <1>1, <1>4, <1>11, <2>1, <2>2
  <2> QED BY <2>1, <2>2, <2>3, <2>4 DEF LinearOn
<1> HIDE DEF r
<1> QED BY <1>8, <1>9, <1>10, <1>11 DEF r

----------------------------------------------------------------------------
(* The order of paths *)

LEMMA RankIs ==
    ASSUME NEW s \in Range(Slugs)
    PROVE  Rank(s) \in 1 .. Len(Slugs) /\ Slugs[Rank(s)] = s /\ Len(Slugs) \in Nat
<1>1. IsList(Slugs)
    BY IndexAssumption DEF IsList
<1>2. \E i \in DOMAIN Slugs : Slugs[i] = s
    BY <1>1, ListIs
<1> QED BY <1>1, <1>2, ListIs DEF Rank

\* The place of a path in its folder.
SpotOf(p) == 2 * Rank(p.slug) + (IF p.form = "flat" THEN 1 ELSE 0)

LEMMA AtIs ==
    ASSUME NEW p \in Paths
    PROVE  SpotOf(p) \in 1 .. 2 * Len(Slugs) + 1 /\ Rank(p.slug) \in Nat /\ Len(Slugs) \in Nat
<1>1. p.slug \in Range(Slugs)
    BY DEF Paths
<1> QED BY <1>1, RankIs DEF SpotOf

LEMMA AtDiffers ==
    ASSUME NEW p \in Paths, NEW q \in Paths
    PROVE  /\ PathBefore(p, q) <=> SpotOf(p) < SpotOf(q)
           /\ p.root = q.root /\ SpotOf(p) = SpotOf(q) => p = q
           /\ p.slug = q.slug <=> Rank(p.slug) = Rank(q.slug)
<1>1. /\ p.slug \in Range(Slugs) /\ p.form \in {"folder", "flat"}
      /\ q.slug \in Range(Slugs) /\ q.form \in {"folder", "flat"}
    BY DEF Paths
<1>2. /\ Rank(p.slug) \in Nat /\ Rank(q.slug) \in Nat
      /\ p.slug = q.slug <=> Rank(p.slug) = Rank(q.slug)
    BY <1>1, RankIs
<1>3. SpotOf(p) = SpotOf(q) => p.slug = q.slug /\ p.form = q.form
    BY <1>1, <1>2 DEF SpotOf
<1>4. p.root = q.root /\ p.slug = q.slug /\ p.form = q.form => p = q
    BY DEF Paths
<1> QED BY <1>1, <1>2, <1>3, <1>4 DEF SpotOf, PathBefore

LEMMA ListingIs ==
    ASSUME NEW root
    PROVE  /\ IsList(Listing(root)) /\ Range(Listing(root)) = In(root)
           /\ \A i, j \in DOMAIN Listing(root) : i < j =>
                PathBefore(Listing(root)[i], Listing(root)[j])
<1> DEFINE S == In(root)
           before == [p \in S |-> {q \in S : PathBefore(q, p)}]
           n == 2 * Len(Slugs) + 1
           f == [p \in S |-> SpotOf(p)]
<1>1. S \subseteq Paths /\ \A p \in S : p.root = root
    BY DEF In
<1>2. IsFiniteSet(S)
  <2>1. CASE S = {}
      BY <2>1, FS_EmptySet
  <2>2. CASE S # {}
    <3>1. n \in Nat
        BY <1>1, <2>2, AtIs
    <3>2. f \in [S -> 1 .. n]
        BY <1>1, AtIs
    <3>3. f \in Injection(S, 1 .. n)
      <4>1. \A p, q \in S : f[p] = f[q] => p = q
          BY <1>1, AtDiffers
      <4> HIDE DEF f, S, n
      <4> QED BY <3>2, <4>1 DEF Injection, IsInjective
    <3>4. IsFiniteSet(1 .. n)
      <4> HIDE DEF n
      <4> QED BY <3>1, FS_Interval
    <3> HIDE DEF f, S, n
    <3> QED BY <3>3, <3>4, FS_Injection
  <2> QED BY <2>1, <2>2
<1>3. \A p, q \in S : PathBefore(p, q) <=> SpotOf(p) < SpotOf(q)
    BY <1>1, AtDiffers
<1>4. \A p, q \in S : SpotOf(p) = SpotOf(q) => p = q
    BY <1>1, AtDiffers
<1>5. \A p \in S : SpotOf(p) \in Nat
    BY <1>1, AtIs
<1>6. LinearOn(S, before)
  <2> HIDE DEF S
  <2> QED BY <1>3, <1>4, <1>5 DEF LinearOn
<1>7. Listing(root) = Ranked(before)
    BY DEF Listing
<1>8. /\ IsList(Ranked(before)) /\ Range(Ranked(before)) = S
      /\ \A i, j \in DOMAIN Ranked(before) : i < j =>
                Ranked(before)[i] \in before[Ranked(before)[j]]
  <2> HIDE DEF S, before
  <2> QED BY <1>2, <1>6, RankedIs
<1>9. \A t \in S : \A u \in before[t] : PathBefore(u, t)
    OBVIOUS
<1>10. \A i \in DOMAIN Ranked(before) : Ranked(before)[i] \in S
  <2> HIDE DEF S, before
  <2> QED BY <1>8, ListIs
<1> HIDE DEF S, before
<1>11. S = In(root)
    BY DEF S
<1> QED BY <1>7, <1>8, <1>9, <1>10, <1>11

\* The rows of a map by slug, as a list.
LEMMA ListOfIs ==
    ASSUME NEW rows, DOMAIN rows \subseteq Range(Slugs)
    PROVE  IsList(ListOf(rows)) /\ Range(ListOf(rows)) = {rows[s] : s \in DOMAIN rows}
<1> DEFINE S == DOMAIN rows
           before == [s \in S |-> {r \in S : Rank(r) < Rank(s)}]
           f == [s \in S |-> Rank(s)]
           n == Len(Slugs)
           order == Ranked(before)
<1>1. \A s \in S : Rank(s) \in 1 .. n /\ Slugs[Rank(s)] = s /\ n \in Nat
    BY RankIs
<1>2. IsFiniteSet(S)
  <2>1. CASE S = {}
      BY <2>1, FS_EmptySet
  <2>2. CASE S # {}
    <3> HIDE DEF S, n
    <3>1. n \in Nat
        BY <1>1, <2>2
    <3>2. f \in Injection(S, 1 .. n)
        BY <1>1 DEF Injection, IsInjective
    <3>3. IsFiniteSet(1 .. n)
        BY <3>1, FS_Interval
    <3> HIDE DEF f
    <3> QED BY <3>2, <3>3, FS_Injection
  <2> QED BY <2>1, <2>2
<1>3. LinearOn(S, before)
  <2>1. \A s, r \in S : Rank(s) \in Nat /\ Rank(r) \in Nat /\ (Rank(s) = Rank(r) => s = r)
      BY <1>1
  <2> HIDE DEF S
  <2> QED BY <2>1 DEF LinearOn
<1>4. IsList(order) /\ Range(order) = S
  <2> HIDE DEF S, before
  <2> QED BY <1>2, <1>3, RankedIs
<1>5. ListOf(rows) = [i \in DOMAIN order |-> rows[order[i]]]
    BY DEF ListOf
<1> HIDE DEF order, before
<1>6. Len(order) \in Nat /\ DOMAIN order = 1 .. Len(order)
    BY <1>4, ListIs
<1>7. IsList(ListOf(rows))
  <2>1. DOMAIN ListOf(rows) = 1 .. Len(order)
      BY <1>5, <1>6
  <2>2. ListOf(rows) = [i \in 1 .. Len(order) |-> ListOf(rows)[i]]
      BY <1>5, <1>6
  <2> QED BY <1>6, <2>1, <2>2, MadeList
<1>8. Range(ListOf(rows)) = {rows[order[i]] : i \in DOMAIN order}
    BY <1>5 DEF Range
<1>9. {rows[order[i]] : i \in DOMAIN order} = {rows[s] : s \in S}
    BY <1>4, ListIs DEF Range
<1> QED BY <1>7, <1>8, <1>9

LEMMA RootPlaceIs ==
    ASSUME NEW w \in Range(Worktrees)
    PROVE  /\ RootPlace(w) \in DOMAIN Worktrees /\ Worktrees[RootPlace(w)] = w
           /\ RootPlace(w) \in Nat \ {0} /\ w # "main" /\ w # "archive"
<1>1. IsList(Worktrees) /\ w # "main" /\ w # "archive"
    BY IndexAssumption DEF IsList
<1>2. \E i \in DOMAIN Worktrees : Worktrees[i] = w
    BY <1>1, ListIs
<1>3. Len(Worktrees) \in Nat /\ DOMAIN Worktrees = 1 .. Len(Worktrees)
    BY <1>1, ListIs
<1> QED BY <1>1, <1>2, <1>3 DEF RootPlace

\* What a load reads before the archive.
Roots == {"main"} \cup Range(Worktrees)
Readable == {p \in Paths : p.root # "archive"}

LEMMA PlacesDiffer ==
    ASSUME NEW v \in Roots, NEW w \in Roots
    PROVE  RootPlace(v) \in Nat /\ (RootPlace(v) = RootPlace(w) => v = w)
<1>1. RootPlace("main") = 0
    BY DEF RootPlace
<1> QED BY <1>1, RootPlaceIs DEF Roots

LEMMA ReadOrder ==
    ASSUME NEW p \in Readable, NEW q \in Readable, NEW r \in Readable
    PROVE  /\ ~ReadBefore(p, p)
           /\ ~(ReadBefore(p, q) /\ ReadBefore(q, p))
           /\ ReadBefore(p, q) /\ ReadBefore(q, r) => ReadBefore(p, r)
           /\ p = q \/ ReadBefore(p, q) \/ ReadBefore(q, p)
<1>1. /\ p \in Paths /\ q \in Paths /\ r \in Paths
      /\ p.root \in Roots /\ q.root \in Roots /\ r.root \in Roots
    BY DEF Readable, Paths, Roots
<1>2. /\ RootPlace(p.root) \in Nat /\ RootPlace(q.root) \in Nat /\ RootPlace(r.root) \in Nat
      /\ RootPlace(p.root) = RootPlace(q.root) => p.root = q.root
      /\ RootPlace(q.root) = RootPlace(r.root) => q.root = r.root
    BY <1>1, PlacesDiffer
<1>3. /\ SpotOf(p) \in Nat /\ SpotOf(q) \in Nat /\ SpotOf(r) \in Nat
      /\ p.root = q.root /\ SpotOf(p) = SpotOf(q) => p = q
      /\ PathBefore(p, q) <=> SpotOf(p) < SpotOf(q)
      /\ PathBefore(q, p) <=> SpotOf(q) < SpotOf(p)
      /\ PathBefore(q, r) <=> SpotOf(q) < SpotOf(r)
      /\ PathBefore(p, r) <=> SpotOf(p) < SpotOf(r)
      /\ PathBefore(p, p) <=> SpotOf(p) < SpotOf(p)
    BY <1>1, AtIs, AtDiffers
<1> QED BY <1>2, <1>3 DEF ReadBefore

\* The only path that is first, or last, in a set.
LEMMA FirstReadIs ==
    ASSUME NEW S \in SUBSET Readable, NEW p \in S, \A q \in S \ {p} : ReadBefore(p, q)
    PROVE  FirstRead(S) = p
<1>1. ASSUME NEW r \in S, \A q \in S \ {r} : ReadBefore(r, q) PROVE r = p
    BY <1>1, ReadOrder
<1> QED BY <1>1, Zenon DEF FirstRead

LEMMA LastReadIs ==
    ASSUME NEW S \in SUBSET Readable, NEW p \in S, \A q \in S \ {p} : ReadBefore(q, p)
    PROVE  LastRead(S) = p
<1>1. ASSUME NEW r \in S, \A q \in S \ {r} : ReadBefore(q, r) PROVE r = p
    BY <1>1, ReadOrder
<1> QED BY <1>1, Zenon DEF LastRead

----------------------------------------------------------------------------
(* The inductive invariant of a load and of the index it installs *)

Ascending(paths) ==
    \A i, j \in DOMAIN paths : i < j => ReadBefore(paths[i], paths[j])
AscendingRows(rows) ==
    \A i, j \in DOMAIN rows : i < j => ReadBefore(rows[i].path, rows[j].path)

RowFields == {"path", "origin", "id", "status", "gates", "completed", "body",
              "preparation", "readiness", "source", "mainBody"}
IsRow(e) == DOMAIN e = RowFields /\ e.path \in Readable /\ Serialized(e.gates)

\* What a file is read as, in the workflow's folder and in a worktree.
CopyAs(p) == Entity(p, OnDisk(p))
ReadAs(p) == Prepared(CopyAs(p))

ParsesNow(p) == Parses(p, OnDisk(p))

\* The frontmatter of the row e is what the file p says.
Fronts(e, p) ==
    LET c == OnDisk(p) IN
    /\ e.origin = p /\ e.id = ResolveId(c, p) /\ e.status = c.status /\ e.gates = c.gates
    /\ e.preparation = Preparation(c.gates, c.status, c.body, Clean(p))

MainSteady(s) == \A p \in Paths : p.root = "main" /\ p.slug = s => p \in steady
Unvanished(s) == \A q \in vanished : q.slug # s
Mains(s) == Parsed("main", s)
Owner(s) == IF Mains(s) # {} THEN LastRead(Mains(s)) ELSE FirstRead(CopiesOf(s))
Hidden(s) == Mains(s) = {} /\ \E p \in In("archive") : p.slug = s
Away(s) ==
    /\ \E p \in steady : p.root = "archive" /\ p.slug = s /\ files[p] # {}
    /\ \A p \in Paths : p.root = "main" /\ p.slug = s => p \in steady /\ files[p] = {}

FilesOK ==
    /\ files \in [Paths -> SUBSET Written]
    /\ steady \subseteq Paths /\ vanished \cap steady = {}

----------------------------------------------------------------------------
\* While files are read, those of the roots that were scanned are read in order.
Seen == {"main"} \cup (Range(Worktrees) \ Range(load.roots))

QueueOK ==
    /\ Range(load.roots) \subseteq Range(Worktrees)
    /\ \A i, j \in DOMAIN load.roots : i < j => RootPlace(load.roots[i]) < RootPlace(load.roots[j])
    /\ \A w \in Seen, v \in Range(load.roots) : RootPlace(w) < RootPlace(v)
    /\ Range(load.left) \subseteq Readable /\ Ascending(load.left)
    /\ \A q \in Range(load.left) :
         /\ q.root \in Seen /\ \A w \in Seen : RootPlace(w) <= RootPlace(q.root)
         /\ q.root = "main" <=> load.phase = "Items"
         /\ \A e \in Range(load.items) \cup Range(load.copies) : ReadBefore(e.path, q)

RowsOK ==
    /\ AscendingRows(load.items) /\ AscendingRows(load.copies)
    /\ \A e \in Range(load.items) : IsRow(e) /\ e.path.root = "main"
    /\ \A e \in Range(load.copies) :
         /\ IsRow(e) /\ e.path.root \in Seen /\ e.path.root # "main"
         /\ files[e.path] # {} \/ e.path \in vanished
    /\ load.phase = "Items" => load.copies = <<>>

\* A file that stays as it is has been read exactly if it was there.
PathRead(p) ==
    LET read == p.root \in Seen /\ p \notin Range(load.left) /\ files[p] # {} IN
    /\ p \in load.errors <=> read /\ ~ParsesNow(p)
    /\ (\E e \in Range(load.items) \cup Range(load.copies) : e.path = p) <=> read /\ ParsesNow(p)
    /\ \A e \in Range(load.items) : e.path = p => e = ReadAs(p)
    /\ \A e \in Range(load.copies) : e.path = p => e = CopyAs(p)

ReadingOK == QueueOK /\ RowsOK /\ \A p \in steady \cap Readable : PathRead(p)

----------------------------------------------------------------------------
\* While copies are merged, the rows tell of those that were merged.
Waiting(s) == {e.path : e \in {c \in Range(load.copies) : c.path.slug = s}}
MergedOf(s) == CopiesOf(s) \ Waiting(s)

\* The row shows the content of the last merged copy, the owner's without any.
RowTells(e, s, merged) ==
    /\ Fronts(e, Owner(s))
    /\ e.path \in steady /\ e.path.slug = s /\ files[e.path] # {}
    /\ e.body = OnDisk(e.path).body
    /\ files[e.path] = files[IF merged = {} THEN Owner(s) ELSE LastRead(merged)]
    /\ merged = {} => e.path = Owner(s)
    /\ e.source = Nowhere <=> Mains(s) # {} /\ \A q \in merged : files[q] = files[Owner(s)]

MainMerged(s) ==
    MainSteady(s) /\ Unvanished(s) /\ Mains(s) # {} =>
        /\ s \in DOMAIN load.rows /\ Fronts(load.rows[s], LastRead(Mains(s)))
        /\ files[load.rows[s].path] # {}

CopiesMerged(s) ==
    SteadySlug(s) =>
        /\ \A q \in MergedOf(s), r \in Waiting(s) : ReadBefore(q, r)
        /\ s \in DOMAIN load.rows <=> Mains(s) # {} \/ (MergedOf(s) # {} /\ ~Hidden(s))
        /\ s \in DOMAIN load.rows => RowTells(load.rows[s], s, MergedOf(s))

MergeOK ==
    /\ DOMAIN load.rows \subseteq Range(Slugs)
    /\ \A s \in DOMAIN load.rows : IsRow(load.rows[s]) /\ load.rows[s].path.slug = s
    /\ AscendingRows(load.copies)
    /\ \A e \in Range(load.copies) :
         /\ IsRow(e) /\ e.path.root \in Range(Worktrees)
         /\ files[e.path] # {} \/ e.path \in vanished
         /\ e.path \in steady => e = ReadAs(e.path) /\ files[e.path] # {} /\ ParsesNow(e.path)
    /\ \A p \in steady \cap Readable : p \in load.errors <=> files[p] # {} /\ ~ParsesNow(p)
    /\ \A s \in Range(Slugs) :
         MainMerged(s) /\ CopiesMerged(s) /\ (Away(s) => s \notin DOMAIN load.rows)

----------------------------------------------------------------------------
\* A complete list of rows, with the files that do not parse.
With(rows, s) == {e \in rows : e.path.slug = s}

ErrorsTold(errors, s) ==
    {p \in errors : p.slug = s} = {p \in Readable : p.slug = s /\ files[p] # {} /\ ~ParsesNow(p)}

SlugTold(rows, s) ==
    /\ CopiesOf(s) = {} =>
         /\ \A e \in With(rows, s) : e.path \in Mains(s) /\ Fronts(e, e.path)
         /\ Mains(s) # {} => Owner(s) \in {e.path : e \in With(rows, s)}
    /\ CopiesOf(s) # {} => IF Hidden(s) THEN With(rows, s) = {} ELSE \E e \in With(rows, s) :
         /\ With(rows, s) = {e} /\ Fronts(e, Owner(s))
         /\ e.body = OnDisk(LastRead(CopiesOf(s))).body
         /\ e.source = Nowhere <=>
              Mains(s) # {} /\ \A q \in CopiesOf(s) : files[q] = files[Owner(s)]

MainTold(rows, s) ==
    \A p \in Mains(s) : Mains(s) = {p} => \E e \in With(rows, s) : With(rows, s) = {e} /\ Fronts(e, p)

Told(rows, errors) ==
    \A s \in Range(Slugs) :
        /\ SteadySlug(s) => ErrorsTold(errors, s) /\ SlugTold(rows, s)
        /\ MainSteady(s) /\ Unvanished(s) => MainTold(rows, s)
        /\ Away(s) => With(rows, s) = {}

----------------------------------------------------------------------------
LoadFields == {"phase", "left", "roots", "items", "copies", "rows", "errors", "archived",
               "archiveErrors", "reload", "scope"}

LoadOK ==
    /\ DOMAIN load = LoadFields
    /\ load.phase \in {"Idle", "Items", "Copies", "Merge", "Loaded", "Archive"}
    /\ load.phase \in {"Items", "Copies", "Merge", "Loaded"} => load.reload
    /\ IsList(load.left) /\ IsList(load.roots) /\ IsList(load.items) /\ IsList(load.copies)
    /\ IsList(load.archived) /\ load.errors \subseteq Readable
    /\ load.phase \in {"Items", "Copies"} => ReadingOK
    /\ load.phase = "Merge" => MergeOK
    /\ load.phase = "Loaded" \/ (load.phase = "Archive" /\ load.reload) =>
         /\ \A e \in Range(load.items) : IsRow(e)
         /\ Told(Range(load.items), load.errors)

IndexFields == {"loaded", "active", "errors", "archived", "archiveErrors", "archiveLoaded",
                "archiveFailed", "reloadFailed", "activity", "shared"}

ActivityOK ==
    /\ Shared(index.active) \subseteq index.shared
    /\ \A id \in DOMAIN index.activity :
         id \in Ids(index) /\ (id \notin index.shared => PathOf(index, id) = index.activity[id])

IndexOK ==
    /\ DOMAIN index = IndexFields
    /\ IsList(index.active) /\ IsList(index.archived)
    /\ \A e \in Range(index.active) : IsRow(e) /\ IsJudged(e)
    /\ index.errors \subseteq Readable
    /\ index.loaded /\ ~index.reloadFailed /\ (load.phase = "Idle" \/ ~load.reload) =>
         Told(Range(index.active), index.errors)
    /\ ActivityOK

WorkflowInv == FilesOK /\ LoadOK /\ IndexOK

----------------------------------------------------------------------------
(* What the files say *)

LEMMA OnDiskIs ==
    ASSUME FilesOK, NEW p \in Paths, files[p] # {}
    PROVE  OnDisk(p) \in files[p] /\ OnDisk(p) \in Written /\ Serialized(OnDisk(p).gates)
<1>1. OnDisk(p) \in files[p]
    BY Zenon DEF OnDisk
<1>2. files[p] \subseteq Written
    BY DEF FilesOK
<1> QED BY <1>1, <1>2, ContentsAssumption

LEMMA EntityIs ==
    ASSUME NEW p \in Readable, NEW c, Serialized(c.gates), NEW e, e = Entity(p, c)
    PROVE  /\ IsRow(e) /\ e.path = p /\ e.origin = p /\ e.id = ResolveId(c, p)
           /\ e.status = c.status /\ e.gates = c.gates /\ e.body = c.body /\ e.source = Nowhere
<1>1. /\ e.path = p /\ e.origin = p /\ e.id = ResolveId(c, p)
      /\ e.status = c.status /\ e.gates = c.gates /\ e.body = c.body /\ e.source = Nowhere
    BY DEF Entity
<1>2. DOMAIN e = RowFields
    BY DEF Entity, RowFields
<1> QED BY <1>1, <1>2 DEF IsRow

LEMMA PreparedIs ==
    ASSUME NEW e, IsRow(e), NEW r, r = Prepared(e)
    PROVE  /\ IsRow(r) /\ r.path = e.path /\ r.origin = e.origin /\ r.id = e.id
           /\ r.status = e.status /\ r.gates = e.gates /\ r.body = e.body /\ r.source = e.source
           /\ r.preparation = Preparation(e.gates, e.status, e.body, Clean(e.path))
<1> DEFINE x == Preparation(e.gates, e.status, e.body, Clean(e.path))
<1>1. r = [e EXCEPT !.preparation = x]
    BY DEF Prepared
<1> HIDE DEF x
<1>2. DOMAIN r = DOMAIN e
    BY <1>1
<1>3. /\ r.path = e.path /\ r.origin = e.origin /\ r.id = e.id
      /\ r.status = e.status /\ r.gates = e.gates /\ r.body = e.body /\ r.source = e.source
      /\ r.preparation = x
    BY <1>1 DEF IsRow, RowFields
<1> QED BY <1>2, <1>3 DEF IsRow, x

LEMMA CopyAsIs ==
    ASSUME FilesOK, NEW p \in Readable, files[p] # {}
    PROVE  /\ IsRow(CopyAs(p)) /\ CopyAs(p).path = p
           /\ CopyAs(p).body = OnDisk(p).body /\ CopyAs(p).source = Nowhere
<1>1. p \in Paths
    BY DEF Readable
<1> QED BY <1>1, OnDiskIs, EntityIs DEF CopyAs

LEMMA ReadAsIs ==
    ASSUME FilesOK, NEW p \in Readable, files[p] # {}
    PROVE  /\ IsRow(ReadAs(p)) /\ ReadAs(p).path = p /\ Fronts(ReadAs(p), p)
           /\ ReadAs(p).body = OnDisk(p).body /\ ReadAs(p).source = Nowhere
<1>1. p \in Paths
    BY DEF Readable
<1>2. PICK c : c = OnDisk(p)
    OBVIOUS
<1>3. PICK e : e = Entity(p, c)
    OBVIOUS
<1>4. PICK r : r = Prepared(e)
    OBVIOUS
<1>5. /\ IsRow(e) /\ e.path = p /\ e.origin = p /\ e.id = ResolveId(c, p)
      /\ e.status = c.status /\ e.gates = c.gates /\ e.body = c.body /\ e.source = Nowhere
    BY <1>1, <1>2, <1>3, OnDiskIs, EntityIs
<1>6. /\ IsRow(r) /\ r.path = e.path /\ r.origin = e.origin /\ r.id = e.id
      /\ r.status = e.status /\ r.gates = e.gates /\ r.body = e.body /\ r.source = e.source
      /\ r.preparation = Preparation(e.gates, e.status, e.body, Clean(e.path))
    BY <1>4, <1>5, PreparedIs
<1>7. ReadAs(p) = r
    BY <1>2, <1>3, <1>4 DEF ReadAs, CopyAs
<1> QED BY <1>2, <1>5, <1>6, <1>7 DEF Fronts

----------------------------------------------------------------------------
\* What other processes leave alone.
FilesKept ==
    /\ files' \in [Paths -> SUBSET Written]
    /\ steady' \subseteq steady /\ vanished \subseteq vanished' /\ vanished' \cap steady' = {}
    /\ \A p \in steady' : files'[p] = files[p] /\ head'[p] = head[p]
    /\ \A p \in Paths : files[p] # {} /\ files'[p] = {} => p \in vanished'

LEMMA SameFiles ==
    ASSUME FilesOK, files' = files, head' = head, steady' = steady, vanished' = vanished
    PROVE  FilesKept /\ FilesOK'
BY DEF FilesOK, FilesKept

LEMMA PathKept ==
    ASSUME NEW p, files'[p] = files[p], head'[p] = head[p]
    PROVE  /\ OnDisk(p)' = OnDisk(p) /\ (ParsesNow(p)' <=> ParsesNow(p))
           /\ CopyAs(p)' = CopyAs(p) /\ ReadAs(p)' = ReadAs(p)
           /\ \A e : Fronts(e, p)' <=> Fronts(e, p)
<1>1. PICK c : c = OnDisk(p)
    OBVIOUS
<1>2. OnDisk(p)' = c
    BY <1>1 DEF OnDisk
<1>3. PICK k : k = Clean(p)
    OBVIOUS
<1>4. Clean(p)' = k
    BY <1>3 DEF Clean
<1>5. ParsesNow(p) = Parses(p, c) /\ ParsesNow(p)' = Parses(p, c)
    BY <1>1, <1>2 DEF ParsesNow, Parses
<1>6. CopyAs(p) = Entity(p, c) /\ CopyAs(p)' = Entity(p, c)
    BY <1>1, <1>2, Zenon DEF CopyAs, Entity
<1>7. PICK e : e = Entity(p, c)
    OBVIOUS
<1>8. e.path = p
    BY <1>7 DEF Entity
<1>9. ReadAs(p) = [e EXCEPT !.preparation = Preparation(e.gates, e.status, e.body, k)]
    BY <1>3, <1>6, <1>7, <1>8, Zenon DEF ReadAs, Prepared
<1>10. ReadAs(p)' = [e EXCEPT !.preparation = Preparation(e.gates, e.status, e.body, k)]
  <2>1. ReadAs(p)' = [CopyAs(p)' EXCEPT !.preparation =
                        Preparation(CopyAs(p)'.gates, CopyAs(p)'.status, CopyAs(p)'.body, Clean(CopyAs(p).path)')]
      BY Zenon DEF ReadAs, Prepared, Preparation
  <2>2. Clean(CopyAs(p).path)' = k
      BY <1>3, <1>6, <1>7, <1>8, <1>4 DEF Clean
  <2> QED BY <1>6, <1>7, <2>1, <2>2, Zenon
<1>11. ASSUME NEW x PROVE Fronts(x, p)' <=> Fronts(x, p)
  <2>1. Fronts(x, p) <=> /\ x.origin = p /\ x.id = ResolveId(c, p) /\ x.status = c.status /\ x.gates = c.gates
                         /\ x.preparation = Preparation(c.gates, c.status, c.body, k)
      BY <1>1, <1>3, Zenon DEF Fronts
  <2>2. Fronts(x, p)' <=> /\ x.origin = p /\ x.id = ResolveId(c, p) /\ x.status = c.status /\ x.gates = c.gates
                         /\ x.preparation = Preparation(c.gates, c.status, c.body, k)
      BY <1>2, <1>4, Zenon DEF Fronts, ResolveId, Preparation
  <2> QED BY <2>1, <2>2
<1> QED BY <1>1, <1>2, <1>5, <1>6, <1>9, <1>10, <1>11

\* A set of files that is not empty has a first and a last one.
LEMMA OneIsFirst ==
    ASSUME NEW S \in SUBSET Readable, S # {}
    PROVE  FirstRead(S) \in S /\ \A q \in S \ {FirstRead(S)} : ReadBefore(FirstRead(S), q)
<1> DEFINE n == Len(Worktrees) + 1
           I == {i \in 1 .. n : \E p \in S : RootPlace(p.root) = i - 1}
<1>1. Len(Worktrees) \in Nat /\ DOMAIN Worktrees = 1 .. Len(Worktrees)
    BY IndexAssumption, ListIs DEF IsList
<1>2. \A p \in S : p \in Paths /\ p.root \in Roots /\ RootPlace(p.root) + 1 \in 1 .. n
  <2>1. ASSUME NEW p \in S PROVE p \in Paths /\ p.root \in Roots
      BY DEF Readable, Paths, Roots
  <2>2. RootPlace("main") = 0
      BY DEF RootPlace
  <2>3. ASSUME NEW p \in S PROVE RootPlace(p.root) + 1 \in 1 .. n
    <3>1. CASE p.root = "main"
        BY <1>1, <2>2, <3>1
    <3>2. CASE p.root \in Range(Worktrees)
        BY <1>1, <3>2, RootPlaceIs
    <3> QED BY <2>1, <3>1, <3>2 DEF Roots
  <2> QED BY <2>1, <2>3
<1>3. PICK k \in I : \A j \in I : k <= j
  <2>1. I # {}
    <3>1. PICK p \in S : TRUE
        OBVIOUS
    <3>2. RootPlace(p.root) + 1 \in I
        BY <1>2, PlacesDiffer
    <3> QED BY <3>2
  <2>2. n \in Nat /\ I \in SUBSET (1 .. n)
      BY <1>1
  <2> HIDE DEF I, n
  <2> QED BY <2>1, <2>2, FirstIn
<1> DEFINE m == 2 * Len(Slugs) + 1
           J == {j \in 1 .. m : \E p \in S : RootPlace(p.root) = k - 1 /\ SpotOf(p) = j}
<1>4. PICK p0 \in S : RootPlace(p0.root) = k - 1
    OBVIOUS
<1>5. PICK l \in J : \A j \in J : l <= j
  <2>1. SpotOf(p0) \in J /\ m \in Nat
      BY <1>2, <1>4, AtIs
  <2>2. J \in SUBSET (1 .. m)
      OBVIOUS
  <2> HIDE DEF J, m
  <2> QED BY <2>1, <2>2, FirstIn
<1>6. PICK p \in S : RootPlace(p.root) = k - 1 /\ SpotOf(p) = l
    OBVIOUS
<1>7. ASSUME NEW q \in S \ {p} PROVE ReadBefore(p, q)
  <2>1. RootPlace(q.root) \in Nat /\ RootPlace(q.root) + 1 \in I
      BY <1>2, PlacesDiffer
  <2>2. k - 1 <= RootPlace(q.root)
      BY <1>3, <2>1
  <2>3. CASE RootPlace(q.root) = k - 1
    <3>1. q.root = p.root
        BY <1>2, <1>6, <2>3, PlacesDiffer
    <3>2. SpotOf(q) \in J /\ SpotOf(q) \in Nat
      <4>1. q \in Paths /\ SpotOf(q) \in 1 .. m
          BY <1>2, AtIs
      <4>2. SpotOf(q) \in J
          BY <2>3, <4>1
      <4>3. Len(Slugs) \in Nat
          BY <4>1, AtIs
      <4> QED BY <4>1, <4>2, <4>3
    <3>3. l <= SpotOf(q) /\ SpotOf(q) # l
        BY <1>2, <1>5, <1>6, <3>1, <3>2, AtDiffers
    <3>4. SpotOf(p) < SpotOf(q)
        BY <1>6, <3>2, <3>3
    <3> QED BY <1>2, <3>1, <3>4, AtDiffers DEF ReadBefore
  <2>4. CASE k - 1 < RootPlace(q.root)
      BY <1>6, <2>4 DEF ReadBefore
  <2> QED BY <2>1, <2>2, <2>3, <2>4
<1>8. FirstRead(S) = p
    BY <1>7, FirstReadIs
<1> QED BY <1>7, <1>8

\* Likewise: the one of the last root that is last in it.
LEMMA OneIsLast ==
    ASSUME NEW S \in SUBSET Readable, S # {}
    PROVE  LastRead(S) \in S /\ \A q \in S \ {LastRead(S)} : ReadBefore(q, LastRead(S))
<1> DEFINE n == Len(Worktrees) + 1
           I == {i \in 1 .. n : \E p \in S : RootPlace(p.root) = i - 1}
<1>1. Len(Worktrees) \in Nat /\ DOMAIN Worktrees = 1 .. Len(Worktrees)
    BY IndexAssumption, ListIs DEF IsList
<1>2. \A p \in S : p \in Paths /\ p.root \in Roots /\ RootPlace(p.root) + 1 \in 1 .. n
  <2>1. ASSUME NEW p \in S PROVE p \in Paths /\ p.root \in Roots
      BY DEF Readable, Paths, Roots
  <2>2. RootPlace("main") = 0
      BY DEF RootPlace
  <2>3. ASSUME NEW p \in S PROVE RootPlace(p.root) + 1 \in 1 .. n
    <3>1. CASE p.root = "main"
        BY <1>1, <2>2, <3>1
    <3>2. CASE p.root \in Range(Worktrees)
        BY <1>1, <3>2, RootPlaceIs
    <3> QED BY <2>1, <3>1, <3>2 DEF Roots
  <2> QED BY <2>1, <2>3
<1>3. PICK k \in I : \A j \in I : j <= k
  <2>1. I # {}
    <3>1. PICK p \in S : TRUE
        OBVIOUS
    <3>2. RootPlace(p.root) + 1 \in I
        BY <1>2, PlacesDiffer
    <3> QED BY <3>2
  <2>2. n \in Nat /\ I \in SUBSET (1 .. n)
      BY <1>1
  <2> HIDE DEF I, n
  <2> QED BY <2>1, <2>2, LastIn
<1> DEFINE m == 2 * Len(Slugs) + 1
           J == {j \in 1 .. m : \E p \in S : RootPlace(p.root) = k - 1 /\ SpotOf(p) = j}
<1>4. PICK p0 \in S : RootPlace(p0.root) = k - 1
    OBVIOUS
<1>5. PICK l \in J : \A j \in J : j <= l
  <2>1. SpotOf(p0) \in J /\ m \in Nat
      BY <1>2, <1>4, AtIs
  <2>2. J \in SUBSET (1 .. m)
      OBVIOUS
  <2> HIDE DEF J, m
  <2> QED BY <2>1, <2>2, LastIn
<1>6. PICK p \in S : RootPlace(p.root) = k - 1 /\ SpotOf(p) = l
    OBVIOUS
<1>7. ASSUME NEW q \in S \ {p} PROVE ReadBefore(q, p)
  <2>1. RootPlace(q.root) \in Nat /\ RootPlace(q.root) + 1 \in I
      BY <1>2, PlacesDiffer
  <2>2. RootPlace(q.root) <= k - 1
      BY <1>3, <2>1
  <2>3. CASE RootPlace(q.root) = k - 1
    <3>1. q.root = p.root
        BY <1>2, <1>6, <2>3, PlacesDiffer
    <3>2. SpotOf(q) \in J /\ SpotOf(q) \in Nat
      <4>1. q \in Paths /\ SpotOf(q) \in 1 .. m
          BY <1>2, AtIs
      <4>2. SpotOf(q) \in J
          BY <2>3, <4>1
      <4>3. Len(Slugs) \in Nat
          BY <4>1, AtIs
      <4> QED BY <4>1, <4>2, <4>3
    <3>3. SpotOf(q) <= l /\ SpotOf(q) # l
        BY <1>2, <1>5, <1>6, <3>1, <3>2, AtDiffers
    <3>4. SpotOf(q) < SpotOf(p)
        BY <1>6, <3>2, <3>3
    <3> QED BY <1>2, <3>1, <3>4, AtDiffers DEF ReadBefore
  <2>4. CASE RootPlace(q.root) < k - 1
      BY <1>6, <2>4 DEF ReadBefore
  <2> QED BY <2>1, <2>2, <2>3, <2>4
<1>8. LastRead(S) = p
    BY <1>7, LastReadIs
<1> QED BY <1>7, <1>8

----------------------------------------------------------------------------
(* What a task's files say while they stay *)

LEMMA MainsAre ==
    ASSUME NEW s, NEW p
    PROVE  p \in Mains(s) <=>
              p \in Paths /\ p.root = "main" /\ p.slug = s /\ files[p] # {} /\ ParsesNow(p)
BY DEF Mains, Parsed, In, ParsesNow

LEMMA CopiesAre ==
    ASSUME NEW s, NEW p
    PROVE  p \in CopiesOf(s) <=>
              p \in Paths /\ p.root \in Range(Worktrees) /\ p.slug = s /\ files[p] # {} /\ ParsesNow(p)
BY DEF CopiesOf, Parsed, In, ParsesNow

LEMMA ReadablesAre ==
    ASSUME NEW s
    PROVE  Mains(s) \in SUBSET Readable /\ CopiesOf(s) \in SUBSET Readable
<1>1. \A p \in Mains(s) : p \in Paths /\ p.root = "main"
    BY MainsAre
<1>2. \A p \in CopiesOf(s) : p \in Paths /\ p.root \in Range(Worktrees)
    BY CopiesAre
<1> QED BY <1>1, <1>2, RootPlaceIs DEF Readable

LEMMA OwnerIs ==
    ASSUME NEW s, Mains(s) # {} \/ CopiesOf(s) # {}
    PROVE  /\ Owner(s) \in Mains(s) \cup CopiesOf(s)
           /\ Owner(s) \in Readable /\ Owner(s).slug = s /\ files[Owner(s)] # {}
<1>1. Owner(s) \in Mains(s) \cup CopiesOf(s)
    BY ReadablesAre, OneIsFirst, OneIsLast DEF Owner
<1> QED BY <1>1, ReadablesAre, MainsAre, CopiesAre

LEMMA MainsKept ==
    ASSUME FilesOK, FilesKept, NEW s, MainSteady(s)'
    PROVE  /\ MainSteady(s) /\ Mains(s)' = Mains(s)
           /\ \A p \in Mains(s) : p \in steady' /\ \A e : Fronts(e, p)' <=> Fronts(e, p)
<1>1. \A p \in Paths : p.root = "main" /\ p.slug = s =>
         p \in steady' /\ p \in steady /\ files'[p] = files[p] /\ head'[p] = head[p]
    BY DEF MainSteady, FilesKept
<1>2. \A p \in Paths : p.root = "main" /\ p.slug = s =>
         (ParsesNow(p)' <=> ParsesNow(p)) /\ \A e : Fronts(e, p)' <=> Fronts(e, p)
    BY <1>1, PathKept
<1>3. \A p : p \in Mains(s)' <=>
              p \in Paths /\ p.root = "main" /\ p.slug = s /\ files'[p] # {} /\ ParsesNow(p)'
    BY DEF Mains, Parsed, In, ParsesNow
<1>4. \A p : p \in Mains(s) <=> p \in Mains(s)'
    BY <1>1, <1>2, <1>3, MainsAre
<1>5. \A p \in Mains(s) : p \in Paths /\ p.root = "main" /\ p.slug = s
    BY MainsAre
<1>6. MainSteady(s)
    BY <1>1 DEF MainSteady
<1> QED BY <1>1, <1>2, <1>4, <1>5, <1>6

LEMMA CopiesKept ==
    ASSUME FilesOK, FilesKept, NEW s, SteadySlug(s)'
    PROVE  /\ SteadySlug(s) /\ Mains(s)' = Mains(s) /\ CopiesOf(s)' = CopiesOf(s)
           /\ Owner(s)' = Owner(s) /\ (Hidden(s)' <=> Hidden(s))
           /\ \A p \in Paths : p.slug = s =>
                /\ p \in steady' /\ files'[p] = files[p] /\ OnDisk(p)' = OnDisk(p)
                /\ ParsesNow(p)' <=> ParsesNow(p)
                /\ \A e : Fronts(e, p)' <=> Fronts(e, p)
<1>1. \A p \in Paths : p.slug = s =>
         p \in steady' /\ p \in steady /\ files'[p] = files[p] /\ head'[p] = head[p]
    BY DEF SteadySlug, FilesKept
<1>2. \A p \in Paths : p.slug = s =>
         /\ OnDisk(p)' = OnDisk(p) /\ (ParsesNow(p)' <=> ParsesNow(p))
         /\ \A e : Fronts(e, p)' <=> Fronts(e, p)
    BY <1>1, PathKept
<1>3. \A p : p \in CopiesOf(s)' <=>
         p \in Paths /\ p.root \in Range(Worktrees) /\ p.slug = s /\ files'[p] # {} /\ ParsesNow(p)'
    BY DEF CopiesOf, Parsed, In, ParsesNow
<1>4. \A p : p \in CopiesOf(s) <=> p \in CopiesOf(s)'
    BY <1>1, <1>2, <1>3, CopiesAre
<1>5. MainSteady(s)'
    BY <1>1 DEF MainSteady
<1>6. Mains(s)' = Mains(s)
    BY <1>5, MainsKept
<1>7. CopiesOf(s)' = CopiesOf(s)
    BY <1>4
<1>8. Owner(s)' = Owner(s)
    BY <1>6, <1>7 DEF Owner, LastRead, FirstRead
<1>9. Hidden(s)' <=> Hidden(s)
    BY <1>1, <1>6 DEF Hidden, In
<1>10. SteadySlug(s)
    BY <1>1 DEF SteadySlug
<1> QED BY <1>1, <1>2, <1>6, <1>7, <1>8, <1>9, <1>10

LEMMA AwayKept ==
    ASSUME FilesOK, FilesKept, NEW s, Away(s)'
    PROVE  Away(s) /\ MainSteady(s)' /\ Mains(s) = {}
<1>1. Away(s) /\ MainSteady(s)'
    BY DEF Away, MainSteady, FilesKept, FilesOK
<1>2. Mains(s) = {}
    BY <1>1, MainsAre DEF Away
<1> QED BY <1>1, <1>2

LEMMA ToldStays ==
    ASSUME FilesOK, FilesKept, NEW rows, NEW errors, errors \subseteq Readable, Told(rows, errors)
    PROVE  Told(rows, errors)'
<1> SUFFICES ASSUME NEW s \in Range(Slugs)
             PROVE  /\ SteadySlug(s)' => ErrorsTold(errors, s)' /\ SlugTold(rows, s)'
                    /\ MainSteady(s)' /\ Unvanished(s)' => MainTold(rows, s)'
                    /\ Away(s)' => With(rows, s)' = {}
    BY Zenon DEF Told
<1>0. With(rows, s)' = With(rows, s)
    BY DEF With
<1>1. ASSUME SteadySlug(s)' PROVE ErrorsTold(errors, s)'
  <2>1. ErrorsTold(errors, s) /\ \A p \in Paths : p.slug = s =>
                files'[p] = files[p] /\ (ParsesNow(p)' <=> ParsesNow(p))
      BY <1>1, CopiesKept DEF Told
  <2> QED BY <2>1 DEF ErrorsTold, Readable
<1>2. ASSUME SteadySlug(s)' PROVE SlugTold(rows, s)'
  <2>1. /\ SlugTold(rows, s) /\ Mains(s)' = Mains(s) /\ CopiesOf(s)' = CopiesOf(s)
        /\ Owner(s)' = Owner(s) /\ (Hidden(s)' <=> Hidden(s))
        /\ \A p \in Paths : p.slug = s =>
                /\ files'[p] = files[p] /\ OnDisk(p)' = OnDisk(p)
                /\ \A e : Fronts(e, p)' <=> Fronts(e, p)
      BY <1>2, CopiesKept DEF Told
  <2>2. CASE CopiesOf(s) = {}
    <3>1. \A e \in With(rows, s) : e.path \in Mains(s) /\ Fronts(e, e.path)'
      <4>1. \A p \in Mains(s) : p \in Paths /\ p.slug = s
          BY MainsAre
      <4>2. ASSUME NEW e \in With(rows, s), NEW p, p = e.path PROVE p \in Mains(s) /\ Fronts(e, p)'
          BY <2>1, <2>2, <4>1, <4>2 DEF SlugTold
      <4>3. ASSUME NEW e \in With(rows, s) PROVE Fronts(e, e.path)'
        <5>1. PICK p : p = e.path
            OBVIOUS
        <5>2. Fronts(e, p)'
            BY <4>2, <5>1
        <5> QED BY <5>1, <5>2
      <4> QED BY <4>2, <4>3
    <3>2. Mains(s) # {} => Owner(s) \in {e.path : e \in With(rows, s)}
        BY <2>1, <2>2 DEF SlugTold
    <3> QED BY <1>0, <2>1, <2>2, <3>1, <3>2 DEF SlugTold
  <2>3. CASE CopiesOf(s) # {} /\ Hidden(s)
      BY <1>0, <2>1, <2>3 DEF SlugTold
  <2>4. CASE CopiesOf(s) # {} /\ ~Hidden(s)
    <3>1. PICK e \in With(rows, s) :
         /\ With(rows, s) = {e} /\ Fronts(e, Owner(s))
         /\ e.body = OnDisk(LastRead(CopiesOf(s))).body
         /\ e.source = Nowhere <=>
              Mains(s) # {} /\ \A q \in CopiesOf(s) : files[q] = files[Owner(s)]
        BY <2>1, <2>4, Zenon DEF SlugTold
    <3>2. PICK o : o = Owner(s) /\ o = Owner(s)'
        BY <2>1
    <3>3. PICK l : l = LastRead(CopiesOf(s)) /\ l = LastRead(CopiesOf(s))'
        BY <2>1 DEF LastRead
    <3>4. o \in Paths /\ o.slug = s /\ l \in Paths /\ l.slug = s
      <4>1. o \in Readable /\ o.slug = s
          BY <2>4, <3>2, OwnerIs
      <4>2. l \in CopiesOf(s)
          BY <2>4, <3>3, ReadablesAre, OneIsLast
      <4>3. l \in Paths /\ l.slug = s
          BY <4>2, CopiesAre
      <4> QED BY <4>1, <4>3 DEF Readable
    <3>5. Fronts(e, o)' /\ OnDisk(l)' = OnDisk(l) /\ files'[o] = files[o]
        BY <2>1, <3>1, <3>2, <3>4
    <3>6. \A q \in CopiesOf(s) : files'[q] = files[q]
        BY <2>1, CopiesAre
    <3>7. /\ Fronts(e, Owner(s))' /\ e.body = OnDisk(LastRead(CopiesOf(s)))'.body
          /\ e.source = Nowhere <=>
              Mains(s)' # {} /\ \A q \in CopiesOf(s)' : files'[q] = files'[Owner(s)']
      <4>1. Fronts(e, Owner(s))'
          BY <3>2, <3>5, Zenon DEF Fronts
      <4>2. OnDisk(LastRead(CopiesOf(s)))' = OnDisk(l)'
          BY <3>3, Zenon DEF OnDisk
      <4> QED BY <2>1, <3>1, <3>2, <3>3, <3>5, <3>6, <4>1, <4>2
    <3> QED BY <1>0, <2>1, <2>4, <3>1, <3>7, Zenon DEF SlugTold
  <2> QED BY <2>2, <2>3, <2>4
<1>3. ASSUME MainSteady(s)', Unvanished(s)' PROVE MainTold(rows, s)'
  <2>1. MainSteady(s) /\ Unvanished(s)
      BY <1>3, MainsKept DEF Unvanished, FilesKept
  <2>2. MainTold(rows, s)
      BY <2>1 DEF Told
  <2>3. Mains(s)' = Mains(s) /\ \A p \in Mains(s) : \A e : Fronts(e, p)' <=> Fronts(e, p)
      BY <1>3, MainsKept
  <2>4. ASSUME NEW p \in Mains(s), Mains(s) = {p}
        PROVE  \E e \in With(rows, s)' : With(rows, s)' = {e} /\ Fronts(e, p)'
    <3>1. PICK e \in With(rows, s) : With(rows, s) = {e} /\ Fronts(e, p)
        BY <2>2, <2>4, Zenon DEF MainTold
    <3>2. Fronts(e, p)'
        BY <2>3, <3>1
    <3> QED BY <1>0, <3>1, <3>2, Zenon
  <2> QED BY <2>3, <2>4, Zenon DEF MainTold
<1>4. ASSUME Away(s)' PROVE With(rows, s)' = {}
    BY <1>0, <1>4, AwayKept DEF Told
<1> QED BY <1>1, <1>2, <1>3, <1>4

LEMMA ReadingStays ==
    ASSUME FilesOK, FilesKept, load' = load, ReadingOK
    PROVE  ReadingOK'
<1>1. Seen' = Seen
    BY DEF Seen
<1>2. QueueOK'
    BY <1>1 DEF ReadingOK, QueueOK, Ascending
<1>3. RowsOK'
  <2>1. \A e \in Range(load.copies) : files'[e.path] # {} \/ e.path \in vanished'
    <3>1. ASSUME NEW e \in Range(load.copies), NEW p, p = e.path
          PROVE  files'[p] # {} \/ p \in vanished'
      <4>1. p \in Paths /\ (files[p] # {} \/ p \in vanished)
          BY <3>1 DEF ReadingOK, RowsOK, IsRow, Readable
      <4> QED BY <4>1 DEF FilesKept
    <3> QED BY <3>1
  <2>2. RowsOK
      BY DEF ReadingOK
  <2>3. load'.items = load.items /\ load'.copies = load.copies /\ load'.phase = load.phase
      OBVIOUS
  <2> QED BY <1>1, <2>1, <2>2, <2>3 DEF RowsOK, AscendingRows
<1>4. ASSUME NEW p \in steady' \cap Readable PROVE PathRead(p)'
  <2>1. files'[p] = files[p] /\ head'[p] = head[p] /\ p \in steady \cap Readable
      BY DEF FilesKept
  <2>2. /\ (ParsesNow(p)' <=> ParsesNow(p)) /\ CopyAs(p)' = CopyAs(p) /\ ReadAs(p)' = ReadAs(p)
      BY <2>1, PathKept
  <2>3. PathRead(p)
      BY <2>1 DEF ReadingOK
  <2> QED BY <1>1, <2>1, <2>2, <2>3 DEF PathRead
<1> QED BY <1>2, <1>3, <1>4 DEF ReadingOK

LEMMA RowTellsStays ==
    ASSUME FilesOK, FilesKept, NEW s, SteadySlug(s)', NEW e, NEW merged,
           merged \subseteq CopiesOf(s), merged # {} \/ Mains(s) # {}, e.path \in Paths,
           RowTells(e, s, merged)
    PROVE  RowTells(e, s, merged)'
<1>1. /\ Mains(s)' = Mains(s) /\ CopiesOf(s)' = CopiesOf(s) /\ Owner(s)' = Owner(s)
      /\ \A p \in Paths : p.slug = s =>
                /\ p \in steady' /\ files'[p] = files[p] /\ OnDisk(p)' = OnDisk(p)
                /\ \A x : Fronts(x, p)' <=> Fronts(x, p)
    BY CopiesKept
<1>2. PICK o : o = Owner(s) /\ o = Owner(s)'
    BY <1>1
<1>3. PICK l : l = (IF merged = {} THEN Owner(s) ELSE LastRead(merged))
    OBVIOUS
<1>4. l = (IF merged = {} THEN Owner(s) ELSE LastRead(merged))'
  <2>1. PICK m : m = LastRead(merged) /\ m = LastRead(merged)'
      BY Zenon DEF LastRead
  <2> QED BY <1>2, <1>3, <2>1
<1>5. o \in Paths /\ o.slug = s
    BY <1>2, OwnerIs DEF Readable
<1>6. l \in Paths /\ l.slug = s
  <2>1. CASE merged = {}
      BY <1>2, <1>3, <1>5, <2>1
  <2>2. CASE merged # {}
    <3>1. merged \in SUBSET Readable /\ l \in merged
        BY <1>3, <2>2, ReadablesAre, OneIsLast
    <3> QED BY <3>1, CopiesAre
  <2> QED BY <2>1, <2>2
<1>7. PICK p : p = e.path
    OBVIOUS
<1>8. p \in Paths /\ p.slug = s
    BY <1>7 DEF RowTells
<1>9. Fronts(e, o)'
    BY <1>1, <1>2, <1>5 DEF RowTells
<1>10. \A q \in merged : files'[q] = files[q]
    BY <1>1, CopiesAre
<1>11. /\ files'[o] = files[o] /\ files'[l] = files[l] /\ files'[p] = files[p]
       /\ p \in steady' /\ OnDisk(p)' = OnDisk(p)
    BY <1>1, <1>5, <1>6, <1>8
<1>12. Fronts(e, Owner(s))'
    BY <1>2, <1>9, Zenon DEF Fronts
<1>13. OnDisk(e.path)' = OnDisk(p)'
    BY <1>7, Zenon DEF OnDisk
<1>14. /\ e.body = OnDisk(p).body /\ files[p] # {} /\ files[p] = files[l]
       /\ merged = {} => p = o
       /\ e.source = Nowhere <=> Mains(s) # {} /\ \A q \in merged : files[q] = files[o]
    BY <1>2, <1>3, <1>7, Zenon DEF RowTells
<1>15. /\ e.path \in steady' /\ e.path.slug = s /\ files'[e.path] # {}
       /\ e.body = OnDisk(e.path)'.body
       /\ files'[e.path] = files'[l]
       /\ merged = {} => e.path = Owner(s)'
    BY <1>2, <1>7, <1>8, <1>11, <1>13, <1>14
<1>16. e.source = Nowhere <=> Mains(s)' # {} /\ \A q \in merged : files'[q] = files'[Owner(s)']
    BY <1>1, <1>2, <1>10, <1>11, <1>14
<1> QED BY <1>4, <1>12, <1>15, <1>16, Zenon DEF RowTells

\* A waiting copy of a task that stays is one of the task's copies.
LEMMA WaitingAre ==
    ASSUME MergeOK, NEW s, SteadySlug(s)
    PROVE  Waiting(s) \subseteq CopiesOf(s)
<1>1. ASSUME NEW e \in Range(load.copies), e.path.slug = s, NEW p, p = e.path
      PROVE  p \in CopiesOf(s)
  <2>1. p \in Paths /\ p.root \in Range(Worktrees)
      BY <1>1 DEF MergeOK, IsRow, Readable
  <2>2. p \in steady
      BY <1>1, <2>1 DEF SteadySlug
  <2>3. files[p] # {} /\ ParsesNow(p)
      BY <1>1, <2>2 DEF MergeOK
  <2> QED BY <1>1, <2>1, <2>3, CopiesAre
<1> QED BY <1>1 DEF Waiting

LEMMA MergeStays ==
    ASSUME FilesOK, FilesKept, load' = load, MergeOK
    PROVE  MergeOK'
<1>1. ASSUME NEW s \in DOMAIN load.rows, NEW p, p = load.rows[s].path
      PROVE  p \in Paths /\ p.slug = s
    BY <1>1 DEF MergeOK, IsRow, Readable
<1>2. ASSUME NEW e \in Range(load.copies), NEW p, p = e.path
      PROVE  /\ IsRow(e) /\ p.root \in Range(Worktrees)
             /\ files'[p] # {} \/ p \in vanished'
             /\ p \in steady' => e = ReadAs(p)' /\ files'[p] # {} /\ ParsesNow(p)'
  <2>1. /\ IsRow(e) /\ p \in Paths /\ p.root \in Range(Worktrees)
        /\ files[p] # {} \/ p \in vanished
        /\ p \in steady => e = ReadAs(p) /\ files[p] # {} /\ ParsesNow(p)
      BY <1>2 DEF MergeOK, IsRow, Readable
  <2>2. files'[p] # {} \/ p \in vanished'
      BY <2>1 DEF FilesKept
  <2>3. ASSUME p \in steady' PROVE e = ReadAs(p)' /\ files'[p] # {} /\ ParsesNow(p)'
    <3>1. p \in steady /\ files'[p] = files[p] /\ head'[p] = head[p]
        BY <2>3 DEF FilesKept
    <3> QED BY <2>1, <3>1, PathKept
  <2> QED BY <2>1, <2>2, <2>3
<1>3. \A e \in Range(load.copies) :
         /\ IsRow(e) /\ e.path.root \in Range(Worktrees)
         /\ files'[e.path] # {} \/ e.path \in vanished'
         /\ e.path \in steady' => e = ReadAs(e.path)' /\ files'[e.path] # {} /\ ParsesNow(e.path)'
  <2>1. ASSUME NEW e \in Range(load.copies)
        PROVE  /\ IsRow(e) /\ e.path.root \in Range(Worktrees)
               /\ files'[e.path] # {} \/ e.path \in vanished'
               /\ e.path \in steady' => e = ReadAs(e.path)' /\ files'[e.path] # {} /\ ParsesNow(e.path)'
    <3>1. PICK p : p = e.path
        OBVIOUS
    <3>2. ReadAs(e.path)' = ReadAs(p)' /\ (ParsesNow(e.path)' <=> ParsesNow(p)')
        BY <3>1, Zenon DEF ReadAs, CopyAs, Prepared, Preparation, ParsesNow, OnDisk, Clean, Entity, Parses
    <3>3. /\ IsRow(e) /\ p.root \in Range(Worktrees)
          /\ files'[p] # {} \/ p \in vanished'
          /\ p \in steady' => e = ReadAs(p)' /\ files'[p] # {} /\ ParsesNow(p)'
        BY <3>1, <1>2
    <3> QED BY <3>1, <3>2, <3>3
  <2> QED BY <2>1
<1>4. ASSUME NEW p \in steady' \cap Readable
      PROVE  p \in load.errors <=> files'[p] # {} /\ ~ParsesNow(p)'
  <2>1. files'[p] = files[p] /\ head'[p] = head[p] /\ p \in steady
      BY DEF FilesKept
  <2>2. ParsesNow(p)' <=> ParsesNow(p)
      BY <2>1, PathKept
  <2>3. p \in load.errors <=> files[p] # {} /\ ~ParsesNow(p)
      BY <2>1 DEF MergeOK
  <2> QED BY <2>1, <2>2, <2>3
<1>5. ASSUME NEW s \in Range(Slugs) PROVE MainMerged(s)'
  <2>1. SUFFICES ASSUME MainSteady(s)', Unvanished(s)', Mains(s)' # {}
                 PROVE  /\ s \in DOMAIN load.rows /\ Fronts(load.rows[s], LastRead(Mains(s)))'
                        /\ files'[load.rows[s].path] # {}
      BY Zenon DEF MainMerged
  <2>2. /\ MainSteady(s) /\ Mains(s)' = Mains(s) /\ Unvanished(s)
        /\ \A p \in Mains(s) : \A e : Fronts(e, p)' <=> Fronts(e, p)
      BY <2>1, MainsKept DEF Unvanished, FilesKept
  <2>3. PICK o : o = LastRead(Mains(s)) /\ o = LastRead(Mains(s))'
      BY <2>2 DEF LastRead
  <2>4. o \in Mains(s)
      BY <2>1, <2>2, <2>3, ReadablesAre, OneIsLast
  <2>5. MainMerged(s)
      BY DEF MergeOK
  <2>6. PICK e, p : e = load.rows[s] /\ p = e.path
      OBVIOUS
  <2>7. s \in DOMAIN load.rows /\ Fronts(e, o) /\ files[p] # {}
      BY <2>1, <2>2, <2>3, <2>5, <2>6 DEF MainMerged
  <2>8. Fronts(e, o)'
      BY <2>2, <2>4, <2>7
  <2>9. Fronts(load.rows[s], LastRead(Mains(s)))'
      BY <2>3, <2>6, <2>8, Zenon DEF Fronts
  <2>10. files'[p] # {}
      BY <1>1, <2>1, <2>6, <2>7 DEF FilesKept, Unvanished
  <2> QED BY <2>6, <2>7, <2>9, <2>10
<1>6. ASSUME NEW s \in Range(Slugs) PROVE CopiesMerged(s)'
  <2>1. CASE ~SteadySlug(s)'
      BY <2>1 DEF CopiesMerged
  <2>2. CASE SteadySlug(s)'
    <3>1. /\ SteadySlug(s) /\ Mains(s)' = Mains(s) /\ CopiesOf(s)' = CopiesOf(s)
          /\ (Hidden(s)' <=> Hidden(s))
        BY <2>2, CopiesKept
    <3>2. CopiesMerged(s)
        BY DEF MergeOK
    <3>3. PICK w : w = Waiting(s) /\ w = Waiting(s)'
        BY DEF Waiting
    <3>4. PICK m : m = MergedOf(s) /\ m = MergedOf(s)'
        BY <3>1, <3>3 DEF MergedOf
    <3>5. /\ \A q \in m, r \in w : ReadBefore(q, r)
          /\ s \in DOMAIN load.rows <=> Mains(s) # {} \/ (m # {} /\ ~Hidden(s))
          /\ s \in DOMAIN load.rows => RowTells(load.rows[s], s, m)
        BY <3>1, <3>2, <3>3, <3>4 DEF CopiesMerged
    <3>6. ASSUME s \in DOMAIN load.rows PROVE RowTells(load.rows[s], s, m)'
      <4>1. PICK e : e = load.rows[s]
          OBVIOUS
      <4>2. e.path \in Paths /\ m \subseteq CopiesOf(s) /\ RowTells(e, s, m)
          BY <1>1, <3>4, <3>5, <3>6, <4>1 DEF MergedOf
      <4>3. RowTells(e, s, m)'
          BY <2>2, <3>5, <3>6, <4>2, RowTellsStays
      <4> QED BY <4>1, <4>3, Zenon DEF RowTells, Fronts
    <3>7. s \in DOMAIN load.rows => RowTells(load.rows[s], s, MergedOf(s))'
      <4>1. RowTells(load.rows[s], s, m)' => RowTells(load.rows[s], s, MergedOf(s))'
          BY <3>4, Zenon DEF RowTells
      <4> QED BY <3>6, <4>1
    <3> QED BY <3>1, <3>3, <3>4, <3>5, <3>7, Zenon DEF CopiesMerged
  <2> QED BY <2>1, <2>2
<1>7. ASSUME NEW s \in Range(Slugs) PROVE Away(s)' => s \notin DOMAIN load.rows
    BY AwayKept DEF MergeOK
<1>8. /\ DOMAIN load.rows \subseteq Range(Slugs)
      /\ \A s \in DOMAIN load.rows : IsRow(load.rows[s]) /\ load.rows[s].path.slug = s
      /\ AscendingRows(load.copies)
    BY DEF MergeOK
<1>9. AscendingRows(load.copies)'
    BY <1>8 DEF AscendingRows
<1>10. \A p \in steady' \cap Readable : p \in load'.errors <=> files'[p] # {} /\ ~ParsesNow(p)'
    BY <1>4
<1>11. \A s \in Range(Slugs) : MainMerged(s)' /\ CopiesMerged(s)' /\ (Away(s)' => s \notin DOMAIN load'.rows)
    BY <1>5, <1>6, <1>7
<1>12. \A e \in Range(load'.copies) :
         /\ IsRow(e) /\ e.path.root \in Range(Worktrees)
         /\ files'[e.path] # {} \/ e.path \in vanished'
         /\ e.path \in steady' => e = ReadAs(e.path)' /\ files'[e.path] # {} /\ ParsesNow(e.path)'
    BY <1>3
<1>13. /\ DOMAIN load'.rows \subseteq Range(Slugs)
       /\ \A s \in DOMAIN load'.rows : IsRow(load'.rows[s]) /\ load'.rows[s].path.slug = s
    BY <1>8
<1> QED BY <1>9, <1>10, <1>11, <1>12, <1>13, Zenon DEF MergeOK

\* The files change and the program does not: the invariant stays.
LEMMA InvStays ==
    ASSUME WorkflowInv, FilesKept, load' = load, index' = index
    PROVE  WorkflowInv'
<1>1. FilesOK' /\ FilesOK
    BY DEF WorkflowInv, FilesOK, FilesKept
<1>2. ASSUME NEW rows, NEW errors, errors \subseteq Readable, Told(rows, errors)
      PROVE  Told(rows, errors)'
    BY <1>1, <1>2, ToldStays
<1>3. LoadOK'
  <2>1. load.phase \in {"Items", "Copies"} => ReadingOK'
      BY <1>1, ReadingStays DEF WorkflowInv, LoadOK
  <2>2. load.phase = "Merge" => MergeOK'
      BY <1>1, MergeStays DEF WorkflowInv, LoadOK
  <2>3. ASSUME load.phase = "Loaded" \/ (load.phase = "Archive" /\ load.reload)
        PROVE  Told(Range(load.items), load.errors)'
    <3>1. PICK rows, errors : rows = Range(load.items) /\ errors = load.errors
        OBVIOUS
    <3>2. Told(rows, errors)'
        BY <1>2, <2>3, <3>1 DEF WorkflowInv, LoadOK
    <3>3. Range(load.items)' = rows /\ (load.errors)' = errors
        BY <3>1 DEF Range
    <3> QED BY <3>2, <3>3, Zenon DEF Told, ErrorsTold, SlugTold, MainTold, With
  <2> QED BY <2>1, <2>2, <2>3 DEF WorkflowInv, LoadOK, IsList, Range
<1>4. IndexOK'
  <2>1. ASSUME index.loaded /\ ~index.reloadFailed /\ (load.phase = "Idle" \/ ~load.reload)
        PROVE  Told(Range(index.active), index.errors)'
    <3>1. PICK rows, errors : rows = Range(index.active) /\ errors = index.errors
        OBVIOUS
    <3>2. Told(rows, errors)'
        BY <1>2, <2>1, <3>1 DEF WorkflowInv, IndexOK
    <3>3. Range(index.active)' = rows /\ (index.errors)' = errors
        BY <3>1 DEF Range
    <3> QED BY <3>2, <3>3, Zenon DEF Told, ErrorsTold, SlugTold, MainTold, With
  <2>2. ActivityOK'
    <3>1. PICK a, i : a = index.active /\ i = index
        OBVIOUS
    <3>2. Shared(index.active) = Shared(a) /\ Shared(index.active)' = Shared(a)
        BY <3>1, Zenon DEF Shared
    <3>3. Ids(index) = Ids(i) /\ Ids(index)' = Ids(i)
        BY <3>1, Zenon DEF Ids
    <3>4. \A id : PathOf(index, id) = PathOf(i, id) /\ PathOf(index, id)' = PathOf(i, id)
        BY <3>1, Zenon DEF PathOf, LastOf
    <3>5. ActivityOK
        BY DEF WorkflowInv, IndexOK
    <3> QED BY <3>2, <3>3, <3>4, <3>5 DEF ActivityOK
  <2> QED BY <2>1, <2>2 DEF WorkflowInv, IndexOK, IsList, Range
<1> QED BY <1>1, <1>3, <1>4 DEF WorkflowInv

----------------------------------------------------------------------------
(* A step that leaves the files as they are *)

LEMMA FilesSame ==
    ASSUME UNCHANGED <<files, head>>, NEW p
    PROVE  /\ OnDisk(p)' = OnDisk(p) /\ (ParsesNow(p)' <=> ParsesNow(p))
           /\ CopyAs(p)' = CopyAs(p) /\ ReadAs(p)' = ReadAs(p)
           /\ \A e : Fronts(e, p)' <=> Fronts(e, p)
BY PathKept

LEMMA IndexStays ==
    ASSUME WorkflowInv, UNCHANGED <<env, index>>,
           load'.phase = "Idle" \/ ~load'.reload => load.phase = "Idle" \/ ~load.reload
    PROVE  FilesOK' /\ IndexOK'
<1>1. FilesKept /\ FilesOK' /\ FilesOK
    BY SameFiles DEF WorkflowInv, env
<1>2. ASSUME index.loaded /\ ~index.reloadFailed /\ (load.phase = "Idle" \/ ~load.reload)
      PROVE  Told(Range(index.active), index.errors)'
  <2>1. PICK rows, errors : rows = Range(index.active) /\ errors = index.errors
      OBVIOUS
  <2>2. Told(rows, errors)'
      BY <1>1, <1>2, <2>1, ToldStays DEF WorkflowInv, IndexOK
  <2>3. Range(index.active)' = rows /\ (index.errors)' = errors
      BY <2>1 DEF Range
  <2> QED BY <2>2, <2>3, ZenonT(40) DEF Told, ErrorsTold, SlugTold, MainTold, With
<1>3. ActivityOK'
  <2>1. PICK i : i = index
      OBVIOUS
  <2>2. Shared(index.active)' = Shared(index.active)
      BY <2>1, Zenon DEF Shared
  <2>3. Ids(index)' = Ids(index)
      BY <2>1, Zenon DEF Ids
  <2>4. \A id : PathOf(index, id)' = PathOf(index, id)
      BY <2>1, Zenon DEF PathOf, LastOf
  <2>5. ActivityOK
      BY DEF WorkflowInv, IndexOK
  <2> QED BY <2>2, <2>3, <2>4, <2>5 DEF ActivityOK
<1> QED BY <1>1, <1>2, <1>3 DEF WorkflowInv, IndexOK, IsList, Range

\* The next file is read, as an item or as a copy.
IsRead(p) ==
    LET item == ParsesNow(p) /\ load.phase = "Items"
        copy == ParsesNow(p) /\ load.phase = "Copies" IN
    /\ load.left # <<>> /\ p = Head(load.left) /\ files[p] # {}
    /\ load'.left = Tail(load.left) /\ load'.roots = load.roots /\ load'.phase = load.phase
    /\ load'.errors = IF ParsesNow(p) THEN load.errors ELSE load.errors \cup {p}
    /\ load'.items = IF item THEN Append(load.items, ReadAs(p)) ELSE load.items
    /\ load'.copies = IF copy THEN Append(load.copies, CopyAs(p)) ELSE load.copies

LEMMA RowAppended ==
    ASSUME NEW rows, IsList(rows), AscendingRows(rows), NEW e, \A r \in Range(rows) : ReadBefore(r.path, e.path)
    PROVE  AscendingRows(Append(rows, e))
<1> DEFINE new == Append(rows, e)
<1>1. /\ Len(rows) \in Nat /\ DOMAIN rows = 1 .. Len(rows) /\ DOMAIN new = 1 .. Len(rows) + 1
      /\ \A i \in 1 .. Len(rows) : new[i] = rows[i]
      /\ new[Len(rows) + 1] = e
    BY AppendIs
<1> HIDE DEF new
<1>2. ASSUME NEW i \in DOMAIN new, NEW j \in DOMAIN new, i < j PROVE ReadBefore(new[i].path, new[j].path)
  <2>1. CASE j = Len(rows) + 1
    <3>1. i \in 1 .. Len(rows) /\ new[i] = rows[i] /\ new[j] = e
        BY <1>1, <1>2, <2>1
    <3> QED BY <1>1, <3>1 DEF Range
  <2>2. CASE j # Len(rows) + 1
    <3>1. i \in DOMAIN rows /\ j \in DOMAIN rows /\ new[i] = rows[i] /\ new[j] = rows[j]
        BY <1>1, <1>2, <2>2
    <3> QED BY <1>2, <3>1 DEF AscendingRows
  <2> QED BY <2>1, <2>2
<1>3. AscendingRows(new)
    BY <1>2 DEF AscendingRows
<1> QED BY <1>3 DEF new

LEMMA FileIsRead ==
    ASSUME FilesOK, LoadOK, ReadingOK, load.phase \in {"Items", "Copies"}, UNCHANGED env,
           NEW p, IsRead(p)
    PROVE  /\ ReadingOK' /\ IsList(load'.left) /\ IsList(load'.items) /\ IsList(load'.copies)
           /\ load'.errors \subseteq Readable
<1>1. /\ IsList(load.left) /\ IsList(load.items) /\ IsList(load.copies) /\ load.left # <<>>
      /\ p = Head(load.left) /\ load.errors \subseteq Readable
    BY DEF LoadOK, IsRead
<1>2. /\ IsList(load'.left) /\ Range(load.left) = {p} \cup Range(load'.left)
      /\ Len(load.left) \in Nat \ {0} /\ DOMAIN load.left = 1 .. Len(load.left)
      /\ DOMAIN load'.left = 1 .. Len(load.left) - 1
      /\ p = load.left[1] /\ \A i \in 1 .. Len(load.left) - 1 : load'.left[i] = load.left[i + 1]
    BY <1>1, TailIs DEF IsRead
<1>3. /\ p \in Readable /\ p.root \in Seen /\ files[p] # {} /\ p \in Paths
      /\ p.root = "main" <=> load.phase = "Items"
      /\ \A e \in Range(load.items) \cup Range(load.copies) : ReadBefore(e.path, p)
      /\ Ascending(load.left) /\ Range(load.left) \subseteq Readable
    BY <1>2 DEF ReadingOK, QueueOK, IsRead, Readable
<1>4. \A i, j \in DOMAIN load'.left : i < j => ReadBefore(load'.left[i], load'.left[j])
  <2>1. ASSUME NEW i \in DOMAIN load'.left, NEW j \in DOMAIN load'.left, i < j
        PROVE  ReadBefore(load'.left[i], load'.left[j])
    <3>1. PICK k, l : k = i + 1 /\ l = j + 1
        OBVIOUS
    <3>2. /\ k \in DOMAIN load.left /\ l \in DOMAIN load.left /\ k < l
          /\ load'.left[i] = load.left[k] /\ load'.left[j] = load.left[l]
        BY <1>2, <2>1, <3>1
    <3> QED BY <1>3, <3>2 DEF Ascending
  <2> QED BY <2>1
<1>5. \A q \in Range(load'.left) : ReadBefore(p, q)
  <2>1. ASSUME NEW q \in Range(load'.left) PROVE ReadBefore(p, q)
    <3>1. PICK i \in DOMAIN load'.left : load'.left[i] = q
        BY <1>2, ListIs
    <3>2. i + 1 \in DOMAIN load.left /\ 1 \in DOMAIN load.left /\ 1 < i + 1 /\ load.left[i + 1] = q
        BY <1>2, <3>1
    <3> QED BY <1>2, <1>3, <3>2 DEF Ascending
  <2> QED BY <2>1
<1>6. p \notin Range(load'.left)
    BY <1>3, <1>5, ReadOrder
<1>7. /\ IsRow(ReadAs(p)) /\ ReadAs(p).path = p /\ IsRow(CopyAs(p)) /\ CopyAs(p).path = p
    BY <1>3, ReadAsIs, CopyAsIs
<1>8. /\ IsList(load'.items)
      /\ Range(load'.items) = Range(load.items) \cup
            (IF ParsesNow(p) /\ load.phase = "Items" THEN {ReadAs(p)} ELSE {})
    BY <1>1, AppendIs DEF IsRead
<1>9. /\ IsList(load'.copies)
      /\ Range(load'.copies) = Range(load.copies) \cup
            (IF ParsesNow(p) /\ load.phase = "Copies" THEN {CopyAs(p)} ELSE {})
    BY <1>1, AppendIs DEF IsRead
<1>10. Seen' = Seen /\ load'.phase = load.phase /\ load'.roots = load.roots
    BY DEF Seen, IsRead, Range
<1>11. QueueOK /\ RowsOK
    BY DEF ReadingOK
<1>12. \A e \in Range(load'.items) \cup Range(load'.copies) :
          e \in Range(load.items) \cup Range(load.copies) \/ e.path = p
    BY <1>7, <1>8, <1>9
<1>13. QueueOK'
  <2>1. \A q \in Range(load'.left) : \A e \in Range(load'.items) \cup Range(load'.copies) : ReadBefore(e.path, q)
      BY <1>2, <1>5, <1>11, <1>12 DEF QueueOK
  <2> QED BY <1>2, <1>4, <1>10, <1>11, <2>1 DEF QueueOK, Ascending, Range
<1>14. RowsOK'
  <2>1. AscendingRows(load'.items) /\ AscendingRows(load'.copies)
      BY <1>1, <1>3, <1>7, <1>11, RowAppended DEF RowsOK, IsRead
  <2>2. AscendingRows(load.items)' /\ AscendingRows(load.copies)'
      BY <2>1 DEF AscendingRows, ReadBefore
  <2>3. \A e \in Range(load'.items) : IsRow(e) /\ e.path.root = "main"
      BY <1>3, <1>7, <1>8, <1>11 DEF RowsOK
  <2>4. \A e \in Range(load'.copies) : IsRow(e) /\ e.path.root \in Seen /\ e.path.root # "main"
                                       /\ (files[e.path] # {} \/ e.path \in vanished)
    <3>1. ASSUME NEW e \in Range(load'.copies), e \notin Range(load.copies)
          PROVE  e = CopyAs(p) /\ load.phase = "Copies"
        BY <1>9, <3>1
    <3>2. ASSUME NEW e \in Range(load'.copies), e \notin Range(load.copies)
          PROVE  IsRow(e) /\ e.path = p /\ p.root # "main"
        BY <1>3, <1>7, <3>1, <3>2
    <3> QED BY <1>3, <1>11, <3>2 DEF RowsOK
  <2>5. load'.phase = "Items" => load'.copies = <<>>
      BY <1>10, <1>11 DEF RowsOK, IsRead
  <2>6. files' = files /\ vanished' = vanished
      BY DEF env
  <2> QED BY <1>10, <2>2, <2>3, <2>4, <2>5, <2>6 DEF RowsOK, Range
<1>15. ASSUME NEW r \in steady' \cap Readable PROVE PathRead(r)'
  <2>1. /\ (ParsesNow(r)' <=> ParsesNow(r)) /\ CopyAs(r)' = CopyAs(r) /\ ReadAs(r)' = ReadAs(r)
        /\ files' = files /\ r \in steady
      BY FilesSame DEF env
  <2>2. PathRead(r)
      BY <2>1 DEF ReadingOK
  <2> DEFINE read == r.root \in Seen /\ r \notin Range(load'.left) /\ files[r] # {}
             rows == Range(load'.items) \cup Range(load'.copies)
  <2>3. /\ r \in load'.errors <=> read /\ ~ParsesNow(r)
        /\ (\E e \in rows : e.path = r) <=> read /\ ParsesNow(r)
        /\ \A e \in Range(load'.items) : e.path = r => e = ReadAs(r)
        /\ \A e \in Range(load'.copies) : e.path = r => e = CopyAs(r)
    <3>1. CASE r # p
      <4>1. r \in Range(load.left) <=> r \in Range(load'.left)
          BY <1>2, <3>1
      <4>2. r \in load'.errors <=> r \in load.errors
          BY <3>1 DEF IsRead
      <4>3. \A e : e.path = r => /\ e \in Range(load'.items) <=> e \in Range(load.items)
                                 /\ e \in Range(load'.copies) <=> e \in Range(load.copies)
          BY <1>7, <1>8, <1>9, <3>1
      <4> QED BY <2>2, <4>1, <4>2, <4>3 DEF PathRead
    <3>2. CASE r = p
      <4>1. read
          BY <1>3, <1>6, <3>2
      <4>2. /\ p \notin load.errors
            /\ \A e \in Range(load.items) \cup Range(load.copies) : e.path # p
          BY <1>2, <2>2, <3>2 DEF PathRead
      <4>3. p \in load'.errors <=> ~ParsesNow(p)
          BY <4>2 DEF IsRead
      <4>4. \A e \in Range(load'.items) : e.path = p => e = ReadAs(p) /\ ParsesNow(p)
          BY <1>8, <4>2
      <4>5. \A e \in Range(load'.copies) : e.path = p => e = CopyAs(p) /\ ParsesNow(p)
          BY <1>9, <4>2
      <4>6. ASSUME ParsesNow(p) PROVE \E e \in rows : e.path = p
        <5>1. CASE load.phase = "Items"
            BY <1>7, <1>8, <4>6, <5>1
        <5>2. CASE load.phase = "Copies"
            BY <1>7, <1>9, <4>6, <5>2
        <5> QED BY <5>1, <5>2
      <4> QED BY <3>2, <4>1, <4>3, <4>4, <4>5, <4>6
    <3> QED BY <3>1, <3>2
  <2> QED BY <1>10, <2>1, <2>3 DEF PathRead, Range
<1> QED
  <2>1. load'.errors \subseteq Readable
      BY <1>1, <1>3 DEF IsRead
  <2> QED BY <1>2, <1>8, <1>9, <1>13, <1>14, <1>15, <2>1 DEF ReadingOK

LEMMA ReadingKeepsInv ==
    ASSUME WorkflowInv, ReadItem \/ ReadCopy
    PROVE  WorkflowInv'
<1>1. /\ FilesOK /\ LoadOK /\ ReadingOK /\ load.phase \in {"Items", "Copies"} /\ load.reload
      /\ UNCHANGED <<env, index>> /\ DOMAIN load = LoadFields
    BY DEF WorkflowInv, LoadOK, ReadItem, ReadCopy, Reading
<1>2. PICK p : p = Head(load.left)
    OBVIOUS
<1>3. /\ load.left # <<>> /\ files[p] # {}
      /\ load' = IF ParsesNow(p)
                 THEN IF load.phase = "Items"
                      THEN [load EXCEPT !.left = Tail(@), !.items = Append(@, ReadAs(p))]
                      ELSE [load EXCEPT !.left = Tail(@), !.copies = Append(@, CopyAs(p))]
                 ELSE [load EXCEPT !.left = Tail(@), !.errors = @ \cup {p}]
  <2>1. CASE ReadItem
      BY <1>2, <2>1 DEF ReadItem, Reading, ParsesNow, ReadAs, CopyAs
  <2>2. CASE ReadCopy
      BY <1>2, <2>2 DEF ReadCopy, Reading, ParsesNow, CopyAs
  <2> QED BY <2>1, <2>2
<1>4. DOMAIN load' = LoadFields
    BY <1>1, <1>3
<1>5. IsRead(p)
    BY <1>1, <1>2, <1>3 DEF IsRead, LoadFields
<1>6. /\ load'.reload = load.reload /\ load'.phase = load.phase /\ load'.roots = load.roots
      /\ load'.archived = load.archived
    BY <1>1, <1>3 DEF LoadFields
<1>7. /\ ReadingOK' /\ IsList(load'.left) /\ IsList(load'.items) /\ IsList(load'.copies)
      /\ load'.errors \subseteq Readable
    BY <1>1, <1>5, FileIsRead
<1>8. IsList(load'.roots) /\ IsList(load'.archived)
    BY <1>1, <1>6 DEF LoadOK
<1>9. LoadOK'
    BY <1>1, <1>4, <1>6, <1>7, <1>8 DEF LoadOK, IsList, Range
<1> QED BY <1>1, <1>6, <1>9, IndexStays DEF WorkflowInv

\* The folder of one root is listed in the order of reading.
LEMMA ListedInOrder ==
    ASSUME NEW root, root # "archive"
    PROVE  /\ IsList(Listing(root)) /\ Range(Listing(root)) \subseteq Readable
           /\ \A p : p \in Range(Listing(root)) <=> p \in Paths /\ p.root = root /\ files[p] # {}
           /\ \A i, j \in DOMAIN Listing(root) : i < j =>
                ReadBefore(Listing(root)[i], Listing(root)[j])
<1>1. /\ IsList(Listing(root)) /\ Range(Listing(root)) = In(root)
      /\ \A i, j \in DOMAIN Listing(root) : i < j =>
                PathBefore(Listing(root)[i], Listing(root)[j])
    BY ListingIs
<1>2. \A i \in DOMAIN Listing(root) : Listing(root)[i].root = root
    BY <1>1 DEF In, Range
<1> QED BY <1>1, <1>2 DEF In, Readable, ReadBefore

LEMMA BeginKeepsInv ==
    ASSUME WorkflowInv, NEW scope, BeginLoad(scope)
    PROVE  WorkflowInv'
<1>1. /\ load' = [Idle EXCEPT !.phase = "Items", !.left = Listing("main"),
                              !.roots = Worktrees, !.scope = scope]
      /\ steady' = Paths /\ vanished' = {} /\ files' = files /\ head' = head /\ index' = index
    BY DEF BeginLoad
<1>2. /\ DOMAIN load' = LoadFields /\ load'.phase = "Items" /\ load'.reload = TRUE
      /\ load'.left = Listing("main") /\ load'.roots = Worktrees /\ load'.items = <<>>
      /\ load'.copies = <<>> /\ load'.errors = {} /\ load'.archived = <<>>
    BY <1>1 DEF Idle, LoadFields
<1>3. FilesOK'
    BY <1>1 DEF WorkflowInv, FilesOK
<1>4. IndexOK'
  <2>1. ActivityOK'
    <3>1. PICK i : i = index
        OBVIOUS
    <3>2. /\ Shared(index.active)' = Shared(index.active) /\ Ids(index)' = Ids(index)
          /\ \A id : PathOf(index, id)' = PathOf(index, id)
        BY <1>1, <3>1, Zenon DEF Shared, Ids, PathOf, LastOf
    <3> QED BY <1>1, <3>2 DEF WorkflowInv, IndexOK, ActivityOK
  <2> QED BY <1>1, <1>2, <2>1 DEF WorkflowInv, IndexOK, IsList, Range
<1>5. /\ IsList(load'.left) /\ IsList(load'.roots) /\ IsList(load'.items) /\ IsList(load'.copies)
      /\ IsList(load'.archived) /\ load'.errors \subseteq Readable
    BY <1>2, ListedInOrder, EmptyIsList, IndexAssumption DEF IsList
<1>6. Seen' = {"main"}
    BY <1>2 DEF Seen, Range
<1>7. RootPlace("main") = 0
    BY DEF RootPlace
<1>8. PICK listed : listed = load'.left /\ listed = Listing("main")
    BY <1>2
<1>9. \A q : q \in Range(listed) <=> q \in Paths /\ q.root = "main" /\ files[q] # {}
    BY <1>8, ListedInOrder
<1>10. Range(load'.items) = {} /\ Range(load'.copies) = {}
    BY <1>2, EmptyIsList
<1>11. QueueOK'
  <2>1. Range(load'.roots) \subseteq Range(Worktrees)
      BY <1>2
  <2>2. ASSUME NEW i \in DOMAIN Worktrees PROVE RootPlace(Worktrees[i]) = i
    <3>1. /\ Worktrees[i] \in Range(Worktrees)
        BY DEF Range
    <3>2. RootPlace(Worktrees[i]) \in DOMAIN Worktrees /\ Worktrees[RootPlace(Worktrees[i])] = Worktrees[i]
        BY <3>1, RootPlaceIs
    <3> QED BY <3>2, IndexAssumption DEF IsInjective
  <2>3. \A w \in {"main"}, v \in Range(Worktrees) : RootPlace(w) < RootPlace(v)
      BY <1>7, RootPlaceIs
  <2>4. Range(listed) \subseteq Readable /\ \A i, j \in DOMAIN listed : i < j => ReadBefore(listed[i], listed[j])
      BY <1>8, ListedInOrder
  <2>5. \A q \in Range(listed) :
          /\ q.root \in {"main"} /\ \A w \in {"main"} : RootPlace(w) <= RootPlace(q.root)
          /\ q.root = "main" <=> load'.phase = "Items"
          /\ \A e \in Range(load'.items) \cup Range(load'.copies) : ReadBefore(e.path, q)
      BY <1>2, <1>7, <1>9, <1>10
  <2>6. \A i, j \in DOMAIN load'.roots : i < j => RootPlace(load'.roots[i]) < RootPlace(load'.roots[j])
      BY <1>2, <2>2
  <2> QED BY <1>2, <1>6, <1>8, <2>1, <2>3, <2>4, <2>5, <2>6 DEF QueueOK, Ascending, Range
<1>12. RowsOK'
  <2>1. AscendingRows(<<>>)
      BY DEF AscendingRows
  <2>2. AscendingRows(load.items)' /\ AscendingRows(load.copies)'
      BY <1>2 DEF AscendingRows
  <2>3. Range(load.items)' = {} /\ Range(load.copies)' = {}
      BY <1>10 DEF Range
  <2> QED BY <1>2, <2>2, <2>3 DEF RowsOK
<1>13. ASSUME NEW p \in steady' \cap Readable PROVE PathRead(p)'
  <2>1. ~(p.root \in Seen' /\ p \notin Range(listed) /\ files[p] # {})
      BY <1>6, <1>9 DEF Readable
  <2>2. Range(load.items)' = {} /\ Range(load.copies)' = {} /\ Range(load.left)' = Range(listed)
      BY <1>8, <1>10 DEF Range
  <2> QED BY <1>1, <1>2, <2>1, <2>2 DEF PathRead
<1>14. LoadOK'
    BY <1>2, <1>5, <1>11, <1>12, <1>13 DEF LoadOK, ReadingOK, IsList, Range
<1> QED BY <1>3, <1>4, <1>14 DEF WorkflowInv

LEMMA ScanKeepsInv ==
    ASSUME WorkflowInv, ScanWorktree
    PROVE  WorkflowInv'
<1>1. /\ FilesOK /\ LoadOK /\ ReadingOK /\ load.phase \in {"Items", "Copies"} /\ load.reload
      /\ UNCHANGED <<env, index>> /\ DOMAIN load = LoadFields /\ load.left = <<>> /\ load.roots # <<>>
    BY DEF WorkflowInv, LoadOK, ScanWorktree
<1>2. PICK w : w = Head(load.roots)
    OBVIOUS
<1>3. load' = [load EXCEPT !.phase = "Copies", !.left = Listing(w), !.roots = Tail(@)]
    BY <1>2 DEF ScanWorktree
<1>4. /\ DOMAIN load' = LoadFields /\ load'.phase = "Copies" /\ load'.reload = load.reload
      /\ load'.left = Listing(w) /\ load'.roots = Tail(load.roots) /\ load'.items = load.items
      /\ load'.copies = load.copies /\ load'.errors = load.errors /\ load'.archived = load.archived
    BY <1>1, <1>3 DEF LoadFields
<1>5. /\ IsList(load'.roots) /\ Range(load.roots) = {w} \cup Range(load'.roots)
      /\ Len(load.roots) \in Nat \ {0} /\ DOMAIN load.roots = 1 .. Len(load.roots)
      /\ DOMAIN load'.roots = 1 .. Len(load.roots) - 1
      /\ w = load.roots[1] /\ \A i \in 1 .. Len(load.roots) - 1 : load'.roots[i] = load.roots[i + 1]
    BY <1>1, <1>2, <1>4, TailIs DEF LoadOK
<1>6. QueueOK /\ RowsOK
    BY <1>1 DEF ReadingOK
<1>7. w \in Range(Worktrees) /\ Range(load'.roots) \subseteq Range(Worktrees) /\ w # "main" /\ w # "archive"
    BY <1>5, <1>6, RootPlaceIs DEF QueueOK
<1>8. \A v \in Range(load'.roots) : RootPlace(w) < RootPlace(v)
  <2>1. ASSUME NEW v \in Range(load'.roots) PROVE RootPlace(w) < RootPlace(v)
    <3>1. PICK i \in DOMAIN load'.roots : load'.roots[i] = v
        BY <1>5, ListIs
    <3>2. i + 1 \in DOMAIN load.roots /\ 1 \in DOMAIN load.roots /\ 1 < i + 1 /\ load.roots[i + 1] = v
        BY <1>5, <3>1
    <3> QED BY <1>5, <1>6, <3>2 DEF QueueOK
  <2> QED BY <2>1
<1>9. w \notin Range(load'.roots)
    BY <1>7, <1>8, RootPlaceIs
<1>10. Seen' = Seen \cup {w} /\ w \notin Seen
  <2>1. Range(load.roots)' = Range(load'.roots)
      BY DEF Range
  <2>2. w \in Range(load.roots)
      BY <1>5
  <2> QED BY <1>5, <1>7, <1>9, <2>1, <2>2 DEF Seen
<1>11. /\ Seen \subseteq Roots
       /\ \A v \in Seen : RootPlace(v) < RootPlace(w)
       /\ \A v \in Seen, u \in Range(load'.roots) : RootPlace(v) < RootPlace(u)
    BY <1>5, <1>6 DEF QueueOK, Seen, Roots
<1>12. PICK listed : listed = load'.left /\ listed = Listing(w)
    BY <1>4
<1>13. /\ IsList(listed) /\ Range(listed) \subseteq Readable
       /\ \A q : q \in Range(listed) <=> q \in Paths /\ q.root = w /\ files[q] # {}
       /\ \A i, j \in DOMAIN listed : i < j => ReadBefore(listed[i], listed[j])
    BY <1>7, <1>12, ListedInOrder
<1>14. \A e \in Range(load.items) \cup Range(load.copies) : IsRow(e) /\ e.path.root \in Seen
    BY <1>6 DEF RowsOK, Seen
<1>15. QueueOK'
  <2>1. \A i, j \in DOMAIN load'.roots : i < j => RootPlace(load'.roots[i]) < RootPlace(load'.roots[j])
    <3>1. ASSUME NEW i \in DOMAIN load'.roots, NEW j \in DOMAIN load'.roots, i < j
          PROVE  RootPlace(load'.roots[i]) < RootPlace(load'.roots[j])
      <4>1. PICK k, l : k = i + 1 /\ l = j + 1
          OBVIOUS
      <4>2. /\ i \in 1 .. Len(load.roots) - 1 /\ j \in 1 .. Len(load.roots) - 1
            /\ Len(load.roots) \in Nat
          BY <1>5, <3>1
      <4>3. load'.roots[i] = load.roots[k] /\ load'.roots[j] = load.roots[l]
          BY <1>5, <4>1, <4>2
      <4>4. k \in 1 .. Len(load.roots) /\ l \in 1 .. Len(load.roots) /\ k < l
          BY <3>1, <4>1, <4>2
      <4>5. k \in DOMAIN load.roots /\ l \in DOMAIN load.roots
          BY <1>5, <4>4
      <4> QED BY <1>6, <4>3, <4>4, <4>5 DEF QueueOK
    <3> QED BY <3>1
  <2>2. \A v \in Seen \cup {w}, u \in Range(load'.roots) : RootPlace(v) < RootPlace(u)
      BY <1>8, <1>11
  <2>3. ASSUME NEW q \in Range(listed)
        PROVE  /\ q.root \in Seen \cup {w} /\ \A v \in Seen \cup {w} : RootPlace(v) <= RootPlace(q.root)
               /\ q.root = "main" <=> load'.phase = "Items"
               /\ \A e \in Range(load'.items) \cup Range(load'.copies) : ReadBefore(e.path, q)
    <3>1. q.root = w /\ RootPlace(w) \in Nat /\ \A v \in Seen : RootPlace(v) \in Nat
        BY <1>7, <1>11, <1>13, PlacesDiffer DEF Roots
    <3>2. \A v \in Seen \cup {w} : RootPlace(v) <= RootPlace(q.root)
        BY <1>11, <3>1
    <3>3. \A e \in Range(load'.items) \cup Range(load'.copies) : ReadBefore(e.path, q)
        BY <1>4, <1>11, <1>14, <3>1 DEF ReadBefore
    <3> QED BY <1>4, <1>7, <3>1, <3>2, <3>3
  <2>4. Range(listed) \subseteq Readable /\ \A i, j \in DOMAIN listed : i < j => ReadBefore(listed[i], listed[j])
      BY <1>13
  <2> QED BY <1>7, <1>10, <1>12, <2>1, <2>2, <2>3, <2>4 DEF QueueOK, Ascending, Range
<1>16. RowsOK'
  <2>1. AscendingRows(load.items)' /\ AscendingRows(load.copies)'
      BY <1>4, <1>6 DEF RowsOK, AscendingRows
  <2>2. files' = files /\ vanished' = vanished
      BY <1>1 DEF env
  <2>3. Range(load.items)' = Range(load.items) /\ Range(load.copies)' = Range(load.copies)
      BY <1>4 DEF Range
  <2> QED BY <1>4, <1>6, <1>10, <2>1, <2>2, <2>3 DEF RowsOK
<1>17. ASSUME NEW r \in steady' \cap Readable PROVE PathRead(r)'
  <2>1. /\ (ParsesNow(r)' <=> ParsesNow(r)) /\ CopyAs(r)' = CopyAs(r) /\ ReadAs(r)' = ReadAs(r)
        /\ files' = files /\ r \in steady
      BY <1>1, FilesSame DEF env
  <2>2. PathRead(r)
      BY <1>1, <2>1 DEF ReadingOK
  <2>3. r.root \in Seen /\ r \notin Range(load.left) /\ files[r] # {} <=>
        r.root \in Seen \cup {w} /\ r \notin Range(listed) /\ files[r] # {}
    <3>1. Range(load.left) = {} /\ r \in Paths
        BY <1>1, EmptyIsList DEF Readable
    <3> QED BY <1>10, <1>13, <3>1
  <2>4. /\ Range(load.items)' = Range(load.items) /\ Range(load.copies)' = Range(load.copies)
        /\ Range(load.left)' = Range(listed)
      BY <1>4, <1>12 DEF Range
  <2> QED BY <1>4, <1>10, <2>1, <2>2, <2>3, <2>4 DEF PathRead
<1>18. /\ IsList(load'.left) /\ IsList(load'.items) /\ IsList(load'.copies)
       /\ IsList(load'.archived) /\ load'.errors \subseteq Readable
    BY <1>1, <1>4, <1>12, <1>13 DEF LoadOK
<1>19. LoadOK'
    BY <1>1, <1>4, <1>5, <1>15, <1>16, <1>17, <1>18 DEF LoadOK, ReadingOK, IsList, Range
<1> QED BY <1>1, <1>4, <1>19, IndexStays DEF WorkflowInv

----------------------------------------------------------------------------
(* What was read, once every root was *)

AllRead == load.left = <<>> /\ load.roots = <<>>

LEMMA SteadyIsRead ==
    ASSUME FilesOK, ReadingOK, AllRead, NEW p, p \in steady, p \in Readable
    PROVE  /\ p \in load.errors <=> files[p] # {} /\ ~ParsesNow(p)
           /\ p.root = "main" =>
                /\ (\E e \in Range(load.items) : e.path = p) <=> files[p] # {} /\ ParsesNow(p)
                /\ \A e \in Range(load.items) : e.path = p => e = ReadAs(p) /\ Fronts(e, p)
           /\ p.root # "main" =>
                /\ (\E e \in Range(load.copies) : e.path = p) <=> files[p] # {} /\ ParsesNow(p)
                /\ \A e \in Range(load.copies) : e.path = p => e = CopyAs(p)
           /\ p.root \in Roots
<1>1. /\ Range(load.left) = {} /\ Range(load.roots) = {}
    BY EmptyIsList DEF AllRead
<1>2. p.root \in Roots /\ p.root \in Seen /\ p \in Paths
    BY <1>1 DEF Readable, Paths, Roots, Seen
<1>3. PathRead(p)
    BY DEF ReadingOK
<1>4. p.root = "main" => \A e \in Range(load.copies) : e.path # p
    BY DEF ReadingOK, RowsOK
<1>5. p.root # "main" => \A e \in Range(load.items) : e.path # p
    BY DEF ReadingOK, RowsOK
<1>6. files[p] # {} => Fronts(ReadAs(p), p)
    BY ReadAsIs
<1> QED BY <1>1, <1>2, <1>3, <1>4, <1>5, <1>6 DEF PathRead

\* The items of a task whose main files stayed are its main files.
LEMMA ItemsAreMains ==
    ASSUME FilesOK, ReadingOK, AllRead, NEW s, MainSteady(s)
    PROVE  /\ \A e \in Range(load.items) : e.path.slug = s =>
                e.path \in Mains(s) /\ e = ReadAs(e.path) /\ Fronts(e, e.path)
           /\ \A p \in Mains(s) : p \in steady /\ \E e \in Range(load.items) : e.path = p
<1>1. ASSUME NEW e \in Range(load.items), e.path.slug = s, NEW p, p = e.path
      PROVE  p \in Mains(s) /\ e = ReadAs(p) /\ Fronts(e, p)
  <2>1. p \in Readable /\ p \in Paths /\ p.root = "main"
      BY <1>1 DEF ReadingOK, RowsOK, IsRow, Readable
  <2>2. p \in steady
      BY <1>1, <2>1 DEF MainSteady
  <2> QED BY <1>1, <2>1, <2>2, SteadyIsRead, MainsAre
<1>2. ASSUME NEW p \in Mains(s) PROVE p \in steady /\ \E e \in Range(load.items) : e.path = p
  <2>1. p \in Readable /\ p.root = "main" /\ p.slug = s /\ p \in Paths /\ files[p] # {} /\ ParsesNow(p)
      BY MainsAre DEF Readable
  <2>2. p \in steady
      BY <2>1 DEF MainSteady
  <2> QED BY <2>1, <2>2, SteadyIsRead
<1> QED BY <1>1, <1>2

LEMMA AwayHasNoItem ==
    ASSUME FilesOK, ReadingOK, AllRead, NEW s, Away(s), NEW e \in Range(load.items)
    PROVE  e.path.slug # s
<1>1. MainSteady(s)
    BY DEF Away, MainSteady
<1>2. \A p \in Mains(s) : FALSE
    BY MainsAre DEF Away
<1> QED BY <1>1, <1>2, ItemsAreMains

\* Without any copy, the items are the rows.
LEMMA ItemsAreTold ==
    ASSUME FilesOK, LoadOK, ReadingOK, AllRead, load.copies = <<>>
    PROVE  Told(Range(load.items), load.errors)
<1> DEFINE rows == Range(load.items)
<1>1. ASSUME NEW s \in Range(Slugs), SteadySlug(s) PROVE ErrorsTold(load.errors, s) /\ SlugTold(rows, s)
  <2>1. MainSteady(s)
      BY <1>1 DEF SteadySlug, MainSteady
  <2>2. ErrorsTold(load.errors, s)
    <3>1. ASSUME NEW p, p \in Readable, p.slug = s PROVE p \in load.errors <=> files[p] # {} /\ ~ParsesNow(p)
      <4>1. p \in steady
          BY <1>1, <3>1 DEF SteadySlug, Readable
      <4> QED BY <3>1, <4>1, SteadyIsRead
    <3>2. load.errors \subseteq Readable
        BY DEF LoadOK
    <3> QED BY <3>1, <3>2 DEF ErrorsTold
  <2>3. CopiesOf(s) = {}
    <3>1. ASSUME NEW p \in CopiesOf(s) PROVE FALSE
      <4>1. p \in Paths /\ p.root \in Range(Worktrees) /\ p.slug = s /\ files[p] # {} /\ ParsesNow(p)
          BY CopiesAre
      <4>2. p \in Readable /\ p.root # "main" /\ p \in steady
          BY <1>1, <4>1, RootPlaceIs DEF Readable, SteadySlug
      <4>3. Range(load.copies) = {}
          BY EmptyIsList
      <4> QED BY <4>1, <4>2, <4>3, SteadyIsRead
    <3> QED BY <3>1
  <2>4. \A e \in With(rows, s) : e.path \in Mains(s) /\ Fronts(e, e.path)
      BY <2>1, ItemsAreMains DEF With
  <2>5. ASSUME Mains(s) # {} PROVE Owner(s) \in {e.path : e \in With(rows, s)}
    <3>1. Owner(s) \in Mains(s)
        BY <2>5, OneIsLast, ReadablesAre DEF Owner
    <3>2. \E e \in rows : e.path = Owner(s)
        BY <2>1, <3>1, ItemsAreMains
    <3> QED BY <3>1, <3>2, MainsAre DEF With
  <2> QED BY <2>2, <2>3, <2>4, <2>5 DEF SlugTold
<1>2. ASSUME NEW s \in Range(Slugs), MainSteady(s) PROVE MainTold(rows, s)
  <2>1. ASSUME NEW p \in Mains(s), Mains(s) = {p}
        PROVE  \E e \in With(rows, s) : With(rows, s) = {e} /\ Fronts(e, p)
    <3>1. PICK e \in rows : e.path = p
        BY <1>2, ItemsAreMains
    <3>2. e \in With(rows, s)
        BY <3>1, MainsAre DEF With
    <3>3. \A d \in With(rows, s) : d = ReadAs(p) /\ Fronts(d, p)
      <4>1. ASSUME NEW d \in With(rows, s) PROVE d = ReadAs(p) /\ Fronts(d, p)
        <5>1. d.path \in Mains(s) /\ d = ReadAs(d.path) /\ Fronts(d, d.path)
            BY <1>2, ItemsAreMains DEF With
        <5>2. d.path = p
            BY <2>1, <5>1
        <5> QED BY <5>1, <5>2, Zenon DEF Fronts
      <4> QED BY <4>1
    <3> HIDE DEF rows
    <3> QED BY <3>2, <3>3
  <2> QED BY <2>1 DEF MainTold
<1>3. ASSUME NEW s \in Range(Slugs), Away(s) PROVE With(rows, s) = {}
    BY <1>3, AwayHasNoItem DEF With
<1> QED BY <1>1, <1>2, <1>3 DEF Told

----------------------------------------------------------------------------
(* The rows by slug, before any copy is merged *)

LEMMA BySlugIs ==
    ASSUME NEW items, IsList(items), AscendingRows(items), \A e \in Range(items) : IsRow(e)
    PROVE  /\ DOMAIN BySlug(items) = {e.path.slug : e \in Range(items)}
           /\ \A s \in DOMAIN BySlug(items) :
                /\ BySlug(items)[s] \in Range(items) /\ BySlug(items)[s].path.slug = s
                /\ \A e \in Range(items) : e.path.slug = s /\ e.path # BySlug(items)[s].path =>
                        ReadBefore(e.path, BySlug(items)[s].path)
<1> DEFINE slugs == {items[i].path.slug : i \in DOMAIN items}
           chosen(s) == CHOOSE i \in DOMAIN items :
                 /\ items[i].path.slug = s
                 /\ \A j \in DOMAIN items : j > i => items[j].path.slug # s
<1>1. BySlug(items) = [s \in slugs |-> items[chosen(s)]]
    BY DEF BySlug
<1>2. slugs = {e.path.slug : e \in Range(items)}
    BY DEF Range
<1>3. Len(items) \in Nat /\ DOMAIN items = 1 .. Len(items)
    BY ListIs
<1>4. ASSUME NEW s \in slugs
      PROVE  /\ items[chosen(s)] \in Range(items) /\ items[chosen(s)].path.slug = s
             /\ \A e \in Range(items) : e.path.slug = s /\ e.path # items[chosen(s)].path =>
                        ReadBefore(e.path, items[chosen(s)].path)
  <2> DEFINE I == {i \in DOMAIN items : items[i].path.slug = s}
             Latest(i) == /\ items[i].path.slug = s
                          /\ \A j \in DOMAIN items : j > i => items[j].path.slug # s
  <2>1. PICK m \in I : \A j \in I : j <= m
    <3>1. I \in SUBSET (1 .. Len(items)) /\ I # {}
        BY <1>3
    <3> HIDE DEF I
    <3> QED BY <1>3, <3>1, LastIn
  <2>2. m \in DOMAIN items /\ Latest(m)
      BY <1>3, <2>1
  <2>3. chosen(s) \in DOMAIN items /\ Latest(chosen(s))
      BY <2>2
  <2>4. PICK c : c = chosen(s)
      OBVIOUS
  <2>5. c \in DOMAIN items /\ Latest(c)
      BY <2>3, <2>4
  <2> HIDE DEF chosen
  <2>6. items[c] \in Range(items) /\ items[c].path.slug = s
      BY <2>5 DEF Range
  <2>7. ASSUME NEW e \in Range(items), e.path.slug = s, e.path # items[c].path
        PROVE  ReadBefore(e.path, items[c].path)
    <3>1. PICK i \in DOMAIN items : items[i] = e
        BY ListIs
    <3>2. i < c
        BY <1>3, <2>5, <2>7, <3>1
    <3> QED BY <2>5, <3>1, <3>2 DEF AscendingRows
  <2> QED BY <2>4, <2>6, <2>7
<1> HIDE DEF slugs, chosen
<1> QED BY <1>1, <1>2, <1>4

\* With a copy, the merge starts from the items by slug and the proved copies.
StartsMerge ==
    /\ load'.rows = BySlug(load.items) /\ load'.errors = load.errors
    /\ DOMAIN load'.copies = DOMAIN load.copies
    /\ \A i \in DOMAIN load.copies : load'.copies[i] = Prepared(load.copies[i])

LEMMA MergeStarts ==
    ASSUME FilesOK, LoadOK, ReadingOK, AllRead, StartsMerge, UNCHANGED env
    PROVE  MergeOK'
<1>1. RowsOK /\ UNCHANGED <<files, head, steady, vanished>>
    BY DEF ReadingOK, env
<1>2. PICK rows : rows = BySlug(load.items) /\ rows = load'.rows
    BY DEF StartsMerge
<1>3. /\ DOMAIN rows = {e.path.slug : e \in Range(load.items)}
      /\ \A s \in DOMAIN rows :
           /\ rows[s] \in Range(load.items) /\ rows[s].path.slug = s
           /\ \A e \in Range(load.items) : e.path.slug = s /\ e.path # rows[s].path =>
                 ReadBefore(e.path, rows[s].path)
  <2>1. /\ IsList(load.items) /\ AscendingRows(load.items)
        /\ \A e \in Range(load.items) : IsRow(e)
      BY <1>1 DEF RowsOK, LoadOK
  <2>2. PICK items : items = load.items
      OBVIOUS
  <2>3. /\ DOMAIN BySlug(items) = {e.path.slug : e \in Range(items)}
        /\ \A s \in DOMAIN BySlug(items) :
             /\ BySlug(items)[s] \in Range(items) /\ BySlug(items)[s].path.slug = s
             /\ \A e \in Range(items) : e.path.slug = s /\ e.path # BySlug(items)[s].path =>
                     ReadBefore(e.path, BySlug(items)[s].path)
      BY <2>1, <2>2, BySlugIs
  <2>4. rows = BySlug(items)
      BY <1>2, <2>2
  <2> QED BY <2>2, <2>3, <2>4
<1>4. \A e \in Range(load.items) : IsRow(e) /\ e.path \in Paths /\ e.path.slug \in Range(Slugs)
    BY <1>1 DEF RowsOK, IsRow, Readable, Paths
<1>5. \A e \in Range(load'.copies) : \E c \in Range(load.copies) : e = Prepared(c)
    BY DEF StartsMerge, Range
<1>6. ASSUME NEW c \in Range(load.copies), NEW e, e = Prepared(c)
      PROVE  IsRow(e) /\ e.path = c.path /\ e.path.root \in Range(Worktrees) /\ e.path \in Readable
    BY <1>1, <1>6, PreparedIs DEF RowsOK, Seen, IsRow
<1>7. AscendingRows(load'.copies)
  <2>1. ASSUME NEW i \in DOMAIN load'.copies, NEW j \in DOMAIN load'.copies, i < j
        PROVE  ReadBefore(load'.copies[i].path, load'.copies[j].path)
    <3>1. /\ i \in DOMAIN load.copies /\ j \in DOMAIN load.copies
          /\ load.copies[i] \in Range(load.copies) /\ load.copies[j] \in Range(load.copies)
          /\ load'.copies[i] = Prepared(load.copies[i]) /\ load'.copies[j] = Prepared(load.copies[j])
        BY DEF StartsMerge, Range
    <3>2. load'.copies[i].path = load.copies[i].path /\ load'.copies[j].path = load.copies[j].path
        BY <1>6, <3>1
    <3> QED BY <1>1, <2>1, <3>1, <3>2 DEF RowsOK, AscendingRows
  <2> QED BY <2>1 DEF AscendingRows
<1>8. ASSUME NEW e \in Range(load'.copies)
      PROVE  /\ IsRow(e) /\ e.path.root \in Range(Worktrees) /\ e.path \in Readable
             /\ files[e.path] # {} \/ e.path \in vanished
             /\ e.path \in steady => e = ReadAs(e.path) /\ files[e.path] # {} /\ ParsesNow(e.path)
  <2>1. PICK c \in Range(load.copies) : e = Prepared(c)
      BY <1>5
  <2>2. PICK p : p = c.path /\ p = e.path
      BY <1>6, <2>1
  <2>3. IsRow(e) /\ p.root \in Range(Worktrees) /\ p \in Readable
      BY <1>6, <2>1, <2>2
  <2>4. files[p] # {} \/ p \in vanished
      BY <1>1, <2>1, <2>2 DEF RowsOK
  <2>5. ASSUME p \in steady PROVE e = ReadAs(p) /\ files[p] # {} /\ ParsesNow(p)
    <3>1. p.root # "main"
        BY <2>3, RootPlaceIs
    <3>2. c = CopyAs(p) /\ files[p] # {} /\ ParsesNow(p)
        BY <2>1, <2>2, <2>3, <2>5, <3>1, SteadyIsRead
    <3> QED BY <2>1, <3>2 DEF ReadAs
  <2>6. p \in steady => e = ReadAs(e.path) /\ files[e.path] # {} /\ ParsesNow(e.path)
    <3>1. ReadAs(e.path) = ReadAs(p) /\ (ParsesNow(e.path) <=> ParsesNow(p))
        BY <2>2, Zenon
    <3> QED BY <2>2, <2>5, <3>1
  <2> QED BY <2>2, <2>3, <2>4, <2>6
<1>9. ASSUME NEW s \in Range(Slugs), MainSteady(s), Mains(s) # {}
      PROVE  LET l == LastRead(Mains(s)) IN
             s \in DOMAIN rows /\ rows[s].path = l /\ Fronts(rows[s], l) /\ rows[s] = ReadAs(l) /\ files[l] # {}
                /\ l \in steady /\ l.slug = s /\ l \in Readable
  <2>1. PICK l : l = LastRead(Mains(s))
      OBVIOUS
  <2>2. l \in Mains(s) /\ \A q \in Mains(s) \ {l} : ReadBefore(q, l)
      BY <1>9, <2>1, OneIsLast, ReadablesAre
  <2>3. l.slug = s /\ l \in steady /\ files[l] # {} /\ l \in Readable
      BY <1>9, <2>2, MainsAre, ItemsAreMains, ReadablesAre
  <2>4. PICK e \in Range(load.items) : e.path = l
      BY <1>9, <2>2, ItemsAreMains
  <2>5. s \in DOMAIN rows
      BY <1>3, <2>3, <2>4
  <2>6. PICK p : p = rows[s].path
      OBVIOUS
  <2>7. p \in Mains(s) /\ p \in Readable
      BY <1>3, <1>9, <2>5, <2>6, ItemsAreMains, ReadablesAre
  <2>8. p = l
    <3>1. SUFFICES ASSUME p # l PROVE FALSE
        OBVIOUS
    <3>2. ReadBefore(p, l) /\ ReadBefore(l, p)
        BY <1>3, <2>2, <2>3, <2>4, <2>5, <2>6, <2>7, <3>1
    <3> QED BY <2>3, <2>7, <3>2, ReadOrder
  <2>9. rows[s] = ReadAs(rows[s].path) /\ Fronts(rows[s], rows[s].path)
      BY <1>3, <1>9, <2>5, ItemsAreMains
  <2>10. rows[s] = ReadAs(l) /\ Fronts(rows[s], l)
    <3>1. ReadAs(rows[s].path) = ReadAs(l) /\ (Fronts(rows[s], rows[s].path) <=> Fronts(rows[s], l))
        BY <2>6, <2>8, Zenon
    <3> QED BY <2>9, <3>1
  <2> QED BY <2>1, <2>3, <2>5, <2>6, <2>8, <2>10
<1>10. ASSUME NEW s \in Range(Slugs), MainSteady(s) PROVE s \in DOMAIN rows <=> Mains(s) # {}
    BY <1>3, <1>9, <1>10, ItemsAreMains
<1>11. ASSUME NEW s \in Range(Slugs) PROVE MainMerged(s)'
  <2>1. (MainSteady(s)' <=> MainSteady(s)) /\ Mains(s)' = Mains(s)
      BY <1>1, Zenon DEF MainSteady, Mains, Parsed, In, OnDisk
  <2>2. PICK l : l = LastRead(Mains(s)) /\ l = LastRead(Mains(s))'
      BY <2>1 DEF LastRead
  <2>3. ASSUME MainSteady(s), Mains(s) # {}
        PROVE  s \in DOMAIN rows /\ Fronts(rows[s], l)' /\ files[rows[s].path] # {}
    <3>1. PICK e : e = rows[s]
        OBVIOUS
    <3>2. s \in DOMAIN rows /\ e.path = l /\ Fronts(e, l) /\ files[l] # {}
        BY <1>9, <2>2, <2>3, <3>1
    <3>3. Fronts(e, l)'
        BY <1>1, <3>2, FilesSame
    <3> QED BY <3>1, <3>2, <3>3
  <2>4. ASSUME MainSteady(s), Mains(s) # {}
        PROVE  Fronts(load.rows[s], LastRead(Mains(s)))'
      BY <1>2, <2>2, <2>3, <2>4, Zenon DEF Fronts
  <2> QED BY <1>1, <1>2, <2>1, <2>3, <2>4 DEF MainMerged
<1>12. ASSUME NEW s \in Range(Slugs), SteadySlug(s)
       PROVE  /\ CopiesOf(s) \subseteq {e.path : e \in {c \in Range(load'.copies) : c.path.slug = s}}
              /\ MainSteady(s)
  <2>1. ASSUME NEW p \in CopiesOf(s) PROVE \E e \in Range(load'.copies) : e.path = p /\ e.path.slug = s
    <3>1. p \in Paths /\ p.root \in Range(Worktrees) /\ p.slug = s /\ files[p] # {} /\ ParsesNow(p)
        BY CopiesAre
    <3>2. p \in Readable /\ p.root # "main" /\ p \in steady
        BY <1>12, <3>1, RootPlaceIs DEF Readable, SteadySlug
    <3>3. PICK c \in Range(load.copies) : c.path = p
        BY <3>1, <3>2, SteadyIsRead
    <3>4. PICK i \in DOMAIN load.copies : load.copies[i] = c
        BY ListIs DEF LoadOK
    <3>5. load'.copies[i] \in Range(load'.copies) /\ load'.copies[i] = Prepared(c)
        BY <3>4 DEF StartsMerge, Range
    <3> QED BY <1>6, <3>1, <3>3, <3>5
  <2> QED BY <1>12, <2>1 DEF SteadySlug, MainSteady
<1>13. ASSUME NEW s \in Range(Slugs) PROVE CopiesMerged(s)'
  <2>1. /\ (SteadySlug(s)' <=> SteadySlug(s)) /\ Mains(s)' = Mains(s) /\ CopiesOf(s)' = CopiesOf(s)
    <3>1. \A root : Parsed(root, s)' = Parsed(root, s)
        BY <1>1, Zenon DEF Parsed, In, OnDisk
    <3> QED BY <1>1, <3>1 DEF SteadySlug, Mains, CopiesOf
  <2>2. CASE ~SteadySlug(s)
      BY <2>1, <2>2 DEF CopiesMerged
  <2>3. CASE SteadySlug(s)
    <3>1. Waiting(s)' = {e.path : e \in {c \in Range(load'.copies) : c.path.slug = s}}
        BY DEF Waiting, Range
    <3>2. MergedOf(s)' = {}
        BY <1>12, <2>1, <2>3, <3>1 DEF MergedOf
    <3>3. PICK o : o = Owner(s)' /\ (Mains(s) # {} => o = LastRead(Mains(s)))
      <4>1. PICK l : l = LastRead(Mains(s)) /\ l = LastRead(Mains(s))'
          BY <2>1 DEF LastRead
      <4>2. Mains(s) # {} => Owner(s)' = l
          BY <2>1, <4>1 DEF Owner
      <4> QED BY <4>1, <4>2
    <3>4. ASSUME s \in DOMAIN rows PROVE RowTells(rows[s], s, {})'
      <4>1. PICK e : e = rows[s]
          OBVIOUS
      <4>2. /\ Mains(s) # {} /\ e.path = o /\ Fronts(e, o) /\ e = ReadAs(o) /\ files[o] # {}
            /\ o \in steady /\ o.slug = s /\ o \in Readable
          BY <1>9, <1>10, <1>12, <2>3, <3>3, <3>4, <4>1
      <4>3. e.body = OnDisk(o).body /\ e.source = Nowhere
          BY <4>2, ReadAsIs
      <4>4. OnDisk(e.path)' = OnDisk(o)
        <5>1. OnDisk(e.path) = OnDisk(o)
            BY <4>2, Zenon
        <5> QED BY <1>1, <5>1 DEF OnDisk
      <4>5. Fronts(e, Owner(s))'
        <5>1. Fronts(e, o)'
            BY <1>1, <4>2, FilesSame
        <5> QED BY <3>3, <5>1, Zenon DEF Fronts
      <4>6. RowTells(e, s, {})'
          BY <1>1, <2>1, <3>3, <4>2, <4>3, <4>4, <4>5 DEF RowTells
      <4> QED BY <4>1, <4>6, Zenon DEF RowTells, Fronts
    <3>5. s \in DOMAIN rows => RowTells(load.rows[s], s, MergedOf(s))'
      <4>1. RowTells(rows[s], s, {})' => RowTells(load.rows[s], s, MergedOf(s))'
          BY <1>2, <3>2, Zenon DEF RowTells, Fronts
      <4> QED BY <3>4, <4>1
    <3>6. s \in DOMAIN rows <=> Mains(s) # {}
        BY <1>10, <1>12, <2>3
    <3>7. /\ \A q \in MergedOf(s)', r \in Waiting(s)' : ReadBefore(q, r)'
          /\ s \in DOMAIN load'.rows <=> Mains(s)' # {} \/ (MergedOf(s)' # {} /\ ~Hidden(s)')
          /\ s \in DOMAIN load'.rows => RowTells(load.rows[s], s, MergedOf(s))'
        BY <1>2, <2>1, <3>2, <3>5, <3>6
    <3> QED BY <3>7, Zenon DEF CopiesMerged
  <2> QED BY <2>2, <2>3
<1>14. ASSUME NEW s \in Range(Slugs), Away(s)' PROVE s \notin DOMAIN rows
  <2>1. Away(s)
      BY <1>1, <1>14 DEF Away
  <2> QED BY <1>3, <2>1, AwayHasNoItem
<1>15. \A p \in steady \cap Readable : p \in load'.errors <=> files[p] # {} /\ ~ParsesNow(p)'
    BY <1>1, FilesSame, SteadyIsRead DEF StartsMerge
<1>16. /\ DOMAIN load'.rows \subseteq Range(Slugs)
       /\ \A s \in DOMAIN load'.rows : IsRow(load'.rows[s]) /\ load'.rows[s].path.slug = s
    BY <1>2, <1>3, <1>4
<1>17. \A e \in Range(load'.copies) :
         /\ IsRow(e) /\ e.path.root \in Range(Worktrees)
         /\ files'[e.path] # {} \/ e.path \in vanished'
         /\ e.path \in steady' => e = ReadAs(e.path)' /\ files'[e.path] # {} /\ ParsesNow(e.path)'
  <2>1. ASSUME NEW e \in Range(load'.copies)
        PROVE  ReadAs(e.path)' = ReadAs(e.path) /\ (ParsesNow(e.path)' <=> ParsesNow(e.path))
    <3>1. PICK p : p = e.path
        OBVIOUS
    <3>2. ReadAs(e.path)' = ReadAs(p)' /\ (ParsesNow(e.path)' <=> ParsesNow(p)')
        BY <3>1, Zenon DEF ReadAs, CopyAs, Prepared, Preparation, ParsesNow, OnDisk, Clean, Entity, Parses
    <3> QED BY <1>1, <3>1, <3>2, FilesSame, Zenon
  <2> QED BY <1>1, <1>8, <2>1
<1>18. AscendingRows(load.copies)'
    BY <1>7 DEF AscendingRows
<1>19. \A p \in steady' \cap Readable : p \in load'.errors <=> files'[p] # {} /\ ~ParsesNow(p)'
    BY <1>1, <1>15
<1>20. \A s \in Range(Slugs) : MainMerged(s)' /\ CopiesMerged(s)' /\ (Away(s)' => s \notin DOMAIN load'.rows)
    BY <1>2, <1>11, <1>13, <1>14
<1> QED BY <1>16, <1>17, <1>18, <1>19, <1>20, Zenon DEF MergeOK

LEMMA BeginMergeKeepsInv ==
    ASSUME WorkflowInv, BeginMerge
    PROVE  WorkflowInv'
<1>1. /\ FilesOK /\ LoadOK /\ ReadingOK /\ AllRead /\ load.reload
      /\ UNCHANGED <<env, index>> /\ DOMAIN load = LoadFields
      /\ load.phase \in {"Items", "Copies"}
    BY DEF WorkflowInv, LoadOK, BeginMerge, AllRead
<1>2. \A e \in Range(load.items) : IsRow(e)
    BY <1>1 DEF ReadingOK, RowsOK
<1>3. CASE load.copies = <<>>
  <2>1. load' = [load EXCEPT !.phase = "Loaded"]
      BY <1>3 DEF BeginMerge
  <2>2. /\ DOMAIN load' = LoadFields /\ load'.phase = "Loaded" /\ load'.reload = load.reload
        /\ load'.left = load.left /\ load'.roots = load.roots /\ load'.items = load.items
        /\ load'.copies = load.copies /\ load'.errors = load.errors /\ load'.archived = load.archived
      BY <1>1, <2>1 DEF LoadFields
  <2>3. Told(Range(load.items), load.errors)'
    <3>1. PICK rows, errors : rows = Range(load.items) /\ errors = load.errors
        OBVIOUS
    <3>2. Told(rows, errors) /\ errors \subseteq Readable
        BY <1>1, <1>3, <3>1, ItemsAreTold DEF LoadOK
    <3>3. Told(rows, errors)'
        BY <1>1, <3>2, SameFiles, ToldStays DEF env
    <3>4. Range(load.items)' = rows /\ (load.errors)' = errors
        BY <2>2, <3>1 DEF Range
    <3> QED BY <3>3, <3>4, Zenon DEF Told, ErrorsTold, SlugTold, MainTold, With
  <2>4. LoadOK'
      BY <1>1, <1>2, <2>2, <2>3 DEF LoadOK, IsList, Range
  <2> QED BY <1>1, <2>2, <2>4, IndexStays DEF WorkflowInv
<1>4. CASE load.copies # <<>>
  <2>1. load' = [load EXCEPT !.phase = "Merge", !.rows = BySlug(load.items),
                             !.copies = [i \in DOMAIN @ |-> Prepared(@[i])]]
      BY <1>4 DEF BeginMerge
  <2>2. /\ DOMAIN load' = LoadFields /\ load'.phase = "Merge" /\ load'.reload = load.reload
        /\ load'.left = load.left /\ load'.roots = load.roots /\ load'.items = load.items
        /\ load'.errors = load.errors /\ load'.archived = load.archived
        /\ load'.rows = BySlug(load.items)
        /\ load'.copies = [i \in DOMAIN load.copies |-> Prepared(load.copies[i])]
      BY <1>1, <2>1 DEF LoadFields
  <2>3. StartsMerge
      BY <2>2 DEF StartsMerge
  <2>4. IsList(load'.copies)
    <3>1. Len(load.copies) \in Nat /\ DOMAIN load.copies = 1 .. Len(load.copies)
        BY <1>1, ListIs DEF LoadOK
    <3> QED BY <2>2, <3>1, MadeList
  <2>5. MergeOK'
      BY <1>1, <2>3, MergeStarts
  <2>6. LoadOK'
      BY <1>1, <2>2, <2>4, <2>5 DEF LoadOK, IsList, Range
  <2> QED BY <1>1, <2>2, <2>6, IndexStays DEF WorkflowInv
<1> QED BY <1>3, <1>4

----------------------------------------------------------------------------
(* One copy is merged *)

LEMMA MergedIs ==
    ASSUME NEW row, NEW copy, IsRow(row), IsRow(copy), NEW r, r = Merged(row, copy)
    PROVE  /\ IsRow(r) /\ r.path = copy.path /\ r.body = copy.body /\ r.source = copy.path
           /\ \A p : Fronts(r, p) <=> Fronts(row, p)
<1>1. /\ DOMAIN r = RowFields /\ r.path = copy.path /\ r.body = copy.body /\ r.source = copy.path
      /\ r.origin = row.origin /\ r.id = row.id /\ r.status = row.status /\ r.gates = row.gates
      /\ r.preparation = row.preparation
    BY DEF Merged, IsRow, RowFields
<1> QED BY <1>1 DEF Fronts, IsRow

LEMMA TaggedIs ==
    ASSUME NEW copy, IsRow(copy), NEW r, r = Tagged(copy)
    PROVE  /\ IsRow(r) /\ r.path = copy.path /\ r.body = copy.body /\ r.source = copy.path
           /\ \A p : Fronts(r, p) <=> Fronts(copy, p)
<1>1. /\ DOMAIN r = RowFields /\ r.path = copy.path /\ r.body = copy.body /\ r.source = copy.path
      /\ r.origin = copy.origin /\ r.id = copy.id /\ r.status = copy.status /\ r.gates = copy.gates
      /\ r.preparation = copy.preparation
    BY DEF Tagged, IsRow, RowFields
<1> QED BY <1>1 DEF Fronts, IsRow

\* The merged row is the row itself, the copy, or the row with the copy's body.
LEMMA MergedItemIs ==
    ASSUME NEW row, NEW copy, IsRow(row), IsRow(copy), row.path.slug = copy.path.slug,
           NEW r, r = MergedWorktreeItem(row, copy)
    PROVE  IsRow(r) /\ r.path.slug = copy.path.slug
<1>1. CASE r = row
    BY <1>1
<1>2. CASE r = Tagged(copy)
    BY <1>2, TaggedIs
<1>3. CASE r = Merged(row, copy)
    BY <1>3, MergedIs
<1> QED BY <1>1, <1>2, <1>3 DEF MergedWorktreeItem

\* The row of the copy's slug, after the merge.
LEMMA MergeCopyIs ==
    ASSUME NEW rows, NEW copy, NEW t, t = copy.path.slug, NEW new, new = MergeCopy(rows, copy)
    PROVE  /\ \A s \in DOMAIN rows \ {t} : s \in DOMAIN new /\ new[s] = rows[s]
           /\ DOMAIN rows \subseteq DOMAIN new /\ DOMAIN new \subseteq DOMAIN rows \cup {t}
           /\ t \in DOMAIN rows => new[t] = MergedWorktreeItem(rows[t], copy)
           /\ t \notin DOMAIN rows /\ ArchivedSlugExists(t) => new = rows
           /\ t \notin DOMAIN rows /\ ~ArchivedSlugExists(t) =>
                t \in DOMAIN new /\ new[t] = Tagged(copy)
<1>1. CASE t \in DOMAIN rows
  <2>1. new = [rows EXCEPT ![t] = MergedWorktreeItem(@, copy)]
      BY <1>1 DEF MergeCopy
  <2> QED BY <1>1, <2>1
<1>2. CASE t \notin DOMAIN rows /\ ArchivedSlugExists(t)
    BY <1>2 DEF MergeCopy
<1>3. CASE t \notin DOMAIN rows /\ ~ArchivedSlugExists(t)
  <2>1. new = [s \in DOMAIN rows \cup {t} |-> IF s = t THEN Tagged(copy) ELSE rows[s]]
      BY <1>3, Zenon DEF MergeCopy
  <2> QED BY <1>3, <2>1
<1> QED BY <1>1, <1>2, <1>3

\* A set that gets a file read after all of it ends with that file.
LEMMA LastAdded ==
    ASSUME NEW S \in SUBSET Readable, NEW p \in Readable, \A q \in S : ReadBefore(q, p)
    PROVE  LastRead(S \cup {p}) = p
<1> DEFINE T == S \cup {p}
<1>1. T \in SUBSET Readable /\ p \in T /\ \A q \in T \ {p} : ReadBefore(q, p)
    OBVIOUS
<1> HIDE DEF T
<1>2. LastRead(T) = p
    BY <1>1, LastReadIs
<1> QED BY <1>2 DEF T

\* The row tells of the next copy when that has been merged into it.
LEMMA RowMerges ==
    ASSUME FilesOK, NEW s, SteadySlug(s), NEW merged \in SUBSET CopiesOf(s),
           NEW row, IsRow(row), RowTells(row, s, merged), Mains(s) # {} \/ merged # {},
           NEW p \in CopiesOf(s), NEW copy, copy = ReadAs(p), \A q \in merged : ReadBefore(q, p)
    PROVE  RowTells(MergedWorktreeItem(row, copy), s, merged \cup {p})
<1>1. /\ p \in Paths /\ p \in Readable /\ p.root \in Range(Worktrees) /\ p.slug = s /\ files[p] # {}
      /\ p \in steady
    BY CopiesAre, ReadablesAre DEF SteadySlug
<1>2. IsRow(copy) /\ copy.path = p /\ copy.body = OnDisk(p).body
    BY <1>1, ReadAsIs
<1>3. PICK w : w = row.path
    OBVIOUS
<1>4. PICK o : o = Owner(s)
    OBVIOUS
<1>5. PICK l : l = IF merged = {} THEN o ELSE LastRead(merged)
    OBVIOUS
<1>6. /\ Fronts(row, o) /\ w \in steady /\ w.slug = s /\ files[w] # {} /\ row.body = OnDisk(w).body
      /\ files[w] = files[l]
      /\ row.source = Nowhere <=> Mains(s) # {} /\ \A q \in merged : files[q] = files[o]
    BY <1>3, <1>4, <1>5, Zenon DEF RowTells
<1>7. merged # {} => l \in merged
    BY <1>5, OneIsLast, ReadablesAre
<1>8. LastRead(merged \cup {p}) = p
    BY <1>1, LastAdded, ReadablesAre
<1>9. merged \cup {p} # {}
    OBVIOUS
<1>10. p # Nowhere
    BY <1>1, IndexAssumption DEF Nowhere
<1>11. CASE files[p] = files[w]
  <2>1. MergedWorktreeItem(row, copy) = row
      BY <1>1, <1>2, <1>3, <1>6, <1>11 DEF MergedWorktreeItem
  <2>2. row.source = Nowhere <=> Mains(s) # {} /\ \A q \in merged \cup {p} : files[q] = files[o]
    <3>1. row.source = Nowhere => files[p] = files[o]
      <4>1. CASE merged = {}
          BY <1>5, <1>6, <1>11, <4>1
      <4>2. CASE merged # {}
          BY <1>6, <1>7, <1>11, <4>2
      <4> QED BY <4>1, <4>2
    <3> QED BY <1>6, <3>1
  <2>3. RowTells(row, s, merged \cup {p})
      BY <1>3, <1>4, <1>6, <1>8, <1>9, <1>11, <2>2, Zenon DEF RowTells
  <2> QED BY <2>1, <2>3
<1>12. CASE files[p] # files[w]
  <2>1. PICK r : r = Merged(row, copy)
      OBVIOUS
  <2>2. MergedWorktreeItem(row, copy) = r
      BY <1>1, <1>2, <1>3, <1>6, <1>12, <2>1 DEF MergedWorktreeItem
  <2>3. IsRow(r) /\ r.path = p /\ r.body = OnDisk(p).body /\ r.source = p /\ Fronts(r, o)
      BY <1>2, <1>6, <2>1, MergedIs
  <2>4. ~(Mains(s) # {} /\ \A q \in merged \cup {p} : files[q] = files[o])
    <3>1. SUFFICES ASSUME \A q \in merged \cup {p} : files[q] = files[o] PROVE FALSE
        OBVIOUS
    <3>2. files[l] = files[o]
        BY <1>5, <1>7, <3>1
    <3> QED BY <1>6, <1>12, <3>1, <3>2
  <2>5. OnDisk(r.path) = OnDisk(p)
      BY <2>3, Zenon
  <2>6. RowTells(r, s, merged \cup {p})
    <3>1. /\ r.path \in steady /\ r.path.slug = s /\ files[r.path] # {} /\ r.body = OnDisk(r.path).body
          /\ files[r.path] = files[LastRead(merged \cup {p})] /\ r.source # Nowhere
        BY <1>1, <1>8, <1>10, <2>3, <2>5
    <3> QED BY <1>4, <1>9, <2>3, <2>4, <3>1, Zenon DEF RowTells
  <2> QED BY <2>2, <2>6
<1> QED BY <1>11, <1>12

LEMMA MergeNextKeepsMerge ==
    ASSUME FilesOK, LoadOK, MergeOK, UNCHANGED env, load.copies # <<>>,
           load'.rows = MergeCopy(load.rows, Head(load.copies)),
           load'.copies = Tail(load.copies), load'.errors = load.errors
    PROVE  MergeOK'
<1>1. UNCHANGED <<files, head, steady, vanished>>
    BY DEF env
<1>2. PICK copy : copy = Head(load.copies)
    OBVIOUS
<1>3. PICK p, t : p = copy.path /\ t = p.slug
    OBVIOUS
<1>4. PICK rows, new : rows = load.rows /\ new = load'.rows
    OBVIOUS
<1>5. /\ IsList(load'.copies) /\ Range(load.copies) = {copy} \cup Range(load'.copies)
      /\ Len(load.copies) \in Nat \ {0} /\ DOMAIN load.copies = 1 .. Len(load.copies)
      /\ DOMAIN load'.copies = 1 .. Len(load.copies) - 1
      /\ copy = load.copies[1]
      /\ \A i \in 1 .. Len(load.copies) - 1 : load'.copies[i] = load.copies[i + 1]
    BY <1>2, TailIs DEF LoadOK
<1>6. /\ \A s \in DOMAIN rows \ {t} : s \in DOMAIN new /\ new[s] = rows[s]
      /\ DOMAIN rows \subseteq DOMAIN new /\ DOMAIN new \subseteq DOMAIN rows \cup {t}
      /\ t \in DOMAIN rows => new[t] = MergedWorktreeItem(rows[t], copy)
      /\ t \notin DOMAIN rows /\ ArchivedSlugExists(t) => new = rows
      /\ t \notin DOMAIN rows /\ ~ArchivedSlugExists(t) => t \in DOMAIN new /\ new[t] = Tagged(copy)
  <2>1. t = copy.path.slug /\ new = MergeCopy(rows, copy)
      BY <1>2, <1>3, <1>4
  <2> QED BY <2>1, MergeCopyIs
<1>7. /\ IsRow(copy) /\ p.root \in Range(Worktrees) /\ (files[p] # {} \/ p \in vanished)
      /\ p \in steady => copy = ReadAs(p) /\ files[p] # {} /\ ParsesNow(p)
  <2>1. copy \in Range(load.copies)
      BY <1>5
  <2> QED BY <1>3, <2>1 DEF MergeOK
<1>8. p \in Paths /\ p \in Readable /\ t \in Range(Slugs)
    BY <1>3, <1>7 DEF IsRow, Readable, Paths
<1>9. \A s \in DOMAIN rows : IsRow(rows[s]) /\ rows[s].path.slug = s /\ s \in Range(Slugs)
    BY <1>4 DEF MergeOK
<1>10. DOMAIN new \subseteq Range(Slugs) /\ \A s \in DOMAIN new : IsRow(new[s]) /\ new[s].path.slug = s
  <2>1. ASSUME NEW s \in DOMAIN new PROVE IsRow(new[s]) /\ new[s].path.slug = s
    <3>1. CASE s # t
        BY <1>6, <1>9, <3>1
    <3>2. CASE s = t /\ t \in DOMAIN rows
      <4>1. IsRow(rows[t]) /\ rows[t].path.slug = copy.path.slug
          BY <1>3, <1>9, <3>2
      <4> QED BY <1>3, <1>6, <1>7, <3>2, <4>1, MergedItemIs
    <3>3. CASE s = t /\ t \notin DOMAIN rows
      <4>1. new[t] = Tagged(copy)
          BY <1>6, <3>3
      <4> QED BY <1>3, <1>7, <3>3, <4>1, TaggedIs
    <3> QED BY <3>1, <3>2, <3>3
  <2> QED BY <1>6, <1>8, <1>9, <2>1
<1>11. AscendingRows(load'.copies) /\ \A e \in Range(load'.copies) : ReadBefore(p, e.path)
  <2>1. ASSUME NEW i \in DOMAIN load'.copies, NEW j \in DOMAIN load'.copies, i < j
        PROVE  ReadBefore(load'.copies[i].path, load'.copies[j].path)
    <3>1. PICK k, l : k = i + 1 /\ l = j + 1
        OBVIOUS
    <3>2. /\ k \in DOMAIN load.copies /\ l \in DOMAIN load.copies /\ k < l
          /\ load'.copies[i] = load.copies[k] /\ load'.copies[j] = load.copies[l]
        BY <1>5, <2>1, <3>1
    <3> QED BY <3>2 DEF MergeOK, AscendingRows
  <2>2. ASSUME NEW e \in Range(load'.copies) PROVE ReadBefore(p, e.path)
    <3>1. PICK i \in DOMAIN load'.copies : load'.copies[i] = e
        BY <1>5, ListIs
    <3>2. PICK k : k = i + 1
        OBVIOUS
    <3>3. k \in DOMAIN load.copies /\ 1 \in DOMAIN load.copies /\ 1 < k /\ load.copies[k] = e
        BY <1>5, <3>1, <3>2
    <3> QED BY <1>3, <1>5, <3>3 DEF MergeOK, AscendingRows
  <2> QED BY <2>1, <2>2 DEF AscendingRows
<1>12. ASSUME NEW s \in Range(Slugs) PROVE MainMerged(s)'
  <2>1. /\ (MainSteady(s)' <=> MainSteady(s)) /\ Mains(s)' = Mains(s) /\ (Unvanished(s)' <=> Unvanished(s))
      BY <1>1, Zenon DEF MainSteady, Unvanished, Mains, Parsed, In, OnDisk
  <2>2. PICK l : l = LastRead(Mains(s)) /\ l = LastRead(Mains(s))'
      BY <2>1 DEF LastRead
  <2>3. ASSUME MainSteady(s), Unvanished(s), Mains(s) # {}
        PROVE  s \in DOMAIN new /\ Fronts(new[s], l) /\ files[new[s].path] # {}
    <3>1. s \in DOMAIN rows /\ Fronts(rows[s], l) /\ files[rows[s].path] # {}
      <4>1. MainMerged(s)
          BY DEF MergeOK
      <4>2. s \in DOMAIN load.rows /\ Fronts(load.rows[s], LastRead(Mains(s))) /\ files[load.rows[s].path] # {}
          BY <2>3, <4>1 DEF MainMerged
      <4> QED BY <1>4, <2>2, <4>2
    <3>2. CASE s # t
      <4>1. s \in DOMAIN new /\ new[s] = rows[s]
          BY <1>6, <3>1, <3>2
      <4> QED BY <3>1, <4>1
    <3>3. CASE s = t
      <4>1. files[p] # {}
          BY <1>3, <1>7, <2>3, <3>3 DEF Unvanished
      <4>2. new[s] = MergedWorktreeItem(rows[s], copy) /\ s \in DOMAIN new
          BY <1>6, <3>1, <3>3
      <4>3. new[s] = rows[s] \/ new[s] = Merged(rows[s], copy)
          BY <1>3, <3>1, <4>1, <4>2 DEF MergedWorktreeItem
      <4>4. CASE new[s] = Merged(rows[s], copy)
        <5>1. PICK r, e : r = new[s] /\ e = rows[s]
            OBVIOUS
        <5>2. r.path = p /\ Fronts(r, l)
            BY <1>3, <1>7, <1>9, <3>1, <4>4, <5>1, MergedIs
        <5> QED BY <4>1, <4>2, <5>1, <5>2
      <4> QED BY <3>1, <4>2, <4>3, <4>4
    <3> QED BY <3>2, <3>3
  <2>4. ASSUME MainSteady(s), Unvanished(s), Mains(s) # {}
        PROVE  Fronts(load.rows[s], LastRead(Mains(s)))'
    <3>1. PICK e : e = new[s]
        OBVIOUS
    <3>2. Fronts(e, l)'
        BY <1>1, <2>3, <2>4, <3>1, FilesSame
    <3> QED BY <1>4, <2>2, <3>1, <3>2, Zenon DEF Fronts
  <2> QED BY <1>1, <1>4, <2>1, <2>3, <2>4 DEF MainMerged
<1>13. ASSUME NEW s \in Range(Slugs) PROVE CopiesMerged(s)'
  <2>1. /\ (SteadySlug(s)' <=> SteadySlug(s)) /\ Mains(s)' = Mains(s) /\ CopiesOf(s)' = CopiesOf(s)
        /\ (Hidden(s)' <=> Hidden(s))
    <3>1. \A root : Parsed(root, s)' = Parsed(root, s) /\ In(root)' = In(root)
        BY <1>1, Zenon DEF Parsed, In, OnDisk
    <3> QED BY <1>1, <3>1 DEF SteadySlug, Mains, CopiesOf, Hidden
  <2>2. CASE ~SteadySlug(s)
      BY <2>1, <2>2 DEF CopiesMerged
  <2>3. CASE SteadySlug(s)
    <3>1. CopiesMerged(s) /\ Waiting(s) \subseteq CopiesOf(s)
        BY <2>3, WaitingAre DEF MergeOK
    <3>2. PICK waiting, merged : waiting = Waiting(s) /\ merged = MergedOf(s)
        OBVIOUS
    <3>3. /\ \A q \in merged, r \in waiting : ReadBefore(q, r)
          /\ s \in DOMAIN rows <=> Mains(s) # {} \/ (merged # {} /\ ~Hidden(s))
          /\ s \in DOMAIN rows => RowTells(rows[s], s, merged)
          /\ merged = CopiesOf(s) \ waiting /\ waiting \subseteq CopiesOf(s)
        BY <1>4, <2>3, <3>1, <3>2 DEF CopiesMerged, MergedOf
    <3>4. PICK waits, merges : waits = Waiting(s)' /\ merges = MergedOf(s)'
        OBVIOUS
    <3>5. merges = CopiesOf(s) \ waits /\ waits = {e.path : e \in {c \in Range(load'.copies) : c.path.slug = s}}
        BY <2>1, <3>4 DEF MergedOf, Waiting, Range
    <3>6. waiting = {e.path : e \in {c \in Range(load.copies) : c.path.slug = s}}
        BY <3>2 DEF Waiting
    <3>7. /\ \A q \in merges, r \in waits : ReadBefore(q, r)
          /\ s \in DOMAIN new <=> Mains(s) # {} \/ (merges # {} /\ ~Hidden(s))
          /\ s \in DOMAIN new => RowTells(new[s], s, merges)
      <4>1. CASE s # t
        <5>1. waits = waiting /\ merges = merged
            BY <1>3, <1>5, <3>3, <3>5, <3>6, <4>1
        <5>2. (s \in DOMAIN new <=> s \in DOMAIN rows) /\ (s \in DOMAIN rows => new[s] = rows[s])
            BY <1>6, <4>1
        <5> QED BY <3>3, <5>1, <5>2
      <4>2. CASE s = t
        <5>1. p \in steady /\ copy = ReadAs(p) /\ files[p] # {} /\ ParsesNow(p) /\ p \in CopiesOf(s)
            BY <1>3, <1>7, <1>8, <2>3, <4>2, CopiesAre DEF SteadySlug
        <5>2. waiting = {p} \cup waits
            BY <1>3, <1>5, <3>5, <3>6, <4>2
        <5>3. p \notin waits /\ \A r \in waits : ReadBefore(p, r)
            BY <1>8, <1>11, <3>5, ReadOrder
        <5>4. merges = merged \cup {p} /\ \A q \in merged : ReadBefore(q, p)
            BY <3>3, <3>5, <5>1, <5>2, <5>3
        <5>5. \A q \in merges, r \in waits : ReadBefore(q, r)
            BY <3>3, <5>2, <5>3, <5>4
        <5>6. ArchivedSlugExists(s) /\ Mains(s) = {} <=> Hidden(s)
            BY DEF ArchivedSlugExists, Hidden
        <5>7. CASE s \in DOMAIN rows
          <6>1. PICK row : row = rows[s]
              OBVIOUS
          <6>2. RowTells(MergedWorktreeItem(row, copy), s, merges)
            <7>1. IsRow(row) /\ RowTells(row, s, merged) /\ (Mains(s) # {} \/ merged # {})
                BY <1>9, <3>3, <5>7, <6>1
            <7>2. merged \in SUBSET CopiesOf(s)
                BY <3>3
            <7> QED BY <2>3, <5>1, <5>4, <7>1, <7>2, RowMerges
          <6>3. s \in DOMAIN new /\ new[s] = MergedWorktreeItem(row, copy)
              BY <1>6, <4>2, <5>7, <6>1
          <6> QED BY <3>3, <5>4, <5>5, <5>7, <6>2, <6>3
        <5>8. CASE s \notin DOMAIN rows /\ ArchivedSlugExists(s)
          <6>1. Mains(s) = {} /\ Hidden(s) /\ s \notin DOMAIN new
              BY <1>6, <3>3, <4>2, <5>6, <5>8
          <6> QED BY <5>5, <6>1
        <5>9. CASE s \notin DOMAIN rows /\ ~ArchivedSlugExists(s)
          <6>1. Mains(s) = {} /\ ~Hidden(s) /\ merged = {}
              BY <3>3, <5>6, <5>9
          <6>2. s \in DOMAIN new /\ new[s] = Tagged(copy) /\ merges = {p}
              BY <1>6, <4>2, <5>4, <5>9, <6>1
          <6>3. Owner(s) = p
            <7>1. CopiesOf(s) = waiting
                BY <3>3, <6>1
            <7>2. \A q \in CopiesOf(s) \ {p} : ReadBefore(p, q)
                BY <5>2, <5>3, <7>1
            <7>3. FirstRead(CopiesOf(s)) = p
              <8>1. PICK S : S = CopiesOf(s)
                  OBVIOUS
              <8>2. S \in SUBSET Readable /\ p \in S /\ \A q \in S \ {p} : ReadBefore(p, q)
                  BY <5>1, <7>2, <8>1, ReadablesAre
              <8>3. FirstRead(S) = p
                  BY <8>2, FirstReadIs
              <8> QED BY <8>1, <8>3
            <7> QED BY <6>1, <7>3 DEF Owner
          <6>4. LastRead(merges) = p
            <7>1. LastRead({} \cup {p}) = p
              <8>1. {} \in SUBSET Readable /\ \A q \in {} : ReadBefore(q, p)
                  OBVIOUS
              <8> QED BY <1>8, <8>1, LastAdded
            <7>2. {} \cup {p} = merges
                BY <6>2
            <7> QED BY <7>1, <7>2
          <6>5. PICK r : r = Tagged(copy)
              OBVIOUS
          <6>6. IsRow(copy) /\ copy.path = p /\ copy.body = OnDisk(p).body /\ Fronts(copy, p)
              BY <1>8, <5>1, ReadAsIs
          <6>7. r.path = p /\ r.body = OnDisk(p).body /\ r.source = p /\ Fronts(r, p)
              BY <6>5, <6>6, TaggedIs
          <6>8. OnDisk(r.path) = OnDisk(p)
              BY <6>7, Zenon
          <6>9. RowTells(r, s, merges)
            <7>1. p # Nowhere
                BY <1>7, IndexAssumption DEF Nowhere
            <7>2. p.slug = s /\ merges # {}
                BY <1>3, <4>2, <6>2
            <7> QED BY <5>1, <6>1, <6>3, <6>4, <6>7, <6>8, <7>1, <7>2 DEF RowTells
          <6> QED BY <5>5, <6>1, <6>2, <6>5, <6>9
        <5> QED BY <5>7, <5>8, <5>9
      <4> QED BY <4>1, <4>2
    <3>8. s \in DOMAIN new => RowTells(new[s], s, merges)'
      <4>1. SUFFICES ASSUME s \in DOMAIN new PROVE RowTells(new[s], s, merges)'
          OBVIOUS
      <4>2. FilesKept /\ SteadySlug(s)'
          BY <1>1, <2>1, <2>3, SameFiles
      <4>3. PICK e : e = new[s]
          OBVIOUS
      <4>4. /\ e.path \in Paths /\ RowTells(e, s, merges) /\ merges \subseteq CopiesOf(s)
            /\ merges # {} \/ Mains(s) # {}
          BY <1>10, <3>5, <3>7, <4>1, <4>3 DEF IsRow, Readable
      <4>5. RowTells(e, s, merges)'
          BY <4>2, <4>4, RowTellsStays
      <4> QED BY <4>3, <4>5, Zenon DEF RowTells, Fronts
    <3>9. s \in DOMAIN new => RowTells(load.rows[s], s, MergedOf(s))'
      <4>1. RowTells(new[s], s, merges)' => RowTells(load.rows[s], s, MergedOf(s))'
          BY <1>4, <3>4, Zenon DEF RowTells, Fronts
      <4> QED BY <3>8, <4>1
    <3>10. /\ \A q \in MergedOf(s)', r \in Waiting(s)' : ReadBefore(q, r)'
           /\ s \in DOMAIN load'.rows <=> Mains(s)' # {} \/ (MergedOf(s)' # {} /\ ~Hidden(s)')
           /\ s \in DOMAIN load'.rows => RowTells(load.rows[s], s, MergedOf(s))'
        BY <1>4, <2>1, <3>4, <3>7, <3>9
    <3> QED BY <3>10, Zenon DEF CopiesMerged
  <2> QED BY <2>2, <2>3
<1>14. ASSUME NEW s \in Range(Slugs), Away(s)' PROVE s \notin DOMAIN new
  <2>1. Away(s)
      BY <1>1, <1>14 DEF Away
  <2>2. s \notin DOMAIN rows
      BY <1>4, <2>1 DEF MergeOK
  <2>3. ArchivedSlugExists(s)
      BY <2>1 DEF Away, ArchivedSlugExists, In, FilesOK
  <2> QED BY <1>6, <2>2, <2>3
<1>15. \A e \in Range(load'.copies) :
         /\ IsRow(e) /\ e.path.root \in Range(Worktrees)
         /\ files'[e.path] # {} \/ e.path \in vanished'
         /\ e.path \in steady' => e = ReadAs(e.path)' /\ files'[e.path] # {} /\ ParsesNow(e.path)'
  <2>1. ASSUME NEW e \in Range(load'.copies)
        PROVE  ReadAs(e.path)' = ReadAs(e.path) /\ (ParsesNow(e.path)' <=> ParsesNow(e.path))
    <3>1. PICK q : q = e.path
        OBVIOUS
    <3>2. ReadAs(e.path)' = ReadAs(q)' /\ (ParsesNow(e.path)' <=> ParsesNow(q)')
        BY <3>1, Zenon DEF ReadAs, CopyAs, Prepared, Preparation, ParsesNow, OnDisk, Clean, Entity, Parses
    <3> QED BY <1>1, <3>1, <3>2, FilesSame, Zenon
  <2>2. Range(load'.copies) \subseteq Range(load.copies)
      BY <1>5
  <2>3. \A e \in Range(load.copies) :
         /\ IsRow(e) /\ e.path.root \in Range(Worktrees)
         /\ files[e.path] # {} \/ e.path \in vanished
         /\ e.path \in steady => e = ReadAs(e.path) /\ files[e.path] # {} /\ ParsesNow(e.path)
      BY DEF MergeOK
  <2> QED BY <1>1, <2>1, <2>2, <2>3
<1>16. AscendingRows(load.copies)'
    BY <1>11 DEF AscendingRows
<1>17. ASSUME NEW q \in steady' \cap Readable PROVE q \in load'.errors <=> files'[q] # {} /\ ~ParsesNow(q)'
    BY <1>1, <1>17, FilesSame DEF MergeOK
<1>18. \A s \in Range(Slugs) : MainMerged(s)' /\ CopiesMerged(s)' /\ (Away(s)' => s \notin DOMAIN load'.rows)
    BY <1>4, <1>12, <1>13, <1>14
<1>19. /\ DOMAIN load'.rows \subseteq Range(Slugs)
       /\ \A s \in DOMAIN load'.rows : IsRow(load'.rows[s]) /\ load'.rows[s].path.slug = s
    BY <1>4, <1>10
<1> QED BY <1>15, <1>16, <1>17, <1>18, <1>19, Zenon DEF MergeOK

LEMMA MergeNextKeepsInv ==
    ASSUME WorkflowInv, MergeNext
    PROVE  WorkflowInv'
<1>1. /\ FilesOK /\ LoadOK /\ MergeOK /\ load.reload
      /\ UNCHANGED <<env, index>> /\ DOMAIN load = LoadFields
      /\ load.phase = "Merge" /\ load.copies # <<>>
    BY DEF WorkflowInv, LoadOK, MergeNext
<1>2. load' = [load EXCEPT !.rows = MergeCopy(@, Head(load.copies)), !.copies = Tail(@)]
    BY DEF MergeNext
<1>3. /\ DOMAIN load' = LoadFields /\ load'.phase = "Merge" /\ load'.reload = load.reload
      /\ load'.left = load.left /\ load'.roots = load.roots /\ load'.items = load.items
      /\ load'.errors = load.errors /\ load'.archived = load.archived
      /\ load'.rows = MergeCopy(load.rows, Head(load.copies)) /\ load'.copies = Tail(load.copies)
    BY <1>1, <1>2 DEF LoadFields
<1>4. MergeOK'
    BY <1>1, <1>3, MergeNextKeepsMerge
<1>5. /\ IsList(load'.left) /\ IsList(load'.roots) /\ IsList(load'.items) /\ IsList(load'.copies)
      /\ IsList(load'.archived) /\ load'.errors \subseteq Readable
    BY <1>1, <1>3, TailIs DEF LoadOK
<1>6. LoadOK'
    BY <1>1, <1>3, <1>4, <1>5 DEF LoadOK, IsList, Range
<1> QED BY <1>1, <1>3, <1>6, IndexStays DEF WorkflowInv

----------------------------------------------------------------------------
(* Every copy is merged *)

LEMMA MergedIsTold ==
    ASSUME FilesOK, LoadOK, MergeOK, load.copies = <<>>,
           NEW items, items = {load.rows[s] : s \in DOMAIN load.rows}
    PROVE  Told(items, load.errors) /\ \A e \in items : IsRow(e)
<1>1. PICK rows : rows = load.rows
    OBVIOUS
<1>2. items = {rows[s] : s \in DOMAIN rows}
    BY <1>1
<1>3. \A s \in DOMAIN rows : IsRow(rows[s]) /\ rows[s].path.slug = s /\ s \in Range(Slugs)
    BY <1>1 DEF MergeOK
<1>4. ASSUME NEW s
      PROVE  /\ s \in DOMAIN rows => With(items, s) = {rows[s]} /\ rows[s] \in items
             /\ s \notin DOMAIN rows => With(items, s) = {}
  <2>1. ASSUME NEW e PROVE e \in With(items, s) <=> s \in DOMAIN rows /\ e = rows[s]
    <3>1. e \in items <=> \E t \in DOMAIN rows : e = rows[t]
        BY <1>2
    <3>2. e \in With(items, s) <=> e \in items /\ e.path.slug = s
        BY DEF With
    <3> QED BY <1>3, <3>1, <3>2
  <2>2. s \in DOMAIN rows => rows[s] \in items
      BY <1>2
  <2> QED BY <2>1, <2>2
<1>5. ASSUME NEW s PROVE Waiting(s) = {} /\ MergedOf(s) = CopiesOf(s)
  <2>1. Range(load.copies) = {}
      BY EmptyIsList
  <2>2. Waiting(s) = {}
      BY <2>1 DEF Waiting
  <2> QED BY <2>2 DEF MergedOf
<1>6. ASSUME NEW s \in Range(Slugs), SteadySlug(s) PROVE ErrorsTold(load.errors, s)
  <2>1. ASSUME NEW p, p \in Readable, p.slug = s PROVE p \in load.errors <=> files[p] # {} /\ ~ParsesNow(p)
    <3>1. p \in steady
        BY <1>6, <2>1 DEF SteadySlug, Readable
    <3> QED BY <2>1, <3>1 DEF MergeOK
  <2>2. load.errors \subseteq Readable
      BY DEF LoadOK
  <2> QED BY <2>1, <2>2 DEF ErrorsTold
<1>7. ASSUME NEW s \in Range(Slugs), SteadySlug(s) PROVE SlugTold(items, s)
  <2>1. /\ s \in DOMAIN rows <=> Mains(s) # {} \/ (CopiesOf(s) # {} /\ ~Hidden(s))
        /\ s \in DOMAIN rows => RowTells(rows[s], s, CopiesOf(s))
    <3>1. CopiesMerged(s)
        BY DEF MergeOK
    <3>2. MergedOf(s) = CopiesOf(s)
        BY <1>5
    <3> QED BY <1>1, <1>7, <3>1, <3>2 DEF CopiesMerged
  <2>2. PICK o : o = Owner(s)
      OBVIOUS
  <2>3. CASE CopiesOf(s) = {}
    <3>1. ASSUME s \in DOMAIN rows PROVE rows[s].path = o /\ o \in Mains(s) /\ Fronts(rows[s], rows[s].path)
      <4>1. RowTells(rows[s], s, {})
          BY <2>1, <2>3, <3>1
      <4>2. rows[s].path = o /\ Fronts(rows[s], o)
          BY <2>2, <4>1, Zenon DEF RowTells
      <4>3. o \in Mains(s)
          BY <2>1, <2>2, <2>3, <3>1, OneIsLast, ReadablesAre DEF Owner
      <4>4. Fronts(rows[s], rows[s].path) <=> Fronts(rows[s], o)
          BY <4>2, Zenon
      <4> QED BY <4>2, <4>3, <4>4
    <3>2. \A e \in With(items, s) : e.path \in Mains(s) /\ Fronts(e, e.path)
      <4>1. ASSUME NEW e \in With(items, s) PROVE e.path \in Mains(s) /\ Fronts(e, e.path)
        <5>1. s \in DOMAIN rows /\ e = rows[s]
            BY <1>4
        <5> QED BY <3>1, <5>1
      <4> QED BY <4>1
    <3>3. ASSUME Mains(s) # {} PROVE o \in {e.path : e \in With(items, s)}
        BY <1>4, <2>1, <3>1, <3>3
    <3> QED BY <2>2, <2>3, <3>2, <3>3 DEF SlugTold
  <2>4. CASE CopiesOf(s) # {} /\ Hidden(s)
    <3>1. With(items, s) = {}
        BY <1>4, <2>1, <2>4 DEF Hidden
    <3> QED BY <2>4, <3>1 DEF SlugTold
  <2>5. CASE CopiesOf(s) # {} /\ ~Hidden(s)
    <3>1. PICK e : e = rows[s]
        OBVIOUS
    <3>2. With(items, s) = {e} /\ RowTells(e, s, CopiesOf(s))
        BY <1>4, <2>1, <2>5, <3>1
    <3>3. PICK l : l = LastRead(CopiesOf(s))
        OBVIOUS
    <3>4. /\ Fronts(e, o) /\ e.body = OnDisk(e.path).body /\ files[e.path] = files[l]
          /\ e.source = Nowhere <=> Mains(s) # {} /\ \A q \in CopiesOf(s) : files[q] = files[o]
        BY <2>2, <2>5, <3>2, <3>3, Zenon DEF RowTells
    <3>5. e.body = OnDisk(l).body
        BY <3>4 DEF OnDisk
    <3> QED BY <2>2, <2>5, <3>2, <3>3, <3>4, <3>5, Zenon DEF SlugTold
  <2> QED BY <2>3, <2>4, <2>5
<1>8. ASSUME NEW s \in Range(Slugs), MainSteady(s), Unvanished(s) PROVE MainTold(items, s)
  <2>1. ASSUME NEW p \in Mains(s), Mains(s) = {p}
        PROVE  \E e \in With(items, s) : With(items, s) = {e} /\ Fronts(e, p)
    <3>1. MainMerged(s)
        BY DEF MergeOK
    <3>2. LastRead(Mains(s)) = p
        BY <2>1, OneIsLast, ReadablesAre
    <3>3. s \in DOMAIN rows /\ Fronts(rows[s], p)
        BY <1>1, <1>8, <3>1, <3>2 DEF MainMerged
    <3>4. PICK e : e = rows[s]
        OBVIOUS
    <3>5. With(items, s) = {e} /\ Fronts(e, p)
        BY <1>4, <3>3, <3>4
    <3> QED BY <3>5
  <2> QED BY <2>1 DEF MainTold
<1>9. ASSUME NEW s \in Range(Slugs), Away(s) PROVE With(items, s) = {}
    BY <1>1, <1>4, <1>9 DEF MergeOK
<1> QED BY <1>2, <1>3, <1>6, <1>7, <1>8, <1>9 DEF Told

LEMMA EndMergeKeepsInv ==
    ASSUME WorkflowInv, EndMerge
    PROVE  WorkflowInv'
<1>1. /\ FilesOK /\ LoadOK /\ MergeOK /\ load.reload
      /\ UNCHANGED <<env, index>> /\ DOMAIN load = LoadFields
      /\ load.phase = "Merge" /\ load.copies = <<>>
    BY DEF WorkflowInv, LoadOK, EndMerge
<1>2. load' = [load EXCEPT !.phase = "Loaded", !.items = ListOf(load.rows)]
    BY DEF EndMerge
<1>3. /\ DOMAIN load' = LoadFields /\ load'.phase = "Loaded" /\ load'.reload = load.reload
      /\ load'.left = load.left /\ load'.roots = load.roots /\ load'.items = ListOf(load.rows)
      /\ load'.errors = load.errors /\ load'.archived = load.archived /\ load'.copies = load.copies
    BY <1>1, <1>2 DEF LoadFields
<1>4. PICK items : items = {load.rows[s] : s \in DOMAIN load.rows}
    OBVIOUS
<1>5. IsList(load'.items) /\ Range(load'.items) = items
    BY <1>1, <1>3, <1>4, ListOfIs DEF MergeOK
<1>6. /\ Told(items, load.errors) /\ \A e \in items : IsRow(e)
      /\ load.errors \subseteq Readable
    BY <1>1, <1>4, MergedIsTold DEF LoadOK
<1>7. PICK errors : errors = load.errors
    OBVIOUS
<1>8. Told(items, errors)'
    BY <1>1, <1>6, <1>7, SameFiles, ToldStays DEF env
<1>9. Range(load.items)' = items /\ (load.errors)' = errors
    BY <1>3, <1>5, <1>7 DEF Range
<1>10. Told(Range(load.items), load.errors)'
    BY <1>8, <1>9, Zenon DEF Told, ErrorsTold, SlugTold, MainTold, With
<1>11. /\ IsList(load'.left) /\ IsList(load'.roots) /\ IsList(load'.copies)
       /\ IsList(load'.archived) /\ load'.errors \subseteq Readable
    BY <1>1, <1>3 DEF LoadOK
<1>12. LoadOK'
    BY <1>1, <1>3, <1>5, <1>6, <1>9, <1>10, <1>11 DEF LoadOK, IsList
<1> QED BY <1>1, <1>3, <1>12, IndexStays DEF WorkflowInv

----------------------------------------------------------------------------
(* The rows are installed *)

LEMMA JudgedIs ==
    ASSUME NEW e, IsRow(e), NEW r, r = WithReadiness(e)
    PROVE  /\ IsRow(r) /\ IsJudged(r) /\ r.path = e.path /\ r.id = e.id /\ r.body = e.body
           /\ r.source = e.source /\ \A p : Fronts(r, p) <=> Fronts(e, p)
<1>1. /\ DOMAIN r = RowFields /\ r.path = e.path /\ r.body = e.body /\ r.source = e.source
      /\ r.origin = e.origin /\ r.id = e.id /\ r.status = e.status /\ r.gates = e.gates
      /\ r.preparation = e.preparation
      /\ r.readiness = Readiness(e.gates, e.status, e.preparation.proven)
    BY DEF WithReadiness, IsRow, RowFields
<1> QED BY <1>1 DEF Fronts, IsRow, IsJudged

LEMMA ToldJudged ==
    ASSUME NEW rows, \A e \in rows : IsRow(e), NEW judged, judged = {WithReadiness(e) : e \in rows},
           NEW errors, Told(rows, errors)
    PROVE  Told(judged, errors)
<1>1. \A d : d \in judged <=> \E e \in rows : d = WithReadiness(e)
    OBVIOUS
<1>2. ASSUME NEW s
      PROVE  /\ \A d \in With(judged, s) : \E e \in With(rows, s) : d = WithReadiness(e)
             /\ \A e \in With(rows, s) : WithReadiness(e) \in With(judged, s)
  <2>1. ASSUME NEW d \in With(judged, s) PROVE \E e \in With(rows, s) : d = WithReadiness(e)
    <3>1. PICK e \in rows : d = WithReadiness(e)
        BY <1>1 DEF With
    <3>2. e.path = d.path
        BY <3>1, JudgedIs
    <3> QED BY <3>1, <3>2 DEF With
  <2>2. ASSUME NEW e \in With(rows, s), NEW d, d = WithReadiness(e) PROVE d \in With(judged, s)
    <3>1. d.path = e.path /\ d \in judged
        BY <1>1, <2>2, JudgedIs DEF With
    <3> QED BY <3>1 DEF With
  <2> QED BY <2>1, <2>2
<1>3. ASSUME NEW s, With(rows, s) = {} PROVE With(judged, s) = {}
    BY <1>2, <1>3
<1>4. ASSUME NEW s, NEW e \in With(rows, s), With(rows, s) = {e}
      PROVE  With(judged, s) = {WithReadiness(e)}
  <2>1. WithReadiness(e) \in With(judged, s)
      BY <1>2
  <2>2. \A d \in With(judged, s) : d = WithReadiness(e)
      BY <1>2, <1>4
  <2> QED BY <2>1, <2>2
<1>5. ASSUME NEW s, SlugTold(rows, s) PROVE SlugTold(judged, s)
  <2>1. CASE CopiesOf(s) = {}
    <3>1. ASSUME NEW d \in With(judged, s) PROVE d.path \in Mains(s) /\ Fronts(d, d.path)
      <4>1. PICK e \in With(rows, s) : d = WithReadiness(e)
          BY <1>2
      <4>2. PICK p : p = e.path
          OBVIOUS
      <4>3. p \in Mains(s) /\ Fronts(e, e.path)
          BY <1>5, <2>1, <4>2 DEF SlugTold
      <4>4. Fronts(e, p)
          BY <4>2, <4>3, Zenon
      <4>5. d.path = p /\ Fronts(d, p)
          BY <4>1, <4>2, <4>4, JudgedIs DEF With
      <4>6. Fronts(d, d.path) <=> Fronts(d, p)
          BY <4>5, Zenon
      <4> QED BY <4>3, <4>5, <4>6
    <3>2. ASSUME Mains(s) # {} PROVE Owner(s) \in {d.path : d \in With(judged, s)}
      <4>1. PICK e \in With(rows, s) : e.path = Owner(s)
          BY <1>5, <2>1, <3>2 DEF SlugTold
      <4>2. PICK d : d = WithReadiness(e)
          OBVIOUS
      <4>3. d \in With(judged, s) /\ d.path = e.path
          BY <1>2, <4>2, JudgedIs DEF With
      <4> QED BY <4>1, <4>3
    <3> QED BY <2>1, <3>1, <3>2 DEF SlugTold
  <2>2. CASE CopiesOf(s) # {} /\ Hidden(s)
      BY <1>3, <1>5, <2>2 DEF SlugTold
  <2>3. CASE CopiesOf(s) # {} /\ ~Hidden(s)
    <3>1. PICK e \in With(rows, s) :
             /\ With(rows, s) = {e} /\ Fronts(e, Owner(s))
             /\ e.body = OnDisk(LastRead(CopiesOf(s))).body
             /\ e.source = Nowhere <=>
                  Mains(s) # {} /\ \A q \in CopiesOf(s) : files[q] = files[Owner(s)]
        BY <1>5, <2>3, Zenon DEF SlugTold
    <3>2. PICK d : d = WithReadiness(e)
        OBVIOUS
    <3>3. With(judged, s) = {d}
        BY <1>4, <3>1, <3>2
    <3>4. d.body = e.body /\ d.source = e.source /\ Fronts(d, Owner(s))
        BY <3>1, <3>2, JudgedIs DEF With
    <3> QED BY <2>3, <3>1, <3>3, <3>4, Zenon DEF SlugTold
  <2> QED BY <2>1, <2>2, <2>3
<1>6. ASSUME NEW s, MainTold(rows, s) PROVE MainTold(judged, s)
  <2>1. ASSUME NEW p \in Mains(s), Mains(s) = {p}
        PROVE  \E d \in With(judged, s) : With(judged, s) = {d} /\ Fronts(d, p)
    <3>1. PICK e \in With(rows, s) : With(rows, s) = {e} /\ Fronts(e, p)
        BY <1>6, <2>1 DEF MainTold
    <3>2. PICK d : d = WithReadiness(e)
        OBVIOUS
    <3>3. With(judged, s) = {d} /\ Fronts(d, p)
        BY <1>4, <3>1, <3>2, JudgedIs DEF With
    <3> QED BY <3>3
  <2> QED BY <2>1 DEF MainTold
<1> QED BY <1>3, <1>5, <1>6 DEF Told

----------------------------------------------------------------------------
(* The row that has an id *)

LEMMA LastOfIs ==
    ASSUME NEW rows, IsList(rows), NEW id, \E e \in Range(rows) : e.id = id
    PROVE  /\ LastOf(rows, id) \in DOMAIN rows /\ rows[LastOf(rows, id)].id = id
           /\ \A j \in DOMAIN rows : j > LastOf(rows, id) => rows[j].id # id
           /\ rows[LastOf(rows, id)] \in Range(rows)
<1> DEFINE I == {i \in DOMAIN rows : rows[i].id = id}
           Latest(i) == rows[i].id = id /\ \A j \in DOMAIN rows : j > i => rows[j].id # id
<1>1. Len(rows) \in Nat /\ DOMAIN rows = 1 .. Len(rows)
    BY ListIs
<1>2. PICK m \in I : \A j \in I : j <= m
  <2>1. I \in SUBSET (1 .. Len(rows)) /\ I # {}
      BY <1>1, ListIs
  <2> HIDE DEF I
  <2> QED BY <1>1, <2>1, LastIn
<1>3. m \in DOMAIN rows /\ Latest(m)
    BY <1>1, <1>2
<1>4. LastOf(rows, id) \in DOMAIN rows /\ Latest(LastOf(rows, id))
    BY <1>3 DEF LastOf
<1> QED BY <1>4 DEF Range

\* An id that no two rows have names one row.
LEMMA UnsharedIsOne ==
    ASSUME NEW rows, IsList(rows), NEW id, id \notin Shared(rows), NEW e \in Range(rows), e.id = id
    PROVE  rows[LastOf(rows, id)] = e
<1>1. /\ LastOf(rows, id) \in DOMAIN rows /\ rows[LastOf(rows, id)].id = id
    BY LastOfIs
<1>2. PICK i \in DOMAIN rows : rows[i] = e
    BY ListIs
<1>3. i = LastOf(rows, id)
    BY <1>1, <1>2 DEF Shared
<1> QED BY <1>2, <1>3

LEMMA IdleIsOK ==
    ASSUME DOMAIN load' = LoadFields, load'.phase \in {"Idle", "Archive"},
           load'.phase = "Archive" => ~load'.reload,
           IsList(load'.left), load'.roots = <<>>, load'.items = <<>>, load'.copies = <<>>,
           load'.archived = <<>>, load'.errors = {}
    PROVE  LoadOK'
BY EmptyIsList DEF LoadOK, IsList, Range

LEMMA IdleIs ==
    ASSUME load' = Idle
    PROVE  LoadOK' /\ load'.phase = "Idle"
<1>1. /\ DOMAIN load' = LoadFields /\ load'.phase = "Idle" /\ load'.left = <<>> /\ load'.roots = <<>>
      /\ load'.items = <<>> /\ load'.copies = <<>> /\ load'.archived = <<>> /\ load'.errors = {}
    BY DEF Idle, LoadFields
<1> QED BY <1>1, IdleIsOK, EmptyIsList

LEMMA InstallKeepsInv ==
    ASSUME WorkflowInv, UNCHANGED env, load' = Idle,
           load.phase = "Loaded" \/ (load.phase = "Archive" /\ load.reload),
           NEW archived, IsList(archived), Install(load.items, archived)
    PROVE  WorkflowInv'
<1>1. /\ FilesOK /\ FilesOK' /\ FilesKept /\ LoadOK /\ IndexOK
    BY SameFiles DEF WorkflowInv, env
<1>2. /\ \A e \in Range(load.items) : IsRow(e)
      /\ Told(Range(load.items), load.errors)
      /\ IsList(load.items) /\ load.errors \subseteq Readable
    BY <1>1 DEF LoadOK
<1>3. PICK items : items = load.items
    OBVIOUS
<1>4. PICK active : active = [i \in DOMAIN items |-> WithReadiness(items[i])]
    OBVIOUS
<1>5. PICK new : new = [EmptyIndex EXCEPT !.loaded = TRUE, !.active = active,
                                  !.errors = load.errors, !.archived = archived,
                                  !.archiveErrors = load.archiveErrors,
                                  !.archiveLoaded = load.scope = "Archived"]
    OBVIOUS
<1>6. index' = [new EXCEPT !.activity = Retained(index, new),
                           !.shared = index.shared \cup Shared(items)]
    BY <1>3, <1>4, <1>5 DEF Install
<1>7. /\ DOMAIN new = IndexFields /\ new.active = active
      /\ DOMAIN index' = IndexFields /\ index'.active = active /\ index'.errors = load.errors
      /\ index'.archived = archived /\ index'.activity = Retained(index, new)
      /\ index'.shared = index.shared \cup Shared(items)
  <2>1. /\ DOMAIN new = IndexFields /\ new.active = active /\ new.errors = load.errors
        /\ new.archived = archived
      BY <1>5 DEF EmptyIndex, IndexFields
  <2> QED BY <1>6, <2>1 DEF IndexFields
<1>8. Len(items) \in Nat /\ DOMAIN items = 1 .. Len(items) /\ DOMAIN active = 1 .. Len(items)
    BY <1>2, <1>3, <1>4, ListIs
<1>9. IsList(active)
    BY <1>4, <1>8, MadeList
<1>10. \A i \in DOMAIN items : items[i] \in Range(items) /\ active[i] = WithReadiness(items[i])
    BY <1>4 DEF Range
<1>11. Range(active) = {WithReadiness(e) : e \in Range(items)}
    BY <1>4 DEF Range
<1>12. \A e \in Range(active) : IsRow(e) /\ IsJudged(e)
    BY <1>2, <1>3, <1>11, JudgedIs
<1>13. \A i \in DOMAIN items : active[i].id = items[i].id /\ active[i].path = items[i].path
    BY <1>2, <1>3, <1>10, JudgedIs
<1>14. Shared(active) = Shared(items)
    BY <1>8, <1>13 DEF Shared
<1>15. Told(Range(index.active), index.errors)'
  <2>1. PICK rows, errors : rows = Range(active) /\ errors = load.errors
      OBVIOUS
  <2>2. Told(rows, errors) /\ errors \subseteq Readable
      BY <1>2, <1>3, <1>11, <2>1, ToldJudged
  <2>3. Told(rows, errors)'
      BY <1>1, <2>2, ToldStays
  <2>4. Range(index.active)' = rows /\ (index.errors)' = errors
      BY <1>7, <2>1 DEF Range
  <2> QED BY <2>3, <2>4, Zenon DEF Told, ErrorsTold, SlugTold, MainTold, With
<1>16. ActivityOK'
  <2>1. \A id : PathOf(index, id)' = active[LastOf(active, id)].path
      BY <1>7, Zenon DEF PathOf, LastOf
  <2>2. Shared(index.active)' = Shared(active)
      BY <1>7 DEF Shared
  <2>3. Ids(index)' = {e.id : e \in Range(active)}
      BY <1>7 DEF Ids, Range
  <2>4. Ids(new) = {e.id : e \in Range(active)}
      BY <1>7 DEF Ids
  <2>5. ASSUME NEW id \in DOMAIN index'.activity
        PROVE  /\ id \in Ids(index)'
               /\ id \notin index'.shared => active[LastOf(active, id)].path = index'.activity[id]
    <3>1. PICK path : path = PathOf(index, id)
        OBVIOUS
    <3>2. /\ id \in DOMAIN index.activity /\ index'.activity[id] = index.activity[id]
          /\ \E e \in Range(active) : e.id = id /\ e.path = path
      <4>1. DOMAIN index'.activity =
              {i \in DOMAIN index.activity :
                /\ i \in Ids(index)
                /\ \E e \in Range(new.active) : e.id = i /\ e.path = PathOf(index, i)}
          BY <1>7, Zenon DEF Retained
      <4>2. index'.activity[id] = index.activity[id]
          BY <1>7, <4>1 DEF Retained
      <4> QED BY <1>7, <3>1, <4>1, <4>2
    <3>3. PICK e \in Range(active) : e.id = id /\ e.path = path
        BY <3>2
    <3>4. id \notin index.shared => path = index.activity[id]
        BY <1>1, <3>1, <3>2 DEF IndexOK, ActivityOK
    <3>5. ASSUME id \notin index'.shared PROVE active[LastOf(active, id)].path = index'.activity[id]
      <4>1. id \notin Shared(active) /\ id \notin index.shared
          BY <1>7, <1>14, <3>5
      <4>2. active[LastOf(active, id)] = e
          BY <1>9, <3>3, <4>1, UnsharedIsOne
      <4> QED BY <3>2, <3>3, <3>4, <4>1, <4>2
    <3> QED BY <2>3, <3>3, <3>5
  <2>6. Shared(index.active)' \subseteq index'.shared
      BY <1>7, <1>14, <2>2
  <2> QED BY <2>1, <2>5, <2>6 DEF ActivityOK
<1>17. IndexOK'
    BY <1>2, <1>7, <1>9, <1>12, <1>15, <1>16 DEF IndexOK, IsList, Range
<1> QED BY <1>1, <1>17, IdleIs DEF WorkflowInv

----------------------------------------------------------------------------
(* The other steps of the program *)

\* The index changes and its rows do not.
LEMMA RowsStay ==
    ASSUME WorkflowInv, UNCHANGED env, DOMAIN index' = IndexFields,
           index'.active = index.active, index'.errors = index.errors, IsList(index'.archived),
           index'.loaded /\ ~index'.reloadFailed /\ (load'.phase = "Idle" \/ ~load'.reload) =>
             index.loaded /\ ~index.reloadFailed /\ (load.phase = "Idle" \/ ~load.reload),
           \/ index'.activity = index.activity /\ index'.shared = index.shared
           \/ /\ index'.shared = Shared(index.active) /\ DOMAIN index'.activity \subseteq Ids(index)
              /\ \A id \in DOMAIN index'.activity : index'.activity[id] = PathOf(index, id)
    PROVE  FilesOK' /\ IndexOK'
<1>1. /\ FilesOK /\ FilesOK' /\ FilesKept /\ IndexOK
    BY SameFiles DEF WorkflowInv, env
<1>2. IsList(index.active) /\ \A e \in Range(index.active) : IsRow(e) /\ IsJudged(e)
    BY <1>1 DEF IndexOK
<1>3. ASSUME index'.loaded /\ ~index'.reloadFailed /\ (load'.phase = "Idle" \/ ~load'.reload)
      PROVE  Told(Range(index.active), index.errors)'
  <2>1. PICK rows, errors : rows = Range(index.active) /\ errors = index.errors
      OBVIOUS
  <2>2. Told(rows, errors) /\ errors \subseteq Readable
      BY <1>1, <1>3, <2>1 DEF IndexOK
  <2>3. Told(rows, errors)'
      BY <1>1, <2>2, ToldStays
  <2>4. Range(index.active)' = rows /\ (index.errors)' = errors
      BY <2>1 DEF Range
  <2> QED BY <2>3, <2>4, Zenon DEF Told, ErrorsTold, SlugTold, MainTold, With
<1>4. ActivityOK'
  <2>1. PICK active : index.active = active /\ index'.active = active
      OBVIOUS
  <2>2. Shared(index.active) = Shared(active) /\ Shared(index.active)' = Shared(active)
      BY <2>1 DEF Shared
  <2>3. Ids(index)' = Ids(index)
      BY <2>1 DEF Ids, Range
  <2>4. \A id : PathOf(index, id) = active[LastOf(active, id)].path
      BY <2>1 DEF PathOf, LastOf
  <2>5. \A id : PathOf(index, id)' = active[LastOf(active, id)].path
      BY <2>1 DEF PathOf, LastOf
  <2>6. ActivityOK
      BY <1>1 DEF IndexOK
  <2>7. CASE index'.activity = index.activity /\ index'.shared = index.shared
      BY <2>2, <2>3, <2>4, <2>5, <2>6, <2>7 DEF ActivityOK
  <2>8. CASE /\ index'.shared = Shared(index.active) /\ DOMAIN index'.activity \subseteq Ids(index)
             /\ \A id \in DOMAIN index'.activity : index'.activity[id] = PathOf(index, id)
      BY <2>2, <2>3, <2>4, <2>5, <2>8 DEF ActivityOK
  <2> QED BY <2>7, <2>8
<1>5. \A e \in Range(index.active)' : IsRow(e) /\ IsJudged(e)
    BY <1>2 DEF Range
<1>6. IsList(index'.active) /\ index'.errors \subseteq Readable
    BY <1>1 DEF IndexOK
<1> QED BY <1>1, <1>3, <1>4, <1>5, <1>6 DEF IndexOK, IsList, Range

LEMMA FailKeepsInv ==
    ASSUME WorkflowInv, Fail
    PROVE  WorkflowInv'
<1>1. IndexOK /\ DOMAIN index = IndexFields /\ UNCHANGED env /\ load' = Idle
    BY DEF WorkflowInv, IndexOK, Fail
<1>2. /\ DOMAIN index' = IndexFields /\ index'.active = index.active /\ index'.errors = index.errors
      /\ index'.archived = index.archived /\ index'.activity = index.activity
      /\ index'.shared = index.shared /\ index'.loaded = index.loaded
      /\ (index'.reloadFailed <=> index.reloadFailed \/ load.reload)
  <2>1. CASE ~load.reload
    <3>1. index' = [index EXCEPT !.archiveFailed = TRUE, !.archiveLoaded = TRUE]
        BY <2>1 DEF Fail
    <3> QED BY <1>1, <2>1, <3>1 DEF IndexFields
  <2>2. CASE load.reload
    <3>1. index' = [index EXCEPT !.archiveFailed = @ \/ load.phase = "Archive", !.reloadFailed = TRUE]
        BY <2>2 DEF Fail
    <3> QED BY <1>1, <2>2, <3>1 DEF IndexFields
  <2> QED BY <2>1, <2>2
<1>3. IsList(index'.archived)
    BY <1>1, <1>2 DEF IndexOK
<1>4. index'.loaded /\ ~index'.reloadFailed => index.loaded /\ ~index.reloadFailed /\ ~load.reload
    BY <1>2
<1>5. FilesOK' /\ IndexOK'
    BY <1>1, <1>2, <1>3, <1>4, RowsStay
<1> QED BY <1>1, <1>5, IdleIs DEF WorkflowInv

LEMMA ScannedKeepsInv ==
    ASSUME WorkflowInv, Scanned
    PROVE  WorkflowInv'
<1>1. /\ IndexOK /\ LoadOK /\ DOMAIN index = IndexFields /\ UNCHANGED env /\ load' = load
      /\ load.phase = "Idle"
    BY DEF WorkflowInv, IndexOK, Scanned
<1>2. PICK busy \in SUBSET Ids(index) :
         index' = [index EXCEPT !.activity = [id \in busy |-> PathOf(index, id)],
                                !.shared = Shared(index.active)]
    BY DEF Scanned
<1>3. /\ DOMAIN index' = IndexFields /\ index'.active = index.active /\ index'.errors = index.errors
      /\ index'.archived = index.archived /\ index'.activity = [id \in busy |-> PathOf(index, id)]
      /\ index'.shared = Shared(index.active) /\ index'.loaded = index.loaded
      /\ index'.reloadFailed = index.reloadFailed
    BY <1>1, <1>2 DEF IndexFields
<1>4. IsList(index'.archived)
    BY <1>1, <1>3 DEF IndexOK
<1>5. DOMAIN index'.activity \subseteq Ids(index)
      /\ \A id \in DOMAIN index'.activity : index'.activity[id] = PathOf(index, id)
    BY <1>3
<1>6. FilesOK' /\ IndexOK'
    BY <1>1, <1>3, <1>4, <1>5, RowsStay
<1>7. LoadOK'
    BY <1>1 DEF LoadOK, IsList, Range
<1> QED BY <1>6, <1>7 DEF WorkflowInv

\* A sequence of as many as there are is a list, whatever the order.
LEMMA RankedIsList ==
    ASSUME NEW before, IsFiniteSet(DOMAIN before)
    PROVE  IsList(Ranked(before))
<1> DEFINE n == Cardinality(DOMAIN before)
           r == Ranked(before)
<1>1. n \in Nat
    BY FS_CardinalityType
<1>2. r = [i \in 1 .. n |-> CHOOSE t \in DOMAIN before : Cardinality(before[t]) = i - 1]
    BY DEF Ranked
<1> HIDE DEF n, r
<1>3. DOMAIN r = 1 .. n /\ r = [i \in 1 .. n |-> r[i]]
    BY <1>2
<1>4. IsList(r)
    BY <1>1, <1>3, MadeList
<1> QED BY <1>4 DEF r

LEMMA RangeIsFinite ==
    ASSUME NEW s, IsList(s)
    PROVE  IsFiniteSet(Range(s))
<1>1. Len(s) \in Nat /\ DOMAIN s = 1 .. Len(s)
    BY ListIs
<1>2. PICK n \in Nat : n = Len(s)
    BY <1>1
<1>3. IsFiniteSet(1 .. n)
    BY FS_Interval
<1>4. PICK f : f = [i \in 1 .. n |-> s[i]]
    OBVIOUS
<1>5. f \in Surjection(1 .. n, Range(s))
    BY <1>1, <1>2, <1>4 DEF Range, Surjection
<1> QED BY <1>3, <1>5, FS_Surjection

LEMMA LoadedActiveKeepsInv ==
    ASSUME WorkflowInv, LoadedActive
    PROVE  WorkflowInv'
<1>1. /\ LoadOK /\ FilesOK /\ DOMAIN load = LoadFields /\ load.phase = "Loaded" /\ load.reload
      /\ UNCHANGED env
    BY DEF WorkflowInv, LoadOK, LoadedActive
<1>2. CASE load.scope = "Archived"
  <2>1. load' = [load EXCEPT !.phase = "Archive", !.left = Listing("archive")] /\ index' = index
      BY <1>2 DEF LoadedActive
  <2>2. /\ DOMAIN load' = LoadFields /\ load'.phase = "Archive" /\ load'.reload = load.reload
        /\ load'.left = Listing("archive") /\ load'.roots = load.roots /\ load'.items = load.items
        /\ load'.copies = load.copies /\ load'.errors = load.errors /\ load'.archived = load.archived
      BY <1>1, <2>1 DEF LoadFields
  <2>3. Told(Range(load.items), load.errors)'
    <3>1. PICK rows, errors : rows = Range(load.items) /\ errors = load.errors
        OBVIOUS
    <3>2. Told(rows, errors) /\ errors \subseteq Readable
        BY <1>1, <3>1 DEF LoadOK
    <3>3. Told(rows, errors)'
        BY <1>1, <3>2, SameFiles, ToldStays DEF env
    <3>4. Range(load.items)' = rows /\ (load.errors)' = errors
        BY <2>2, <3>1 DEF Range
    <3> QED BY <3>3, <3>4, Zenon DEF Told, ErrorsTold, SlugTold, MainTold, With
  <2>4. /\ IsList(load'.left) /\ IsList(load'.roots) /\ IsList(load'.items) /\ IsList(load'.copies)
        /\ IsList(load'.archived) /\ load'.errors \subseteq Readable
        /\ \A e \in Range(load'.items) : IsRow(e)
      BY <1>1, <2>2, ListingIs DEF LoadOK
  <2>5. LoadOK'
      BY <1>1, <2>2, <2>3, <2>4 DEF LoadOK, IsList, Range
  <2> QED BY <1>1, <2>1, <2>2, <2>5, IndexStays DEF WorkflowInv
<1>3. CASE load.scope # "Archived"
  <2>1. load' = Idle /\ Install(load.items, <<>>)
      BY <1>3 DEF LoadedActive
  <2> QED BY <1>1, <2>1, EmptyIsList, InstallKeepsInv
<1> QED BY <1>2, <1>3

LEMMA OpenArchiveKeepsInv ==
    ASSUME WorkflowInv, OpenArchive
    PROVE  WorkflowInv'
<1>1. /\ load.phase = "Idle" /\ UNCHANGED <<env, index>>
      /\ load' = [Idle EXCEPT !.phase = "Archive", !.left = Listing("archive"), !.reload = FALSE]
    BY DEF OpenArchive
<1>2. /\ DOMAIN load' = LoadFields /\ load'.phase = "Archive" /\ load'.reload = FALSE
      /\ load'.left = Listing("archive") /\ load'.roots = <<>> /\ load'.items = <<>>
      /\ load'.copies = <<>> /\ load'.errors = {} /\ load'.archived = <<>>
    BY <1>1 DEF Idle, LoadFields
<1>3. IsList(load'.left)
    BY <1>2, ListingIs
<1>4. LoadOK'
    BY <1>2, <1>3, IdleIsOK
<1> QED BY <1>1, <1>4, IndexStays DEF WorkflowInv

LEMMA ReadArchivedKeepsInv ==
    ASSUME WorkflowInv, ReadArchived
    PROVE  WorkflowInv'
<1>1. /\ LoadOK /\ FilesOK /\ DOMAIN load = LoadFields /\ load.phase = "Archive"
      /\ load.left # <<>> /\ UNCHANGED <<env, index>>
    BY DEF WorkflowInv, LoadOK, ReadArchived, Reading
<1>2. PICK p : p = Head(load.left)
    OBVIOUS
<1>3. load' = IF Parses(p, OnDisk(p))
              THEN [load EXCEPT !.left = Tail(@), !.archived = Append(@, Entity(p, OnDisk(p)))]
              ELSE [load EXCEPT !.left = Tail(@), !.archiveErrors = @ \cup {p}]
    BY <1>2 DEF ReadArchived
<1>4. /\ DOMAIN load' = LoadFields /\ load'.phase = "Archive" /\ load'.reload = load.reload
      /\ load'.left = Tail(load.left) /\ load'.roots = load.roots /\ load'.items = load.items
      /\ load'.copies = load.copies /\ load'.errors = load.errors
      /\ \/ load'.archived = load.archived
         \/ load'.archived = Append(load.archived, Entity(p, OnDisk(p)))
    BY <1>1, <1>3 DEF LoadFields
<1>5. /\ IsList(load'.left) /\ IsList(load'.roots) /\ IsList(load'.items) /\ IsList(load'.copies)
      /\ IsList(load'.archived) /\ load'.errors \subseteq Readable
  <2>1. IsList(load'.archived)
    <3>1. PICK e : e = Entity(p, OnDisk(p))
        OBVIOUS
    <3>2. IsList(load.archived) /\ IsList(Append(load.archived, e))
        BY <1>1, AppendIs DEF LoadOK
    <3> QED BY <1>4, <3>1, <3>2
  <2> QED BY <1>1, <1>4, <2>1, TailIs DEF LoadOK
<1>6. ASSUME load.reload
      PROVE  Told(Range(load.items), load.errors)' /\ \A e \in Range(load'.items) : IsRow(e)
  <2>1. PICK rows, errors : rows = Range(load.items) /\ errors = load.errors
      OBVIOUS
  <2>2. Told(rows, errors) /\ errors \subseteq Readable /\ \A e \in rows : IsRow(e)
      BY <1>1, <1>6, <2>1 DEF LoadOK
  <2>3. Told(rows, errors)'
      BY <1>1, <2>2, SameFiles, ToldStays DEF env
  <2>4. Range(load.items)' = rows /\ (load.errors)' = errors
      BY <1>4, <2>1 DEF Range
  <2>5. Range(load'.items) = rows
      BY <1>4, <2>1
  <2>6. Told(Range(load.items), load.errors)'
      BY <2>3, <2>4, Zenon DEF Told, ErrorsTold, SlugTold, MainTold, With
  <2> QED BY <2>2, <2>5, <2>6
<1>7. LoadOK'
    BY <1>1, <1>4, <1>5, <1>6 DEF LoadOK, IsList, Range
<1> QED BY <1>1, <1>4, <1>7, IndexStays DEF WorkflowInv

LEMMA LoadedArchiveKeepsInv ==
    ASSUME WorkflowInv, LoadedArchive
    PROVE  WorkflowInv'
<1>1. /\ LoadOK /\ IndexOK /\ DOMAIN index = IndexFields /\ load.phase = "Archive"
      /\ UNCHANGED env /\ load' = Idle
    BY DEF WorkflowInv, IndexOK, LoadedArchive
<1>2. PICK archived : archived = Ranked([e \in Range(load.archived) |->
                                           {d \in Range(load.archived) : ArchiveOrder(d, e)}])
    OBVIOUS
<1>3. IsList(archived)
  <2>1. IsFiniteSet(Range(load.archived))
      BY <1>1, RangeIsFinite DEF LoadOK
  <2>2. PICK before : before = [e \in Range(load.archived) |->
                                  {d \in Range(load.archived) : ArchiveOrder(d, e)}]
      OBVIOUS
  <2>3. IsFiniteSet(DOMAIN before)
      BY <2>1, <2>2
  <2>4. IsList(Ranked(before))
      BY <2>3, RankedIsList
  <2> QED BY <1>2, <2>2, <2>4
<1>4. CASE load.reload
  <2>1. Install(load.items, archived)
      BY <1>2, <1>4 DEF LoadedArchive
  <2> QED BY <1>1, <1>3, <1>4, <2>1, InstallKeepsInv
<1>5. CASE ~load.reload
  <2>1. index' = [index EXCEPT !.archived = archived, !.archiveLoaded = TRUE,
                                   !.archiveErrors = load.archiveErrors]
      BY <1>2, <1>5 DEF LoadedArchive
  <2>2. /\ DOMAIN index' = IndexFields /\ index'.active = index.active /\ index'.errors = index.errors
        /\ index'.archived = archived /\ index'.activity = index.activity
        /\ index'.shared = index.shared /\ index'.loaded = index.loaded
        /\ index'.reloadFailed = index.reloadFailed
      BY <1>1, <2>1 DEF IndexFields
  <2>3. FilesOK' /\ IndexOK'
      BY <1>1, <1>3, <1>5, <2>2, RowsStay
  <2> QED BY <1>1, <2>3, IdleIs DEF WorkflowInv
<1> QED BY <1>4, <1>5

----------------------------------------------------------------------------
(* Other processes, and the start *)

LEMMA TouchKeepsFiles ==
    ASSUME FilesOK, NEW paths, Touch(paths), files' \in [Paths -> SUBSET Written],
           \A p \in Paths \ paths : files'[p] = files[p]
    PROVE  FilesKept /\ load' = load /\ index' = index
BY DEF FilesOK, FilesKept, Touch

LEMMA EditKeepsFiles ==
    ASSUME FilesOK, Edit
    PROVE  FilesKept /\ load' = load /\ index' = index
<1>1. ASSUME NEW p \in Paths, NEW c \in Written, Write(p, c)
      PROVE  FilesKept /\ load' = load /\ index' = index
    BY <1>1, TouchKeepsFiles DEF Write, FilesOK
<1>2. ASSUME NEW p \in Paths, Delete(p)
      PROVE  FilesKept /\ load' = load /\ index' = index
    BY <1>2, TouchKeepsFiles DEF Delete, FilesOK
<1>3. ASSUME NEW p \in Paths, Archive(p)
      PROVE  FilesKept /\ load' = load /\ index' = index
  <2>1. PICK q : q = [p EXCEPT !.root = "archive"]
      OBVIOUS
  <2>2. q \in Paths
      BY <2>1 DEF Paths
  <2>3. files' = [files EXCEPT ![p] = {}, ![q] = files[p]] /\ Touch({p, q})
      BY <1>3, <2>1 DEF Archive
  <2> QED BY <2>2, <2>3, TouchKeepsFiles DEF FilesOK
<1>4. ASSUME NEW w, RemoveWorktree(w)
      PROVE  FilesKept /\ load' = load /\ index' = index
  <2>1. files' = [p \in Paths |-> IF p.root = w THEN {} ELSE files[p]] /\ Touch(In(w))
      BY <1>4 DEF RemoveWorktree
  <2>2. \A p \in Paths \ In(w) : files'[p] = files[p]
      BY <2>1 DEF In
  <2>3. files' \in [Paths -> SUBSET Written]
      BY <2>1 DEF FilesOK
  <2> QED BY <2>1, <2>2, <2>3, TouchKeepsFiles
<1>5. MainContents \subseteq Written /\ CopyContents \subseteq Written
    BY DEF Written
<1> QED BY <1>1, <1>2, <1>3, <1>4, <1>5 DEF Edit

LEMMA CommitKeepsFiles ==
    ASSUME FilesOK, NEW renames, NEW others, NEW time, Commit(renames, others, time)
    PROVE  FilesKept /\ load' = load /\ index' = index
<1>1. /\ files' = files /\ load' = load /\ index' = index /\ vanished' = vanished
      /\ steady' = {p \in steady : head'[p] = head[p]}
    BY DEF Commit
<1> QED BY <1>1 DEF FilesOK, FilesKept

LEMMA LoadKeepsInv ==
    ASSUME WorkflowInv, LoadStep
    PROVE  WorkflowInv'
BY BeginKeepsInv, FailKeepsInv, ReadingKeepsInv, ScanKeepsInv, BeginMergeKeepsInv, MergeNextKeepsInv,
   EndMergeKeepsInv, LoadedActiveKeepsInv, OpenArchiveKeepsInv, ReadArchivedKeepsInv,
   LoadedArchiveKeepsInv, ScannedKeepsInv DEF LoadStep

LEMMA InvStarts ==
    ASSUME WorkflowInit
    PROVE  WorkflowInv
<1>1. /\ files \in Folders /\ load = Idle /\ index = EmptyIndex /\ steady = Paths /\ vanished = {}
    BY DEF WorkflowInit, IndexInit
<1>2. FilesOK
    BY <1>1, ContentsAssumption DEF FilesOK
<1>3. LoadOK
  <2>1. /\ DOMAIN load = LoadFields /\ load.phase = "Idle" /\ load.left = <<>> /\ load.roots = <<>>
        /\ load.items = <<>> /\ load.copies = <<>> /\ load.archived = <<>> /\ load.errors = {}
      BY <1>1 DEF Idle, LoadFields
  <2> QED BY <2>1, EmptyIsList DEF LoadOK
<1>4. IndexOK
  <2>1. /\ DOMAIN index = IndexFields /\ index.active = <<>> /\ index.archived = <<>>
        /\ index.errors = {} /\ index.loaded = FALSE /\ index.activity = <<>> /\ index.shared = {}
      BY <1>1 DEF EmptyIndex, IndexFields
  <2>2. Shared(index.active) = {} /\ DOMAIN index.activity = {}
      BY <2>1 DEF Shared
  <2>3. ActivityOK
      BY <2>1, <2>2 DEF ActivityOK
  <2> QED BY <2>1, <2>3, EmptyIsList DEF IndexOK
<1> QED BY <1>2, <1>3, <1>4 DEF WorkflowInv

LEMMA InvHolds == WorkflowSpec => []WorkflowInv
<1>1. WorkflowInit => WorkflowInv
    BY InvStarts
<1>2. WorkflowInv /\ [WorkflowNext]_<<indexVars, historyVars>> => WorkflowInv'
  <2> SUFFICES ASSUME WorkflowInv, [WorkflowNext]_<<indexVars, historyVars>> PROVE WorkflowInv'
      OBVIOUS
  <2>1. FilesOK
      BY DEF WorkflowInv
  <2>2. CASE Edit
      BY <2>1, <2>2, EditKeepsFiles, InvStays
  <2>3. CASE LoadStep
      BY <2>3, LoadKeepsInv
  <2>4. ASSUME NEW renames, NEW others, NEW time, Commit(renames, others, time) PROVE WorkflowInv'
      BY <2>1, <2>4, CommitKeepsFiles, InvStays
  <2>5. CASE ReadHistory \/ UNCHANGED <<indexVars, historyVars>>
    <3>1. UNCHANGED indexVars
        BY <2>5 DEF ReadHistory
    <3>2. load' = load /\ index' = index /\ FilesKept
        BY <2>1, <3>1, SameFiles DEF indexVars
    <3> QED BY <3>2, InvStays
  <2> QED BY <2>2, <2>3, <2>4, <2>5 DEF WorkflowNext, IndexNext
<1> QED BY <1>1, <1>2, PTL DEF WorkflowSpec

----------------------------------------------------------------------------
(* What a reader of the list relies on *)

LEMMA OwnedIs ==
    ASSUME NEW e, IsJudged(e), NEW p
    PROVE  OwnedBy(e, p) <=> Fronts(e, p)
<1>1. PICK c : c = OnDisk(p)
    OBVIOUS
<1>2. PICK proof : proof = Preparation(c.gates, c.status, c.body, Clean(p))
    OBVIOUS
<1>3. OwnedBy(e, p) <=>
        /\ e.origin = p /\ e.id = ResolveId(c, p) /\ e.status = c.status /\ e.gates = c.gates
        /\ e.preparation = proof /\ e.readiness = Readiness(c.gates, c.status, proof.proven)
    BY <1>1, <1>2, Zenon DEF OwnedBy
<1>4. Fronts(e, p) <=>
        /\ e.origin = p /\ e.id = ResolveId(c, p) /\ e.status = c.status /\ e.gates = c.gates
        /\ e.preparation = proof
    BY <1>1, <1>2, Zenon DEF Fronts
<1>5. e.readiness = Readiness(e.gates, e.status, e.preparation.proven)
    BY DEF IsJudged
<1> QED BY <1>3, <1>4, <1>5

LEMMA FreshIsTold ==
    ASSUME WorkflowInv, Fresh
    PROVE  /\ Told(Range(index.active), index.errors) /\ index.errors \subseteq Readable
           /\ \A e \in Range(index.active) : IsJudged(e)
           /\ \A s : RowsOf(s) = With(Range(index.active), s)
BY DEF WorkflowInv, IndexOK, Fresh, RowsOf, With

LEMMA RowsShowFiles ==
    ASSUME WorkflowInv
    PROVE  ShowsWhatFilesSay
<1> SUFFICES ASSUME Fresh, NEW s \in Range(Slugs), SteadySlug(s)
             PROVE  /\ {p \in index.errors : p.slug = s} =
                         {p \in Paths : p.slug = s /\ p.root # "archive" /\ files[p] # {}
                                        /\ ~Parses(p, OnDisk(p))}
                    /\ CopiesOf(s) = {} =>
                         /\ \A e \in RowsOf(s) : e.path \in Mains(s) /\ OwnedBy(e, e.path)
                         /\ Mains(s) # {} => Owner(s) \in {e.path : e \in RowsOf(s)}
                    /\ CopiesOf(s) # {} => IF Hidden(s) THEN RowsOf(s) = {} ELSE \E e \in RowsOf(s) :
                         /\ RowsOf(s) = {e} /\ OwnedBy(e, Owner(s))
                         /\ e.body = OnDisk(LastRead(CopiesOf(s))).body
                         /\ e.source = Nowhere <=>
                              Mains(s) # {} /\ \A q \in CopiesOf(s) : files[q] = files[Owner(s)]
  BY Zenon DEF ShowsWhatFilesSay, Mains, Owner, Hidden
<1>0. PICK mains, copies, rows, owner :
         mains = Mains(s) /\ copies = CopiesOf(s) /\ rows = RowsOf(s) /\ owner = Owner(s)
    OBVIOUS
<1>1. /\ rows = With(Range(index.active), s) /\ rows \subseteq Range(index.active)
      /\ \A e \in rows : IsJudged(e)
      /\ ErrorsTold(index.errors, s) /\ SlugTold(Range(index.active), s)
    BY <1>0, FreshIsTold DEF Told, With
<1>2. \A e \in rows : \A p : OwnedBy(e, p) <=> Fronts(e, p)
    BY <1>1, OwnedIs
<1>3. {p \in index.errors : p.slug = s} =
         {p \in Paths : p.slug = s /\ p.root # "archive" /\ files[p] # {} /\ ~Parses(p, OnDisk(p))}
    BY <1>1 DEF ErrorsTold, Readable, ParsesNow
<1>4. CASE copies = {}
  <2>1. /\ \A e \in rows : e.path \in mains /\ Fronts(e, e.path)
        /\ mains # {} => owner \in {e.path : e \in rows}
      BY <1>0, <1>1, <1>4 DEF SlugTold
  <2> QED BY <1>0, <1>2, <1>3, <1>4, <2>1
<1>5. CASE copies # {} /\ Hidden(s)
    BY <1>0, <1>1, <1>3, <1>5 DEF SlugTold
<1>6. CASE copies # {} /\ ~Hidden(s)
  <2>1. PICK e \in rows :
           /\ rows = {e} /\ Fronts(e, owner)
           /\ e.body = OnDisk(LastRead(copies)).body
           /\ e.source = Nowhere <=> mains # {} /\ \A q \in copies : files[q] = files[owner]
      BY <1>0, <1>1, <1>6, Zenon DEF SlugTold
  <2>2. OwnedBy(e, owner)
      BY <1>2, <2>1
  <2> QED BY <1>0, <1>3, <1>6, <2>1, <2>2, Zenon
<1> QED BY <1>0, <1>4, <1>5, <1>6

\* The last row of two lists that has the id.
LastOfBoth(a, b, id) == LET rows == a \o b IN rows[LastOf(rows, id)]

LEMMA ConcatEndsWith ==
    ASSUME NEW a, NEW b, IsList(a), IsList(b), NEW id, \E e \in Range(b) : e.id = id
    PROVE  LastOfBoth(a, b, id) = b[LastOf(b, id)]
<1>0. PICK c : c = a \o b
    OBVIOUS
<1>1. /\ Len(a) \in Nat /\ DOMAIN a = 1 .. Len(a) /\ Len(b) \in Nat /\ DOMAIN b = 1 .. Len(b)
    BY ListIs
<1>2. PICK l : l = LastOf(b, id)
    OBVIOUS
<1>3. l \in DOMAIN b /\ b[l].id = id /\ \A j \in DOMAIN b : j > l => b[j].id # id
    BY <1>2, LastOfIs
<1>5. /\ DOMAIN c = 1 .. Len(a) + Len(b)
      /\ \A i \in 1 .. Len(b) : c[Len(a) + i] = b[i]
      /\ \A i \in 1 .. Len(a) : c[i] = a[i]
  <2>1. PICK S : S = Range(a) \cup Range(b)
      OBVIOUS
  <2>2. a \in Seq(S) /\ b \in Seq(S)
      BY <1>1, <2>1 DEF IsList, Range
  <2> QED BY <1>0, <2>2
<1>6. ASSUME NEW k \in DOMAIN c, c[k].id = id, \A j \in DOMAIN c : j > k => c[j].id # id
      PROVE  k = Len(a) + l
  <2>1. Len(a) + l \in DOMAIN c /\ c[Len(a) + l].id = id
      BY <1>1, <1>3, <1>5
  <2>2. ~(Len(a) + l > k)
      BY <1>6, <2>1
  <2>3. k > Len(a) + l => FALSE
    <3>1. SUFFICES ASSUME k > Len(a) + l PROVE FALSE
        OBVIOUS
    <3>2. PICK j : j = k - Len(a)
        OBVIOUS
    <3>3. j \in 1 .. Len(b) /\ k = Len(a) + j /\ j > l
        BY <1>1, <1>3, <1>5, <1>6, <3>1, <3>2
    <3> QED BY <1>1, <1>3, <1>5, <1>6, <3>3
  <2> QED BY <1>1, <1>3, <1>5, <1>6, <2>1, <2>2, <2>3
<1>7. LET k == Len(a) + l IN k \in DOMAIN c /\ c[k].id = id /\ \A j \in DOMAIN c : j > k => c[j].id # id
  <2>1. Len(a) + l \in DOMAIN c /\ c[Len(a) + l].id = id
      BY <1>1, <1>3, <1>5
  <2>2. ASSUME NEW j \in DOMAIN c, j > Len(a) + l PROVE c[j].id # id
    <3>1. PICK i : i = j - Len(a)
        OBVIOUS
    <3>2. i \in 1 .. Len(b) /\ j = Len(a) + i /\ i > l
        BY <1>1, <1>3, <1>5, <2>2, <3>1
    <3> QED BY <1>1, <1>3, <1>5, <3>2
  <2> QED BY <2>1, <2>2
<1>8. LastOf(c, id) = Len(a) + l
  <2>1. PICK k : k = Len(a) + l
      OBVIOUS
  <2>2. LastOf(c, id) = k
      BY <1>6, <1>7, <2>1, Zenon DEF LastOf
  <2> QED BY <2>1, <2>2
<1>9. LastOfBoth(a, b, id) = c[LastOf(c, id)]
    BY <1>0 DEF LastOfBoth
<1> QED BY <1>1, <1>2, <1>3, <1>5, <1>8, <1>9

LEMMA ActivityFollows ==
    ASSUME WorkflowInv
    PROVE  ActivityFollowsTask
<1> SUFFICES ASSUME NEW id \in DOMAIN index.activity
             PROVE  /\ id \in Ids(index) /\ ById(index, id) \in Range(index.active)
                    /\ id \notin index.shared => ById(index, id).path = index.activity[id]
  BY DEF ActivityFollowsTask
<1>1. /\ IsList(index.active) /\ IsList(index.archived) /\ id \in Ids(index)
      /\ id \notin index.shared => PathOf(index, id) = index.activity[id]
    BY DEF WorkflowInv, IndexOK, ActivityOK
<1>2. PICK active, archived : active = index.active /\ archived = index.archived
    OBVIOUS
<1>3. IsList(active) /\ IsList(archived) /\ \E e \in Range(active) : e.id = id
    BY <1>1, <1>2 DEF Ids
<1>4. active[LastOf(active, id)] \in Range(active)
    BY <1>1, <1>2, <1>3, LastOfIs
<1>5. LastOfBoth(archived, active, id) = active[LastOf(active, id)]
    BY <1>3, ConcatEndsWith
<1>6. ById(index, id) = active[LastOf(active, id)]
    BY <1>2, <1>5 DEF ById, LastOfBoth
<1>7. PathOf(index, id) = active[LastOf(active, id)].path
    BY <1>2 DEF PathOf
<1> QED BY <1>1, <1>2, <1>4, <1>6, <1>7

LEMMA MainIsTold ==
    ASSUME WorkflowInv
    PROVE  MainDecides
<1> SUFFICES ASSUME Fresh, NEW p \in steady, p.root = "main", files[p] # {}, Parses(p, OnDisk(p)),
                    \A q \in Paths : q.root = "main" /\ q.slug = p.slug =>
                                        q = p \/ (q \in steady /\ files[q] = {}),
                    \A q \in vanished : q.slug # p.slug
             PROVE  \E e \in RowsOf(p.slug) : RowsOf(p.slug) = {e} /\ OwnedBy(e, p)
  BY DEF MainDecides
<1>1. p \in Paths
    BY DEF WorkflowInv, FilesOK
<1>2. PICK s : s = p.slug
    OBVIOUS
<1>3. s \in Range(Slugs)
    BY <1>1, <1>2 DEF Paths
<1>4. MainSteady(s) /\ Unvanished(s)
    BY <1>2 DEF MainSteady, Unvanished
<1>5. Mains(s) = {p}
  <2>1. ASSUME NEW q PROVE q \in Mains(s) <=> q = p
      BY <1>1, <1>2, MainsAre DEF ParsesNow
  <2> QED BY <2>1
<1>6. MainTold(Range(index.active), s)
    BY <1>3, <1>4, FreshIsTold DEF Told
<1>7. PICK e \in With(Range(index.active), s) : With(Range(index.active), s) = {e} /\ Fronts(e, p)
    BY <1>5, <1>6 DEF MainTold
<1>8. IsJudged(e) /\ RowsOf(s) = {e}
    BY <1>7, FreshIsTold DEF With
<1>9. OwnedBy(e, p)
    BY <1>7, <1>8, OwnedIs
<1> QED BY <1>2, <1>8, <1>9

LEMMA ArchivedIsAway ==
    ASSUME WorkflowInv
    PROVE  ArchivedStaysAway
<1> SUFFICES ASSUME Fresh, NEW s \in Range(Slugs), Away(s) PROVE RowsOf(s) = {}
  BY Zenon DEF ArchivedStaysAway, Away
<1> QED BY FreshIsTold DEF Told

\* The rows are what the files say, for any slugs, worktrees, contents and stages
\* and any number of loads and edits: a task whose files nobody touched since the
\* last load began is shown as they declare it, an archived task is not brought
\* back by a copy in a worktree, and a kept activity belongs to the row of its id
\* (parser/snapshot.rs:11-61, parser/worktree.rs:115-188, index.rs:180-213).
THEOREM RowsAreTrueAlways == WorkflowSpec => []RowsAreTrue
<1>1. WorkflowInv => RowsAreTrue
    BY RowsShowFiles, ArchivedIsAway, ActivityFollows DEF RowsAreTrue
<1> QED BY <1>1, InvHolds, PTL

\* The main copy decides what a task is: whatever happens to its worktree copies
\* while a load runs, short of one vanishing, the only row of a task whose only
\* main file stayed as it is carries that file's identity, status, gate record and
\* preparation proof (parser/worktree.rs:168-218).
THEOREM MainDecidesAlways == WorkflowSpec => []MainDecides
BY MainIsTold, InvHolds, PTL

\* An approval that waits to be applied is one that was recorded: by the latest
\* attempt of the only record for the row's stage, which is a gate, bound to its
\* Briefing and not withdrawn, pending, and for another stage of the workflow,
\* whatever gate records may be written (parser/gates.rs:156-288, gates.rs).
THEOREM ApprovalsAreRecorded == WorkflowSpec => []ApprovalIsRecorded
<1>1. WorkflowInv => ApprovalIsRecorded
    BY JudgedIsRecorded DEF WorkflowInv, IndexOK
<1> QED BY <1>1, InvHolds, PTL

=============================================================================
