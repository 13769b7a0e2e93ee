--------------------------- MODULE OverviewProofs ---------------------------
(***************************************************************************)
(* The overview of one workflow, for any tasks, stages, terminal height    *)
(* and number of edits: the list is sound, the selection follows its task, *)
(* and a scroll belongs to the row it was made in.                         *)
(*                                                                         *)
(* What is selected is a position in a list that is computed anew each     *)
(* time, so the proofs begin with what the sequence of a finite set is:    *)
(* every element has a position.                                           *)
(***************************************************************************)
EXTENDS Overview, FiniteSetTheorems, TLAPS

----------------------------------------------------------------------------
(* Sequences of sets *)

\* Of two elements one comes before the other, with all that comes before it.
LinearOn(S, before) ==
    /\ before \in [S -> SUBSET S]
    /\ \A t \in S : t \notin before[t]
    /\ \A t, u \in S : t = u \/ t \in before[u] \/ u \in before[t]
    /\ \A t, u \in S : t \in before[u] => before[t] \subseteq before[u]

LEMMA RankedIsSequence ==
    ASSUME NEW S, IsFiniteSet(S), NEW before, LinearOn(S, before)
    PROVE  Ranked(before) \in Seq(S)
<1> DEFINE n == Cardinality(S)
           T == 0 .. n - 1
           rank == [t \in S |-> Cardinality(before[t])]
<1>1. n \in Nat /\ DOMAIN before = S
    BY FS_CardinalityType DEF LinearOn
<1>2. ASSUME NEW t \in S PROVE IsFiniteSet(before[t]) /\ Cardinality(before[t]) \in T
  <2>1. before[t] \in SUBSET S /\ before[t] # S
      BY DEF LinearOn
  <2>2. /\ IsFiniteSet(before[t]) /\ Cardinality(before[t]) <= n
        /\ Cardinality(before[t]) # n
      BY <2>1, FS_Subset
  <2>3. Cardinality(before[t]) \in Nat
      BY <2>2, FS_CardinalityType
  <2>4. QED
      BY <1>1, <2>2, <2>3
<1>3. IsFiniteSet(T) /\ Cardinality(T) = n
    BY <1>1, FS_Interval
<1>4. ASSUME NEW t \in S, NEW u \in S, t \in before[u]
      PROVE  Cardinality(before[t]) # Cardinality(before[u])
  <2>1. before[t] \in SUBSET before[u] /\ before[t] # before[u]
      BY <1>4 DEF LinearOn
  <2>2. QED
      BY <1>2, <2>1, FS_Subset
<1>5. rank \in Injection(S, T)
  <2>1. rank \in [S -> T]
      BY <1>2
  <2>2. ASSUME NEW t \in S, NEW u \in S, rank[t] = rank[u] PROVE t = u
      BY <1>4, <2>2 DEF LinearOn
  <2>3. QED
      BY <2>1, <2>2 DEF Injection, IsInjective
<1>6. rank \in Surjection(S, T)
    BY <1>3, <1>5, FS_Injection
<1>7. ASSUME NEW i \in 1 .. n PROVE \E t \in S : Cardinality(before[t]) = i - 1
  <2>1. i - 1 \in T
      BY <1>1
  <2>2. QED
      BY <1>6, <2>1 DEF Surjection
<1>8. Ranked(before) \in [1 .. n -> S]
    BY <1>1, <1>7 DEF Ranked
<1>9. QED
    BY <1>1, <1>8

LEMMA Orders ==
    ASSUME NEW S \in SUBSET Tasks, NEW files \in Disks
    PROVE  ById(S) \in Seq(S) /\ ByStatus(S, files) \in Seq(S) /\ ByCompletion(S) \in Seq(S)
<1> DEFINE less == [t \in S |-> {u \in S : u < t}]
           more == [t \in S |-> {u \in S : u > t}]
           b == [t \in S |-> {u \in S : \/ files[u].stage < files[t].stage
                                        \/ files[u].stage = files[t].stage /\ u < t}]
<1>1. IsFiniteSet(S) /\ \A t \in S : t \in Nat
    BY FS_Subset, OverviewConstants
<1>2. \A t \in S : files[t].stage \in Nat
    BY OverviewConstants DEF Disks, Files
<1>3. LinearOn(S, less)
  <2>1. less \in [S -> SUBSET S] /\ \A t, u \in S : u \in less[t] <=> u < t
      OBVIOUS
  <2> HIDE DEF less
  <2>2. QED
      BY <1>1, <2>1 DEF LinearOn
<1>4. LinearOn(S, more)
  <2>1. more \in [S -> SUBSET S] /\ \A t, u \in S : u \in more[t] <=> u > t
      OBVIOUS
  <2> HIDE DEF more
  <2>2. QED
      BY <1>1, <2>1 DEF LinearOn
<1>5. LinearOn(S, b)
  <2>1. /\ b \in [S -> SUBSET S]
        /\ \A t, u \in S : u \in b[t] <=> \/ files[u].stage < files[t].stage
                                          \/ files[u].stage = files[t].stage /\ u < t
      OBVIOUS
  <2> HIDE DEF b
  <2>2. \A t \in S : t \notin b[t]
      BY <1>1, <1>2, <2>1
  <2>3. \A t, u \in S : t = u \/ t \in b[u] \/ u \in b[t]
      BY <1>1, <1>2, <2>1
  <2>4. ASSUME NEW t \in S, NEW u \in S, t \in b[u] PROVE b[t] \subseteq b[u]
    <3> SUFFICES ASSUME NEW v \in S, v \in b[t] PROVE v \in b[u]
        BY <2>1
    <3>1. files[t].stage \in Nat /\ files[u].stage \in Nat /\ files[v].stage \in Nat
          /\ t \in Nat /\ u \in Nat /\ v \in Nat
        BY <1>1, <1>2
    <3>2. QED
        BY <2>1, <2>4, <3>1
  <2>5. QED
      BY <2>1, <2>2, <2>3, <2>4 DEF LinearOn
<1>6. Ranked(less) \in Seq(S) /\ Ranked(b) \in Seq(S) /\ Ranked(more) \in Seq(S)
  <2> HIDE DEF less, more, b
  <2>1. QED
      BY <1>1, <1>3, <1>4, <1>5, RankedIsSequence
<1>7. QED
    BY <1>6 DEF ById, ByStatus, ByCompletion

----------------------------------------------------------------------------
(* Rows *)

States == [active : Disks, activeVersion : Nat, archive : Disks, archiveVersion : Nat,
           archiveLoaded : BOOLEAN, archiveError : BOOLEAN, scope : {"Active", "Archived"},
           focus : BOOLEAN, sort : {"Id", "Status"}, selected : Nat, selectedArchived : Nat,
           open : BOOLEAN, scroll : 0 .. Unmeasured, maxScroll : 0 .. Unmeasured]

\* What the list depends on, with the versions of its two parts.
Listed(s) == <<s.active, s.activeVersion, s.archive, s.archiveVersion, s.archiveLoaded,
               s.scope, s.focus, s.sort, s.open>>

LEMMA ItemsAreRows ==
    ASSUME NEW S \in SUBSET Tasks, NEW order \in Seq(S), NEW at \in {"file", "worktree", "archive"}
    PROVE  ItemsOf(order, at) \in Seq(Rows) /\ BrokenOf(order, at) \in Seq(Rows)
<1>1. order \in Seq(Tasks)
    OBVIOUS
<1>2. \A i \in DOMAIN order : Item(order[i], at) \in Rows /\ Broken(order[i], at) \in Rows
    BY <1>1 DEF Item, Broken, Rows
<1>3. QED
    BY <1>1, <1>2 DEF ItemsOf, BrokenOf

LEMMA VisibleAreRows == ASSUME NEW s \in States PROVE VisibleItems(s) \in Seq(Rows)
<1>1. s.active \in Disks /\ s.archive \in Disks
    BY DEF States
<1> DEFINE A == {t \in Tasks : Readable(s.archive[t], "archived")}
           B == {t \in Tasks : /\ Readable(s.active[t], "active")
                               /\ s.focus => s.active[t].asks}
<1>2. A \in SUBSET Tasks /\ B \in SUBSET Tasks
    OBVIOUS
<1>3. VisibleItems(s) = IF s.scope = "Archived" THEN ItemsOf(ByCompletion(A), "archive")
                        ELSE ItemsOf(IF s.sort = "Id" THEN ById(B) ELSE ByStatus(B, s.active), "file")
    BY DEF VisibleItems
<1> HIDE DEF A, B
<1>4. ByCompletion(A) \in Seq(A) /\ ById(B) \in Seq(B) /\ ByStatus(B, s.active) \in Seq(B)
    BY <1>1, <1>2, Orders
<1>5. /\ ItemsOf(ByCompletion(A), "archive") \in Seq(Rows)
      /\ ItemsOf(ById(B), "file") \in Seq(Rows)
      /\ ItemsOf(ByStatus(B, s.active), "file") \in Seq(Rows)
    BY <1>2, <1>4, ItemsAreRows
<1>6. QED
    BY <1>3, <1>5

LEMMA ErrorsAreRows == ASSUME NEW s \in States PROVE ParseErrors(s) \in Seq(Rows)
<1>1. s.active \in Disks /\ s.archive \in Disks
    BY DEF States
<1> DEFINE F(files, place) == {t \in Tasks : files[t].place = place /\ files[t].broken = "file"}
           A == F(s.active, "active")
           B == {t \in Tasks : s.active[t].broken = "worktree"}
           C == F(s.archive, "archived")
<1>2. A \in SUBSET Tasks /\ B \in SUBSET Tasks /\ C \in SUBSET Tasks
    OBVIOUS
<1>3. ParseErrors(s) = IF s.scope = "Active"
                       THEN BrokenOf(ById(A), "file") \o BrokenOf(ById(B), "worktree")
                       ELSE IF s.archiveLoaded THEN BrokenOf(ById(C), "archive") ELSE <<>>
    BY DEF ParseErrors
<1> HIDE DEF A, B, C
<1>4. ById(A) \in Seq(A) /\ ById(B) \in Seq(B) /\ ById(C) \in Seq(C)
    BY <1>1, <1>2, Orders
<1>5. /\ BrokenOf(ById(A), "file") \in Seq(Rows) /\ BrokenOf(ById(B), "worktree") \in Seq(Rows)
      /\ BrokenOf(ById(C), "archive") \in Seq(Rows)
    BY <1>2, <1>4, ItemsAreRows
<1>6. BrokenOf(ById(A), "file") \o BrokenOf(ById(B), "worktree") \in Seq(Rows)
    BY <1>5
<1>7. QED
    BY <1>3, <1>5, <1>6

LEMMA RowsAreSequence ==
    ASSUME NEW s \in States
    PROVE  /\ RowsShown(s) \in Seq(Rows) /\ VisibleItems(s) \in Seq(Rows)
           /\ RowCount(s) \in Nat /\ Len(VisibleItems(s)) \in Nat
           /\ Len(VisibleItems(s)) <= RowCount(s)
           /\ DOMAIN RowsShown(s) = 1 .. RowCount(s)
           /\ DOMAIN VisibleItems(s) = 1 .. Len(VisibleItems(s))
           /\ \A i \in 1 .. Len(VisibleItems(s)) : RowsShown(s)[i] = VisibleItems(s)[i]
<1> DEFINE V == VisibleItems(s)
           E == ParseErrors(s)
<1>1. V \in Seq(Rows) /\ E \in Seq(Rows)
    BY VisibleAreRows, ErrorsAreRows
<1>2. RowsShown(s) = V \o E
    BY DEF RowsShown
<1> HIDE DEF V, E
<1>3. /\ V \o E \in Seq(Rows) /\ Len(V \o E) = Len(V) + Len(E) /\ Len(V) \in Nat /\ Len(E) \in Nat
      /\ \A i \in 1 .. Len(V) : (V \o E)[i] = V[i]
    BY <1>1
<1>4. QED
    BY <1>1, <1>2, <1>3 DEF RowCount, V

LEMMA SameList ==
    ASSUME NEW s, NEW r, Listed(r) = Listed(s)
    PROVE  /\ RowsShown(r) = RowsShown(s) /\ VisibleItems(r) = VisibleItems(s)
           /\ RowCount(r) = RowCount(s)
           /\ SelectedIndex(r) = SelectedIndex(s) => SelectedRow(r) = SelectedRow(s)
<1>1. VisibleItems(r) = VisibleItems(s)
    BY DEF Listed, VisibleItems
<1>2. ParseErrors(r) = ParseErrors(s)
    BY DEF Listed, ParseErrors
<1>3. QED
    BY <1>1, <1>2 DEF RowsShown, RowCount, SelectedRow

----------------------------------------------------------------------------
(* Selection *)

InRange(s) == SelectedIndex(s) < RowCount(s) \/ (RowCount(s) = 0 /\ SelectedIndex(s) = 0)

\* From s to r the list stays; a scroll stays, or starts again.
Moved(s, r) == r \in States /\ Listed(r) = Listed(s) /\ r.scroll \in {s.scroll, 0}

\* And a row stays selected, the same if the scroll stays.
Steps(s, r) ==
    /\ Moved(s, r) /\ (InRange(s) => InRange(r))
    /\ r.scroll # 0 => SelectedIndex(r) = SelectedIndex(s)

LEMMA PutIndexGives ==
    ASSUME NEW s \in States, NEW i \in Nat
    PROVE  /\ Moved(s, PutIndex(s, i)) /\ PutIndex(s, i).scroll = s.scroll
           /\ SelectedIndex(PutIndex(s, i)) = i
<1>1. CASE s.scope = "Active"
  <2>1. PutIndex(s, i) = [s EXCEPT !.selected = i]
      BY <1>1 DEF PutIndex
  <2>2. PutIndex(s, i) \in States
      BY <2>1 DEF States
  <2>3. QED
      BY <1>1, <2>1, <2>2 DEF States, Moved, Listed, SelectedIndex
<1>2. CASE s.scope # "Active"
  <2>1. PutIndex(s, i) = [s EXCEPT !.selectedArchived = i]
      BY <1>2 DEF PutIndex
  <2>2. PutIndex(s, i) \in States
      BY <2>1 DEF States
  <2>3. QED
      BY <1>2, <2>1, <2>2 DEF States, Moved, Listed, SelectedIndex
<1>3. QED
    BY <1>1, <1>2

LEMMA ResetGives ==
    ASSUME NEW s \in States
    PROVE  LET r == ResetPreviewScroll(s) IN
           Moved(s, r) /\ r.scroll = 0 /\ SelectedIndex(r) = SelectedIndex(s)
<1>1. Unmeasured \in 0 .. Unmeasured /\ 0 \in 0 .. Unmeasured
    BY OverviewConstants DEF Unmeasured
<1>2. ResetPreviewScroll(s) \in States
    BY <1>1 DEF ResetPreviewScroll, States
<1>3. QED
    BY <1>2 DEF ResetPreviewScroll, States, Moved, Listed, SelectedIndex

LEMMA IndexIsNatural == ASSUME NEW s \in States PROVE SelectedIndex(s) \in Nat
BY DEF States, SelectedIndex

LEMMA SetIndexGives ==
    ASSUME NEW s \in States, NEW i \in Nat
    PROVE  LET r == SetScopeIndex(s, i) IN
           Moved(s, r) /\ SelectedIndex(r) = i /\ (r.scroll # 0 => SelectedIndex(s) = i)
<1>1. CASE SelectedIndex(s) = i
    BY <1>1, PutIndexGives DEF SetScopeIndex
<1>2. CASE SelectedIndex(s) # i
  <2> DEFINE t == ResetPreviewScroll(s)
  <2>1. t \in States /\ Listed(t) = Listed(s) /\ t.scroll = 0
      BY ResetGives DEF Moved
  <2>2. SetScopeIndex(s, i) = PutIndex(t, i)
      BY <1>2 DEF SetScopeIndex
  <2> HIDE DEF t
  <2>3. QED
      BY <2>1, <2>2, PutIndexGives DEF Moved
<1>3. QED
    BY <1>1, <1>2

LEMMA ClampGives ==
    ASSUME NEW s \in States
    PROVE  LET r == ClampSelection(s) IN
           /\ Moved(s, r) /\ InRange(r) /\ r.scroll = s.scroll
           /\ SelectedIndex(s) < RowCount(s) => SelectedIndex(r) = SelectedIndex(s)
<1>1. RowCount(s) \in Nat /\ SelectedIndex(s) \in Nat /\ Moved(s, s)
    BY RowsAreSequence, IndexIsNatural DEF Moved
<1>2. CASE RowCount(s) = 0
  <2>1. ClampSelection(s) = PutIndex(s, 0)
      BY <1>2 DEF ClampSelection
  <2>2. QED
      BY <1>1, <1>2, <2>1, PutIndexGives, SameList DEF InRange, Moved
<1>3. CASE RowCount(s) # 0 /\ SelectedIndex(s) >= RowCount(s)
  <2> DEFINE last == RowCount(s) - 1
             r == PutIndex(s, last)
  <2>1. ClampSelection(s) = r /\ last \in Nat /\ last < RowCount(s)
      BY <1>1, <1>3 DEF ClampSelection
  <2> HIDE DEF last
  <2>2. Moved(s, r) /\ r.scroll = s.scroll /\ SelectedIndex(r) = last
      BY <2>1, PutIndexGives
  <2>3. RowCount(r) = RowCount(s)
      BY <2>2, SameList DEF Moved
  <2> HIDE DEF r
  <2>4. QED
      BY <1>1, <1>3, <2>1, <2>2, <2>3 DEF InRange
<1>4. CASE RowCount(s) # 0 /\ SelectedIndex(s) < RowCount(s)
  <2>1. ClampSelection(s) = s
      BY <1>1, <1>4 DEF ClampSelection
  <2>2. QED
      BY <1>1, <1>4, <2>1 DEF InRange
<1>5. QED
    BY <1>1, <1>2, <1>3, <1>4

\* Wherever the task's row is, it is selected.
LEMMA RestoreGives ==
    ASSUME NEW s \in States, NEW row
    PROVE  LET r == RestoreSelectedPath(s, row) IN
           /\ Moved(s, r) /\ InRange(r)
           /\ row # NoRow /\ Stays(s, row) => SelectedRow(r).task = row.task
<1> DEFINE found == IF row = NoRow THEN {} ELSE Restores(s, row)
           i == (CHOOSE j \in found : TRUE) - 1
           t == IF found = {} THEN s ELSE SetScopeIndex(s, i)
           r == RestoreSelectedPath(s, row)
<1>1. r = ClampSelection(t)
    BY DEF RestoreSelectedPath
<1>2. DOMAIN RowsShown(s) = 1 .. RowCount(s) /\ RowCount(s) \in Nat
    BY RowsAreSequence
<1>3. \A j \in found : j \in 1 .. RowCount(s) /\ RowsShown(s)[j].task = row.task
    BY <1>2 DEF Restores
<1>4. found # {} => i \in Nat /\ i < RowCount(s) /\ RowsShown(s)[i + 1].task = row.task
  <2>1. found # {} => (CHOOSE j \in found : TRUE) \in found
      OBVIOUS
  <2>2. QED
      BY <1>2, <1>3, <2>1
<1>5. row # NoRow /\ Stays(s, row) => found # {}
  <2> SUFFICES ASSUME row # NoRow, Stays(s, row) PROVE Restores(s, row) # {}
      OBVIOUS
  <2>1. PICK j \in DOMAIN RowsShown(s) :
            /\ RowsShown(s)[j].task = row.task
            /\ RowsShown(s)[j].broken => RowsShown(s)[j].at = row.at
      BY DEF Stays
  <2>2. CASE ~RowsShown(s)[j].broken
      BY <2>1, <2>2 DEF Restores
  <2>3. CASE RowsShown(s)[j].broken
      BY <2>1, <2>3 DEF Restores
  <2>4. QED
      BY <2>2, <2>3
<1> HIDE DEF found, i
<1>6. CASE found = {}
  <2>1. t = s
      BY <1>6
  <2>2. QED
      BY <1>1, <1>5, <1>6, <2>1, ClampGives
<1>7. CASE found # {}
  <2>1. t \in States /\ Moved(s, t) /\ SelectedIndex(t) = i
      BY <1>4, <1>7, SetIndexGives DEF Moved
  <2>2. RowCount(t) = RowCount(s) /\ RowsShown(t) = RowsShown(s)
      BY <2>1, SameList DEF Moved
  <2> HIDE DEF t
  <2>3. Moved(t, r) /\ InRange(r) /\ SelectedIndex(r) = i
      BY <1>1, <1>4, <1>7, <2>1, <2>2, ClampGives
  <2>4. Moved(s, r)
      BY <2>1, <2>3 DEF Moved
  <2>5. RowsShown(r) = RowsShown(s)
      BY <2>4, SameList DEF Moved
  <2>6. Len(RowsShown(s)) = RowCount(s)
      BY DEF RowCount
  <2>7. SelectedRow(r) = RowsShown(s)[i + 1]
      BY <1>4, <1>7, <2>3, <2>5, <2>6 DEF SelectedRow, RowAt
  <2>8. QED
      BY <1>4, <1>7, <2>3, <2>4, <2>7
<1>8. QED
    BY <1>6, <1>7

LEMMA SetIndexSteps ==
    ASSUME NEW s \in States, NEW i \in Nat, i < RowCount(s) \/ (RowCount(s) = 0 /\ i = 0)
    PROVE  Steps(s, SetScopeIndex(s, i))
<1> DEFINE r == SetScopeIndex(s, i)
<1>1. Moved(s, r) /\ SelectedIndex(r) = i /\ (r.scroll # 0 => SelectedIndex(s) = i)
    BY SetIndexGives
<1>2. RowCount(r) = RowCount(s)
    BY <1>1, SameList DEF Moved
<1> HIDE DEF r
<1>3. Steps(s, r)
    BY <1>1, <1>2 DEF Steps, InRange
<1>4. QED
    BY <1>3 DEF r

LEMMA NoStep == ASSUME NEW s \in States PROVE Steps(s, s)
BY DEF Steps, Moved

LEMMA KeysStep ==
    ASSUME NEW s \in States, InRange(s)
    PROVE  /\ Steps(s, SelectNext(s)) /\ Steps(s, SelectPrevious(s))
           /\ Steps(s, SelectFirst(s)) /\ Steps(s, SelectLast(s))
           /\ \A i \in Nat : Steps(s, SelectRow(s, i))
           /\ \A t \in Tasks : Steps(s, SelectTask(s, t))
<1>1. RowCount(s) \in Nat /\ SelectedIndex(s) \in Nat /\ Steps(s, s)
    BY RowsAreSequence, IndexIsNatural, NoStep
<1>2. Steps(s, SelectNext(s)) /\ Steps(s, SelectLast(s)) /\ Steps(s, SelectFirst(s))
    BY <1>1, SetIndexSteps DEF SelectNext, SelectLast, SelectFirst
<1>3. Steps(s, SelectPrevious(s))
    BY <1>1, SetIndexSteps DEF SelectPrevious, InRange
<1>4. ASSUME NEW i \in Nat PROVE Steps(s, SelectRow(s, i))
    BY <1>1, SetIndexSteps DEF SelectRow
<1>5. ASSUME NEW t \in Tasks PROVE Steps(s, SelectTask(s, t))
  <2> DEFINE found == {i \in DOMAIN VisibleItems(s) : VisibleItems(s)[i].task = t}
             c == CHOOSE i \in found : TRUE
  <2>1. SelectTask(s, t) = IF found = {} THEN s ELSE SetScopeIndex(s, c - 1)
      BY DEF SelectTask
  <2>2. found # {} => c \in DOMAIN VisibleItems(s)
      OBVIOUS
  <2> HIDE DEF found, c
  <2>3. found # {} => c - 1 \in Nat /\ c - 1 < RowCount(s)
      BY <2>2, RowsAreSequence
  <2>4. QED
      BY <1>1, <2>1, <2>3, SetIndexSteps
<1>6. QED
    BY <1>2, <1>3, <1>4, <1>5

----------------------------------------------------------------------------
(* The state of an overview *)

Good(s) ==
    /\ s \in States /\ InRange(s)
    /\ s.archiveLoaded => s.archiveVersion >= s.activeVersion
    /\ s.scope = "Archived" => s.archiveLoaded
    /\ s.focus => s.scope = "Active"
    /\ ~s.open => s.scroll = 0

LEMMA StepsKeepGood ==
    ASSUME NEW s, NEW r, Good(s), Steps(s, r)
    PROVE  /\ Good(r) /\ Listed(r) = Listed(s)
           /\ r.scroll # 0 => SelectedRow(r) = SelectedRow(s)
BY SameList DEF Good, Steps, Moved, Listed

\* Any move of the selection, then a preview from its top.
LEMMA RestartsAreGood ==
    ASSUME NEW s \in States, NEW r, Moved(s, r), InRange(r),
           s.archiveLoaded => s.archiveVersion >= s.activeVersion,
           s.scope = "Archived" => s.archiveLoaded,
           s.focus => s.scope = "Active"
    PROVE  LET t == ResetPreviewScroll(r) IN
           /\ Good(t) /\ Listed(t) = Listed(s) /\ t.scroll = 0
           /\ RowsShown(t) = RowsShown(s) /\ SelectedRow(t) = SelectedRow(r)
<1> DEFINE t == ResetPreviewScroll(r)
<1>1. r \in States /\ Listed(r) = Listed(s)
    BY DEF Moved
<1>2. t \in States /\ Listed(t) = Listed(r) /\ t.scroll = 0 /\ SelectedIndex(t) = SelectedIndex(r)
    BY <1>1, ResetGives DEF Moved
<1> HIDE DEF t
<1>3. RowsShown(t) = RowsShown(s) /\ RowCount(t) = RowCount(r) /\ SelectedRow(t) = SelectedRow(r)
  <2>1. Listed(t) = Listed(s)
      BY <1>1, <1>2
  <2>2. QED
      BY <1>2, <2>1, SameList
<1>4. InRange(t)
    BY <1>2, <1>3 DEF InRange
<1>5. Good(t)
    BY <1>1, <1>2, <1>4 DEF Good, Listed
<1>6. QED
    BY <1>1, <1>2, <1>3, <1>5 DEF t

LEMMA FocusGives ==
    ASSUME NEW s, Good(s), NEW enabled \in BOOLEAN
    PROVE  LET r == SetAttentionFocus(s, enabled) IN
           /\ Good(r) /\ r.scroll = 0 /\ r.scope = "Active" /\ r.focus = enabled
           /\ r.activeVersion = s.activeVersion /\ r.archiveVersion = s.archiveVersion
           /\ SelectedRow(s) # NoRow /\ Stays(r, SelectedRow(s)) =>
                 SelectedRow(r).task = SelectedRow(s).task
<1> DEFINE u == [s EXCEPT !.scope = "Active", !.focus = enabled]
           v == RestoreSelectedPath(u, SelectedRow(s))
           r == SetAttentionFocus(s, enabled)
<1>1. /\ u \in States /\ u.scope = "Active" /\ u.focus = enabled
      /\ u.archiveLoaded => u.archiveVersion >= u.activeVersion
      /\ u.activeVersion = s.activeVersion /\ u.archiveVersion = s.archiveVersion
    BY DEF Good, States
<1>2. r = ResetPreviewScroll(v)
    BY DEF SetAttentionFocus
<1> HIDE DEF u
<1>3. /\ Moved(u, v) /\ InRange(v)
      /\ SelectedRow(s) # NoRow /\ Stays(u, SelectedRow(s)) =>
            SelectedRow(v).task = SelectedRow(s).task
    BY <1>1, RestoreGives
<1> HIDE DEF v, r
<1>4. /\ Good(r) /\ Listed(r) = Listed(u) /\ r.scroll = 0
      /\ RowsShown(r) = RowsShown(u) /\ SelectedRow(r) = SelectedRow(v)
    BY <1>1, <1>2, <1>3, RestartsAreGood
<1>5. Stays(r, SelectedRow(s)) <=> Stays(u, SelectedRow(s))
    BY <1>4 DEF Stays
<1>6. /\ r.scope = "Active" /\ r.focus = enabled
      /\ r.activeVersion = s.activeVersion /\ r.archiveVersion = s.archiveVersion
    BY <1>1, <1>4 DEF Listed
<1>7. QED
    BY <1>3, <1>4, <1>5, <1>6 DEF r

LEMMA NoFilesIsDisk == ASSUME NEW files \in Disks PROVE NoFiles \in Disks
<1>1. ASSUME NEW t \in Tasks PROVE NoFiles[t] \in Files
  <2>1. \E x \in Stages : TRUE
      BY DEF Disks, Files
  <2>2. QED
      BY <2>1 DEF NoFiles, Files
<1>2. QED
    BY <1>1 DEF NoFiles, Disks

\* An archive is read now or was read since the last reload.
LEMMA EnsureGives ==
    ASSUME NEW s \in States, NEW files \in Disks, NEW version \in Nat, NEW fault \in BOOLEAN,
           s.activeVersion <= version, s.archiveLoaded => s.archiveVersion >= s.activeVersion
    PROVE  LET r == EnsureArchiveLoaded(s, files, version, fault) IN
           /\ r \in States /\ r.archiveLoaded /\ r.archiveVersion >= r.activeVersion
           /\ r.activeVersion = s.activeVersion
           /\ r.archiveVersion \in {s.archiveVersion, version}
           /\ r.focus = s.focus /\ r.selected = s.selected
           /\ r.scroll = s.scroll /\ r.open = s.open
<1> DEFINE files2 == IF fault THEN NoFiles ELSE files
<1>1. files2 \in Disks
    BY NoFilesIsDisk
<1> HIDE DEF files2
<1>2. CASE s.archiveLoaded
    BY <1>2 DEF EnsureArchiveLoaded
<1>3. CASE ~s.archiveLoaded
  <2> DEFINE r == [s EXCEPT !.archive = files2, !.archiveVersion = version,
                            !.archiveError = fault, !.archiveLoaded = TRUE]
  <2>1. EnsureArchiveLoaded(s, files, version, fault) = r
      BY <1>3 DEF EnsureArchiveLoaded, files2
  <2>2. r \in States
      BY <1>1 DEF States
  <2>3. QED
      BY <2>1, <2>2 DEF States
<1>4. QED
    BY <1>2, <1>3

LEMMA ToggleScopeGives ==
    ASSUME NEW s, Good(s), NEW files \in Disks, NEW version \in Nat, NEW fault \in BOOLEAN,
           s.activeVersion <= version, s.archiveVersion <= version
    PROVE  LET r == ToggleScope(s, files, version, fault) IN
           /\ Good(r) /\ r.scroll = 0 /\ r.scope # s.scope
           /\ r.activeVersion <= version /\ r.archiveVersion <= version
<1> DEFINE all == IF s.focus THEN SetAttentionFocus(s, FALSE) ELSE s
           ready == EnsureArchiveLoaded(all, files, version, fault)
           u == IF all.scope = "Active" THEN [ready EXCEPT !.scope = "Archived"]
                ELSE [all EXCEPT !.scope = "Active"]
           v == ClampSelection(u)
           r == ToggleScope(s, files, version, fault)
<1>1. /\ Good(all) /\ ~all.focus /\ all.scope = s.scope
      /\ all.activeVersion = s.activeVersion /\ all.archiveVersion = s.archiveVersion
  <2>1. CASE s.focus
      BY <2>1, FocusGives DEF Good
  <2>2. CASE ~s.focus
      BY <2>2
  <2>3. QED
      BY <2>1, <2>2
<1>2. r = ResetPreviewScroll(v)
    BY DEF ToggleScope
<1> HIDE DEF all
<1>3. /\ ready \in States /\ ready.archiveLoaded /\ ready.archiveVersion >= ready.activeVersion
      /\ ready.activeVersion = all.activeVersion
      /\ ready.archiveVersion \in {all.archiveVersion, version} /\ ready.focus = all.focus
    BY <1>1, EnsureGives DEF Good
<1> HIDE DEF ready
<1>4. /\ u \in States /\ u.scope # s.scope /\ ~u.focus
      /\ u.archiveLoaded => u.archiveVersion >= u.activeVersion
      /\ u.scope = "Archived" => u.archiveLoaded
      /\ u.activeVersion <= version /\ u.archiveVersion <= version
  <2>1. CASE all.scope = "Active"
    <3>1. u = [ready EXCEPT !.scope = "Archived"]
        BY <2>1
    <3>2. u \in States /\ u.scope = "Archived"
        BY <1>3, <3>1 DEF States
    <3>3. QED
        BY <1>1, <1>3, <2>1, <3>1, <3>2 DEF States
  <2>2. CASE all.scope # "Active"
    <3>1. u = [all EXCEPT !.scope = "Active"] /\ all \in States
        BY <1>1, <2>2 DEF Good
    <3>2. u \in States /\ u.scope = "Active"
        BY <3>1 DEF States
    <3>3. QED
        BY <1>1, <2>2, <3>1, <3>2 DEF States, Good
  <2>3. QED
      BY <2>1, <2>2
<1> HIDE DEF u
<1>5. Moved(u, v) /\ InRange(v)
    BY <1>4, ClampGives
<1> HIDE DEF v, r
<1>6. Good(r) /\ Listed(r) = Listed(u) /\ r.scroll = 0
    BY <1>2, <1>4, <1>5, RestartsAreGood
<1>7. QED
    BY <1>4, <1>6 DEF Listed, r

LEMMA SortGives ==
    ASSUME NEW s, Good(s), ~s.open
    PROVE  LET r == CycleSortMode(s) IN
           /\ Good(r) /\ r.scroll = 0
           /\ r.activeVersion = s.activeVersion /\ r.archiveVersion = s.archiveVersion
           /\ SelectedRow(s) # NoRow /\ Stays(r, SelectedRow(s)) =>
                 SelectedRow(r).task = SelectedRow(s).task
<1> DEFINE u == [s EXCEPT !.sort = IF s.sort = "Id" THEN "Status" ELSE "Id"]
           r == CycleSortMode(s)
<1>1. /\ u \in States /\ u.scroll = 0 /\ ~u.open
      /\ u.archiveLoaded => u.archiveVersion >= u.activeVersion
      /\ u.scope = "Archived" => u.archiveLoaded
      /\ u.focus => u.scope = "Active"
      /\ u.activeVersion = s.activeVersion /\ u.archiveVersion = s.archiveVersion
    BY DEF Good, States
<1>2. r = RestoreSelectedPath(u, SelectedRow(s))
    BY DEF CycleSortMode
<1> HIDE DEF u
<1>3. /\ Moved(u, r) /\ InRange(r)
      /\ SelectedRow(s) # NoRow /\ Stays(u, SelectedRow(s)) =>
            SelectedRow(r).task = SelectedRow(s).task
    BY <1>1, <1>2, RestoreGives
<1> HIDE DEF r
<1>4. r \in States /\ Listed(r) = Listed(u) /\ r.scroll = 0 /\ RowsShown(r) = RowsShown(u)
    BY <1>1, <1>3, SameList DEF Moved
<1>5. Good(r) /\ r.activeVersion = s.activeVersion /\ r.archiveVersion = s.archiveVersion
    BY <1>1, <1>3, <1>4 DEF Good, Listed
<1>6. Stays(r, SelectedRow(s)) <=> Stays(u, SelectedRow(s))
    BY <1>4 DEF Stays
<1>7. QED
    BY <1>3, <1>4, <1>5, <1>6 DEF r

LEMMA InstallGives ==
    ASSUME NEW s, Good(s), s.scope = "Active", NEW files \in Disks, NEW version \in Nat
    PROVE  LET r == InstallIndex(s, files, version) IN
           /\ Good(r) /\ r.scroll = 0
           /\ r.activeVersion = version /\ r.archiveVersion = s.archiveVersion
           /\ SelectedRow(s) # NoRow /\ Stays(r, SelectedRow(s)) =>
                 SelectedRow(r).task = SelectedRow(s).task
<1> DEFINE u == [s EXCEPT !.active = files, !.activeVersion = version, !.archive = NoFiles,
                          !.archiveLoaded = FALSE, !.archiveError = FALSE]
           v == RestoreSelectedPath(u, SelectedRow(s))
           r == InstallIndex(s, files, version)
<1>1. NoFiles \in Disks
    BY NoFilesIsDisk
<1>2. /\ u \in States /\ ~u.archiveLoaded /\ u.scope = "Active"
      /\ u.activeVersion = version /\ u.archiveVersion = s.archiveVersion
    BY <1>1 DEF Good, States
<1>3. r = ResetPreviewScroll(v)
    BY DEF InstallIndex
<1> HIDE DEF u
<1>4. /\ Moved(u, v) /\ InRange(v)
      /\ SelectedRow(s) # NoRow /\ Stays(u, SelectedRow(s)) =>
            SelectedRow(v).task = SelectedRow(s).task
    BY <1>2, RestoreGives
<1> HIDE DEF v, r
<1>5. /\ Good(r) /\ Listed(r) = Listed(u) /\ r.scroll = 0
      /\ RowsShown(r) = RowsShown(u) /\ SelectedRow(r) = SelectedRow(v)
    BY <1>2, <1>3, <1>4, RestartsAreGood
<1>6. Stays(r, SelectedRow(s)) <=> Stays(u, SelectedRow(s))
    BY <1>5 DEF Stays
<1>7. r.activeVersion = version /\ r.archiveVersion = s.archiveVersion
    BY <1>2, <1>5 DEF Listed
<1>8. QED
    BY <1>4, <1>5, <1>6, <1>7 DEF r

LEMMA InstallBothGives ==
    ASSUME NEW s, Good(s), NEW files \in Disks, NEW version \in Nat,
           NEW archive \in Disks, NEW archiveVersion \in Nat, version <= archiveVersion
    PROVE  LET r == InstallBoth(s, files, version, archive, archiveVersion) IN
           /\ Good(r) /\ r.scroll = 0
           /\ r.activeVersion = version /\ r.archiveVersion = archiveVersion
           /\ SelectedRow(s) # NoRow /\ Stays(r, SelectedRow(s)) =>
                 SelectedRow(r).task = SelectedRow(s).task
<1> DEFINE u == [s EXCEPT !.active = files, !.activeVersion = version, !.archive = archive,
                          !.archiveVersion = archiveVersion, !.archiveLoaded = TRUE,
                          !.archiveError = FALSE]
           v == RestoreSelectedPath(u, SelectedRow(s))
           r == InstallBoth(s, files, version, archive, archiveVersion)
<1>1. /\ u \in States /\ u.archiveLoaded /\ (u.focus => u.scope = "Active")
      /\ u.activeVersion = version /\ u.archiveVersion = archiveVersion
    BY DEF Good, States
<1>2. r = ResetPreviewScroll(v)
    BY DEF InstallBoth
<1> HIDE DEF u
<1>3. /\ Moved(u, v) /\ InRange(v)
      /\ SelectedRow(s) # NoRow /\ Stays(u, SelectedRow(s)) =>
            SelectedRow(v).task = SelectedRow(s).task
    BY <1>1, RestoreGives
<1> HIDE DEF v, r
<1>4. /\ Good(r) /\ Listed(r) = Listed(u) /\ r.scroll = 0
      /\ RowsShown(r) = RowsShown(u) /\ SelectedRow(r) = SelectedRow(v)
    BY <1>1, <1>2, <1>3, RestartsAreGood
<1>5. Stays(r, SelectedRow(s)) <=> Stays(u, SelectedRow(s))
    BY <1>4 DEF Stays
<1>6. r.activeVersion = version /\ r.archiveVersion = archiveVersion
    BY <1>1, <1>4 DEF Listed
<1>7. QED
    BY <1>3, <1>4, <1>5, <1>6 DEF r

----------------------------------------------------------------------------
(* The preview *)

\* Only the preview is another: its offset, or how long it is.
LEMMA ScrolledIsGood ==
    ASSUME NEW s, Good(s), NEW r \in States, Listed(r) = Listed(s),
           r.selected = s.selected, r.selectedArchived = s.selectedArchived,
           ~r.open => r.scroll = 0
    PROVE  Good(r) /\ SelectedRow(r) = SelectedRow(s)
<1>1. SelectedIndex(r) = SelectedIndex(s)
    BY DEF SelectedIndex, Listed
<1>2. RowCount(r) = RowCount(s) /\ SelectedRow(r) = SelectedRow(s)
    BY <1>1, SameList
<1>3. QED
    BY <1>1, <1>2 DEF Good, InRange, Listed

LEMMA OffsetsGive ==
    ASSUME NEW s, Good(s), s.open, NEW n \in 0 .. Unmeasured
    PROVE  LET r == [s EXCEPT !.scroll = n] IN
           Good(r) /\ SelectedRow(r) = SelectedRow(s) /\ Listed(r) = Listed(s)
<1> DEFINE r == [s EXCEPT !.scroll = n]
<1>1. r \in States
    BY DEF Good, States
<1>2. /\ Listed(r) = Listed(s) /\ r.selected = s.selected
      /\ r.selectedArchived = s.selectedArchived /\ r.open
    BY DEF Good, States, Listed
<1> HIDE DEF r
<1>3. Good(r) /\ SelectedRow(r) = SelectedRow(s)
    BY <1>1, <1>2, ScrolledIsGood
<1>4. QED
    BY <1>2, <1>3 DEF r

LEMMA ScrollsGive ==
    ASSUME NEW s, Good(s), s.open, NEW rows \in Nat,
           NEW r \in {ScrollUp(s, rows), ScrollDown(s, rows), ScrollToTop(s), ScrollToBottom(s)}
    PROVE  Good(r) /\ SelectedRow(r) = SelectedRow(s) /\ Listed(r) = Listed(s)
<1>1. Unmeasured \in Nat /\ s.scroll \in 0 .. Unmeasured /\ s.maxScroll \in 0 .. Unmeasured
    BY OverviewConstants DEF Unmeasured, Good, States
<1>2. PICK n \in 0 .. Unmeasured : r = [s EXCEPT !.scroll = n]
  <2>1. CASE r = ScrollUp(s, rows)
    <3> DEFINE from == AtMost(s.scroll, s.maxScroll)
               n == IF from > rows THEN from - rows ELSE 0
    <3>1. n \in 0 .. Unmeasured
        BY <1>1 DEF AtMost
    <3>2. QED
        BY <2>1, <3>1 DEF ScrollUp
  <2>2. CASE r = ScrollDown(s, rows)
    <3> DEFINE n == AtMost(AtMost(s.scroll, s.maxScroll) + rows, s.maxScroll)
    <3>1. n \in 0 .. Unmeasured
        BY <1>1 DEF AtMost
    <3>2. QED
        BY <2>2, <3>1 DEF ScrollDown
  <2>3. CASE r = ScrollToTop(s)
      BY <1>1, <2>3 DEF ScrollToTop
  <2>4. CASE r = ScrollToBottom(s)
      BY <1>1, <2>4 DEF ScrollToBottom
  <2>5. QED
      BY <2>1, <2>2, <2>3, <2>4
<1>3. QED
    BY <1>2, OffsetsGive

LEMMA ToggledIsGood ==
    ASSUME NEW s, Good(s)
    PROVE  LET r == TogglePreview(s) IN
           /\ Good(r) /\ r.scroll = 0 /\ r.sort = s.sort /\ r.focus = s.focus
           /\ r.activeVersion = s.activeVersion /\ r.archiveVersion = s.archiveVersion
<1> DEFINE u == [s EXCEPT !.open = ~s.open]
           r == TogglePreview(s)
<1>1. u \in States
    BY DEF Good, States
<1>2. /\ u.archiveLoaded => u.archiveVersion >= u.activeVersion
      /\ u.scope = "Archived" => u.archiveLoaded
      /\ u.focus => u.scope = "Active"
      /\ u.sort = s.sort /\ u.focus = s.focus
      /\ u.activeVersion = s.activeVersion /\ u.archiveVersion = s.archiveVersion
    BY DEF Good, States
<1>3. SelectedIndex(u) = SelectedIndex(s) /\ RowCount(u) = RowCount(s)
  <2>1. /\ u.active = s.active /\ u.archive = s.archive /\ u.archiveLoaded = s.archiveLoaded
        /\ u.scope = s.scope /\ u.selected = s.selected
        /\ u.selectedArchived = s.selectedArchived
      BY DEF Good, States
  <2> HIDE DEF u
  <2>2. VisibleItems(u) = VisibleItems(s) /\ ParseErrors(u) = ParseErrors(s)
      BY <1>2, <2>1 DEF VisibleItems, ParseErrors
  <2>3. QED
      BY <2>1, <2>2 DEF SelectedIndex, RowCount, RowsShown
<1>4. r = ResetPreviewScroll(u)
    BY DEF TogglePreview
<1> HIDE DEF u, r
<1>5. InRange(u) /\ Moved(u, u)
    BY <1>1, <1>3 DEF Good, InRange, Moved
<1>6. Good(r) /\ Listed(r) = Listed(u) /\ r.scroll = 0
    BY <1>1, <1>2, <1>4, <1>5, RestartsAreGood
<1>7. QED
    BY <1>2, <1>6 DEF Listed, r

----------------------------------------------------------------------------
(* The frame *)

Versioned(s) == s.activeVersion <= edits /\ s.archiveVersion <= edits

OverviewInv ==
    /\ disk \in Disks /\ edits \in 0 .. MaxEdits
    /\ pc \in {"draw", "drain", "archive", "input"}
    /\ read \in {NoRead} \cup [files : Disks, version : 0 .. edits]
    /\ pc = "archive" <=> read # NoRead
    /\ Good(o) /\ Versioned(o)
    /\ facts.offset \in Nat
    /\ candidate.task \in Tasks \cup {NoTask}
    /\ copied \in Tasks \cup {NoTask}
    /\ copied # NoTask => pc = "draw" /\ hit.selected.task = copied

\* The steps of the action properties.
RowKept == o'.scroll # 0 => SelectedRow(o') = SelectedRow(o)

Followed ==
    Rearranged => (SelectedRow(o) # NoRow /\ Stays(o', SelectedRow(o))
                      => SelectedRow(o').task = SelectedRow(o).task)

StepIsSound == OverviewInv' /\ RowKept /\ Followed

LEMMA Same == ASSUME o' = o PROVE RowKept /\ Followed
BY DEF RowKept, Followed, Rearranged

LEMMA EditsAreNumbers ==
    ASSUME OverviewInv
    PROVE  edits \in Nat /\ o \in States /\ Good(o) /\ disk \in Disks /\ Versioned(o) /\ InRange(o)
BY OverviewConstants DEF OverviewInv, Good

LEMMA PagesAreNumbers == PageSize(o) \in Nat
<1>1. RowHeight(o) \in {1, 2} /\ Height \in Nat
    BY OverviewConstants DEF RowHeight
<1>2. CASE RowHeight(o) = 1
    BY <1>1, <1>2 DEF PageSize
<1>3. CASE RowHeight(o) = 2
    BY <1>1, <1>3 DEF PageSize
<1>4. QED
    BY <1>1, <1>2, <1>3

LEMMA DrawIsSound == ASSUME OverviewInv, Draw PROVE StepIsSound
<1>1. /\ pc = "draw" /\ pc' = "drain" /\ copied' = NoTask
      /\ UNCHANGED <<disk, edits, read, candidate>>
      /\ facts' = [rows |-> RowsShown(o), offset |-> DrawnOffset(o)]
    BY DEF Draw
<1>2. facts'.offset \in Nat
  <2>1. SelectedIndex(o) \in Nat
      BY EditsAreNumbers, IndexIsNatural
  <2>2. PageSize(o) \in Nat
      BY PagesAreNumbers
  <2>3. DrawnOffset(o) \in Nat
      BY <2>1, <2>2 DEF DrawnOffset
  <2>4. QED
      BY <1>1, <2>3
<1>3. /\ Good(o') /\ SelectedRow(o') = SelectedRow(o) /\ Listed(o') = Listed(o)
      /\ (o' = o \/ o'.scope = o.scope)
  <2>1. CASE o' = o
      BY <2>1, EditsAreNumbers
  <2>2. ASSUME NEW m \in 0 .. MaxScroll, o' = [o EXCEPT !.maxScroll = m]
        PROVE  Good(o') /\ SelectedRow(o') = SelectedRow(o) /\ Listed(o') = Listed(o)
    <3>1. m \in 0 .. Unmeasured
        BY OverviewConstants DEF Unmeasured
    <3>2. o' \in States
        BY <2>2, <3>1, EditsAreNumbers DEF States
    <3>3. /\ Listed(o') = Listed(o) /\ o'.selected = o.selected
          /\ o'.selectedArchived = o.selectedArchived /\ (~o'.open => o'.scroll = 0)
        BY <2>2, EditsAreNumbers DEF Good, States, Listed
    <3>4. QED
        BY <3>2, <3>3, EditsAreNumbers, ScrolledIsGood
  <2>3. QED
      BY <2>1, <2>2 DEF Draw, Listed
<1>4. OverviewInv'
    BY <1>1, <1>2, <1>3 DEF OverviewInv, Versioned, Listed
<1>5. RowKept /\ Followed
    BY <1>3 DEF RowKept, Followed
<1>6. QED
    BY <1>4, <1>5 DEF StepIsSound

LEMMA ReloadReadsIsSound == ASSUME OverviewInv, ReloadReads PROVE StepIsSound
<1>1. pc = "drain" /\ UNCHANGED <<disk, edits, facts, candidate, copied, hit>>
    BY DEF ReloadReads
<1>2. copied = NoTask /\ read = NoRead
    BY <1>1 DEF OverviewInv
<1>3. CASE o.scope = "Active"
  <2>1. o' = InstallIndex(o, disk, edits) /\ pc' = pc /\ read' = read
      BY <1>3 DEF ReloadReads
  <2>2. /\ Good(o') /\ o'.scroll = 0 /\ o'.activeVersion = edits
        /\ o'.archiveVersion = o.archiveVersion
        /\ SelectedRow(o) # NoRow /\ Stays(o', SelectedRow(o)) =>
              SelectedRow(o').task = SelectedRow(o).task
      BY <1>3, <2>1, EditsAreNumbers, InstallGives
  <2>3. OverviewInv'
      BY <1>1, <1>2, <2>1, <2>2, EditsAreNumbers DEF OverviewInv, Versioned
  <2>4. QED
      BY <2>2, <2>3 DEF StepIsSound, RowKept, Followed
<1>4. CASE o.scope # "Active"
  <2>1. read' = [files |-> disk, version |-> edits] /\ pc' = "archive" /\ o' = o
      BY <1>4 DEF ReloadReads
  <2>2. read' \in [files : Disks, version : 0 .. edits] /\ read' # NoRead
    <3>1. disk \in Disks /\ edits \in Nat
        BY EditsAreNumbers
    <3>2. read' \in [files : Disks, version : 0 .. edits] /\ read' \in [files : Disks, version : Nat]
        BY <2>1, <3>1
    <3>3. QED
        BY <3>2, NoReadIsNone
  <2>3. OverviewInv'
      BY <1>1, <1>2, <2>1, <2>2 DEF OverviewInv, Versioned
  <2>4. QED
      BY <2>1, <2>3, Same DEF StepIsSound
<1>5. QED
    BY <1>3, <1>4

LEMMA ReloadArchiveIsSound == ASSUME OverviewInv, ReloadArchive PROVE StepIsSound
<1>1. /\ pc = "archive" /\ pc' = "drain" /\ read' = NoRead
      /\ o' = InstallBoth(o, read.files, read.version, disk, edits)
      /\ UNCHANGED <<disk, edits, facts, candidate, copied, hit>>
    BY DEF ReloadArchive
<1>2. read.files \in Disks /\ read.version \in Nat /\ read.version <= edits /\ copied = NoTask
    BY <1>1, EditsAreNumbers DEF OverviewInv
<1>3. /\ Good(o') /\ o'.scroll = 0 /\ o'.activeVersion = read.version /\ o'.archiveVersion = edits
      /\ SelectedRow(o) # NoRow /\ Stays(o', SelectedRow(o)) =>
            SelectedRow(o').task = SelectedRow(o).task
    BY <1>1, <1>2, EditsAreNumbers, InstallBothGives
<1>4. OverviewInv'
    BY <1>1, <1>2, <1>3, EditsAreNumbers DEF OverviewInv, Versioned
<1>5. QED
    BY <1>3, <1>4 DEF StepIsSound, RowKept, Followed

LEMMA ReloadArchiveFailsIsSound == ASSUME OverviewInv, ReloadArchiveFails PROVE StepIsSound
<1>1. /\ pc = "archive" /\ pc' = "drain" /\ read' = NoRead
      /\ o' = [o EXCEPT !.archiveError = TRUE]
      /\ UNCHANGED <<disk, edits, facts, candidate, copied, hit>>
    BY DEF ReloadArchiveFails
<1>2. o' \in States
    BY <1>1, EditsAreNumbers DEF States
<1>3. /\ Listed(o') = Listed(o) /\ o'.selected = o.selected
      /\ o'.selectedArchived = o.selectedArchived /\ (~o'.open => o'.scroll = 0)
    BY <1>1, EditsAreNumbers DEF Good, States, Listed
<1>4. Good(o') /\ SelectedRow(o') = SelectedRow(o)
    BY <1>2, <1>3, EditsAreNumbers, ScrolledIsGood
<1>5. copied = NoTask
    BY <1>1 DEF OverviewInv
<1>6. OverviewInv'
    BY <1>1, <1>3, <1>4, <1>5 DEF OverviewInv, Versioned, Listed
<1>7. QED
    BY <1>4, <1>6 DEF StepIsSound, RowKept, Followed

LEMMA PollIsSound == ASSUME OverviewInv, Poll PROVE StepIsSound
<1>1. /\ pc = "drain" /\ pc' = "input" /\ o' = o
      /\ UNCHANGED <<disk, edits, read, facts, candidate, copied, hit>>
    BY DEF Poll
<1>2. OverviewInv'
    BY <1>1 DEF OverviewInv, Versioned
<1>3. QED
    BY <1>1, <1>2, Same DEF StepIsSound

LEMMA EditIsSound ==
    ASSUME OverviewInv, NEW t \in Tasks, NEW file \in Contents, Edit(t, file)
    PROVE  StepIsSound
<1>1. /\ edits < MaxEdits /\ edits' = edits + 1 /\ disk' = [disk EXCEPT ![t] = file]
      /\ UNCHANGED <<pc, read, o, facts, candidate, copied, hit>>
    BY DEF Edit
<1>2. edits \in Nat /\ edits' \in 0 .. MaxEdits /\ edits' \in Nat
    BY <1>1, EditsAreNumbers, OverviewConstants
<1>3. disk' \in Disks
    BY <1>1, EditsAreNumbers, ContentsAreFiles DEF Disks
<1>4. read' \in {NoRead} \cup [files : Disks, version : 0 .. edits']
  <2>1. 0 .. edits \subseteq 0 .. edits'
      BY <1>1, <1>2
  <2>2. QED
      BY <1>1, <2>1 DEF OverviewInv
<1>5. o'.activeVersion <= edits' /\ o'.archiveVersion <= edits'
  <2>1. o.activeVersion \in Nat /\ o.archiveVersion \in Nat
      BY EditsAreNumbers DEF States
  <2>2. o.activeVersion <= edits /\ o.archiveVersion <= edits
      BY EditsAreNumbers DEF OverviewInv, Versioned
  <2>3. QED
      BY <1>1, <1>2, <2>1, <2>2
<1>6. OverviewInv'
    BY <1>1, <1>2, <1>3, <1>4, <1>5 DEF OverviewInv, Versioned
<1>7. QED
    BY <1>1, <1>6, Same DEF StepIsSound

----------------------------------------------------------------------------
(* Input *)

\* What a key or click may make of the overview.
Answers(r) ==
    /\ Good(r) /\ Versioned(r)
    /\ r.scroll # 0 => SelectedRow(r) = SelectedRow(o)
    /\ r.scope = o.scope /\ (r.sort # o.sort \/ r.focus # o.focus) =>
          (SelectedRow(o) # NoRow /\ Stays(r, SelectedRow(o)) =>
              SelectedRow(r).task = SelectedRow(o).task)

LEMMA InputIsSound ==
    ASSUME OverviewInv, NEW r, Input(r), Answers(r),
           candidate'.task \in Tasks \cup {NoTask}, copied' \in Tasks \cup {NoTask},
           copied' # NoTask => hit'.selected.task = copied'
    PROVE  StepIsSound
<1>1. /\ pc = "input" /\ pc' = "draw" /\ o' = r /\ facts' = NoFacts
      /\ UNCHANGED <<disk, edits, read>>
    BY DEF Input
<1>2. facts'.offset \in Nat
    BY <1>1 DEF NoFacts
<1>3. OverviewInv'
    BY <1>1, <1>2 DEF OverviewInv, Answers, Versioned
<1>4. RowKept /\ Followed
    BY <1>1 DEF RowKept, Followed, Rearranged, Answers
<1>5. QED
    BY <1>3, <1>4 DEF StepIsSound

LEMMA KeyIsSound == ASSUME OverviewInv, NEW r, Key(r), Answers(r) PROVE StepIsSound
<1>1. Input(r) /\ UNCHANGED <<candidate, copied, hit>> /\ pc = "input"
    BY DEF Key, Input
<1>2. copied = NoTask /\ candidate.task \in Tasks \cup {NoTask}
    BY <1>1 DEF OverviewInv
<1>3. QED
    BY <1>1, <1>2, InputIsSound

LEMMA StepsAnswer == ASSUME OverviewInv, NEW r, Steps(o, r) PROVE Answers(r)
BY EditsAreNumbers, StepsKeepGood DEF Answers, Versioned, Listed

LEMMA MovesAnswer ==
    ASSUME OverviewInv
    PROVE  /\ Answers(o)
           /\ Answers(SelectNext(o)) /\ Answers(SelectPrevious(o))
           /\ Answers(SelectFirst(o)) /\ Answers(SelectLast(o))
           /\ \A t \in Tasks : Answers(SelectTask(o, t))
BY EditsAreNumbers, KeysStep, NoStep, StepsAnswer

LEMMA PagesAnswer ==
    ASSUME OverviewInv
    PROVE  /\ Answers(SetScopeIndex(o, IF RowCount(o) = 0 THEN 0
                                       ELSE AtMost(SelectedIndex(o) + PageSize(o), RowCount(o) - 1)))
           /\ Answers(SetScopeIndex(o, IF SelectedIndex(o) < PageSize(o) THEN 0
                                       ELSE SelectedIndex(o) - PageSize(o)))
<1> DEFINE n == RowCount(o)
           at == SelectedIndex(o)
           page == PageSize(o)
           down == IF n = 0 THEN 0 ELSE AtMost(at + page, n - 1)
           up == IF at < page THEN 0 ELSE at - page
<1>1. o \in States /\ n \in Nat /\ at \in Nat /\ page \in Nat /\ (at < n \/ (n = 0 /\ at = 0))
    BY EditsAreNumbers, RowsAreSequence, IndexIsNatural, PagesAreNumbers DEF InRange
<1> HIDE DEF n, at, page
<1>2. down \in Nat /\ (down < n \/ (n = 0 /\ down = 0))
    BY <1>1 DEF AtMost
<1>3. up \in Nat /\ (up < n \/ (n = 0 /\ up = 0))
    BY <1>1
<1> HIDE DEF down, up
<1>4. Steps(o, SetScopeIndex(o, down)) /\ Steps(o, SetScopeIndex(o, up))
    BY <1>1, <1>2, <1>3, SetIndexSteps DEF n
<1>5. Answers(SetScopeIndex(o, down)) /\ Answers(SetScopeIndex(o, up))
    BY <1>4, StepsAnswer
<1>6. QED
    BY <1>5 DEF down, up, n, at, page

LEMMA ScrollsAnswer ==
    ASSUME OverviewInv, o.open, NEW rows \in Nat,
           NEW r \in {ScrollUp(o, rows), ScrollDown(o, rows), ScrollToTop(o), ScrollToBottom(o)}
    PROVE  Answers(r)
<1>1. Good(r) /\ SelectedRow(r) = SelectedRow(o) /\ Listed(r) = Listed(o)
    BY EditsAreNumbers, ScrollsGive
<1>2. QED
    BY <1>1, EditsAreNumbers DEF Answers, Versioned, Listed

LEMMA KeysAreSound ==
    ASSUME OverviewInv,
           \/ NoInput \/ KeyMoves \/ KeyPages \/ KeyPreview \/ KeyScope \/ KeySort
           \/ KeyScrollsUp \/ KeyScrolls \/ CommandFocuses \/ SearchSelects
    PROVE  StepIsSound
<1>1. CASE NoInput \/ KeyMoves \/ SearchSelects
    BY <1>1, MovesAnswer, KeyIsSound DEF NoInput, KeyMoves, SearchSelects
<1>2. CASE KeyPages
    BY <1>2, PagesAnswer, KeyIsSound DEF KeyPages
<1>3. CASE KeyPreview
  <2>1. Answers(TogglePreview(o))
      BY EditsAreNumbers, ToggledIsGood DEF Answers, Versioned
  <2>2. QED
      BY <1>3, <2>1, KeyIsSound DEF KeyPreview
<1>4. CASE KeyScope
  <2>1. PICK fault \in BOOLEAN : Key(ToggleScope(o, disk, edits, fault))
      BY <1>4 DEF KeyScope
  <2>2. Answers(ToggleScope(o, disk, edits, fault))
      BY EditsAreNumbers, ToggleScopeGives DEF Answers, Versioned
  <2>3. QED
      BY <2>1, <2>2, KeyIsSound
<1>5. CASE KeySort
  <2>1. ~o.open
      BY <1>5 DEF KeySort
  <2>2. Answers(CycleSortMode(o))
      BY <2>1, EditsAreNumbers, SortGives DEF Answers, Versioned
  <2>3. QED
      BY <1>5, <2>2, KeyIsSound DEF KeySort
<1>6. CASE KeyScrollsUp \/ KeyScrolls
  <2>1. o.open /\ PageStep(o) \in Nat
      BY <1>6 DEF KeyScrollsUp, KeyScrolls, PageStep
  <2>2. /\ Answers(ScrollUp(o, PageStep(o))) /\ Answers(ScrollDown(o, PageStep(o)))
        /\ Answers(ScrollToTop(o)) /\ Answers(ScrollToBottom(o))
      BY <2>1, ScrollsAnswer
  <2>3. QED
      BY <1>6, <2>2, KeyIsSound DEF KeyScrollsUp, KeyScrolls
<1>7. CASE CommandFocuses
  <2>1. PICK enabled \in BOOLEAN : Key(SetAttentionFocus(o, enabled))
      BY <1>7 DEF CommandFocuses
  <2>2. Answers(SetAttentionFocus(o, enabled))
      BY EditsAreNumbers, FocusGives DEF Answers, Versioned
  <2>3. QED
      BY <2>1, <2>2, KeyIsSound
<1>8. QED
    BY <1>1, <1>2, <1>3, <1>4, <1>5, <1>6, <1>7

LEMMA PointedIsNatural ==
    ASSUME OverviewInv, NEW y \in Nat
    PROVE  PointedIndex(y) \in Nat
<1>1. RowHeight(o) \in {1, 2} /\ facts.offset \in Nat
    BY DEF RowHeight, OverviewInv
<1>2. CASE RowHeight(o) = 1
    BY <1>1, <1>2 DEF PointedIndex
<1>3. CASE RowHeight(o) = 2
    BY <1>1, <1>3 DEF PointedIndex
<1>4. QED
    BY <1>1, <1>2, <1>3

\* A task pointed at is an item of the list, and its row is the one selected.
LEMMA PointedIsRow ==
    ASSUME OverviewInv, NEW y \in Nat
    PROVE  /\ PointedTask(y) \in Tasks \cup {NoTask}
           /\ PointedTask(y) # NoTask =>
                /\ PointedIndex(y) < RowCount(o)
                /\ RowAt(RowsShown(o), PointedIndex(y)).task = PointedTask(y)
<1> DEFINE i == PointedIndex(y)
           V == VisibleItems(o)
           R == RowsShown(o)
<1>1. i \in Nat
    BY PointedIsNatural
<1>2. /\ V \in Seq(Rows) /\ Len(V) \in Nat /\ Len(V) <= Len(R) /\ Len(R) \in Nat
      /\ \A j \in 1 .. Len(V) : R[j] = V[j]
    BY EditsAreNumbers, RowsAreSequence DEF RowCount
<1>3. PointedTask(y) = IF i < Len(V) THEN V[i + 1].task ELSE NoTask
    BY DEF PointedTask
<1>4. RowCount(o) = Len(R) /\ RowAt(R, i) = IF i < Len(R) THEN R[i + 1] ELSE NoRow
    BY DEF RowCount, RowAt
<1> HIDE DEF i, V, R
<1>5. i < Len(V) => V[i + 1] \in Rows /\ R[i + 1] = V[i + 1] /\ i < Len(R)
    BY <1>1, <1>2
<1>6. QED
    BY <1>3, <1>4, <1>5 DEF Rows, i, R

LEMMA ClickIsSound == ASSUME OverviewInv, Click PROVE StepIsSound
<1>1. PICK y \in 0 .. Height - 1, onId \in BOOLEAN, late \in BOOLEAN :
          /\ TrackIdClick(y, onId, late)
          /\ IF PointedIndex(y) < RowCount(o)
             THEN /\ Input(OpenPreview(SelectRow(o, PointedIndex(y))))
                  /\ hit' = [drawn |-> RowAt(facts.rows, PointedIndex(y)),
                             selected |-> RowAt(RowsShown(o), PointedIndex(y))]
             ELSE Input(o) /\ UNCHANGED hit
    BY DEF Click
<1>2. y \in Nat /\ PointedIndex(y) \in Nat
    BY <1>1, PointedIsNatural
<1>3. pc = "input" /\ copied = NoTask
    BY <1>1 DEF Input, OverviewInv
<1>4. /\ candidate'.task \in Tasks \cup {NoTask} /\ copied' \in Tasks \cup {NoTask}
      /\ copied' # NoTask => copied' = PointedTask(y)
    BY <1>1, <1>2, <1>3, PointedIsRow DEF TrackIdClick, NoPress
<1>5. CASE PointedIndex(y) < RowCount(o)
  <2> DEFINE s == SelectRow(o, PointedIndex(y))
             r == OpenPreview(s)
  <2>1. Steps(o, s)
      BY <1>2, EditsAreNumbers, KeysStep
  <2>2. Good(s) /\ Answers(s) /\ Listed(s) = Listed(o)
      BY <2>1, EditsAreNumbers, StepsAnswer, StepsKeepGood
  <2>3. r = s \/ r = TogglePreview(s)
      BY DEF OpenPreview
  <2>4. /\ Input(r)
        /\ hit' = [drawn |-> RowAt(facts.rows, PointedIndex(y)),
                   selected |-> RowAt(RowsShown(o), PointedIndex(y))]
      BY <1>1, <1>5
  <2> HIDE DEF s, r
  <2>5. Answers(r)
    <3>1. Answers(TogglePreview(s))
        BY <2>2, EditsAreNumbers, ToggledIsGood DEF Answers, Versioned, Listed
    <3>2. QED
        BY <2>2, <2>3, <3>1
  <2>6. copied' # NoTask => hit'.selected.task = copied'
      BY <1>2, <1>4, <2>4, PointedIsRow
  <2>7. QED
      BY <1>4, <2>4, <2>5, <2>6, InputIsSound
<1>6. CASE ~(PointedIndex(y) < RowCount(o))
  <2>1. Input(o)
      BY <1>1, <1>6
  <2>2. copied' = NoTask
      BY <1>2, <1>4, <1>6, PointedIsRow
  <2>3. QED
      BY <1>4, <2>1, <2>2, MovesAnswer, InputIsSound
<1>7. QED
    BY <1>5, <1>6

LEMMA WheelIsSound == ASSUME OverviewInv, Wheel PROVE StepIsSound
<1>1. /\ candidate' = NoPress /\ UNCHANGED <<copied, hit>>
      /\ \/ Input(o)
         \/ Input(SelectNext(o)) \/ Input(SelectPrevious(o))
         \/ o.open /\ (Input(ScrollDown(o, 3)) \/ Input(ScrollUp(o, 3)))
    BY DEF Wheel
<1>2. candidate'.task \in Tasks \cup {NoTask}
    BY <1>1 DEF NoPress
<1>3. copied' = NoTask
    BY <1>1 DEF Input, OverviewInv
<1>4. PICK r : Input(r) /\ Answers(r)
    BY <1>1, MovesAnswer, ScrollsAnswer
<1>5. QED
    BY <1>2, <1>3, <1>4, InputIsSound

----------------------------------------------------------------------------
(* The invariant and the theorems *)

LEMMA LoadedIsGood ==
    ASSUME NEW files \in Disks, NEW order \in {"Id", "Status"}
    PROVE  LET s == Loaded(files, order) IN
           /\ Good(s) /\ ~s.focus /\ s.scroll = 0 /\ s.activeVersion = 0 /\ s.archiveVersion = 0
<1> DEFINE s == Loaded(files, order)
<1>1. NoFiles \in Disks /\ Unmeasured \in 0 .. Unmeasured /\ 0 \in 0 .. Unmeasured
    BY NoFilesIsDisk, OverviewConstants DEF Unmeasured
<1>2. s \in States
    BY <1>1 DEF Loaded, States
<1>3. SelectedIndex(s) = 0 /\ RowCount(s) \in Nat
    BY <1>2, RowsAreSequence DEF SelectedIndex, Loaded
<1>4. InRange(s)
    BY <1>3 DEF InRange
<1>5. QED
    BY <1>2, <1>4 DEF Good, Loaded

LEMMA SetScopeGives ==
    ASSUME NEW s, Good(s), ~s.focus, s.scroll = 0, s.activeVersion = 0, s.archiveVersion = 0,
           NEW scope \in {"Active", "Archived"}, NEW files \in Disks, NEW fault \in BOOLEAN
    PROVE  LET r == SetViewScope(s, scope, files, fault) IN
           Good(r) /\ ~r.focus /\ r.scroll = 0 /\ r.activeVersion = 0 /\ r.archiveVersion = 0
<1> DEFINE ready == IF scope = "Archived" THEN EnsureArchiveLoaded(s, files, 0, fault) ELSE s
           u == [ready EXCEPT !.scope = scope]
           r == SetViewScope(s, scope, files, fault)
<1>1. /\ ready \in States /\ ready.scroll = 0 /\ ~ready.focus
      /\ ready.activeVersion = 0 /\ ready.archiveVersion = 0
      /\ scope = "Archived" => ready.archiveLoaded
    BY EnsureGives DEF Good
<1>2. r = ClampSelection(u)
    BY DEF SetViewScope
<1> HIDE DEF ready
<1>3. /\ u \in States /\ u.scroll = 0 /\ ~u.focus /\ u.scope = scope
      /\ u.activeVersion = 0 /\ u.archiveVersion = 0
      /\ scope = "Archived" => u.archiveLoaded
    BY <1>1 DEF States
<1> HIDE DEF u, r
<1>4. Moved(u, r) /\ InRange(r) /\ r.scroll = 0
    BY <1>2, <1>3, ClampGives
<1>5. QED
    BY <1>3, <1>4 DEF Moved, Listed, Good, r

LEMMA OverviewInit == Init => OverviewInv
<1> SUFFICES ASSUME Init PROVE OverviewInv
    OBVIOUS
<1>1. /\ disk \in Disks /\ edits = 0 /\ pc = "draw" /\ read = NoRead
      /\ facts = NoFacts /\ candidate = NoPress /\ copied = NoTask
    BY ContentsAreFiles DEF Init, Disks
<1>2. Good(o) /\ Versioned(o)
  <2>1. PICK order \in {"Id", "Status"}, scope \in {"Active", "Archived"},
             saved \in {"Active", "Archived"}, fault \in BOOLEAN, t \in Tasks :
             o = SelectTask(SetViewScope(SetViewScope(Loaded(disk, order), scope, disk, fault),
                                         saved, disk, fault), t)
      BY DEF Init
  <2> DEFINE a == Loaded(disk, order)
             b == SetViewScope(a, scope, disk, fault)
             c == SetViewScope(b, saved, disk, fault)
  <2>2. Good(a) /\ ~a.focus /\ a.scroll = 0 /\ a.activeVersion = 0 /\ a.archiveVersion = 0
      BY <1>1, LoadedIsGood
  <2> HIDE DEF a
  <2>3. Good(b) /\ ~b.focus /\ b.scroll = 0 /\ b.activeVersion = 0 /\ b.archiveVersion = 0
      BY <1>1, <2>2, SetScopeGives
  <2> HIDE DEF b
  <2>4. Good(c) /\ ~c.focus /\ c.scroll = 0 /\ c.activeVersion = 0 /\ c.archiveVersion = 0
      BY <1>1, <2>3, SetScopeGives
  <2>5. o = SelectTask(c, t)
      BY <2>1 DEF a, b
  <2> HIDE DEF c
  <2>6. Steps(c, o)
      BY <2>4, <2>5, KeysStep DEF Good
  <2>7. Good(o) /\ Listed(o) = Listed(c)
      BY <2>4, <2>6, StepsKeepGood
  <2>8. QED
      BY <1>1, <2>4, <2>7 DEF Versioned, Listed
<1>3. edits \in 0 .. MaxEdits /\ facts.offset \in Nat /\ candidate.task = NoTask
    BY <1>1, OverviewConstants DEF NoFacts, NoPress
<1>4. QED
    BY <1>1, <1>2, <1>3 DEF OverviewInv

LEMMA OverviewNext == OverviewInv /\ [Next]_vars => OverviewInv' /\ [RowKept /\ Followed]_vars
<1> SUFFICES ASSUME OverviewInv, [Next]_vars
             PROVE  OverviewInv' /\ [RowKept /\ Followed]_vars
    OBVIOUS
<1>1. CASE Next
  <2>1. StepIsSound
      BY <1>1, DrawIsSound, ReloadReadsIsSound, ReloadArchiveIsSound, ReloadArchiveFailsIsSound,
         PollIsSound, EditIsSound, KeysAreSound, ClickIsSound, WheelIsSound DEF Next
  <2>2. QED
      BY <2>1 DEF StepIsSound
<1>2. CASE UNCHANGED vars
    BY <1>2 DEF OverviewInv, Versioned, vars
<1>3. QED
    BY <1>1, <1>2

LEMMA ScrollingUp ==
    ASSUME OverviewInv, KeyScrollsUp, ScrollShown(o) > 0
    PROVE  ScrollShown(o') < ScrollShown(o)
<1> DEFINE n == IF AtMost(o.scroll, o.maxScroll) > PageStep(o)
                THEN AtMost(o.scroll, o.maxScroll) - PageStep(o) ELSE 0
<1>1. o \in States /\ o' = [o EXCEPT !.scroll = n]
    BY EditsAreNumbers DEF KeyScrollsUp, Key, Input, ScrollUp
<1>2. o'.scroll = n /\ o'.maxScroll = o.maxScroll
    BY <1>1 DEF States
<1>3. Unmeasured \in Nat /\ o.scroll \in Nat /\ o.maxScroll \in Nat /\ PageStep(o) \in {1, 2}
    BY <1>1, OverviewConstants DEF States, Unmeasured, PageStep
<1>4. QED
    BY <1>2, <1>3 DEF ScrollShown, AtMost

LEMMA InvIsListSound == OverviewInv => ListIsSound
<1> SUFFICES ASSUME OverviewInv PROVE ListIsSound
    OBVIOUS
<1>1. o \in States /\ Versioned(o) /\ edits \in Nat
    BY EditsAreNumbers
<1>2. {o.activeVersion, o.archiveVersion} \subseteq 0 .. edits
    BY <1>1 DEF States, Versioned
<1>3. TypeOK
    BY <1>1, <1>2 DEF TypeOK, OverviewInv, States
<1>4. SelectionInRange
    BY DEF OverviewInv, Good, InRange, SelectionInRange
<1>5. ArchiveIsCurrent /\ FocusIsActive /\ CopiedIsSelected
    BY DEF OverviewInv, Good, ArchiveIsCurrent, FocusIsActive, CopiedIsSelected
<1>6. QED
    BY <1>3, <1>4, <1>5 DEF ListIsSound

(***************************************************************************)
(* The list of OverviewState: a row is selected while there are rows, the  *)
(* archive is never older than the tasks it is shown with, attention focus *)
(* hides nothing archived, and a double click copies the id of the row it  *)
(* selects.                                                                *)
(***************************************************************************)
THEOREM ListStaysSound == Spec => []ListIsSound
<1>1. OverviewInv /\ [Next]_vars => OverviewInv'
    BY OverviewNext
<1>2. QED
    BY <1>1, OverviewInit, InvIsListSound, PTL DEF Spec

(***************************************************************************)
(* restore_selected_path: over every reload, order and filter the          *)
(* selection stays on its task while a row of it is left.                  *)
(***************************************************************************)
THEOREM SelectionsFollow == Spec => SelectionFollowsTask
<1>1. OverviewInv /\ [Next]_vars => OverviewInv' /\ [Followed]_vars
    BY OverviewNext
<1>2. [Followed]_vars => [Rearranged =>
          (SelectedRow(o) # NoRow /\ Stays(o', SelectedRow(o))
              => SelectedRow(o').task = SelectedRow(o).task)]_vars
    BY DEF Followed
<1>3. QED
    BY <1>1, <1>2, OverviewInit, PTL DEF Spec, SelectionFollowsTask

(***************************************************************************)
(* The preview's scroll: it starts again with another row, and scrolling   *)
(* up moves what is shown whatever the stored offset is.                   *)
(***************************************************************************)
THEOREM ScrollsAreSound == Spec => ScrollIsSound
<1>1. OverviewInv /\ [Next]_vars => OverviewInv' /\ [RowKept]_vars
    BY OverviewNext
<1>2. [RowKept]_vars => [o'.scroll # 0 => SelectedRow(o') = SelectedRow(o)]_vars
    BY DEF RowKept
<1>3. OverviewInv =>
          [KeyScrollsUp /\ ScrollShown(o) > 0 => ScrollShown(o') < ScrollShown(o)]_vars
    BY ScrollingUp
<1>4. QED
    BY <1>1, <1>2, <1>3, OverviewInit, PTL
    DEF Spec, ScrollIsSound, ScrollBelongsToRow, ScrollingUpMoves
=============================================================================
