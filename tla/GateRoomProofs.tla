--------------------------- MODULE GateRoomProofs ---------------------------
(***************************************************************************)
(* Proofs about the gate-room browser and the history behind it, for any   *)
(* Briefings, entities, rooms and rounds, and any number of edits: what is *)
(* open is bound to what is selected, a reload leaves the cursor on its    *)
(* item, Enter opens what was on the screen, and the path of details that  *)
(* grows by it runs along includes of the history that is loaded.          *)
(***************************************************************************)
EXTENDS GateRoom, FiniteSetTheorems, WellFoundedInduction, SequenceTheorems, TLAPS

BrowserFields == {"history_mode", "attempts", "selected", "focus", "item", "view", "preview"}
HistoryFields == {"facts", "round", "selection", "records_focus", "stack", "relationship",
                  "responses_only", "returns", "preview", "initialized"}

\* What is on disk is of the kinds that are given.
DiskOK ==
    /\ DOMAIN disk = {"entity", "rooms", "folder", "bytes", "review"}
    /\ disk.entity \in AllEntities
    /\ \A a \in DOMAIN disk.rooms : disk.rooms[a] \in AllRooms
    /\ \A e \in AllEntities : e # None => AttemptIds(e) \subseteq DOMAIN disk.rooms

BrowserOK(b) == DOMAIN b = BrowserFields
HistoryOK(h) == DOMAIN h = HistoryFields /\ h.stack \in Seq(Range(h.stack))

\* The open item of the gates, and of the history, as PreviewIsBound has them.
GateBound(b, entity) ==
    b.preview # None =>
        /\ entity # None /\ b.selected \in AttemptIds(entity)
        /\ \E i \in Range(Items[AttemptOf(entity, b.selected).bound]) :
               i.id = b.preview.item /\ i.revision = b.preview.bytes
HistoryBound(h) ==
    h.preview # None =>
        /\ HasRound(h.facts, h.selection.round)
        /\ \E i \in Range(Items[h.facts[h.selection.round.key].digest]) :
               i.id = h.preview.id /\ i.revision = h.preview.bytes

GateInv ==
    /\ DiskOK
    /\ browser = None \/ (BrowserOK(browser) /\ GateBound(browser, index))
    /\ HistoryOK(history) /\ HistoryBound(history)

----------------------------------------------------------------------------
(* Positions *)

\* A set of positions that has a member has a first one.
LEMMA Least ==
    ASSUME NEW n \in Nat, NEW I \in SUBSET (1 .. n), I # {}
    PROVE  \E k \in I : \A j \in I : k <= j
<1> DEFINE Below(k) == {j \in 1 .. n : j \in I /\ j < k}
           T == {Below(k) : k \in I}
<1>1. T \subseteq FiniteSubsetsOf(1 .. n) /\ T # {}
  <2>1. IsFiniteSet(1 .. n)
      BY FS_Interval
  <2>2. \A k : Below(k) \in SUBSET (1 .. n)
      OBVIOUS
  <2>3. \A k : IsFiniteSet(Below(k))
      BY <2>1, <2>2, FS_Subset
  <2>4. QED
      BY <2>2, <2>3 DEF FiniteSubsetsOf
<1>2. PICK B \in T : \A C \in T : ~(<<C, B>> \in StrictSubsetOrdering(1 .. n))
    BY <1>1, FS_StrictSubsetOrderingWellFounded, FS_Interval, WFMin
<1>3. PICK k \in I : B = Below(k)
    OBVIOUS
<1>4. ASSUME NEW j \in I, j < k PROVE FALSE
  <2>1. Below(j) \in T /\ Below(j) \in SUBSET (1 .. n) /\ B \in SUBSET (1 .. n)
      BY <1>3
  <2>2. Below(j) \subseteq B
      BY <1>3, <1>4
  <2>3. j \in B /\ j \notin Below(j)
      BY <1>3, <1>4
  <2> HIDE DEF Below, T
  <2>4. <<Below(j), B>> \in StrictSubsetOrdering(1 .. n)
      BY <2>1, <2>2, <2>3 DEF StrictSubsetOrdering
  <2>5. QED
      BY <1>2, <2>1, <2>4
<1>5. QED
    BY <1>4

LEMMA FirstPosition ==
    ASSUME NEW n \in Nat, NEW I \in SUBSET (1 .. n), I # {}
    PROVE  Min(I) \in I
BY Least DEF Min

\* What holds of 1 and goes from each number to the next holds up to n.
LEMMA UpTo ==
    ASSUME NEW n \in Nat, NEW G, 1 \in G,
           \A i \in 1 .. n - 1 : i \in G => i + 1 \in G
    PROVE  \A i \in 1 .. n : i \in G
<1> DEFINE I == {i \in 1 .. n : i \notin G}
<1> SUFFICES ASSUME I # {} PROVE FALSE
    OBVIOUS
<1>1. PICK k \in I : \A j \in I : k <= j
    BY Least
<1>2. k \in 1 .. n /\ k \notin G /\ k # 1
    OBVIOUS
<1>3. k - 1 \in 1 .. n - 1 /\ k - 1 \notin I
    BY <1>1, <1>2
<1>4. QED
    BY <1>2, <1>3

----------------------------------------------------------------------------
(* Sequences *)

\* The sequences that have been put together so far, as FlattenSeq computes them.
Flattened(seqs, n, f) ==
    \A i \in 1 .. n : f[i] = IF i = 1 THEN seqs[i] ELSE f[i - 1] \o seqs[i]

LEMMA FlattenExists ==
    ASSUME NEW S, NEW seqs, Len(seqs) \in Nat \ {0}, \A i \in 1 .. Len(seqs) : seqs[i] \in Seq(S)
    PROVE  \E f \in [1 .. Len(seqs) -> Seq(S)] : Flattened(seqs, Len(seqs), f)
<1> DEFINE n == Len(seqs)
           G == {m \in 1 .. n : \E f \in [1 .. m -> Seq(S)] : Flattened(seqs, m, f)}
<1> HIDE DEF n
<1>0. n \in Nat \ {0} /\ \A i \in 1 .. n : seqs[i] \in Seq(S)
    BY DEF n
<1>1. 1 \in G
  <2> DEFINE f == [i \in 1 .. 1 |-> seqs[1]]
  <2>1. f \in [1 .. 1 -> Seq(S)]
      BY <1>0
  <2>2. Flattened(seqs, 1, f)
      BY DEF Flattened
  <2>3. QED
      BY <1>0, <2>1, <2>2
<1>2. ASSUME NEW m \in 1 .. n - 1, m \in G PROVE m + 1 \in G
  <2>1. PICK f \in [1 .. m -> Seq(S)] : Flattened(seqs, m, f)
      BY <1>2
  <2> DEFINE g == [i \in 1 .. m + 1 |-> IF i = m + 1 THEN f[m] \o seqs[m + 1] ELSE f[i]]
  <2>2. m + 1 \in 1 .. n /\ m \in 1 .. m
      BY <1>0
  <2>3. f[m] \o seqs[m + 1] \in Seq(S)
      BY <1>0, <2>2, ConcatProperties
  <2>4. g \in [1 .. m + 1 -> Seq(S)]
    <3> SUFFICES ASSUME NEW i \in 1 .. m + 1 PROVE g[i] \in Seq(S)
        OBVIOUS
    <3>1. i = m + 1 \/ i \in 1 .. m
        OBVIOUS
    <3>2. QED
        BY <2>3, <3>1
  <2>5. Flattened(seqs, m + 1, g)
    <3> SUFFICES ASSUME NEW i \in 1 .. m + 1
                 PROVE  g[i] = IF i = 1 THEN seqs[i] ELSE g[i - 1] \o seqs[i]
        BY DEF Flattened
    <3>1. CASE i = m + 1
      <4>1. i # 1 /\ i - 1 = m /\ m \in 1 .. m + 1 /\ m # m + 1
          BY <3>1
      <4>2. g[m] = f[m]
          BY <4>1
      <4>3. QED
          BY <3>1, <4>1, <4>2
    <3>2. CASE i \in 1 .. m
      <4>1. g[i] = f[i] /\ (i # 1 => i - 1 \in 1 .. m /\ g[i - 1] = f[i - 1])
          BY <3>2
      <4>2. f[i] = IF i = 1 THEN seqs[i] ELSE f[i - 1] \o seqs[i]
          BY <2>1, <3>2 DEF Flattened
      <4>3. QED
          BY <4>1, <4>2
    <3>3. QED
        BY <3>1, <3>2
  <2> HIDE DEF g
  <2>6. QED
      BY <2>2, <2>4, <2>5
<1> HIDE DEF G
<1>3. n \in G
  <2>1. n \in Nat /\ n \in 1 .. n /\ 1 \in G /\ \A m \in 1 .. n - 1 : m \in G => m + 1 \in G
      BY <1>0, <1>1, <1>2
  <2>2. \A m \in 1 .. n : m \in G
      BY <2>1, UpTo
  <2>3. QED
      BY <2>1, <2>2
<1>4. QED
    BY <1>3 DEF G, n

\* A flattened sequence has the elements of its parts and no other.
LEMMA FlattenHasParts ==
    ASSUME NEW S, NEW seqs, Len(seqs) \in Nat \ {0}, \A i \in 1 .. Len(seqs) : seqs[i] \in Seq(S)
    PROVE  /\ FlattenSeq(seqs) \in Seq(S)
           /\ \A i \in 1 .. Len(seqs) : \A k \in 1 .. Len(seqs[i]) :
                 \E j \in 1 .. Len(FlattenSeq(seqs)) : FlattenSeq(seqs)[j] = seqs[i][k]
<1> DEFINE n == Len(seqs)
           Is(f) == f = [i \in 1 .. n |-> IF i = 1 THEN seqs[i] ELSE f[i - 1] \o seqs[i]]
           f == CHOOSE g : Is(g)
<1> HIDE DEF n
<1>0. n \in Nat \ {0} /\ \A i \in 1 .. n : seqs[i] \in Seq(S)
    BY DEF n
<1>1. Is(f)
  <2>1. PICK g \in [1 .. n -> Seq(S)] : Flattened(seqs, n, g)
      BY FlattenExists DEF n
  <2>2. Is(g)
      BY <2>1, ZenonT(60) DEF Flattened
  <2> HIDE DEF Is
  <2>3. QED
      BY <2>2
<1>2. FlattenSeq(seqs) = f[n]
    BY <1>0 DEF FlattenSeq, n
<1>3. \A i \in 1 .. n : f[i] = IF i = 1 THEN seqs[i] ELSE f[i - 1] \o seqs[i]
    BY <1>1, ZenonT(60)
<1> HIDE DEF f, Is
<1> DEFINE Has(s, x) == \E j \in 1 .. Len(s) : s[j] = x
           G == {m \in 1 .. n :
                   /\ f[m] \in Seq(S)
                   /\ \A i \in 1 .. m : \A k \in 1 .. Len(seqs[i]) : Has(f[m], seqs[i][k])}
<1>4. 1 \in G
  <2>1. f[1] = seqs[1] /\ 1 \in 1 .. n
      BY <1>0, <1>3
  <2>2. QED
      BY <1>0, <2>1
<1>5. ASSUME NEW m \in 1 .. n - 1, m \in G PROVE m + 1 \in G
  <2>1. m + 1 \in 1 .. n /\ m + 1 # 1 /\ m + 1 - 1 = m
      BY <1>0
  <2>2. f[m + 1] = f[m] \o seqs[m + 1]
    <3> DEFINE p == m + 1
    <3>1. p \in 1 .. n /\ p # 1 /\ p - 1 = m
        BY <2>1
    <3> HIDE DEF p, Has, G
    <3>2. f[p] = f[p - 1] \o seqs[p]
        BY <1>3, <3>1
    <3>3. QED
        BY <3>1, <3>2 DEF p
  <2> DEFINE s == f[m] t == seqs[m + 1] c == f[m + 1]
  <2>3. s \in Seq(S) /\ t \in Seq(S) /\ c = s \o t
      BY <1>0, <1>5, <2>1, <2>2
  <2> HIDE DEF s, t, c
  <2>4. /\ c \in Seq(S) /\ Len(s) \in Nat /\ Len(t) \in Nat /\ Len(c) = Len(s) + Len(t)
        /\ \A j \in 1 .. Len(s) + Len(t) : c[j] = IF j <= Len(s) THEN s[j] ELSE t[j - Len(s)]
      BY <2>3, ConcatProperties, LenProperties
  <2>5. ASSUME NEW x, Has(s, x) PROVE Has(c, x)
    <3>1. PICK j \in 1 .. Len(s) : s[j] = x
        BY <2>5
    <3>2. j \in 1 .. Len(c) /\ c[j] = x
        BY <2>4, <3>1
    <3>3. QED
        BY <3>2
  <2>6. ASSUME NEW k \in 1 .. Len(t) PROVE Has(c, t[k])
    <3>1. Len(s) + k \in 1 .. Len(c) /\ ~(Len(s) + k <= Len(s)) /\ Len(s) + k - Len(s) = k
        BY <2>4
    <3>2. c[Len(s) + k] = t[k]
        BY <2>4, <3>1
    <3>3. QED
        BY <3>1, <3>2
  <2>7. \A i \in 1 .. m : \A k \in 1 .. Len(seqs[i]) : Has(s, seqs[i][k])
      BY <1>5 DEF s
  <2> HIDE DEF Has
  <2>8. ASSUME NEW i \in 1 .. m + 1, NEW k \in 1 .. Len(seqs[i]) PROVE Has(c, seqs[i][k])
    <3>1. i \in 1 .. m \/ i = m + 1
        OBVIOUS
    <3>2. QED
        BY <2>5, <2>6, <2>7, <3>1 DEF t
  <2>9. QED
      BY <2>1, <2>4, <2>8 DEF c
<1> HIDE DEF G
<1>6. n \in G
  <2>1. n \in Nat /\ n \in 1 .. n /\ 1 \in G /\ \A m \in 1 .. n - 1 : m \in G => m + 1 \in G
      BY <1>0, <1>4, <1>5
  <2>2. \A m \in 1 .. n : m \in G
      BY <2>1, UpTo
  <2>3. QED
      BY <2>1, <2>2
<1>7. QED
    BY <1>2, <1>6 DEF G, n

\* Everything in the one sequence is at one of these places of the other.
PicksFrom(some, seq, places) ==
    /\ Cardinality(places) \in Nat /\ Len(some) = Cardinality(places)
    /\ DOMAIN some = 1 .. Cardinality(places)
    /\ \A k \in 1 .. Cardinality(places) : \E i \in places : some[k] = seq[i]

\* What is picked is at one of the places.
LEMMA PickedIsThere ==
    ASSUME NEW seq, NEW n \in Nat, NEW places \in SUBSET (1 .. n)
    PROVE  PicksFrom(Picked(seq, places), seq, places)
<1> DEFINE m == Cardinality(places)
           Below(i) == {j \in places : j < i}
           T == 0 .. m - 1
           rank == [i \in places |-> Cardinality(Below(i))]
<1>1. IsFiniteSet(places) /\ m \in Nat
  <2>1. IsFiniteSet(1 .. n)
      BY FS_Interval
  <2>2. IsFiniteSet(places)
      BY <2>1, FS_Subset
  <2>3. QED
      BY <2>2, FS_CardinalityType
<1>2. ASSUME NEW i \in places
      PROVE  IsFiniteSet(Below(i)) /\ Cardinality(Below(i)) \in T
  <2>1. Below(i) \in SUBSET places /\ Below(i) # places
      OBVIOUS
  <2> HIDE DEF Below
  <2>2. /\ IsFiniteSet(Below(i)) /\ Cardinality(Below(i)) <= m
        /\ Cardinality(Below(i)) # m
      BY <1>1, <2>1, FS_Subset
  <2>3. Cardinality(Below(i)) \in Nat
      BY <2>2, FS_CardinalityType
  <2>4. QED
      BY <1>1, <2>2, <2>3
<1>3. IsFiniteSet(T) /\ Cardinality(T) = m
  <2> HIDE DEF m
  <2>1. QED
    BY <1>1, FS_Interval
<1>4. ASSUME NEW i \in places, NEW j \in places, i < j
      PROVE  Cardinality(Below(i)) # Cardinality(Below(j))
  <2>1. Below(i) \in SUBSET Below(j) /\ Below(i) # Below(j)
    <3>1. i \in Int /\ j \in Int /\ \A k \in places : k \in Int
        OBVIOUS
    <3>2. \A k \in places : k < i => k < j
        BY <1>4, <3>1
    <3>3. i \in Below(j) /\ i \notin Below(i)
        BY <1>4, <3>1
    <3>4. QED
        BY <3>2, <3>3
  <2> HIDE DEF Below
  <2>2. QED
      BY <1>2, <2>1, FS_Subset
<1>5. rank \in Injection(places, T)
  <2>1. rank \in [places -> T]
      BY <1>2
  <2>2. ASSUME NEW i \in places, NEW j \in places, rank[i] = rank[j] PROVE i = j
    <3>1. i \in Int /\ j \in Int
        OBVIOUS
    <3>2. QED
        BY <1>4, <2>2, <3>1
  <2>3. QED
      BY <2>1, <2>2 DEF Injection, IsInjective
<1>6. rank \in Surjection(places, T)
    BY <1>1, <1>3, <1>5, FS_Injection
<1>7. ASSUME NEW k \in 1 .. m PROVE \E i \in places : Cardinality(Below(i)) = k - 1
  <2>1. k - 1 \in T
      BY <1>1
  <2> HIDE DEF T, m
  <2>2. QED
      BY <1>6, <2>1 DEF Surjection
<1>8. DOMAIN Picked(seq, places) = 1 .. m /\ Len(Picked(seq, places)) = m
    BY <1>1 DEF Picked
<1>9. ASSUME NEW k \in 1 .. m
      PROVE  \E i \in places : Picked(seq, places)[k] = seq[i]
  <2>1. (CHOOSE i \in places : Cardinality(Below(i)) = k - 1) \in places
      BY <1>7
  <2>2. Picked(seq, places)[k] = seq[CHOOSE i \in places : Cardinality(Below(i)) = k - 1]
      BY DEF Picked
  <2>3. QED
      BY <2>1, <2>2
<1>10. QED
    BY <1>1, <1>8, <1>9 DEF PicksFrom

\* The places of a sequence.
LEMMA PickedPicks ==
    ASSUME NEW seq, Len(seq) \in Nat, NEW places \in SUBSET (1 .. Len(seq))
    PROVE  PicksFrom(Picked(seq, places), seq, places)
<1>1. PICK n \in Nat : n = Len(seq)
    OBVIOUS
<1>2. QED
    BY <1>1, PickedIsThere

LEMMA OwnRange ==
    ASSUME NEW S, NEW s \in Seq(S)
    PROVE  s \in Seq(Range(s))
<1>1. Len(s) \in Nat /\ s \in [1 .. Len(s) -> S] /\ DOMAIN s = 1 .. Len(s)
    BY LenProperties
<1>2. s \in [1 .. Len(s) -> Range(s)]
    BY <1>1 DEF Range
<1>3. QED
    BY <1>1, <1>2, SeqDef

----------------------------------------------------------------------------
(* What a load gives *)

LogOK(log) ==
    /\ log \in Seq(Range(log))
    /\ \A l \in Range(log) : l.includes \in Seq(Range(l.includes))

\* A round's records have different ids, and its dangling links cannot be followed.
RoundOK(round) ==
    /\ LogOK(round.records)
    /\ \A i, j \in 1 .. Len(round.records) :
          i < j => round.records[i].id # round.records[j].id
    /\ round.dangling \in Seq(Range(round.dangling))
    /\ \A k \in 1 .. Len(round.dangling) : round.dangling[k].valid = FALSE

FactsOK(facts) == \A k \in DOMAIN facts : RoundOK(facts[k])

\* The lines up to the first refused one are all accepted.
LEMMA PrefixIsAccepted ==
    ASSUME NEW log, LogOK(log), NEW briefing
    PROVE  /\ ValidPrefix(log, briefing) \in 0 .. Len(log)
           /\ \A i \in 1 .. ValidPrefix(log, briefing) : Accepted(log, i, briefing)
<1> DEFINE n == Len(log)
           Refused == {i \in 1 .. n : ~Accepted(log, i, briefing)}
           Is(m) == /\ \A i \in 1 .. m : Accepted(log, i, briefing)
                    /\ m < n => ~Accepted(log, m + 1, briefing)
<1>1. n \in Nat
    BY LenProperties DEF LogOK
<1> HIDE DEF n
<1>2. \E m \in 0 .. n : Is(m)
  <2>1. CASE Refused = {}
    <3>1. \A i \in 1 .. n : Accepted(log, i, briefing)
        BY <2>1
    <3>2. Is(n) /\ n \in 0 .. n
        BY <1>1, <3>1
    <3>3. QED
        BY <3>2
  <2>2. CASE Refused # {}
    <3>1. Refused \in SUBSET (1 .. n)
        OBVIOUS
    <3>2. PICK k \in Refused : \A j \in Refused : k <= j
      <4> HIDE DEF Refused
      <4>1. QED
          BY <1>1, <2>2, <3>1, Least
    <3>3. /\ k \in 1 .. n /\ ~Accepted(log, k, briefing)
          /\ \A j \in 1 .. n : ~Accepted(log, j, briefing) => k <= j
        BY <3>2
    <3> HIDE DEF Refused
    <3>4. \A i \in 1 .. k - 1 : Accepted(log, i, briefing)
      <4> SUFFICES ASSUME NEW i \in 1 .. k - 1 PROVE Accepted(log, i, briefing)
          OBVIOUS
      <4>1. i \in 1 .. n /\ ~(k <= i)
          BY <1>1, <3>3
      <4>2. QED
          BY <3>3, <4>1
    <3> DEFINE m == k - 1
    <3>5. m \in 0 .. n /\ m + 1 = k
        BY <1>1, <3>3
    <3>6. \A i \in 1 .. m : Accepted(log, i, briefing)
        BY <3>4
    <3> HIDE DEF m
    <3>7. Is(m)
        BY <3>3, <3>5, <3>6
    <3>8. QED
        BY <3>5, <3>7
  <2>3. QED
      BY <2>1, <2>2
<1>3. ValidPrefix(log, briefing) = CHOOSE m \in 0 .. n : Is(m)
    BY DEF ValidPrefix, n
<1> HIDE DEF Is
<1>4. ValidPrefix(log, briefing) \in 0 .. n /\ Is(ValidPrefix(log, briefing))
    BY <1>2, <1>3
<1>5. QED
    BY <1>4 DEF Is, n

\* A prefix of a log.
LEMMA PrefixOfLog ==
    ASSUME NEW log, LogOK(log), NEW n \in 0 .. Len(log)
    PROVE  LET p == SubSeq(log, 1, n) IN
           /\ LogOK(p) /\ Len(p) = n /\ Len(log) \in Nat /\ \A i \in 1 .. n : p[i] = log[i]
<1> DEFINE p == SubSeq(log, 1, n)
<1>1. Len(log) \in Nat /\ DOMAIN log = 1 .. Len(log)
    BY LenProperties DEF LogOK
<1>2. \A i \in 1 .. n : log[i] \in Range(log)
    BY <1>1 DEF Range
<1>3. /\ p \in Seq(Range(log))
      /\ Len(p) = IF 1 <= n THEN n - 1 + 1 ELSE 0
      /\ \A i \in 1 .. n - 1 + 1 : p[i] = log[1 + i - 1]
    BY <1>1, <1>2, SubSeqProperties
<1> HIDE DEF p
<1>4. Len(p) = n /\ \A i \in 1 .. n : p[i] = log[i]
    BY <1>1, <1>3
<1>5. p \in Seq(Range(p)) /\ DOMAIN p = 1 .. n
    BY <1>3, <1>4, OwnRange, LenProperties
<1>6. \A l \in Range(p) : l \in Range(log)
    BY <1>2, <1>4, <1>5 DEF Range
<1>7. QED
    BY <1>1, <1>4, <1>5, <1>6 DEF LogOK, p

LEMMA RoundsAreOK ==
    ASSUME NEW room, room.manifest # None => LogOK(room.log), NEW pointer, NEW folder
    PROVE  RoundOK(LoadRound(room, pointer, folder))
<1> DEFINE r == LoadRound(room, pointer, folder)
<1>1. CASE r.records = <<>> /\ r.dangling = <<>>
  <2>1. Len(<<>>) = 0 /\ \A S : <<>> \in Seq(S)
      BY EmptySeq
  <2>2. Range(<<>>) = {}
      BY DEF Range
  <2> HIDE DEF r
  <2>3. RoundOK(r)
      BY <1>1, <2>1, <2>2 DEF RoundOK, LogOK
  <2>4. QED
      BY <2>3 DEF r
<1>2. CASE room.manifest # None /\ \E id :
               LET n == ValidPrefix(room.log, id)
                   records == SubSeq(room.log, 1, n) IN
               r.records = records /\ r.dangling = Dangling(room.log, n, id)
  <2> DEFINE log == room.log
  <2>1. LogOK(log)
      BY <1>2
  <2>2. PICK id : LET n == ValidPrefix(log, id)
                      records == SubSeq(log, 1, n) IN
                  r.records = records /\ r.dangling = Dangling(log, n, id)
      BY <1>2
  <2> DEFINE n == ValidPrefix(log, id)
             l == log[n + 1]
             missing == {k \in DOMAIN l.includes : l.includes[k] \notin {log[j].id : j \in 1 .. n}}
  <2> HIDE DEF log, r
  <2>3. n \in 0 .. Len(log) /\ \A i \in 1 .. n : Accepted(log, i, id)
      BY <2>1, PrefixIsAccepted
  <2>4. /\ LogOK(r.records) /\ Len(r.records) = n
        /\ Len(log) \in Nat /\ \A i \in 1 .. n : r.records[i] = log[i]
      BY <2>1, <2>2, <2>3, PrefixOfLog
  <2>5. ASSUME NEW i \in 1 .. n, NEW j \in 1 .. n, i < j
        PROVE  r.records[i].id # r.records[j].id
    <3>1. i \in 1 .. j - 1
        BY <2>3, <2>4, <2>5
    <3>2. log[j].id \notin {e.id : e \in {log[m] : m \in 1 .. j - 1}}
        BY <2>3, SMTT(30) DEF Accepted
    <3>3. QED
        BY <2>4, <3>1, <3>2
  <2>6. /\ r.dangling \in Seq(Range(r.dangling))
        /\ \A k \in 1 .. Len(r.dangling) : r.dangling[k].valid = FALSE
    <3>1. CASE r.dangling = <<>>
        BY <3>1, EmptySeq
    <3>2. CASE /\ n < Len(log)
               /\ \E role : r.dangling =
                     [k \in DOMAIN Picked(l.includes, missing) |->
                         [from |-> l.id, to |-> Picked(l.includes, missing)[k],
                          role |-> role, valid |-> FALSE]]
      <4>1. PICK role : r.dangling =
                     [k \in DOMAIN Picked(l.includes, missing) |->
                         [from |-> l.id, to |-> Picked(l.includes, missing)[k],
                          role |-> role, valid |-> FALSE]]
          BY <3>2
      <4>2. n + 1 \in 1 .. Len(log) /\ DOMAIN log = 1 .. Len(log)
          BY <2>1, <2>3, <2>4, <3>2, LenProperties DEF LogOK
      <4>3. l.includes \in Seq(Range(l.includes))
          BY <2>1, <4>2 DEF LogOK, Range
      <4> HIDE DEF l
      <4>4. Len(l.includes) \in Nat /\ missing \in SUBSET (1 .. Len(l.includes))
          BY <4>3, LenProperties
      <4> HIDE DEF missing
      <4>5. DOMAIN Picked(l.includes, missing) = 1 .. Cardinality(missing)
            /\ Cardinality(missing) \in Nat
          BY <4>4, PickedIsThere DEF PicksFrom
      <4> DEFINE c == Cardinality(missing)
                 link == [k \in 1 .. c |->
                            [from |-> l.id, to |-> Picked(l.includes, missing)[k],
                             role |-> role, valid |-> FALSE]]
      <4>6. r.dangling = link /\ c \in Nat
          BY <4>1, <4>5
      <4>7. \A k \in 1 .. c : link[k].valid = FALSE
          OBVIOUS
      <4>8. DOMAIN link = 1 .. c
          OBVIOUS
      <4> HIDE DEF c, link
      <4>9. link \in [1 .. c -> Range(link)]
        <5>1. \A k \in 1 .. c : link[k] \in Range(link)
            BY <4>8 DEF Range
        <5>2. link = [k \in 1 .. c |-> link[k]]
            BY <4>8, Zenon DEF link
        <5>3. QED
            BY <5>1, <5>2
      <4>10. link \in Seq(Range(link)) /\ Len(link) = c
          BY <4>6, <4>8, <4>9
      <4>11. QED
          BY <4>6, <4>7, <4>10
    <3>3. QED
      <4>1. r.dangling = Dangling(log, n, id)
          BY <2>2
      <4> HIDE DEF n
      <4>2. QED
          BY <3>1, <3>2, <4>1, ZenonT(60) DEF Dangling, l, missing
  <2>7. RoundOK(r)
      BY <2>4, <2>5, <2>6 DEF RoundOK
  <2>8. QED
      BY <2>7 DEF r
<1>3. QED
    BY <1>1, <1>2 DEF LoadRound

LEMMA FactsAreOK ==
    ASSUME disk.review \in AllReviews, NEW entity \in AllEntities
    PROVE  FactsOK(Facts(entity))
<1>1. CASE entity = None
    BY <1>1 DEF Facts, FactsOK
<1>2. CASE entity # None
  <2> DEFINE rooms == disk.review
             pointer == entity.pointer
  <2>1. Facts(entity) = Load(rooms, pointer, disk.folder)
      BY <1>2 DEF Facts
  <2>2. /\ pointer = None \/ pointer.key \in DOMAIN rooms
        /\ \A k \in DOMAIN rooms : rooms[k] # None => LogOK(rooms[k].log)
      BY <1>2, GateRoomConstants DEF LogOK
  <2>3. \A k \in Candidates(rooms, pointer) : k \in DOMAIN rooms
      BY <2>2 DEF Candidates
  <2> HIDE DEF rooms, pointer
  <2>4. ASSUME NEW k \in DOMAIN rooms, NEW p, NEW f
        PROVE  RoundOK(LoadRound(IF rooms[k] = None THEN [manifest |-> None, log |-> <<>>]
                                 ELSE rooms[k], p, f))
    <3> DEFINE room == IF rooms[k] = None THEN [manifest |-> None, log |-> <<>>] ELSE rooms[k]
    <3>1. room.manifest # None => LogOK(room.log)
        BY <2>2
    <3> HIDE DEF room
    <3>2. RoundOK(LoadRound(room, p, f))
        BY <3>1, RoundsAreOK
    <3>3. QED
        BY <3>2 DEF room
  <2>5. FactsOK(Load(rooms, pointer, disk.folder))
      BY <2>3, <2>4 DEF FactsOK, Load
  <2>6. QED
      BY <2>1, <2>5
<1>3. QED
    BY <1>1, <1>2

----------------------------------------------------------------------------
(* Records and the links between them *)

LEMMA TupleIsSequence ==
    ASSUME NEW n \in Nat, NEW f, f = [k \in 1 .. n |-> f[k]]
    PROVE  f \in Seq(Range(f)) /\ Len(f) = n /\ DOMAIN f = 1 .. n
<1>1. DOMAIN f = 1 .. n
    OBVIOUS
<1>2. \A k \in 1 .. n : f[k] \in Range(f)
    BY <1>1 DEF Range
<1>3. f \in [1 .. n -> Range(f)]
    BY <1>2
<1>4. QED
    BY <1>1, <1>3

\* A record that is found is one of its round.
LEMMA RecordIsFound ==
    ASSUME NEW facts, NEW rec, RecordsOf(facts, rec.round) \in Seq(Range(RecordsOf(facts, rec.round)))
    PROVE  LET records == RecordsOf(facts, rec.round) IN
           /\ Record(facts, rec) # None =>
                 \E i \in 1 .. Len(records) : records[i] = Record(facts, rec) /\ records[i].id = rec.id
           /\ \A i \in 1 .. Len(records) :
                 /\ records[i].id = rec.id
                 /\ \A j \in 1 .. Len(records) : j < i => records[j].id # rec.id
                 => Record(facts, rec) = records[i]
<1> DEFINE records == RecordsOf(facts, rec.round)
           I == {i \in 1 .. Len(records) : records[i].id = rec.id}
           at == IF I # {} THEN Min(I) ELSE 0
<1>1. Len(records) \in Nat
    BY LenProperties
<1>2. Record(facts, rec) = IF at = 0 THEN None ELSE records[at]
    BY DEF Record, SelectInSeq
<1> HIDE DEF records
<1>3. I # {} => Min(I) \in I /\ \A j \in I : Min(I) <= j
  <2>1. I \in SUBSET (1 .. Len(records))
      OBVIOUS
  <2> HIDE DEF I
  <2>2. I # {} => \E k \in I : \A j \in I : k <= j
      BY <1>1, <2>1, Least
  <2>3. QED
      BY <2>2 DEF Min
<1>4. Record(facts, rec) # None =>
         \E i \in 1 .. Len(records) : records[i] = Record(facts, rec) /\ records[i].id = rec.id
    BY <1>2, <1>3
<1>5. ASSUME NEW i \in 1 .. Len(records), records[i].id = rec.id,
             \A j \in 1 .. Len(records) : j < i => records[j].id # rec.id
      PROVE  Record(facts, rec) = records[i]
  <2>1. i \in I /\ I # {}
      BY <1>5
  <2>2. at \in I /\ at <= i /\ at = Min(I)
      BY <1>3, <2>1
  <2>3. at \in 1 .. Len(records) /\ records[at].id = rec.id
      BY <2>2
  <2> HIDE DEF at, I
  <2>4. at = i
      BY <1>1, <1>5, <2>2, <2>3
  <2>5. at # 0
      BY <2>3
  <2>6. QED
      BY <1>2, <2>4, <2>5
<1>6. QED
    BY <1>4, <1>5 DEF records

\* One of two records of a round includes the other.
Joined(facts, a, b) ==
    /\ a.round = b.round
    /\ Record(facts, a) # None /\ Record(facts, b) # None
    /\ b.id \in Range(Record(facts, a).includes) \/ a.id \in Range(Record(facts, b).includes)

LEMMA RecordsAreOK ==
    ASSUME NEW facts, FactsOK(facts), NEW round
    PROVE  LET records == RecordsOf(facts, round) IN
           /\ LogOK(records)
           /\ \A i, j \in 1 .. Len(records) : i < j => records[i].id # records[j].id
<1>1. CASE HasRound(facts, round)
  <2>1. round.key \in DOMAIN facts
      BY <1>1 DEF HasRound, Identities, RoundOf
  <2>2. RoundOK(facts[round.key])
      BY <2>1 DEF FactsOK
  <2>3. QED
      BY <1>1, <2>2 DEF RoundOK, RecordsOf
<1>2. CASE ~HasRound(facts, round)
  <2>1. RecordsOf(facts, round) = <<>>
      BY <1>2 DEF RecordsOf
  <2>2. Len(<<>>) = 0 /\ \A S : <<>> \in Seq(S)
      BY EmptySeq
  <2>3. Range(<<>>) = {}
      BY DEF Range
  <2>4. QED
      BY <2>1, <2>2, <2>3 DEF LogOK
<1>3. QED
    BY <1>1, <1>2

\* Every include of every record of a round has a link.
IncludesHaveLinks(facts, round) ==
    LET records == RecordsOf(facts, round)
        links == Links(facts, round) IN
    \A i \in 1 .. Len(records) : \A id \in Range(records[i].includes) :
        \E k \in 1 .. Len(links) :
            links[k].valid /\ links[k].from = records[i].id /\ links[k].to = id

\* The links that can be followed are the includes of the records.
LEMMA LinksAreIncludes ==
    ASSUME NEW facts, FactsOK(facts), NEW round
    PROVE  LET records == RecordsOf(facts, round)
               links == Links(facts, round) IN
           /\ Len(links) \in Nat /\ DOMAIN links = 1 .. Len(links)
           /\ \A k \in 1 .. Len(links) : links[k].valid =>
                 \E i \in 1 .. Len(records) :
                    links[k].from = records[i].id /\ links[k].to \in Range(records[i].includes)
           /\ IncludesHaveLinks(facts, round)
<1> DEFINE records == RecordsOf(facts, round)
           n == Len(records)
           dangling == IF HasRound(facts, round) THEN facts[round.key].dangling ELSE <<>>
           Of(i) == [k \in DOMAIN records[i].includes |->
                        [from |-> records[i].id, to |-> records[i].includes[k],
                         role |-> Role(records, i, records[i]), valid |-> TRUE]]
           parts == [i \in DOMAIN records |-> Of(i)]
           flat == FlattenSeq(parts)
           links == Links(facts, round)
           Included(l) == \E i \in 1 .. n : l.from = records[i].id /\ l.to \in Range(records[i].includes)
           T == UNION {Range(Of(i)) : i \in 1 .. n}
<1>1. LogOK(records)
    BY RecordsAreOK
<1>2. dangling \in Seq(Range(dangling)) /\ \A k \in 1 .. Len(dangling) : dangling[k].valid = FALSE
  <2>1. CASE HasRound(facts, round)
    <3>1. round.key \in DOMAIN facts
        BY <2>1 DEF HasRound, Identities, RoundOf
    <3>2. QED
        BY <2>1, <3>1 DEF FactsOK, RoundOK
  <2>2. CASE ~HasRound(facts, round)
      BY <2>2, EmptySeq
  <2>3. QED
      BY <2>1, <2>2
<1>3. links = flat \o dangling
    BY DEF Links
<1>4. n \in Nat /\ DOMAIN records = 1 .. n
    BY <1>1, LenProperties DEF LogOK
<1>5. ASSUME NEW i \in 1 .. n
      PROVE  /\ records[i].includes \in Seq(Range(records[i].includes))
             /\ Len(records[i].includes) \in Nat
             /\ DOMAIN records[i].includes = 1 .. Len(records[i].includes)
  <2>1. records[i] \in Range(records)
      BY <1>4 DEF Range
  <2>2. QED
      BY <1>1, <2>1, LenProperties DEF LogOK
<1> HIDE DEF records, n, dangling, links
<1>6. /\ Len(parts) = n /\ DOMAIN parts = 1 .. n /\ \A i \in 1 .. n : parts[i] = Of(i)
    BY <1>4
<1>7. ASSUME NEW i \in 1 .. n
      PROVE  /\ Len(Of(i)) = Len(records[i].includes)
             /\ \A k \in 1 .. Len(Of(i)) :
                  /\ Of(i)[k].valid = TRUE /\ Of(i)[k].from = records[i].id
                  /\ Of(i)[k].to = records[i].includes[k]
                  /\ Of(i)[k].to \in Range(records[i].includes)
  <2>1. DOMAIN Of(i) = 1 .. Len(records[i].includes)
      BY <1>5
  <2>2. Len(Of(i)) = Len(records[i].includes)
      BY <1>5, <2>1
  <2>3. QED
      BY <1>5, <2>1, <2>2 DEF Range
<1>8. ASSUME NEW i \in 1 .. n PROVE Of(i) \in Seq(T)
  <2> DEFINE m == Len(records[i].includes)
  <2>1. m \in Nat /\ DOMAIN records[i].includes = 1 .. m
      BY <1>5
  <2>2. Of(i) = [k \in 1 .. m |-> Of(i)[k]]
      BY <2>1
  <2>3. Range(Of(i)) \in SUBSET T
      OBVIOUS
  <2> HIDE DEF T, Of, m
  <2>4. Of(i) \in Seq(Range(Of(i)))
      BY <2>1, <2>2, TupleIsSequence
  <2>5. QED
      BY <2>3, <2>4, SeqMonotonic
<1>9. \A l \in T : Included(l)
  <2> SUFFICES ASSUME NEW l \in T PROVE Included(l)
      OBVIOUS
  <2>1. PICK i \in 1 .. n : l \in Range(Of(i))
      OBVIOUS
  <2>2. PICK k \in DOMAIN Of(i) : l = Of(i)[k]
      BY <2>1 DEF Range
  <2>3. DOMAIN Of(i) = 1 .. Len(records[i].includes)
      BY <1>5
  <2> HIDE DEF Of, T
  <2>4. QED
      BY <1>7, <2>2, <2>3
<1> HIDE DEF T, Of, parts
<1>10. CASE n = 0
  <2>1. flat = parts /\ parts = <<>>
    <3>1. parts = <<>>
        BY <1>4, <1>10 DEF parts
    <3>2. QED
        BY <1>6, <1>10, <3>1 DEF FlattenSeq
  <2> HIDE DEF flat
  <2>2. links = dangling
      BY <1>2, <1>3, <2>1, ConcatEmptySeq
  <2>3. Len(dangling) \in Nat /\ DOMAIN dangling = 1 .. Len(dangling)
      BY <1>2, LenProperties
  <2>4. QED
      BY <1>2, <1>10, <2>2, <2>3 DEF links, n, records, IncludesHaveLinks
<1>11. CASE n # 0
  <2>1. /\ flat \in Seq(T)
        /\ \A i \in 1 .. n : \A k \in 1 .. Len(Of(i)) :
              \E j \in 1 .. Len(flat) : flat[j] = Of(i)[k]
    <3>1. Len(parts) \in Nat \ {0} /\ \A i \in 1 .. Len(parts) : parts[i] \in Seq(T)
        BY <1>4, <1>6, <1>8, <1>11
    <3>2. /\ FlattenSeq(parts) \in Seq(T)
          /\ \A i \in 1 .. Len(parts) : \A k \in 1 .. Len(parts[i]) :
                \E j \in 1 .. Len(FlattenSeq(parts)) : FlattenSeq(parts)[j] = parts[i][k]
        BY <3>1, FlattenHasParts
    <3>3. QED
        BY <1>6, <3>2
  <2> HIDE DEF flat
  <2> DEFINE U == T \cup Range(dangling)
  <2>2. flat \in Seq(U) /\ dangling \in Seq(U)
      BY <1>2, <2>1, SeqMonotonic
  <2> HIDE DEF U
  <2>3. /\ links \in Seq(U) /\ Len(flat) \in Nat /\ Len(dangling) \in Nat
        /\ Len(links) = Len(flat) + Len(dangling) /\ DOMAIN links = 1 .. Len(links)
        /\ \A k \in 1 .. Len(flat) + Len(dangling) :
              links[k] = IF k <= Len(flat) THEN flat[k] ELSE dangling[k - Len(flat)]
      BY <1>3, <2>2, ConcatProperties, LenProperties
  <2>4. ASSUME NEW k \in 1 .. Len(links), links[k].valid PROVE Included(links[k])
    <3>1. CASE k <= Len(flat)
      <4>1. k \in 1 .. Len(flat) /\ links[k] = flat[k]
          BY <2>3, <3>1
      <4>2. flat[k] \in T
          BY <2>1, <2>3, <4>1, ElementOfSeq
      <4> HIDE DEF Included
      <4>3. QED
          BY <1>9, <4>1, <4>2
    <3>2. CASE ~(k <= Len(flat))
      <4>1. links[k] = dangling[k - Len(flat)] /\ k - Len(flat) \in 1 .. Len(dangling)
          BY <2>3, <3>2
      <4>2. QED
          BY <1>2, <2>4, <4>1
    <3>3. QED
        BY <3>1, <3>2
  <2>5. ASSUME NEW i \in 1 .. n, NEW id \in Range(records[i].includes)
        PROVE  \E k \in 1 .. Len(links) :
                  links[k].valid /\ links[k].from = records[i].id /\ links[k].to = id
    <3>1. PICK k \in 1 .. Len(records[i].includes) : records[i].includes[k] = id
        BY <1>5 DEF Range
    <3>2. k \in 1 .. Len(Of(i))
        BY <1>7
    <3>3. PICK j \in 1 .. Len(flat) : flat[j] = Of(i)[k]
        BY <2>1, <3>2
    <3>4. j \in 1 .. Len(links) /\ links[j] = Of(i)[k]
        BY <2>3, <3>3
    <3>5. Of(i)[k].valid = TRUE /\ Of(i)[k].from = records[i].id /\ Of(i)[k].to = id
        BY <1>7, <3>1, <3>2
    <3>6. QED
        BY <3>4, <3>5
  <2>6. QED
      BY <2>3, <2>4, <2>5 DEF links, n, records, IncludesHaveLinks
<1>12. QED
    BY <1>10, <1>11

----------------------------------------------------------------------------
(* The cursor *)

\* The cursor goes to the item it was on, when the new inventory has it.
LEMMA CursorFinds ==
    ASSUME NEW b, NEW view, view # 0, Items[view] \in Seq(Range(Items[view])),
           NEW k \in 1 .. Len(Items[view]), Items[view][k].id = ItemUnder(b)
    PROVE  /\ Cursor(b, view) + 1 \in 1 .. Len(Items[view])
           /\ Items[view][Cursor(b, view) + 1].id = ItemUnder(b)
<1> DEFINE new == Items[view]
           I == {i \in 1 .. Len(new) : new[i].id = ItemUnder(b)}
           at == Min(I)
<1>1. Len(new) \in Nat
    BY LenProperties
<1>2. at \in 1 .. Len(new) /\ new[at].id = ItemUnder(b)
  <2>1. I \in SUBSET (1 .. Len(new)) /\ I # {}
      OBVIOUS
  <2>2. \A i \in I : i \in 1 .. Len(new) /\ new[i].id = ItemUnder(b)
      OBVIOUS
  <2> HIDE DEF I
  <2>3. at \in I
      BY <1>1, <2>1, FirstPosition
  <2>4. QED
      BY <2>2, <2>3
<1>3. new # <<>>
  <2>1. Len(new) # 0
      BY <1>1
  <2>2. QED
      BY <2>1, EmptySeq
<1>4. Cursor(b, view) = IF at - 1 < Len(new) THEN at - 1 ELSE Len(new) - 1
  <2>1. I # {}
      OBVIOUS
  <2>2. at > 0
      BY <1>2
  <2>3. QED
      BY <1>3, <2>1, <2>2 DEF Cursor, SelectInSeq
<1> HIDE DEF at, new, I
<1>5. Cursor(b, view) = at - 1 /\ at - 1 + 1 = at
    BY <1>1, <1>2, <1>4
<1>6. QED
    BY <1>2, <1>5 DEF new
----------------------------------------------------------------------------
(* The history: what its helpers leave alone *)

\* Whoever is not about to open or to refresh leaves these alone.
Keeps(g, h) ==
    /\ DOMAIN g = HistoryFields
    /\ g.facts = h.facts /\ g.stack = h.stack /\ g.preview = h.preview
    /\ g.returns = h.returns /\ (h.initialized => g.initialized)

KeepsEdge(g, h) == Keeps(g, h) /\ g.relationship = h.relationship

LEMMA SelectionMoves ==
    ASSUME NEW h, DOMAIN h = HistoryFields
    PROVE  /\ KeepsEdge(FirstSelection(h), h)
           /\ KeepsEdge(KeepRound(h), h)
           /\ KeepsEdge(KeepSelection(h), h)
           /\ KeepsEdge(Start(h), h) /\ Start(h).initialized
<1>1. \A v : /\ KeepsEdge([h EXCEPT !.selection = v], h)
             /\ KeepsEdge([h EXCEPT !.round = v], h)
    BY DEF KeepsEdge, Keeps, HistoryFields
<1>2. KeepsEdge(h, h)
    BY DEF KeepsEdge, Keeps
<1>3. KeepsEdge(FirstSelection(h), h)
    BY <1>1 DEF FirstSelection
<1>4. KeepsEdge(KeepRound(h), h) /\ KeepsEdge(KeepSelection(h), h)
    BY <1>1, <1>2 DEF KeepRound, KeepSelection
<1>5. ASSUME NEW v
      PROVE  LET g == FirstSelection([h EXCEPT !.initialized = TRUE, !.round = v]) IN
             KeepsEdge(g, h) /\ g.initialized
  <2> DEFINE g == [h EXCEPT !.initialized = TRUE, !.round = v]
  <2>1. KeepsEdge(g, h) /\ g.initialized
      BY DEF KeepsEdge, Keeps, HistoryFields
  <2> HIDE DEF g
  <2>2. \A w : /\ KeepsEdge([g EXCEPT !.selection = w], h)
               /\ [g EXCEPT !.selection = w].initialized
      BY <2>1 DEF KeepsEdge, Keeps, HistoryFields
  <2>3. KeepsEdge(FirstSelection(g), h) /\ FirstSelection(g).initialized
      BY <2>2 DEF FirstSelection
  <2>4. QED
      BY <2>3 DEF g
<1>6. KeepsEdge(Start(h), h) /\ Start(h).initialized
    BY <1>5 DEF Start
<1>7. QED
    BY <1>3, <1>4, <1>6

LEMMA EdgeMoves ==
    ASSUME NEW h, DOMAIN h = HistoryFields
    PROVE  /\ Keeps(FirstEdge(h), h) /\ FirstEdge(h).selection = h.selection
           /\ Keeps(KeepRelationship(h), h) /\ KeepRelationship(h).selection = h.selection
           /\ KeepRelationship(h).relationship \in {h.relationship, None}
           /\ \A v : Keeps([h EXCEPT !.relationship = v], h)
<1>1. \A v : /\ Keeps([h EXCEPT !.relationship = v], h)
             /\ [h EXCEPT !.relationship = v].selection = h.selection
    BY DEF Keeps, HistoryFields
<1>2. Keeps(h, h)
    BY DEF Keeps
<1>3. [h EXCEPT !.relationship = None].relationship = None
    BY DEF HistoryFields
<1>4. QED
    BY <1>1, <1>2, <1>3 DEF FirstEdge, KeepRelationship

LEMMA StackDropped ==
    ASSUME NEW h, DOMAIN h = HistoryFields
    PROVE  /\ DOMAIN DropStack(h) = HistoryFields
           /\ DropStack(h).facts = h.facts /\ DropStack(h).preview = h.preview
           /\ DropStack(h).stack = <<>> /\ DropStack(h).returns = <<>>
           /\ DropStack(h).relationship = h.relationship
           /\ h.initialized => DropStack(h).initialized
BY DEF DropStack, HistoryFields

\* A refresh shows the facts that were read, nothing open, and the same stack or none.
LEMMA Refreshes ==
    ASSUME NEW h, DOMAIN h = HistoryFields, NEW facts
    PROVE  LET g == RefreshHistory(h, facts) IN
           /\ DOMAIN g = HistoryFields
           /\ g.facts = facts /\ g.preview = None /\ g.initialized
           /\ \/ g.stack = <<>> /\ g.returns = <<>>
              \/ /\ g.stack = h.stack /\ g.returns = h.returns
                 /\ h.initialized => ~DetailChanged(h, facts)
           /\ g.relationship \in {h.relationship, None}
<1> DEFINE loaded == [h EXCEPT !.facts = facts, !.preview = None]
           kept == KeepSelection(KeepRound(loaded))
           Loaded(g) == /\ DOMAIN g = HistoryFields
                        /\ g.facts = facts /\ g.preview = None
                        /\ g.relationship = h.relationship
<1>1. /\ Loaded(loaded) /\ loaded.stack = h.stack /\ loaded.returns = h.returns
      /\ h.initialized => loaded.initialized
    BY DEF HistoryFields
<1> HIDE DEF loaded
<1>2. KeepsEdge(KeepRound(loaded), loaded)
    BY <1>1, SelectionMoves
<1>3. KeepsEdge(kept, KeepRound(loaded))
    BY <1>2, SelectionMoves DEF KeepsEdge, Keeps
<1> HIDE DEF kept
<1>4. /\ Loaded(kept) /\ kept.stack = h.stack /\ kept.returns = h.returns
      /\ h.initialized => kept.initialized
    BY <1>1, <1>2, <1>3 DEF KeepsEdge, Keeps
<1>5. /\ Loaded(DropStack(kept))
      /\ DropStack(kept).stack = <<>> /\ DropStack(kept).returns = <<>>
      /\ h.initialized => DropStack(kept).initialized
    BY <1>4, StackDropped
<1>6. /\ Loaded(Start(loaded)) /\ Start(loaded).initialized
      /\ Start(loaded).stack = h.stack /\ Start(loaded).returns = h.returns
    BY <1>1, SelectionMoves DEF KeepsEdge, Keeps
<1> DEFINE seen == IF ~h.initialized THEN Start(loaded)
                   ELSE IF DetailChanged(h, facts) THEN DropStack(kept) ELSE kept
           Way(g) == \/ g.stack = <<>> /\ g.returns = <<>>
                     \/ /\ g.stack = h.stack /\ g.returns = h.returns
                        /\ h.initialized => ~DetailChanged(h, facts)
<1>7. Loaded(seen) /\ seen.initialized /\ Way(seen)
    BY <1>4, <1>5, <1>6
<1>8. RefreshHistory(h, facts) = KeepRelationship(seen)
    BY DEF RefreshHistory, seen, kept, loaded
<1> HIDE DEF seen
<1>9. /\ Keeps(KeepRelationship(seen), seen)
      /\ KeepRelationship(seen).relationship \in {seen.relationship, None}
    BY <1>7, EdgeMoves
<1>10. QED
    BY <1>7, <1>8, <1>9 DEF Keeps

\* A refresh keeps the invariant, whatever was read.
LEMMA RefreshedHistory ==
    ASSUME NEW h, HistoryOK(h), NEW facts
    PROVE  LET g == RefreshHistory(h, facts) IN
           HistoryOK(g) /\ HistoryBound(g) /\ ~(Len(g.stack) > Len(h.stack))
<1> DEFINE g == RefreshHistory(h, facts)
<1>1. /\ DOMAIN g = HistoryFields /\ g.preview = None
      /\ g.stack = h.stack \/ g.stack = <<>>
    BY Refreshes DEF HistoryOK
<1>2. /\ h.stack \in Seq(Range(h.stack)) /\ Len(h.stack) \in Nat
      /\ \A S : <<>> \in Seq(S) /\ Len(<<>>) = 0
    BY EmptySeq, LenProperties DEF HistoryOK
<1> HIDE DEF g
<1>3. g.stack \in Seq(Range(g.stack)) /\ ~(Len(g.stack) > Len(h.stack))
  <2>1. CASE g.stack = h.stack
      BY <1>2, <2>1
  <2>2. CASE g.stack = <<>>
      BY <1>2, <2>2
  <2>3. QED
      BY <1>1, <2>1, <2>2
<1>4. QED
    BY <1>1, <1>3 DEF HistoryOK, HistoryBound, g

LEMMA PreviewStays ==
    ASSUME NEW h, HistoryOK(h), HistoryBound(h), NEW g,
           Keeps(g, h), g.preview = None \/ g.selection = h.selection
    PROVE  HistoryOK(g) /\ HistoryBound(g)
BY DEF HistoryOK, HistoryBound, Keeps

\* j, k: another edge, record or round, unless something is open.
LEMMA MovesInHistory ==
    ASSUME NEW h, HistoryOK(h), HistoryBound(h), NEW delta
    PROVE  LET g == MoveHistory(h, delta) IN
           HistoryOK(g) /\ HistoryBound(g) /\ Keeps(g, h)
<1> DEFINE g == MoveHistory(h, delta)
<1>1. DOMAIN h = HistoryFields
    BY DEF HistoryOK
<1>2. CASE h.preview # None
    BY <1>1, <1>2 DEF MoveHistory, Keeps
<1>3. CASE h.preview = None
  <2>1. /\ \A v : Keeps([h EXCEPT !.relationship = v], h)
        /\ \A v : Keeps([h EXCEPT !.selection = v], h)
        /\ \A v : Keeps([h EXCEPT !.round = v], h)
      BY <1>1 DEF Keeps, HistoryFields
  <2>2. ASSUME NEW v PROVE Keeps(FirstSelection([h EXCEPT !.round = v]), h)
    <3> DEFINE m == [h EXCEPT !.round = v]
    <3>1. Keeps(m, h)
        BY <2>1
    <3> HIDE DEF m
    <3>2. Keeps(FirstSelection(m), m)
        BY <3>1, SelectionMoves DEF KeepsEdge, Keeps
    <3>3. Keeps(FirstSelection(m), h)
        BY <3>1, <3>2 DEF Keeps
    <3>4. QED
        BY <3>3 DEF m
  <2>3. Keeps(g, h)
      BY <1>3, <2>1, <2>2 DEF MoveHistory
  <2> HIDE DEF g
  <2>4. g.preview = None
      BY <1>3, <2>3 DEF Keeps
  <2>5. QED
      BY <2>3, <2>4, PreviewStays DEF g
<1>4. QED
    BY <1>2, <1>3

\* Esc: one thing less is open.
LEMMA GoesBack ==
    ASSUME NEW h, HistoryOK(h), CanGoBack(h)
    PROVE  LET g == Back(h) IN
           HistoryOK(g) /\ HistoryBound(g) /\ ~(Len(g.stack) > Len(h.stack))
<1> DEFINE g == Back(h)
<1>1. /\ DOMAIN h = HistoryFields /\ h.stack \in Seq(Range(h.stack))
      /\ Len(h.stack) \in Nat /\ DOMAIN h.stack = 1 .. Len(h.stack)
    BY LenProperties DEF HistoryOK
<1>2. CASE h.preview # None
  <2>1. /\ DOMAIN g = HistoryFields /\ g.preview = None /\ g.stack = h.stack
      BY <1>1, <1>2 DEF Back, HistoryFields
  <2> HIDE DEF g
  <2>2. QED
      BY <1>1, <2>1 DEF HistoryOK, HistoryBound, g
<1>3. CASE h.preview = None
  <2> DEFINE rest == Front(h.stack)
  <2>1. h.stack # <<>>
      BY <1>3 DEF CanGoBack
  <2>2. rest \in Seq(Range(rest)) /\ Len(rest) = Len(h.stack) - 1
    <3>1. Len(h.stack) \in Nat \ {0}
        BY <1>1, <2>1, EmptySeq
    <3>2. /\ 1 \in Int /\ Len(h.stack) - 1 \in Int
          /\ \A i \in 1 .. Len(h.stack) - 1 : h.stack[i] \in Range(h.stack)
        BY <1>1, <3>1 DEF Range
    <3>3. /\ rest \in Seq(Range(h.stack))
          /\ Len(rest) = IF 1 <= Len(h.stack) - 1 THEN (Len(h.stack) - 1) - 1 + 1 ELSE 0
        BY <3>2, SubSeqProperties DEF Front
    <3> HIDE DEF rest
    <3>4. rest \in Seq(Range(rest))
        BY <3>3, OwnRange
    <3>5. QED
        BY <3>1, <3>3, <3>4
  <2> HIDE DEF rest
  <2> DEFINE source == IF rest = <<>> THEN Last(h.stack) ELSE Last(rest)
             left == IF h.returns = <<>>
                     THEN [relationship |-> None, responses_only |-> h.responses_only]
                     ELSE Last(h.returns)
             back == [h EXCEPT !.stack = rest,
                               !.selection = [round |-> source.round, id |-> source.id,
                                              item |-> FALSE],
                               !.returns = IF @ = <<>> THEN @ ELSE Front(@),
                               !.relationship = left.relationship,
                               !.responses_only = left.responses_only]
  <2>5. g = [KeepRelationship(back) EXCEPT !.responses_only = @ /\ rest # <<>>]
      BY <1>3, Zenon DEF Back, rest
  <2> HIDE DEF source, left
  <2>4. DOMAIN back = HistoryFields /\ back.stack = rest /\ back.preview = None
      BY <1>1, <1>3 DEF HistoryFields
  <2> HIDE DEF back, g
  <2>6. Keeps(KeepRelationship(back), back)
      BY <2>4, EdgeMoves
  <2>7. DOMAIN g = HistoryFields /\ g.stack = rest /\ g.preview = None
      BY <2>4, <2>5, <2>6 DEF Keeps, HistoryFields
  <2>8. QED
      BY <1>1, <2>2, <2>7 DEF HistoryOK, HistoryBound, g
<1>4. QED
    BY <1>2, <1>3
\* What Enter promises of a detail that it opens.
Unswapped(g, h) ==
    Len(g.stack) > Len(h.stack) =>
        LET opened == Last(g.stack) IN
        /\ Record(g.facts, opened) = Record(h.facts, opened)
        /\ g.facts[opened.round.key].digest = h.facts[opened.round.key].digest

\* A record that is still what was shown goes on top of what is seen now.
LEMMA PutsOnTop ==
    ASSUME NEW h, HistoryOK(h), NEW fresh, NEW rec, Revalidates(h, fresh, rec),
           NEW g, DOMAIN g = HistoryFields, g.facts = fresh, g.preview = None,
           g.stack = Append(RefreshHistory(h, fresh).stack, rec)
    PROVE  HistoryOK(g) /\ HistoryBound(g) /\ Unswapped(g, h)
<1> DEFINE seen == RefreshHistory(h, fresh)
           S == Range(seen.stack) \cup {rec}
<1>1. seen.stack \in Seq(Range(seen.stack))
    BY RefreshedHistory DEF HistoryOK
<1>2. seen.stack \in Seq(S) /\ rec \in S
    BY <1>1, SeqMonotonic
<1> HIDE DEF S, seen
<1>3. /\ g.stack \in Seq(S) /\ Len(g.stack) = Len(seen.stack) + 1
      /\ g.stack[Len(seen.stack) + 1] = rec
    BY <1>2, AppendProperties DEF seen
<1>4. g.stack \in Seq(Range(g.stack))
    BY <1>3, OwnRange
<1>5. Last(g.stack) = rec
    BY <1>3 DEF Last
<1>6. /\ Record(h.facts, rec) = Record(fresh, rec)
      /\ h.facts[rec.round.key].digest = fresh[rec.round.key].digest
    BY DEF Revalidates
<1>7. Unswapped(g, h)
    BY <1>5, <1>6 DEF Unswapped
<1>8. QED
    BY <1>4, <1>7 DEF HistoryOK, HistoryBound

\* Enter on an edge, a record or an artifact.
LEMMA FollowsEdge ==
    ASSUME NEW h, HistoryOK(h), HistoryBound(h), NEW fresh
    PROVE  LET g == Follow(h, fresh) IN HistoryOK(g) /\ HistoryBound(g) /\ Unswapped(g, h)
<1> DEFINE g == Follow(h, fresh)
           seen == RefreshHistory(h, fresh)
<1>1. /\ DOMAIN seen = HistoryFields /\ seen.facts = fresh /\ seen.preview = None
    BY Refreshes DEF HistoryOK
<1>2. PICK target, returned :
         LET next == [seen EXCEPT !.returns = Append(@, returned),
                                  !.stack = Append(@, target)]
         IN  \/ g = h
             \/ g = DropStack(seen)
             \/ g = FirstEdge(next) /\ Revalidates(h, fresh, target)
    BY DEF Follow
<1> DEFINE next == [seen EXCEPT !.returns = Append(@, returned), !.stack = Append(@, target)]
<1>3. CASE g = h
  <2>1. Len(h.stack) \in Nat
      BY LenProperties DEF HistoryOK
  <2>2. QED
      BY <1>3, <2>1 DEF Unswapped
<1>4. CASE g = DropStack(seen)
  <2> HIDE DEF g, seen
  <2>1. /\ DOMAIN g = HistoryFields /\ g.stack = <<>> /\ g.preview = None
      BY <1>1, <1>4, StackDropped
  <2>2. /\ Len(h.stack) \in Nat /\ <<>> \in Seq(Range(<<>>)) /\ Len(<<>>) = 0
      BY LenProperties, EmptySeq DEF HistoryOK
  <2>3. Unswapped(g, h)
      BY <2>1, <2>2 DEF Unswapped
  <2>4. HistoryOK(g) /\ HistoryBound(g)
      BY <2>1, <2>2 DEF HistoryOK, HistoryBound
  <2>5. QED
      BY <2>3, <2>4 DEF g
<1>5. CASE g = FirstEdge(next) /\ Revalidates(h, fresh, target)
  <2>1. /\ DOMAIN next = HistoryFields /\ next.facts = fresh /\ next.preview = None
        /\ next.stack = Append(seen.stack, target)
    <3> HIDE DEF seen
    <3>1. QED
        BY <1>1 DEF HistoryFields
  <2> HIDE DEF next, g
  <2>2. Keeps(FirstEdge(next), next)
      BY <2>1, EdgeMoves
  <2>3. /\ DOMAIN g = HistoryFields /\ g.facts = fresh /\ g.preview = None
        /\ g.stack = Append(seen.stack, target)
      BY <1>5, <2>1, <2>2 DEF Keeps
  <2>4. HistoryOK(g) /\ HistoryBound(g) /\ Unswapped(g, h)
      BY <1>5, <2>3, PutsOnTop
  <2>5. QED
      BY <2>4 DEF g
<1>6. QED
  <2> HIDE DEF g
  <2>1. g = h \/ g = DropStack(seen) \/ (g = FirstEdge(next) /\ Revalidates(h, fresh, target))
      BY <1>2
  <2>2. QED
      BY <1>3, <1>4, <1>5, <2>1 DEF g

LEMMA OpensRecord ==
    ASSUME NEW h, HistoryOK(h), NEW fresh
    PROVE  LET g == OpenRecord(h, fresh) IN HistoryOK(g) /\ HistoryBound(g) /\ Unswapped(g, h)
<1> DEFINE g == OpenRecord(h, fresh)
           seen == RefreshHistory(h, fresh)
           rec == [round |-> h.selection.round, id |-> h.selection.id]
           next == [seen EXCEPT !.stack = Append(@, rec)]
<1>1. /\ DOMAIN seen = HistoryFields /\ seen.facts = fresh /\ seen.preview = None
    BY Refreshes DEF HistoryOK
<1>2. g = IF Revalidates(h, fresh, rec) THEN FirstEdge(next) ELSE DropStack(seen)
    BY DEF OpenRecord
<1> HIDE DEF g, rec
<1>3. CASE ~Revalidates(h, fresh, rec)
  <2> HIDE DEF seen
  <2>1. /\ DOMAIN g = HistoryFields /\ g.stack = <<>> /\ g.preview = None
      BY <1>1, <1>2, <1>3, StackDropped
  <2>2. /\ Len(h.stack) \in Nat /\ <<>> \in Seq(Range(<<>>)) /\ Len(<<>>) = 0
      BY LenProperties, EmptySeq DEF HistoryOK
  <2>3. Unswapped(g, h)
      BY <2>1, <2>2 DEF Unswapped
  <2>4. HistoryOK(g) /\ HistoryBound(g)
      BY <2>1, <2>2 DEF HistoryOK, HistoryBound
  <2>5. QED
      BY <2>3, <2>4 DEF g
<1>4. CASE Revalidates(h, fresh, rec)
  <2>1. /\ DOMAIN next = HistoryFields /\ next.facts = fresh /\ next.preview = None
        /\ next.stack = Append(seen.stack, rec)
    <3> HIDE DEF seen
    <3>1. QED
        BY <1>1 DEF HistoryFields
  <2> HIDE DEF next
  <2>2. Keeps(FirstEdge(next), next)
      BY <2>1, EdgeMoves
  <2>3. /\ DOMAIN g = HistoryFields /\ g.facts = fresh /\ g.preview = None
        /\ g.stack = Append(seen.stack, rec)
      BY <1>2, <1>4, <2>1, <2>2 DEF Keeps
  <2>4. HistoryOK(g) /\ HistoryBound(g) /\ Unswapped(g, h)
      BY <1>4, <2>3, PutsOnTop
  <2>5. QED
      BY <2>4 DEF g
<1>5. QED
    BY <1>3, <1>4 DEF g

LEMMA OpensArtifact ==
    ASSUME NEW h, HistoryOK(h), HistoryBound(h), NEW fresh, NEW bytes
    PROVE  LET g == OpenArtifact(h, fresh, bytes) IN
           HistoryOK(g) /\ HistoryBound(g) /\ g.stack = h.stack
<1> DEFINE g == OpenArtifact(h, fresh, bytes)
           round == h.selection.round
           digest == h.facts[round.key].digest
           items == Range(Items[digest])
           wanted == {i \in items : i.id = h.selection.id}
           item == CHOOSE i \in wanted : TRUE
           opened == [h EXCEPT !.preview = [id |-> item.id, bytes |-> bytes[item.id]]]
           closed == [h EXCEPT !.preview = None]
<1>1. \/ g = h
      \/ g = closed
      \/ /\ HasRound(h.facts, round) /\ wanted # {} /\ bytes[item.id] = item.revision
         /\ g = opened
    BY Zenon DEF OpenArtifact
<1> HIDE DEF items
<1>2. wanted # {} => item \in items
    OBVIOUS
<1> HIDE DEF g, item, wanted, digest
<1>3. /\ DOMAIN closed = HistoryFields /\ closed.preview = None /\ closed.stack = h.stack
      /\ DOMAIN opened = HistoryFields /\ opened.stack = h.stack /\ opened.facts = h.facts
      /\ opened.selection = h.selection
      /\ opened.preview.id = item.id /\ opened.preview.bytes = bytes[item.id]
    BY SMTT(30) DEF HistoryOK, HistoryFields
<1> HIDE DEF opened, closed
<1>4. HasRound(h.facts, round) /\ item \in items /\ bytes[item.id] = item.revision
        => HistoryBound(opened)
    BY <1>3 DEF HistoryBound, items, digest
<1>5. HistoryBound(closed) /\ HistoryOK(closed) /\ HistoryOK(opened)
    BY <1>3 DEF HistoryBound, HistoryOK
<1>6. HistoryOK(g) /\ HistoryBound(g) /\ g.stack = h.stack
    BY <1>1, <1>2, <1>3, <1>4, <1>5
<1>7. QED
    BY <1>6 DEF g

LEMMA OpensHistory ==
    ASSUME NEW h, HistoryOK(h), HistoryBound(h), NEW fresh, NEW bytes
    PROVE  LET g == OpenHistory(h, fresh, bytes) IN
           HistoryOK(g) /\ HistoryBound(g) /\ Unswapped(g, h)
<1>1. Len(h.stack) \in Nat
    BY LenProperties DEF HistoryOK
<1>2. \A g : g.stack = h.stack => Unswapped(g, h)
    BY <1>1 DEF Unswapped
<1>3. QED
    BY <1>2, FollowsEdge, OpensRecord, OpensArtifact DEF OpenHistory
----------------------------------------------------------------------------
(* The gates *)

\* An item that can be read is as the Briefing bound to its attempt records it.
LEMMA ReadIsBound ==
    ASSUME NEW entity, NEW id, NEW item, Readable(entity, id, item)
    PROVE  /\ id \in AttemptIds(entity)
           /\ \E i \in Range(Items[AttemptOf(entity, id).bound]) :
                  i.id = Shown(item).item /\ i.revision = Shown(item).bytes
<1>1. View(entity, id) # 0
    BY DEF Readable
<1>2. id \in AttemptIds(entity)
    BY <1>1 DEF View
<1>3. View(entity, id) = AttemptOf(entity, id).bound
    BY <1>1, <1>2 DEF View, LoadVerified
<1>4. Shown(item).item = item /\ Shown(item).bytes = disk.bytes[item]
    BY DEF Shown
<1>5. PICK i \in Range(Items[View(entity, id)]) : i.id = item /\ i.revision = disk.bytes[item]
    BY DEF Readable
<1>6. QED
    BY <1>2, <1>3, <1>4, <1>5

LEMMA RefreshedBrowser ==
    ASSUME NEW b, BrowserOK(b), NEW entity
    PROVE  LET g == Refresh(b, entity) IN
           /\ BrowserOK(g) /\ GateBound(g, entity)
           /\ entity # None =>
                 g.view = View(entity, g.selected) /\ g.item = Cursor(b, g.view)
           /\ entity = None => g.view = 0
<1> DEFINE g == Refresh(b, entity)
<1>1. CASE entity = None
  <2>1. g = [b EXCEPT !.attempts = <<>>, !.selected = 0, !.view = 0, !.item = 0,
                      !.preview = None]
      BY <1>1 DEF Refresh
  <2> HIDE DEF g
  <2>2. DOMAIN g = BrowserFields /\ g.preview = None /\ g.view = 0
      BY <2>1 DEF BrowserOK, BrowserFields
  <2>3. QED
      BY <1>1, <2>2 DEF BrowserOK, GateBound, g
<1>2. CASE entity # None
  <2> DEFINE selected == IF b.selected \in AttemptIds(entity) THEN b.selected
                         ELSE Preferred(entity)
             view == View(entity, selected)
             reopen == /\ b.preview # None
                       /\ selected = b.selected
                       /\ Readable(entity, selected, b.preview.item)
  <2>1. g = [b EXCEPT !.attempts = entity.attempts, !.selected = selected, !.view = view,
                      !.item = Cursor(b, view),
                      !.preview = IF reopen THEN Shown(b.preview.item) ELSE None]
      BY <1>2 DEF Refresh
  <2>2. reopen => Readable(entity, selected, b.preview.item)
      OBVIOUS
  <2> HIDE DEF g, selected, view, reopen
  <2>3. /\ DOMAIN g = BrowserFields /\ g.selected = selected /\ g.view = view
        /\ g.item = Cursor(b, view)
        /\ g.preview = IF reopen THEN Shown(b.preview.item) ELSE None
      BY <2>1 DEF BrowserOK, BrowserFields
  <2>4. GateBound(g, entity)
    <3>1. CASE reopen
      <4>1. Readable(entity, selected, b.preview.item)
          BY <2>2, <3>1
      <4>2. QED
          BY <1>2, <2>3, <3>1, <4>1, ReadIsBound DEF GateBound
    <3>2. CASE ~reopen
        BY <2>3, <3>2 DEF GateBound
    <3>3. QED
        BY <3>1, <3>2
  <2>5. QED
      BY <1>2, <2>3, <2>4 DEF BrowserOK, g, view
<1>3. QED
    BY <1>1, <1>2

LEMMA RefreshKeepsBoth ==
    ASSUME NEW b, BrowserOK(b), HistoryOK(history), NEW entity, RefreshBoth(b, entity)
    PROVE  /\ BrowserOK(browser') /\ GateBound(browser', entity)
           /\ HistoryOK(history') /\ HistoryBound(history')
           /\ ~(Len(history'.stack) > Len(history.stack))
BY RefreshedBrowser, RefreshedHistory DEF RefreshBoth

\* Enter and r open what can be read, or refresh.
LEMMA OpensItem ==
    ASSUME BrowserOK(browser), HistoryOK(history), HistoryBound(history), NEW item, OpenItem(item)
    PROVE  /\ BrowserOK(browser') /\ GateBound(browser', index)
           /\ HistoryOK(history') /\ HistoryBound(history')
           /\ ~(Len(history'.stack) > Len(history.stack))
<1> DEFINE b == [browser EXCEPT !.preview = None]
<1>1. BrowserOK(b) /\ b.preview = None /\ b.selected = browser.selected
    BY DEF BrowserOK, BrowserFields
<1>2. OpenItem(item) <=>
         IF index = None \/ (b.selected # 0 /\ ~Readable(index, b.selected, item))
         THEN RefreshBoth(b, index)
         ELSE /\ browser' = IF b.selected = 0 THEN b ELSE [b EXCEPT !.preview = Shown(item)]
              /\ UNCHANGED history
    BY DEF OpenItem
<1> HIDE DEF b
<1>3. CASE RefreshBoth(b, index)
    BY <1>1, <1>3, RefreshKeepsBoth
<1>4. CASE /\ index # None /\ (b.selected = 0 \/ Readable(index, b.selected, item))
           /\ browser' = IF b.selected = 0 THEN b ELSE [b EXCEPT !.preview = Shown(item)]
           /\ UNCHANGED history
  <2>1. Len(history.stack) \in Nat
      BY LenProperties DEF HistoryOK
  <2>2. CASE b.selected = 0
      BY <1>1, <1>4, <2>1, <2>2 DEF GateBound
  <2>3. CASE b.selected # 0
    <3> DEFINE g == [b EXCEPT !.preview = Shown(item)]
    <3>1. DOMAIN g = BrowserFields /\ g.preview = Shown(item) /\ g.selected = b.selected
        BY <1>1 DEF BrowserOK, BrowserFields
    <3> HIDE DEF g
    <3>2. browser' = g
        BY <1>4, <2>3 DEF g
    <3>3. GateBound(g, index)
        BY <1>4, <2>3, <3>1, ReadIsBound DEF GateBound
    <3>4. QED
        BY <1>4, <2>1, <3>1, <3>2, <3>3 DEF BrowserOK
  <2>4. QED
      BY <2>2, <2>3
<1>5. QED
    BY <1>2, <1>3, <1>4
----------------------------------------------------------------------------
(* One step *)

LEMMA ClosedIsOK == HistoryOK(Closed) /\ HistoryBound(Closed) /\ Closed.stack = <<>>
<1>1. DOMAIN Closed = HistoryFields /\ Closed.stack = <<>> /\ Closed.preview = None
    BY DEF Closed, HistoryFields
<1>2. <<>> \in Seq(Range(<<>>))
    BY EmptySeq
<1>3. QED
    BY <1>1, <1>2 DEF HistoryOK, HistoryBound

LEMMA InitOK == Init => GateInv
<1> SUFFICES ASSUME Init PROVE GateInv
    OBVIOUS
<1>1. disk \in Starts
    BY DEF Init
<1>2. /\ DOMAIN disk = {"entity", "rooms", "folder", "bytes", "review"}
      /\ disk.entity \in AllEntities
      /\ \A a \in DOMAIN disk.rooms : disk.rooms[a] \in AllRooms
    BY <1>1, GateRoomConstants DEF AllEntities, AllRooms, Range
<1>3. \A e \in AllEntities : e # None => AttemptIds(e) \subseteq DOMAIN disk.rooms
    BY <1>1, GateRoomConstants DEF AttemptIds
<1>4. QED
    BY <1>2, <1>3, ClosedIsOK DEF Init, GateInv, DiskOK

LEMMA DiskStaysOK == DiskOK /\ [Next]_vars => DiskOK'
<1> SUFFICES ASSUME DiskOK, [Next]_vars PROVE DiskOK'
    OBVIOUS
<1>1. ASSUME disk' = disk PROVE DiskOK'
    BY <1>1 DEF DiskOK
<1>2. ASSUME NEW e \in Entities \cup {None}, disk' = [disk EXCEPT !.entity = e] PROVE DiskOK'
    BY <1>2 DEF DiskOK, AllEntities
<1>3. ASSUME NEW a \in DOMAIN disk.rooms, NEW r \in GateRooms,
             disk' = [disk EXCEPT !.rooms[a] = r]
      PROVE  DiskOK'
  <2>1. /\ DOMAIN disk' = DOMAIN disk /\ disk'.entity = disk.entity
        /\ disk'.rooms = [disk.rooms EXCEPT ![a] = r]
      BY <1>3 DEF DiskOK
  <2>2. \A b \in DOMAIN disk.rooms : disk'.rooms[b] \in AllRooms
      BY <2>1 DEF DiskOK, AllRooms
  <2>3. DOMAIN disk'.rooms = DOMAIN disk.rooms
      BY <2>1
  <2>4. QED
      BY <2>1, <2>2, <2>3 DEF DiskOK
<1>4. ASSUME NEW v, disk' = [disk EXCEPT !.review = v] \/ disk' = [disk EXCEPT !.bytes = v]
      PROVE  DiskOK'
    BY <1>4 DEF DiskOK
<1>5. CASE EditEntity
    BY <1>2, <1>5 DEF EditEntity, Edit
<1>6. CASE EditRoom
    BY <1>3, <1>6 DEF EditRoom, Edit
<1>7. CASE EditReview \/ EditBytes
    BY <1>4, <1>7 DEF EditReview, EditBytes, Edit
<1>8. CASE Reload \/ Open \/ UNCHANGED vars
    BY <1>1, <1>8 DEF Reload, Open, vars
<1>9. CASE Toggle \/ Escape \/ Tab \/ OpenReport \/ EnterItem \/ HistoryEscape \/ HistoryTab
           \/ HistoryFilter \/ HistoryEnter
           \/ \E delta \in {-1, 1} : MoveItem(delta) \/ MoveAttempt(delta) \/ HistoryMove(delta)
    BY <1>1, <1>9 DEF Toggle, Escape, Tab, OpenReport, EnterItem, HistoryEscape, HistoryTab,
                      HistoryFilter, HistoryEnter, MoveItem, MoveAttempt, HistoryMove, GateKey,
                      HistoryKey, Key
<1>10. QED
    BY <1>5, <1>6, <1>7, <1>8, <1>9 DEF Next

\* What is open stays bound, and nothing is swapped in the history.
StaysBound ==
    /\ browser' = None \/ (BrowserOK(browser') /\ GateBound(browser', index'))
    /\ HistoryOK(history') /\ HistoryBound(history')
    /\ browser # None /\ browser' # None => Unswapped(history', history)

LEMMA NotLonger ==
    ASSUME NEW g, NEW h, HistoryOK(h), g.stack = h.stack \/ ~(Len(g.stack) > Len(h.stack))
    PROVE  Unswapped(g, h)
<1>1. Len(h.stack) \in Nat
    BY LenProperties DEF HistoryOK
<1>2. QED
    BY <1>1 DEF Unswapped

LEMMA GateKeysKeep ==
    ASSUME GateInv, \/ Toggle \/ Escape \/ Tab \/ OpenReport \/ EnterItem
                    \/ \E delta \in {-1, 1} : MoveItem(delta) \/ MoveAttempt(delta)
    PROVE  StaysBound
<1>a. /\ BrowserOK(browser) /\ GateBound(browser, index) /\ browser # None
      /\ HistoryOK(history) /\ HistoryBound(history) /\ index' = index
    BY DEF GateInv, Toggle, Escape, Tab, OpenReport, EnterItem, MoveItem, MoveAttempt, GateKey, Key
<1>1. ASSUME DOMAIN browser' = BrowserFields, UNCHANGED history,
             \/ browser'.preview = None
             \/ browser'.preview = browser.preview /\ browser'.selected = browser.selected
      PROVE  StaysBound
    BY <1>1, <1>a, NotLonger DEF StaysBound, BrowserOK, GateBound
<1>2. ASSUME NEW v, NEW w,
             \/ browser' = [browser EXCEPT !.history_mode = v]
             \/ browser' = [browser EXCEPT !.focus = v]
             \/ browser' = [browser EXCEPT !.preview = None]
             \/ browser' = [browser EXCEPT !.preview = None, !.item = w],
             UNCHANGED history
      PROVE  StaysBound
  <2>1. /\ DOMAIN browser' = BrowserFields
        /\ \/ browser'.preview = None
           \/ browser'.preview = browser.preview /\ browser'.selected = browser.selected
      BY <1>2, <1>a DEF BrowserOK, BrowserFields
  <2>2. QED
      BY <1>1, <1>2, <2>1
<1>3. ASSUME NEW item, OpenItem(item) PROVE StaysBound
    BY <1>3, <1>a, OpensItem, NotLonger DEF StaysBound
<1>4. CASE Toggle \/ Tab
    BY <1>2, <1>4 DEF Toggle, Tab
<1>5. CASE Escape
  <2>1. CASE browser' = [browser EXCEPT !.preview = None] /\ UNCHANGED history
      BY <1>2, <2>1
  <2>2. CASE Leave
      BY <2>2, ClosedIsOK DEF Leave, StaysBound
  <2>3. QED
      BY <1>5, <2>1, <2>2 DEF Escape
<1>6. CASE OpenReport
    BY <1>2, <1>3, <1>6 DEF OpenReport
<1>7. CASE EnterItem
    BY <1>3, <1>7 DEF EnterItem
<1>8. ASSUME NEW delta \in {-1, 1}, MoveItem(delta) PROVE StaysBound
    BY <1>2, <1>8 DEF MoveItem
<1>9. ASSUME NEW delta \in {-1, 1}, MoveAttempt(delta) PROVE StaysBound
  <2>1. PICK id :
           \/ browser' = [browser EXCEPT !.preview = None] /\ UNCHANGED history
           \/ RefreshBoth([[browser EXCEPT !.preview = None] EXCEPT !.selected = id, !.item = 0],
                          index)
      BY <1>9 DEF MoveAttempt
  <2>2. CASE browser' = [browser EXCEPT !.preview = None] /\ UNCHANGED history
      BY <1>2, <2>2
  <2>3. CASE RefreshBoth([[browser EXCEPT !.preview = None] EXCEPT !.selected = id, !.item = 0],
                         index)
    <3>1. BrowserOK([[browser EXCEPT !.preview = None] EXCEPT !.selected = id, !.item = 0])
        BY <1>a DEF BrowserOK
    <3>2. QED
        BY <1>a, <2>3, <3>1, RefreshKeepsBoth, NotLonger DEF StaysBound
  <2>4. QED
      BY <2>1, <2>2, <2>3
<1>10. QED
    BY <1>4, <1>5, <1>6, <1>7, <1>8, <1>9

LEMMA HistoryKeysKeep ==
    ASSUME GateInv, \/ HistoryEscape \/ HistoryTab \/ HistoryFilter \/ HistoryEnter
                    \/ \E delta \in {-1, 1} : HistoryMove(delta)
    PROVE  StaysBound
<1>a. /\ BrowserOK(browser) /\ GateBound(browser, index) /\ browser # None
      /\ HistoryOK(history) /\ HistoryBound(history) /\ index' = index
    BY DEF GateInv, HistoryEscape, HistoryTab, HistoryFilter, HistoryEnter, HistoryMove, HistoryKey,
           Key
<1>1. ASSUME UNCHANGED browser, HistoryOK(history'), HistoryBound(history'),
             \/ history'.stack = history.stack
             \/ ~(Len(history'.stack) > Len(history.stack))
      PROVE  StaysBound
    BY <1>1, <1>a, NotLonger DEF StaysBound
<1>2. CASE HistoryEscape
  <2>1. CASE CanGoBack(history) /\ history' = Back(history) /\ UNCHANGED browser
      BY <1>1, <1>a, <2>1, GoesBack
  <2>2. CASE Leave
      BY <2>2, ClosedIsOK DEF Leave, StaysBound
  <2>3. QED
      BY <1>2, <2>1, <2>2 DEF HistoryEscape
<1>3. CASE HistoryTab
  <2>1. /\ Keeps(ToggleFocus(history), history)
        /\ ToggleFocus(history).selection = history.selection
      BY <1>a DEF ToggleFocus, HistoryOK, Keeps, HistoryFields
  <2>2. QED
      BY <1>1, <1>3, <1>a, <2>1, PreviewStays DEF HistoryTab, Keeps
<1>4. CASE HistoryFilter
  <2> DEFINE m == [history EXCEPT !.responses_only = ~@]
  <2>1. Keeps(m, history) /\ m.selection = history.selection
      BY <1>a DEF HistoryOK, Keeps, HistoryFields
  <2>2. history' = FirstEdge(m) /\ UNCHANGED browser
      BY <1>4 DEF HistoryFilter, ToggleFilter
  <2> HIDE DEF m
  <2>3. Keeps(FirstEdge(m), m) /\ FirstEdge(m).selection = m.selection
      BY <2>1, EdgeMoves DEF Keeps
  <2>4. Keeps(history', history) /\ history'.selection = history.selection
      BY <2>1, <2>2, <2>3 DEF Keeps
  <2>5. QED
      BY <1>1, <1>a, <2>2, <2>4, PreviewStays DEF Keeps
<1>5. CASE HistoryEnter
    BY <1>5, <1>a, OpensHistory DEF HistoryEnter, StaysBound
<1>6. ASSUME NEW delta \in {-1, 1}, HistoryMove(delta) PROVE StaysBound
    BY <1>1, <1>6, <1>a, MovesInHistory DEF HistoryMove, Keeps
<1>7. QED
    BY <1>2, <1>3, <1>4, <1>5, <1>6

LEMMA StepKeepsBound == GateInv /\ [Next]_vars => StaysBound
<1> SUFFICES ASSUME GateInv, [Next]_vars PROVE StaysBound
    OBVIOUS
<1>1. CASE Toggle \/ Escape \/ Tab \/ OpenReport \/ EnterItem
           \/ \E delta \in {-1, 1} : MoveItem(delta) \/ MoveAttempt(delta)
    BY <1>1, GateKeysKeep
<1>2. CASE HistoryEscape \/ HistoryTab \/ HistoryFilter \/ HistoryEnter
           \/ \E delta \in {-1, 1} : HistoryMove(delta)
    BY <1>2, HistoryKeysKeep
<1>3. CASE UNCHANGED <<index, browser, history>>
    BY <1>3, NotLonger DEF GateInv, StaysBound
<1>4. CASE EditEntity \/ EditRoom \/ EditReview \/ EditBytes
    BY <1>3, <1>4 DEF EditEntity, EditRoom, EditReview, EditBytes, Edit
<1>5. CASE Open
  <2>1. BrowserOK(NewBrowser(index))
      BY DEF BrowserOK, NewBrowser, BrowserFields
  <2>2. BrowserOK(browser') /\ GateBound(browser', index)
      BY <1>5, <2>1, RefreshedBrowser DEF Open
  <2>3. HistoryOK(history') /\ HistoryBound(history')
      BY <1>5, ClosedIsOK, RefreshedHistory DEF Open
  <2>4. QED
      BY <1>5, <2>2, <2>3 DEF Open, StaysBound
<1>6. CASE Reload
  <2>1. CASE browser = None
      BY <1>6, <2>1 DEF Reload, GateInv, StaysBound
  <2>2. CASE browser # None
      BY <1>6, <2>2, RefreshKeepsBoth, NotLonger DEF Reload, GateInv, StaysBound
  <2>3. QED
      BY <2>1, <2>2
<1>7. QED
    BY <1>1, <1>2, <1>3, <1>4, <1>5, <1>6 DEF Next, vars

LEMMA Inductive == GateInv /\ [Next]_vars => GateInv'
BY DiskStaysOK, StepKeepsBound DEF GateInv, StaysBound

----------------------------------------------------------------------------
(* The path of details *)

\* The edge that Back finds again below the record k + 1 of the stack: what is
\* remembered is counted from the top, since a stack that a refresh dropped may
\* begin again with something remembered already.
Left(h, k) == h.returns[Len(h.returns) - Len(h.stack) + k + 1].relationship

\* Every record on the path exists and is joined to the next one, and what is
\* remembered of the way is the edge that was followed, as far as it is known.
PathOK(h) ==
    /\ FactsOK(h.facts)
    /\ h.initialized \/ h.stack = <<>>
    /\ h.returns \in Seq(Range(h.returns))
    /\ Len(h.stack) <= Len(h.returns) + 1
    /\ \A k \in 1 .. Len(h.stack) : Record(h.facts, h.stack[k]) # None
    /\ \A k \in 1 .. Len(h.stack) - 1 : Joined(h.facts, h.stack[k], h.stack[k + 1])
    /\ \A k \in 1 .. Len(h.stack) - 1 : Left(h, k) # None =>
          {Left(h, k).from, Left(h, k).to} = {h.stack[k].id, h.stack[k + 1].id}

PathInv ==
    /\ disk.review \in AllReviews
    /\ index \in AllEntities
    /\ PathOK(history)

SamePath(g, h) ==
    /\ g.facts = h.facts /\ g.stack = h.stack /\ g.returns = h.returns
    /\ h.initialized => g.initialized

LEMMA PathStays ==
    ASSUME NEW h, PathOK(h), NEW g, SamePath(g, h) \/ Keeps(g, h)
    PROVE  PathOK(g)
<1>1. SamePath(g, h)
    BY DEF SamePath, Keeps
<1>2. \A k : Left(g, k) = Left(h, k)
    BY <1>1 DEF Left, SamePath
<1>3. QED
    BY <1>1, <1>2 DEF PathOK, SamePath

LEMMA EmptyPath ==
    ASSUME NEW h, FactsOK(h.facts), h.stack = <<>>, h.returns \in Seq(Range(h.returns))
    PROVE  PathOK(h)
<1>1. Len(<<>>) = 0 /\ Len(h.returns) \in Nat
    BY EmptySeq, LenProperties
<1>2. QED
    BY <1>1 DEF PathOK

\* The relationships of a record are links of its round that touch it.
LEMMA RelationshipsAreLinks ==
    ASSUME NEW facts, FactsOK(facts), NEW rec
    PROVE  LET seen == Relationships(facts, rec)
               links == Links(facts, rec.round) IN
           /\ Len(seen) \in Nat /\ DOMAIN seen = 1 .. Len(seen)
           /\ \A k \in 1 .. Len(seen) :
                /\ Record(facts, rec) # None
                /\ \E j \in 1 .. Len(links) :
                    /\ links[j].from = rec.id \/ links[j].to = rec.id
                    /\ seen[k].from = links[j].from /\ seen[k].to = links[j].to
                    /\ seen[k].valid = links[j].valid
                    /\ seen[k].direction = IF links[j].from = rec.id THEN "Outgoing" ELSE "Incoming"
<1> DEFINE seen == Relationships(facts, rec)
           links == Links(facts, rec.round)
           Touches(l) == l.from = rec.id \/ l.to = rec.id
           places == {k \in DOMAIN links : Touches(links[k])}
           near == Picked(links, places)
           Seen(l) == [from |-> l.from, to |-> l.to, role |-> l.role, valid |-> l.valid,
                       direction |-> IF l.from = rec.id THEN "Outgoing" ELSE "Incoming"]
<1>1. Len(links) \in Nat /\ DOMAIN links = 1 .. Len(links)
    BY LinksAreIncludes
<1>2. seen = IF Record(facts, rec) = None THEN <<>> ELSE [k \in DOMAIN near |-> Seen(near[k])]
    BY DEF Relationships
<1> HIDE DEF seen, links
<1>3. /\ places \in SUBSET (1 .. Len(links))
      /\ \A j \in places : j \in 1 .. Len(links) /\ Touches(links[j])
    BY <1>1
<1> HIDE DEF places
<1>4. /\ Cardinality(places) \in Nat /\ DOMAIN near = 1 .. Cardinality(places)
      /\ \A k \in 1 .. Cardinality(places) : \E j \in places : near[k] = links[j]
  <2>1. near = Picked(links, places)
      OBVIOUS
  <2> HIDE DEF near, Touches
  <2>2. PicksFrom(Picked(links, places), links, places)
      BY <1>1, <1>3, PickedPicks
  <2>3. QED
      BY <2>1, <2>2 DEF PicksFrom
<1> HIDE DEF near
<1>5. CASE Record(facts, rec) = None
    BY <1>2, <1>5, EmptySeq DEF seen
<1>6. CASE Record(facts, rec) # None
  <2> DEFINE c == Cardinality(places)
  <2>1. seen = [k \in 1 .. c |-> Seen(near[k])] /\ c \in Nat
      BY <1>2, <1>4, <1>6
  <2> HIDE DEF c
  <2>2. DOMAIN seen = 1 .. c /\ Len(seen) = c
      BY <2>1
  <2>3. ASSUME NEW k \in 1 .. c
        PROVE  \E j \in 1 .. Len(links) :
                    /\ Touches(links[j])
                    /\ seen[k].from = links[j].from /\ seen[k].to = links[j].to
                    /\ seen[k].valid = links[j].valid
                    /\ seen[k].direction = IF links[j].from = rec.id THEN "Outgoing" ELSE "Incoming"
    <3>1. PICK j \in places : near[k] = links[j]
        BY <1>4 DEF c
    <3>2. j \in 1 .. Len(links) /\ Touches(links[j])
        BY <1>3
    <3>3. seen[k] = Seen(links[j])
        BY <2>1, <3>1
    <3>4. QED
        BY <3>2, <3>3
  <2>4. QED
      BY <1>6, <2>1, <2>2, <2>3 DEF seen, links
<1>7. QED
    BY <1>5, <1>6

\* The selected edge is one of the record on top.
LEMMA EdgeIsRelationship ==
    ASSUME NEW h, FactsOK(h.facts), h.stack # <<>>, EdgeAt(h) # 0
    PROVE  LET e == EdgesOf(h)[EdgeAt(h)]
               seen == Relationships(h.facts, Last(h.stack)) IN
           /\ h.relationship = Kept(e)
           /\ \E k \in 1 .. Len(seen) : e = seen[k]
<1> DEFINE seen == Relationships(h.facts, Last(h.stack))
           places == {k \in DOMAIN seen : h.responses_only => IsResponse(seen[k])}
           edges == EdgesOf(h)
           I == {k \in 1 .. Len(edges) : h.relationship = Kept(edges[k])}
<1>1. Len(seen) \in Nat /\ DOMAIN seen = 1 .. Len(seen)
    BY RelationshipsAreLinks
<1>2. edges = Picked(seen, places)
    BY DEF EdgesOf
<1> HIDE DEF seen
<1>3. places \in SUBSET (1 .. Len(seen)) /\ \A k \in places : k \in 1 .. Len(seen)
    BY <1>1
<1> HIDE DEF places
<1>4. /\ Cardinality(places) \in Nat /\ Len(edges) = Cardinality(places)
      /\ \A k \in 1 .. Cardinality(places) : \E j \in places : edges[k] = seen[j]
  <2> HIDE DEF edges
  <2>1. PicksFrom(Picked(seen, places), seen, places)
      BY <1>1, <1>3, PickedPicks
  <2>2. QED
      BY <1>2, <2>1 DEF PicksFrom
<1>5. EdgeAt(h) = IF I # {} THEN Min(I) ELSE 0
    BY DEF EdgeAt, Position, SelectInSeq
<1> HIDE DEF edges
<1>6. EdgeAt(h) \in I
  <2>1. I \in SUBSET (1 .. Len(edges)) /\ I # {}
      BY <1>5
  <2> HIDE DEF I
  <2>2. QED
      BY <1>4, <1>5, <2>1, FirstPosition
<1>7. EdgeAt(h) \in 1 .. Len(edges) /\ h.relationship = Kept(edges[EdgeAt(h)])
    BY <1>6
<1>8. PICK j \in places : edges[EdgeAt(h)] = seen[j]
    BY <1>4, <1>7
<1>9. QED
    BY <1>3, <1>7, <1>8 DEF edges, seen

\* The selected edge is valid and leads from the record on top to the target.
LeadsTo(h, target) ==
    LET e == EdgesOf(h)[EdgeAt(h)] IN
    /\ EdgeAt(h) # 0 /\ e.valid
    /\ target.round = Last(h.stack).round
    /\ target.id = IF e.direction = "Incoming" THEN e.from ELSE e.to

\* A valid edge leads to a record that is joined to the one on top.
LEMMA EdgeJoins ==
    ASSUME NEW h, FactsOK(h.facts), h.stack # <<>>,
           NEW target, LeadsTo(h, target), Record(h.facts, target) # None
    PROVE  /\ Joined(h.facts, Last(h.stack), target)
           /\ {h.relationship.from, h.relationship.to} = {Last(h.stack).id, target.id}
<1> DEFINE e == EdgesOf(h)[EdgeAt(h)]
<1>0. /\ EdgeAt(h) # 0 /\ e.valid
      /\ target.round = Last(h.stack).round
      /\ target.id = IF e.direction = "Incoming" THEN e.from ELSE e.to
    BY DEF LeadsTo
<1> DEFINE rec == Last(h.stack)
           facts == h.facts
           seen == Relationships(facts, rec)
           links == Links(facts, rec.round)
           records == RecordsOf(facts, rec.round)
<1>1. target.round = rec.round /\ target.id = IF e.direction = "Incoming" THEN e.from ELSE e.to
    BY <1>0
<1>2. h.relationship = Kept(e) /\ \E k \in 1 .. Len(seen) : e = seen[k]
    BY <1>0, EdgeIsRelationship
<1> HIDE DEF rec, facts, seen, links, records, e
<1>3. PICK k \in 1 .. Len(seen) : e = seen[k]
    BY <1>2
<1>4. FactsOK(facts)
    BY DEF facts
<1>5. /\ Record(facts, rec) # None
      /\ \E j \in 1 .. Len(links) :
            /\ links[j].from = rec.id \/ links[j].to = rec.id
            /\ seen[k].from = links[j].from /\ seen[k].to = links[j].to
            /\ seen[k].valid = links[j].valid
            /\ seen[k].direction = IF links[j].from = rec.id THEN "Outgoing" ELSE "Incoming"
    BY <1>3, <1>4, RelationshipsAreLinks DEF seen, links
<1>6. PICK j \in 1 .. Len(links) :
            /\ links[j].from = rec.id \/ links[j].to = rec.id
            /\ e.from = links[j].from /\ e.to = links[j].to
            /\ e.valid = links[j].valid
            /\ e.direction = IF links[j].from = rec.id THEN "Outgoing" ELSE "Incoming"
    BY <1>3, <1>5
<1>7. links[j].valid
    BY <1>0, <1>6
<1>8. PICK i \in 1 .. Len(records) :
         links[j].from = records[i].id /\ links[j].to \in Range(records[i].includes)
    BY <1>4, <1>7, LinksAreIncludes DEF links, records
<1>9. /\ records \in Seq(Range(records)) /\ Len(records) \in Nat
      /\ \A m \in 1 .. Len(records) : m < i => records[m].id # records[i].id
    BY <1>4, RecordsAreOK, LenProperties DEF LogOK, records
<1>10. ASSUME NEW r, r.round = rec.round, r.id = records[i].id PROVE Record(facts, r) = records[i]
    BY <1>9, <1>10, RecordIsFound DEF records
<1>11. {e.from, e.to} = {rec.id, target.id} /\ Joined(facts, rec, target)
  <2>0. Record(facts, target) # None
      BY DEF facts
  <2>1. CASE links[j].from = rec.id
    <3>1. target.id = e.to /\ Record(facts, rec) = records[i]
        BY <1>1, <1>6, <1>8, <1>10, <2>1
    <3>2. QED
        BY <1>1, <1>5, <1>6, <1>8, <2>0, <2>1, <3>1 DEF Joined
  <2>2. CASE links[j].from # rec.id
    <3>1. /\ target.id = e.from /\ e.to = rec.id
          /\ Record(facts, target) = records[i]
        BY <1>1, <1>6, <1>8, <1>10, <2>2
    <3>2. QED
        BY <1>1, <1>5, <1>6, <1>8, <2>0, <3>1 DEF Joined
  <2>3. QED
      BY <2>1, <2>2
<1>12. h.relationship.from = e.from /\ h.relationship.to = e.to
    BY <1>2 DEF Kept
<1>13. {h.relationship.from, h.relationship.to} = {rec.id, target.id}
    BY <1>11, <1>12
<1>14. QED
    BY <1>11, <1>13 DEF rec, facts

\* A refresh leaves the path alone, or drops it.
LEMMA RefreshedPath ==
    ASSUME NEW h, HistoryOK(h), PathOK(h), NEW facts, FactsOK(facts)
    PROVE  LET g == RefreshHistory(h, facts) IN
           /\ PathOK(g)
           /\ g.stack = <<>> \/ (g.stack = h.stack /\ g.returns = h.returns)
<1> DEFINE g == RefreshHistory(h, facts)
<1>1. /\ g.facts = facts /\ g.initialized
      /\ \/ g.stack = <<>> /\ g.returns = <<>>
         \/ /\ g.stack = h.stack /\ g.returns = h.returns
            /\ h.initialized => ~DetailChanged(h, facts)
    BY Refreshes DEF HistoryOK
<1>2. Len(h.stack) \in Nat /\ DOMAIN h.stack = 1 .. Len(h.stack)
    BY LenProperties DEF HistoryOK
<1> HIDE DEF g
<1>3. CASE g.stack = <<>> /\ (g.returns = <<>> \/ g.returns = h.returns)
  <2>1. g.returns \in Seq(Range(g.returns))
      BY <1>3, EmptySeq DEF PathOK
  <2>2. QED
      BY <1>1, <1>3, <2>1, EmptyPath DEF g
<1>4. CASE g.stack = h.stack /\ g.returns = h.returns /\ h.stack # <<>>
  <2>1. ~DetailChanged(h, facts)
    <3>1. h.initialized
        BY <1>4 DEF PathOK
    <3>2. QED
        BY <1>1, <1>4, <3>1, EmptySeq
  <2>2. ASSUME NEW k \in 1 .. Len(h.stack)
        PROVE  /\ Record(facts, h.stack[k]) # None
               /\ Record(facts, h.stack[k]) = Record(h.facts, h.stack[k])
    <3>1. h.stack[k] \in Range(h.stack)
        BY <1>2 DEF Range
    <3>2. QED
        BY <2>1, <3>1 DEF DetailChanged
  <2>3. ASSUME NEW k \in 1 .. Len(h.stack) - 1
        PROVE  Joined(facts, h.stack[k], h.stack[k + 1])
    <3>1. k \in 1 .. Len(h.stack) /\ k + 1 \in 1 .. Len(h.stack)
        BY <1>2
    <3>2. Joined(h.facts, h.stack[k], h.stack[k + 1])
        BY DEF PathOK
    <3>3. QED
        BY <2>2, <3>1, <3>2 DEF Joined
  <2>4. PathOK(g)
    <3>1. \A k : Left(g, k) = Left(h, k)
        BY <1>4 DEF Left
    <3>2. QED
        BY <1>1, <1>4, <2>2, <2>3, <3>1 DEF PathOK
  <2>5. QED
      BY <1>4, <2>4 DEF g
<1>5. QED
    BY <1>1, <1>3, <1>4 DEF g

\* A record that is joined to the one on top goes on top of it, or of nothing.
LEMMA PathGrows ==
    ASSUME NEW h, HistoryOK(h), PathOK(h), NEW rec, Record(h.facts, rec) # None,
           h.stack # <<>> => Joined(h.facts, Last(h.stack), rec),
           NEW left,
           h.stack # <<>> /\ left.relationship # None =>
               {left.relationship.from, left.relationship.to} = {Last(h.stack).id, rec.id},
           NEW g, g.facts = h.facts, g.initialized, g.stack = Append(h.stack, rec),
           \/ g.returns = Append(h.returns, left)
           \/ g.returns = h.returns /\ h.stack = <<>>
    PROVE  PathOK(g)
<1> DEFINE n == Len(h.stack)
           m == Len(h.returns)
           S == Range(h.stack) \cup {rec}
           R == Range(h.returns) \cup {left}
<1>1. /\ n \in Nat /\ Len(g.stack) = n + 1 /\ g.stack[n + 1] = rec
      /\ \A k \in 1 .. n : g.stack[k] = h.stack[k]
      /\ h.stack # <<>> => n > 0 /\ Last(h.stack) = h.stack[n]
      /\ h.stack = <<>> => n = 0
  <2>1. h.stack \in Seq(S) /\ rec \in S
      BY SeqMonotonic DEF HistoryOK
  <2> HIDE DEF S
  <2>2. /\ n \in Nat /\ Len(g.stack) = n + 1 /\ g.stack[n + 1] = rec
        /\ \A k \in 1 .. n : g.stack[k] = h.stack[k]
      BY <2>1, AppendProperties, LenProperties
  <2>3. /\ h.stack # <<>> => n > 0 /\ Last(h.stack) = h.stack[n]
        /\ h.stack = <<>> => n = 0
      BY <2>1, <2>2, EmptySeq DEF Last
  <2>4. QED
      BY <2>2, <2>3
<1>2. m \in Nat /\ n <= m + 1 /\ h.returns \in Seq(R) /\ left \in R
    BY SeqMonotonic, LenProperties DEF PathOK
<1> HIDE DEF n, m, R
<1>3. \A k \in 1 .. n + 1 : Record(g.facts, g.stack[k]) # None
  <2> SUFFICES ASSUME NEW k \in 1 .. n + 1 PROVE Record(g.facts, g.stack[k]) # None
      OBVIOUS
  <2>1. k = n + 1 \/ k \in 1 .. n
      BY <1>1
  <2>2. QED
      BY <1>1, <2>1 DEF PathOK, n
<1>4. \A k \in 1 .. n : Joined(g.facts, g.stack[k], g.stack[k + 1])
  <2> SUFFICES ASSUME NEW k \in 1 .. n PROVE Joined(g.facts, g.stack[k], g.stack[k + 1])
      OBVIOUS
  <2>1. CASE k = n
    <3>1. h.stack # <<>> /\ n \in 1 .. n
        BY <1>1
    <3>2. QED
        BY <1>1, <2>1, <3>1
  <2>2. CASE k # n
    <3>1. k \in 1 .. n - 1 /\ k + 1 \in 1 .. n
        BY <1>1, <2>2
    <3>2. Joined(h.facts, h.stack[k], h.stack[k + 1])
        BY <3>1 DEF PathOK, n
    <3>3. QED
        BY <1>1, <3>1, <3>2
  <2>3. QED
      BY <2>1, <2>2
<1>5. /\ FactsOK(g.facts) /\ Len(g.stack) = n + 1 /\ Len(g.stack) - 1 = n
    BY <1>1 DEF PathOK
<1>6. CASE g.returns = h.returns /\ h.stack = <<>>
  <2>1. n = 0 /\ g.returns \in Seq(Range(g.returns)) /\ Len(g.returns) = m
      BY <1>1, <1>6 DEF PathOK, m
  <2>2. QED
      BY <1>2, <1>3, <1>4, <1>5, <2>1 DEF PathOK
<1>7. CASE g.returns = Append(h.returns, left)
  <2>1. /\ g.returns \in Seq(R) /\ Len(g.returns) = m + 1 /\ g.returns[m + 1] = left
        /\ \A k \in 1 .. m : g.returns[k] = h.returns[k]
      BY <1>2, <1>7, AppendProperties DEF m
  <2>2. g.returns \in Seq(Range(g.returns))
      BY <2>1, OwnRange
  <2>3. ASSUME NEW k \in 1 .. n, Left(g, k) # None
        PROVE  {Left(g, k).from, Left(g, k).to} = {g.stack[k].id, g.stack[k + 1].id}
    <3>1. Left(g, k) = g.returns[m - n + k + 1].relationship
      <4>1. Len(g.returns) - Len(g.stack) + k + 1 = m - n + k + 1
          BY <1>1, <1>2, <2>1
      <4>2. QED
          BY <4>1 DEF Left
    <3>2. CASE k = n
      <4>1. m - n + k + 1 = m + 1 /\ h.stack # <<>>
          BY <1>1, <1>2, <3>2
      <4>2. Left(g, k) = left.relationship
          BY <2>1, <3>1, <4>1
      <4>3. QED
          BY <1>1, <2>3, <3>2, <4>1, <4>2
    <3>3. CASE k # n
      <4>1. /\ k \in 1 .. n - 1 /\ k \in 1 .. n /\ k + 1 \in 1 .. n
            /\ m - n + k + 1 \in 1 .. m
          BY <1>1, <1>2, <3>3
      <4>2. Left(g, k) = Left(h, k)
          BY <2>1, <3>1, <4>1 DEF Left, m, n
      <4>3. {Left(h, k).from, Left(h, k).to} = {h.stack[k].id, h.stack[k + 1].id}
          BY <2>3, <4>1, <4>2 DEF PathOK, n
      <4>4. QED
          BY <1>1, <4>1, <4>2, <4>3
    <3>4. QED
        BY <3>2, <3>3
  <2>4. Len(g.stack) <= Len(g.returns) + 1
      BY <1>1, <1>2, <2>1
  <2>5. QED
      BY <1>3, <1>4, <1>5, <2>2, <2>3, <2>4 DEF PathOK
<1>8. QED
    BY <1>6, <1>7

\* Enter keeps the path.
LEMMA FollowKeepsPath ==
    ASSUME NEW h, HistoryOK(h), PathOK(h), h.stack # <<>>, NEW fresh, FactsOK(fresh)
    PROVE  PathOK(Follow(h, fresh))
<1> DEFINE e == EdgesOf(h)[EdgeAt(h)]
           target == [round |-> Last(h.stack).round,
                      id |-> IF e.direction = "Incoming" THEN e.from ELSE e.to]
           seen == RefreshHistory(h, fresh)
           left == [relationship |-> seen.relationship, responses_only |-> seen.responses_only]
           next == [seen EXCEPT !.returns = Append(@, left), !.stack = Append(@, target)]
           g == Follow(h, fresh)
<1>1. /\ DOMAIN seen = HistoryFields /\ seen.facts = fresh /\ seen.initialized
      /\ seen.relationship \in {h.relationship, None}
    BY Refreshes DEF HistoryOK
<1>2. /\ HistoryOK(seen) /\ PathOK(seen)
      /\ seen.stack = <<>> \/ (seen.stack = h.stack /\ seen.returns = h.returns)
    BY RefreshedHistory, RefreshedPath
<1>3. \/ g = h
      \/ g = DropStack(seen)
      \/ /\ g = FirstEdge(next) /\ Revalidates(h, fresh, target)
         /\ EdgeAt(h) # 0 /\ e.valid
    BY DEF Follow
<1>4. left.relationship = seen.relationship
    OBVIOUS
<1>5. /\ DOMAIN next = HistoryFields /\ next.facts = fresh /\ next.initialized
      /\ next.stack = Append(seen.stack, target) /\ next.returns = Append(seen.returns, left)
  <2> HIDE DEF seen, target, left
  <2>1. QED
      BY <1>1 DEF HistoryFields
<1> HIDE DEF seen, left, next, g
<1>6. CASE g = DropStack(seen)
  <2>1. g.stack = <<>> /\ g.returns = <<>> /\ g.facts = fresh
      BY <1>1, <1>6, StackDropped
  <2>2. g.returns \in Seq(Range(g.returns))
      BY <2>1, EmptySeq
  <2>3. QED
      BY <2>1, <2>2, EmptyPath DEF g
<1>7. CASE /\ g = FirstEdge(next) /\ Revalidates(h, fresh, target) /\ EdgeAt(h) # 0 /\ e.valid
  <2>1. /\ Record(h.facts, target) # None
        /\ Record(fresh, target) = Record(h.facts, target)
        /\ Record(fresh, Last(h.stack)) = Record(h.facts, Last(h.stack))
      BY <1>7 DEF Revalidates
  <2>2. /\ Joined(h.facts, Last(h.stack), target)
        /\ {h.relationship.from, h.relationship.to} = {Last(h.stack).id, target.id}
    <3>1. FactsOK(h.facts) /\ LeadsTo(h, target)
        BY <1>7 DEF PathOK, LeadsTo
    <3> HIDE DEF target
    <3>2. QED
        BY <2>1, <3>1, EdgeJoins
  <2> HIDE DEF target, e
  <2>3. Joined(fresh, Last(h.stack), target)
      BY <2>1, <2>2 DEF Joined
  <2>4. Keeps(g, next)
      BY <1>5, <1>7, EdgeMoves
  <2>5. /\ Record(seen.facts, target) # None
        /\ seen.stack # <<>> => Joined(seen.facts, Last(seen.stack), target)
        /\ seen.stack # <<>> /\ left.relationship # None =>
              {left.relationship.from, left.relationship.to} = {Last(seen.stack).id, target.id}
      BY <1>1, <1>2, <1>4, <2>1, <2>2, <2>3
  <2>6. PathOK(next)
      BY <1>1, <1>2, <1>5, <2>5, PathGrows
  <2>7. QED
      BY <2>4, <2>6, PathStays DEF g
<1>8. QED
    BY <1>3, <1>6, <1>7 DEF g

LEMMA OpenKeepsPath ==
    ASSUME NEW h, HistoryOK(h), PathOK(h), h.stack = <<>>, NEW fresh, FactsOK(fresh)
    PROVE  PathOK(OpenRecord(h, fresh))
<1> DEFINE rec == [round |-> h.selection.round, id |-> h.selection.id]
           seen == RefreshHistory(h, fresh)
           next == [seen EXCEPT !.stack = Append(@, rec)]
           g == OpenRecord(h, fresh)
<1>1. /\ DOMAIN seen = HistoryFields /\ seen.facts = fresh /\ seen.initialized
      /\ HistoryOK(seen) /\ PathOK(seen) /\ seen.stack = <<>>
    BY Refreshes, RefreshedHistory, RefreshedPath DEF HistoryOK
<1>2. \/ g = DropStack(seen)
      \/ g = FirstEdge(next) /\ Revalidates(h, fresh, rec)
    BY DEF OpenRecord
<1>3. /\ DOMAIN next = HistoryFields /\ next.facts = fresh /\ next.initialized
      /\ next.stack = Append(seen.stack, rec) /\ next.returns = seen.returns
  <2> HIDE DEF seen, rec
  <2>1. QED
      BY <1>1 DEF HistoryFields
<1> HIDE DEF seen, rec, next, g
<1>4. CASE g = DropStack(seen)
  <2>1. g.stack = <<>> /\ g.returns = <<>> /\ g.facts = fresh
      BY <1>1, <1>4, StackDropped
  <2>2. g.returns \in Seq(Range(g.returns))
      BY <2>1, EmptySeq
  <2>3. QED
      BY <2>1, <2>2, EmptyPath DEF g
<1>5. CASE g = FirstEdge(next) /\ Revalidates(h, fresh, rec)
  <2>1. Record(seen.facts, rec) # None
      BY <1>1, <1>5 DEF Revalidates
  <2>2. PathOK(next)
    <3> DEFINE left == [relationship |-> None]
    <3>1. /\ seen.stack # <<>> => Joined(seen.facts, Last(seen.stack), rec)
          /\ seen.stack # <<>> /\ left.relationship # None =>
                {left.relationship.from, left.relationship.to} = {Last(seen.stack).id, rec.id}
        BY <1>1
    <3> HIDE DEF left
    <3>2. QED
        BY <1>1, <1>3, <2>1, <3>1, PathGrows
  <2>3. Keeps(g, next)
      BY <1>3, <1>5, EdgeMoves
  <2>4. QED
      BY <2>2, <2>3, PathStays DEF g
<1>6. QED
    BY <1>2, <1>4, <1>5 DEF g

LEMMA EnterKeepsPath ==
    ASSUME NEW h, HistoryOK(h), HistoryBound(h), PathOK(h), NEW fresh, FactsOK(fresh), NEW bytes
    PROVE  PathOK(OpenHistory(h, fresh, bytes))
<1>1. PathOK(OpenArtifact(h, fresh, bytes))
  <2> DEFINE g == OpenArtifact(h, fresh, bytes)
  <2>1. \/ g = h
        \/ \E v : g = [h EXCEPT !.preview = v]
      BY Zenon DEF OpenArtifact
  <2>2. \A v : SamePath([h EXCEPT !.preview = v], h)
      BY DEF SamePath, HistoryOK, HistoryFields
  <2> HIDE DEF g
  <2>3. PathOK(g)
      BY <2>1, <2>2, PathStays
  <2>4. QED
      BY <2>3 DEF g
<1>2. QED
    BY <1>1, FollowKeepsPath, OpenKeepsPath DEF OpenHistory

LEMMA FrontIsPrefix ==
    ASSUME NEW s, s \in Seq(Range(s)), s # <<>>
    PROVE  /\ Front(s) \in Seq(Range(Front(s)))
           /\ Len(s) \in Nat \ {0} /\ Len(Front(s)) = Len(s) - 1
           /\ \A k \in 1 .. Len(s) - 1 : Front(s)[k] = s[k]
<1> DEFINE f == Front(s)
<1>1. Len(s) \in Nat \ {0} /\ DOMAIN s = 1 .. Len(s)
    BY EmptySeq, LenProperties
<1>2. /\ 1 \in Int /\ Len(s) - 1 \in Int
      /\ \A i \in 1 .. Len(s) - 1 : s[i] \in Range(s)
    BY <1>1 DEF Range
<1>3. /\ f \in Seq(Range(s))
      /\ Len(f) = IF 1 <= Len(s) - 1 THEN (Len(s) - 1) - 1 + 1 ELSE 0
      /\ \A i \in 1 .. Len(s) - 1 - 1 + 1 : f[i] = s[1 + i - 1]
    BY <1>2, SubSeqProperties DEF Front
<1> HIDE DEF f
<1>4. f \in Seq(Range(f))
    BY <1>3, OwnRange
<1> DEFINE n == Len(s) - 1
<1>5. n \in Nat /\ n - 1 + 1 = n
    BY <1>1
<1>6. \A k \in 1 .. n : 1 + k - 1 = k
    OBVIOUS
<1>7. /\ Len(f) = IF 1 <= n THEN n - 1 + 1 ELSE 0
      /\ \A k \in 1 .. n - 1 + 1 : f[k] = s[1 + k - 1]
    BY <1>3
<1> HIDE DEF n
<1>8. Len(f) = n
    BY <1>5, <1>7
<1>9. \A k \in 1 .. n : f[k] = s[k]
  <2> SUFFICES ASSUME NEW k \in 1 .. n PROVE f[k] = s[k]
      OBVIOUS
  <2>1. k \in 1 .. n - 1 + 1 /\ 1 + k - 1 = k
      BY <1>5, <1>6
  <2>2. f[k] = s[1 + k - 1]
      BY <1>7, <2>1
  <2>3. QED
      BY <2>1, <2>2
<1>10. QED
    BY <1>1, <1>4, <1>8, <1>9 DEF f, n

\* Esc keeps the path below.
LEMMA BackKeepsPath ==
    ASSUME NEW h, HistoryOK(h), PathOK(h), CanGoBack(h)
    PROVE  PathOK(Back(h))
<1> DEFINE g == Back(h)
<1>1. CASE h.preview # None
  <2>1. g = [h EXCEPT !.preview = None]
      BY <1>1 DEF Back
  <2>2. SamePath([h EXCEPT !.preview = None], h)
      BY DEF SamePath, HistoryOK, HistoryFields
  <2>3. QED
      BY <2>1, <2>2, PathStays
<1>2. CASE h.preview = None
  <2> DEFINE rest == Front(h.stack)
             source == IF rest = <<>> THEN Last(h.stack) ELSE Last(rest)
             left == IF h.returns = <<>>
                     THEN [relationship |-> None, responses_only |-> h.responses_only]
                     ELSE Last(h.returns)
             fewer == IF h.returns = <<>> THEN h.returns ELSE Front(h.returns)
             back == [h EXCEPT !.stack = rest,
                               !.selection = [round |-> source.round, id |-> source.id,
                                              item |-> FALSE],
                               !.returns = IF @ = <<>> THEN @ ELSE Front(@),
                               !.relationship = left.relationship,
                               !.responses_only = left.responses_only]
             n == Len(h.stack)
             m == Len(h.returns)
  <2>1. h.stack # <<>>
      BY <1>2 DEF CanGoBack
  <2>2. g = [KeepRelationship(back) EXCEPT !.responses_only = @ /\ rest # <<>>]
      BY <1>2, Zenon DEF Back, rest
  <2>3. /\ Len(rest) = n - 1 /\ n \in Nat \ {0}
        /\ \A k \in 1 .. n - 1 : rest[k] = h.stack[k]
      BY <2>1, FrontIsPrefix DEF HistoryOK
  <2>4. /\ m \in Nat /\ n <= m + 1 /\ (h.returns = <<>> => m = 0)
        /\ fewer \in Seq(Range(fewer))
        /\ Len(fewer) = IF m = 0 THEN 0 ELSE m - 1
        /\ \A k \in 1 .. m - 1 : fewer[k] = h.returns[k]
    <3>1. h.returns \in Seq(Range(h.returns)) /\ m \in Nat /\ n <= m + 1
        BY LenProperties DEF PathOK
    <3>2. CASE h.returns = <<>>
        BY <3>1, <3>2, EmptySeq
    <3>3. CASE h.returns # <<>>
        BY <3>1, <3>3, FrontIsPrefix
    <3>4. QED
        BY <3>2, <3>3
  <2> HIDE DEF rest, source, left, n, m
  <2>5. /\ DOMAIN back = HistoryFields /\ back.stack = rest /\ back.facts = h.facts
        /\ back.returns = fewer /\ (h.initialized => back.initialized)
      BY DEF HistoryOK, HistoryFields
  <2> HIDE DEF back, g, fewer
  <2>6. Keeps(KeepRelationship(back), back)
      BY <2>5, EdgeMoves
  <2>7. SamePath(g, back)
      BY <2>2, <2>5, <2>6 DEF Keeps, SamePath, HistoryFields
  <2>8. PathOK(back)
    <3>1. h.initialized
        BY <2>1 DEF PathOK
    <3>2. \A k \in 1 .. n - 1 : Record(back.facts, back.stack[k]) # None
        BY <2>3, <2>5 DEF PathOK, n
    <3>3. ASSUME NEW k \in 1 .. n - 1 - 1
          PROVE  /\ Joined(back.facts, back.stack[k], back.stack[k + 1])
                 /\ Left(back, k) # None =>
                       {Left(back, k).from, Left(back, k).to}
                          = {back.stack[k].id, back.stack[k + 1].id}
      <4>1. /\ k \in 1 .. n - 1 /\ k + 1 \in 1 .. n - 1
            /\ Len(fewer) = m - 1 /\ m - n + k + 1 \in 1 .. m - 1
            /\ m - 1 - (n - 1) + k + 1 = m - n + k + 1
          BY <2>3, <2>4
      <4>2. back.stack[k] = h.stack[k] /\ back.stack[k + 1] = h.stack[k + 1]
          BY <2>3, <2>5, <4>1
      <4>3. Left(back, k) = Left(h, k)
        <5>1. Len(back.returns) - Len(back.stack) + k + 1 = m - n + k + 1
            BY <2>3, <2>5, <4>1
        <5>2. back.returns[m - n + k + 1] = h.returns[m - n + k + 1]
            BY <2>4, <2>5, <4>1
        <5>3. QED
            BY <5>1, <5>2 DEF Left, m, n
      <4>4. /\ Joined(h.facts, h.stack[k], h.stack[k + 1])
            /\ Left(h, k) # None =>
                  {Left(h, k).from, Left(h, k).to} = {h.stack[k].id, h.stack[k + 1].id}
          BY <4>1 DEF PathOK, n
      <4>5. QED
          BY <2>5, <4>2, <4>3, <4>4
    <3>4. Len(back.stack) = n - 1 /\ Len(back.stack) <= Len(back.returns) + 1
        BY <2>3, <2>4, <2>5
    <3>5. QED
        BY <2>4, <2>5, <3>1, <3>2, <3>3, <3>4 DEF PathOK
  <2>9. QED
      BY <2>7, <2>8, PathStays DEF g
<1>3. QED
    BY <1>1, <1>2

----------------------------------------------------------------------------
(* The path through the steps *)

LEMMA PathBegins == Init => PathInv
<1> SUFFICES ASSUME Init PROVE PathInv
    OBVIOUS
<1>1. disk.review \in AllReviews /\ index \in AllEntities
    BY DEF Init, AllReviews, AllEntities
<1>2. history.facts = <<>> /\ history.stack = <<>> /\ history.returns = <<>>
    BY DEF Init, Closed
<1>3. history.returns \in Seq(Range(history.returns)) /\ FactsOK(history.facts)
    BY <1>2, EmptySeq DEF FactsOK
<1>4. QED
    BY <1>1, <1>2, <1>3, EmptyPath DEF PathInv

LEMMA ClosedPath == PathOK(Closed)
<1>1. Closed.facts = <<>> /\ Closed.stack = <<>> /\ Closed.returns = <<>>
    BY DEF Closed
<1>2. Closed.returns \in Seq(Range(Closed.returns)) /\ FactsOK(Closed.facts)
    BY <1>1, EmptySeq DEF FactsOK
<1>3. QED
    BY <1>1, <1>2, EmptyPath

\* What is read from disk is of the kinds that are given, and so is the index.
LEMMA ReviewStays ==
    ASSUME GateInv, PathInv, [Next]_vars
    PROVE  disk'.review \in AllReviews /\ index' \in AllEntities
<1>1. ASSUME disk' = disk PROVE disk'.review \in AllReviews
    BY <1>1 DEF PathInv
<1>2. ASSUME NEW v, \/ disk' = [disk EXCEPT !.entity = v] \/ disk' = [disk EXCEPT !.rooms = v]
                    \/ disk' = [disk EXCEPT !.bytes = v]
                    \/ v \in Reviews /\ disk' = [disk EXCEPT !.review = v]
      PROVE  disk'.review \in AllReviews
    BY <1>2 DEF GateInv, DiskOK, PathInv, AllReviews
<1>3. ASSUME index' = index \/ index' = disk.entity PROVE index' \in AllEntities
    BY <1>3 DEF GateInv, DiskOK, PathInv
<1>4. CASE EditEntity \/ EditReview \/ EditBytes
    BY <1>2, <1>3, <1>4 DEF EditEntity, EditReview, EditBytes, Edit
<1>5. CASE EditRoom
  <2>1. PICK a \in DOMAIN disk.rooms, r \in GateRooms :
           disk' = [disk EXCEPT !.rooms = [disk.rooms EXCEPT ![a] = r]] /\ index' = index
      BY <1>5 DEF EditRoom, Edit
  <2>2. QED
      BY <1>2, <1>3, <2>1
<1>6. CASE Reload \/ Open \/ UNCHANGED vars
    BY <1>1, <1>3, <1>6 DEF Reload, Open, vars
<1>7. CASE Toggle \/ Escape \/ Tab \/ OpenReport \/ EnterItem \/ HistoryEscape \/ HistoryTab
           \/ HistoryFilter \/ HistoryEnter
           \/ \E delta \in {-1, 1} : MoveItem(delta) \/ MoveAttempt(delta) \/ HistoryMove(delta)
    BY <1>1, <1>3, <1>7 DEF Toggle, Escape, Tab, OpenReport, EnterItem, HistoryEscape, HistoryTab,
                      HistoryFilter, HistoryEnter, MoveItem, MoveAttempt, HistoryMove, GateKey,
                      HistoryKey, Key
<1>8. QED
    BY <1>4, <1>5, <1>6, <1>7 DEF Next

\* Whoever refreshes reads rounds that are well formed.
LEMMA BothKeepPath ==
    ASSUME GateInv, PathInv, NEW b, NEW entity \in AllEntities, RefreshBoth(b, entity)
    PROVE  PathOK(history')
<1>1. FactsOK(Facts(entity))
    BY FactsAreOK DEF PathInv
<1>2. QED
    BY <1>1, RefreshedPath DEF GateInv, PathInv, RefreshBoth

LEMMA ItemKeepsPath ==
    ASSUME GateInv, PathInv, NEW item, OpenItem(item)
    PROVE  PathOK(history')
<1>1. PICK b : RefreshBoth(b, index) \/ UNCHANGED history
    BY DEF OpenItem
<1>2. QED
    BY <1>1, BothKeepPath DEF PathInv

LEMMA GateKeysKeepPath ==
    ASSUME GateInv, PathInv,
           \/ Toggle \/ Escape \/ Tab \/ OpenReport \/ EnterItem
           \/ \E delta \in {-1, 1} : MoveItem(delta) \/ MoveAttempt(delta)
    PROVE  PathOK(history')
<1>1. ASSUME UNCHANGED history PROVE PathOK(history')
    BY <1>1 DEF PathInv
<1>2. CASE Toggle \/ Tab \/ \E delta \in {-1, 1} : MoveItem(delta)
    BY <1>1, <1>2 DEF Toggle, Tab, MoveItem
<1>3. CASE Escape
    BY <1>1, <1>3, ClosedPath DEF Escape, Leave
<1>4. CASE OpenReport \/ EnterItem
    BY <1>1, <1>4, ItemKeepsPath DEF OpenReport, EnterItem
<1>5. ASSUME NEW delta \in {-1, 1}, MoveAttempt(delta) PROVE PathOK(history')
  <2>1. PICK b : RefreshBoth(b, index) \/ UNCHANGED history
      BY <1>5 DEF MoveAttempt
  <2>2. QED
      BY <1>1, <2>1, BothKeepPath DEF PathInv
<1>6. QED
    BY <1>2, <1>3, <1>4, <1>5

LEMMA HistoryKeysKeepPath ==
    ASSUME GateInv, PathInv,
           \/ HistoryEscape \/ HistoryTab \/ HistoryFilter \/ HistoryEnter
           \/ \E delta \in {-1, 1} : HistoryMove(delta)
    PROVE  PathOK(history')
<1>1. HistoryOK(history) /\ HistoryBound(history) /\ PathOK(history)
    BY DEF GateInv, PathInv
<1>2. ASSUME Keeps(history', history) PROVE PathOK(history')
    BY <1>1, <1>2, PathStays
<1>3. CASE HistoryEscape
    BY <1>1, <1>3, BackKeepsPath, ClosedPath DEF HistoryEscape, Leave
<1>4. CASE HistoryTab
  <2>1. Keeps(ToggleFocus(history), history)
      BY <1>1 DEF ToggleFocus, HistoryOK, Keeps, HistoryFields
  <2>2. QED
      BY <1>2, <1>4, <2>1 DEF HistoryTab
<1>5. CASE HistoryFilter
  <2> DEFINE m == [history EXCEPT !.responses_only = ~@]
  <2>1. Keeps(m, history)
      BY <1>1 DEF HistoryOK, Keeps, HistoryFields
  <2>2. history' = FirstEdge(m)
      BY <1>5 DEF HistoryFilter, ToggleFilter
  <2> HIDE DEF m
  <2>3. Keeps(FirstEdge(m), m)
      BY <2>1, EdgeMoves DEF Keeps
  <2>4. QED
      BY <1>2, <2>1, <2>2, <2>3 DEF Keeps
<1>6. CASE HistoryEnter
  <2>1. FactsOK(Facts(index))
      BY FactsAreOK DEF PathInv
  <2>2. QED
      BY <1>1, <1>6, <2>1, EnterKeepsPath DEF HistoryEnter
<1>7. ASSUME NEW delta \in {-1, 1}, HistoryMove(delta) PROVE PathOK(history')
    BY <1>1, <1>2, <1>7, MovesInHistory DEF HistoryMove
<1>8. QED
    BY <1>3, <1>4, <1>5, <1>6, <1>7

LEMMA PathContinues == GateInv /\ PathInv /\ [Next]_vars => PathInv'
<1> SUFFICES ASSUME GateInv, PathInv, [Next]_vars PROVE PathInv'
    OBVIOUS
<1>1. PathOK(history')
  <2>1. ASSUME UNCHANGED history PROVE PathOK(history')
      BY <2>1 DEF PathInv
  <2>2. CASE Toggle \/ Escape \/ Tab \/ OpenReport \/ EnterItem
             \/ \E delta \in {-1, 1} : MoveItem(delta) \/ MoveAttempt(delta)
      BY <2>2, GateKeysKeepPath
  <2>3. CASE HistoryEscape \/ HistoryTab \/ HistoryFilter \/ HistoryEnter
             \/ \E delta \in {-1, 1} : HistoryMove(delta)
      BY <2>3, HistoryKeysKeepPath
  <2>4. CASE Open
    <3>1. FactsOK(Facts(index))
        BY FactsAreOK DEF PathInv
    <3>2. history' = RefreshHistory(Closed, Facts(index))
        BY <2>4 DEF Open
    <3>3. QED
        BY <3>1, <3>2, ClosedIsOK, ClosedPath, RefreshedPath
  <2>5. CASE Reload
      BY <2>1, <2>5, BothKeepPath DEF Reload, GateInv, DiskOK
  <2>6. CASE EditEntity \/ EditRoom \/ EditReview \/ EditBytes \/ UNCHANGED vars
      BY <2>1, <2>6 DEF EditEntity, EditRoom, EditReview, EditBytes, Edit, vars
  <2>7. QED
      BY <2>2, <2>3, <2>4, <2>5, <2>6 DEF Next
<1>2. QED
    BY <1>1, ReviewStays DEF PathInv

\* Records that are joined have a link between them.
LEMMA JoinedByLink ==
    ASSUME NEW facts, FactsOK(facts), NEW a, NEW b, Joined(facts, a, b)
    PROVE  \E l \in Range(Links(facts, b.round)) : l.valid /\ {l.from, l.to} = {a.id, b.id}
<1>0. PICK round : round = b.round
    OBVIOUS
<1> DEFINE records == RecordsOf(facts, round)
           links == Links(facts, round)
<1>1. records \in Seq(Range(records)) /\ a.round = round /\ b.round = round
    BY <1>0, RecordsAreOK DEF LogOK, Joined
<1>2. /\ DOMAIN links = 1 .. Len(links)
      /\ \A i \in 1 .. Len(records) : \A id \in Range(records[i].includes) :
            \E k \in 1 .. Len(links) :
               links[k].valid /\ links[k].from = records[i].id /\ links[k].to = id
  <2>1. DOMAIN links = 1 .. Len(links) /\ IncludesHaveLinks(facts, round)
      BY LinksAreIncludes
  <2>2. QED
      BY <2>1 DEF IncludesHaveLinks
<1>3. ASSUME NEW r, NEW other, r.round = round, Record(facts, r) # None,
             other \in Range(Record(facts, r).includes)
      PROVE  \E l \in Range(links) : l.valid /\ l.from = r.id /\ l.to = other
  <2>1. PICK i \in 1 .. Len(records) : records[i] = Record(facts, r) /\ records[i].id = r.id
      BY <1>1, <1>3, RecordIsFound
  <2> DEFINE of == Record(facts, r).includes
  <2>2. other \in Range(of) /\ records[i].includes = of
      BY <1>3, <2>1
  <2> HIDE DEF links, records, of
  <2>3. PICK k \in 1 .. Len(links) : links[k].valid /\ links[k].from = r.id /\ links[k].to = other
      BY <1>2, <2>1, <2>2
  <2>4. QED
      BY <1>2, <2>3 DEF Range
<1> HIDE DEF links
<1>4. CASE b.id \in Range(Record(facts, a).includes)
  <2>1. a.round = round /\ Record(facts, a) # None
      BY <1>1 DEF Joined
  <2>2. PICK l \in Range(links) : l.valid /\ l.from = a.id /\ l.to = b.id
      BY <1>3, <1>4, <2>1
  <2>3. QED
      BY <1>1, <2>2 DEF links
<1>5. CASE a.id \in Range(Record(facts, b).includes)
  <2>1. b.round = round /\ Record(facts, b) # None
      BY <1>1 DEF Joined
  <2>2. PICK l \in Range(links) : l.valid /\ l.from = b.id /\ l.to = a.id
      BY <1>3, <1>5, <2>1
  <2>3. QED
      BY <1>1, <2>2 DEF links
<1>6. QED
    BY <1>0, <1>4, <1>5 DEF Joined, links

LEMMA PathShows == GateInv /\ PathInv => PathIsReal
<1> SUFFICES ASSUME GateInv, PathInv PROVE PathIsReal
    OBVIOUS
<1> DEFINE h == history
           n == Len(h.stack)
           m == Len(h.returns)
<1>1. n \in Nat /\ DOMAIN h.stack = 1 .. n /\ m \in Nat /\ PathOK(h)
    BY LenProperties DEF GateInv, HistoryOK, PathInv, PathOK
<1>2. PathIsRecorded
  <2> SUFFICES ASSUME NEW k \in 1 .. n
               PROVE  /\ Record(h.facts, h.stack[k]) # None
                      /\ k > 1 => \E l \in Range(Links(h.facts, h.stack[k].round)) :
                            /\ l.valid
                            /\ {l.from, l.to} = {h.stack[k - 1].id, h.stack[k].id}
      BY <1>1 DEF PathIsRecorded
  <2>1. Record(h.facts, h.stack[k]) # None
      BY <1>1 DEF PathOK
  <2>2. ASSUME k > 1
        PROVE  \E l \in Range(Links(h.facts, h.stack[k].round)) :
                  l.valid /\ {l.from, l.to} = {h.stack[k - 1].id, h.stack[k].id}
    <3>1. k - 1 \in 1 .. n - 1 /\ k - 1 + 1 = k
        BY <1>1, <2>2
    <3>2. Joined(h.facts, h.stack[k - 1], h.stack[k])
        BY <1>1, <3>1 DEF PathOK
    <3>3. PICK a, b : a = h.stack[k - 1] /\ b = h.stack[k]
        OBVIOUS
    <3>4. FactsOK(h.facts) /\ Joined(h.facts, a, b)
        BY <1>1, <3>2, <3>3 DEF PathOK
    <3>5. \E l \in Range(Links(h.facts, b.round)) : l.valid /\ {l.from, l.to} = {a.id, b.id}
        BY <3>4, JoinedByLink
    <3>6. QED
        BY <3>3, <3>5
  <2>3. QED
      BY <2>1, <2>2
<1>3. BackFindsTheEdge
  <2> DEFINE left == Last(h.returns).relationship
  <2> SUFFICES ASSUME n > 1, h.returns # <<>>, left # None
               PROVE  {left.from, left.to} = {h.stack[n - 1].id, h.stack[n].id}
      BY DEF BackFindsTheEdge
  <2>1. n - 1 \in 1 .. n - 1 /\ n - 1 + 1 = n /\ m - n + (n - 1) + 1 = m
      BY <1>1
  <2>2. Left(h, n - 1) = left
      BY <2>1 DEF Left, Last
  <2>3. QED
      BY <1>1, <2>1, <2>2 DEF PathOK
<1>4. QED
    BY <1>2, <1>3 DEF PathIsReal

\* A view that is shown has an inventory: the manifest it stands for was read.
LEMMA ViewHasItems ==
    ASSUME DiskOK, NEW entity \in AllEntities, entity # None, NEW id, View(entity, id) # 0
    PROVE  View(entity, id) \in DOMAIN Items
<1> DEFINE attempt == AttemptOf(entity, id)
           room == disk.rooms[id]
<1>1. id \in AttemptIds(entity)
    BY DEF View
<1>2. room \in AllRooms
    BY <1>1 DEF DiskOK
<1>3. {room.locator, room.briefing, room.index, room.fallback} \subseteq DOMAIN Items \cup {0}
    BY <1>2, GateRoomConstants
<1>4. View(entity, id) = Manifest(room, attempt)
    BY <1>1 DEF View, LoadVerified
<1> HIDE DEF room, attempt
<1>5. Manifest(room, attempt) \in DOMAIN Items \cup {0}
    BY <1>3 DEF Manifest
<1>6. QED
    BY <1>4, <1>5

\* A reload of the browser leaves the cursor on an item that is still there.
LEMMA ReloadFollows ==
    ASSUME GateInv, Reload, browser # None, browser' # None,
           ItemUnder(browser) \in {i.id : i \in Range(Inventory(browser'))}
    PROVE  ItemUnder(browser') = ItemUnder(browser)
<1> DEFINE entity == disk.entity
           view == browser'.view
<1>1. BrowserOK(browser) /\ DiskOK /\ entity \in AllEntities /\ browser' = Refresh(browser, entity)
    BY DEF GateInv, DiskOK, Reload, RefreshBoth
<1>2. view # 0 /\ Inventory(browser') = Items[view]
  <2>1. Range(<<>>) = {}
      BY EmptySeq DEF Range
  <2>2. QED
      BY <2>1 DEF Inventory
<1>3. entity # None
    BY <1>1, <1>2, RefreshedBrowser
<1>4. view = View(entity, browser'.selected) /\ browser'.item = Cursor(browser, view)
    BY <1>1, <1>3, RefreshedBrowser
<1> HIDE DEF entity, view
<1>5. view \in DOMAIN Items
    BY <1>1, <1>2, <1>3, <1>4, ViewHasItems
<1>6. Items[view] \in Seq(Range(Items[view]))
    BY <1>5, GateRoomConstants
<1>7. DOMAIN Items[view] = 1 .. Len(Items[view])
    BY <1>6, LenProperties
<1>8. PICK k \in 1 .. Len(Items[view]) : Items[view][k].id = ItemUnder(browser)
    BY <1>2, <1>7 DEF Range
<1>9. /\ Cursor(browser, view) + 1 \in 1 .. Len(Items[view])
      /\ Items[view][Cursor(browser, view) + 1].id = ItemUnder(browser)
    BY <1>2, <1>6, <1>8, CursorFinds
<1>10. ItemUnder(browser') = Items[view][browser'.item + 1].id
    BY <1>2, <1>4, <1>7, <1>9 DEF ItemUnder
<1>11. QED
    BY <1>4, <1>9, <1>10

----------------------------------------------------------------------------

(***************************************************************************)
(* An item or artifact on the screen has the bytes that the Briefing bound *)
(* to its attempt or round records, however often files and bindings       *)
(* changed since it was opened (read_item, refresh, accept_preview).       *)
(***************************************************************************)
THEOREM PreviewsAreBound == Spec => []PreviewIsBound
<1>1. GateInv => PreviewIsBound
    BY DEF GateInv, GateBound, HistoryBound, PreviewIsBound
<1>2. QED
    BY InitOK, Inductive, <1>1, PTL DEF Spec

(***************************************************************************)
(* Enter opens what was on the screen: the record and the Briefing are the *)
(* ones shown before the files were read again (revalidate_record).        *)
(***************************************************************************)
THEOREM NothingIsSwapped == Spec => NothingSwapped
<1> DEFINE Same == browser # None /\ browser' # None => Unswapped(history', history)
<1>1. GateInv /\ [Next]_vars => [Same]_vars
    BY StepKeepsBound DEF StaysBound
<1>2. Spec => [][Same]_vars
    BY InitOK, Inductive, <1>1, PTL DEF Spec
<1>3. QED
    BY <1>2, PTL DEF NothingSwapped, Unswapped

(***************************************************************************)
(* The path of details is real: every record on it is in the history that  *)
(* is loaded, each is joined to the one below it by a recorded includes,   *)
(* and Back finds the edge that was followed, however often the rounds     *)
(* were rewritten and read again on the way (refresh, open, back).         *)
(***************************************************************************)
THEOREM PathsAreReal == Spec => []PathIsReal
<1>1. GateInv /\ PathInv /\ [Next]_vars => GateInv' /\ PathInv'
    BY Inductive, PathContinues
<1>2. Init => GateInv /\ PathInv
    BY InitOK, PathBegins
<1>3. QED
    BY <1>1, <1>2, PathShows, PTL DEF Spec

(***************************************************************************)
(* A reload never moves the cursor to another item while the item it was   *)
(* on is still in the inventory, wherever it stands there now (refresh).   *)
(***************************************************************************)
THEOREM CursorsFollow == Spec => CursorFollowsItem
<1> DEFINE Follows ==
        Reload /\ browser # None /\ browser' # None
        /\ browser'.selected = browser.selected
        /\ ItemUnder(browser) \in {i.id : i \in Range(Inventory(browser'))}
          => ItemUnder(browser') = ItemUnder(browser)
<1>1. GateInv /\ [Next]_vars => [Follows]_vars
    BY ReloadFollows
<1>2. Spec => [][Follows]_vars
    BY InitOK, Inductive, <1>1, PTL DEF Spec
<1>3. QED
    BY <1>2, PTL DEF CursorFollowsItem
=============================================================================
