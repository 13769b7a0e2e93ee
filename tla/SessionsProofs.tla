--------------------------- MODULE SessionsProofs ---------------------------
(***************************************************************************)
(* The scan of session logs and what is made of it.  The first half proves *)
(* that what the scan publishes is what SessionEvidence promises, for any  *)
(* logs, lines, writes and faults, and that a record is never retained     *)
(* twice.  The second half proves that work shown for an entity is work a  *)
(* worker of it has in hand, and the other way round, for any number of    *)
(* agents, entities and records.                                           *)
(*                                                                         *)
(* A scan reads the logs one after the other, so that only its acceptance  *)
(* shows that they belong together.  The invariant therefore speaks of the *)
(* logs that have not moved since the inventory: what is known of the      *)
(* others is dropped with the scan.                                        *)
(***************************************************************************)
EXTENDS MCSessions, SequenceTheorems, FiniteSetTheorems,
        WellFoundedInduction, TLAPS

----------------------------------------------------------------------------
(* The inductive invariant *)

\* A metadata file is one value, or it is torn.
ContentOK(f, c, t) ==
    /\ c \in [lines : Seq(1 .. t), torn : BOOLEAN, time : 0 .. t]
    /\ Len(c.lines) <= MaxLines
    /\ f \in Whole => (Len(c.lines) = 1 /\ ~c.torn) \/ (Len(c.lines) = 0 /\ c.torn)

DiskOK ==
    /\ now \in Nat /\ DOMAIN disk = Logs
    /\ \A f \in Logs : disk[f] # Absent => ContentOK(f, disk[f], now)

\* The first n lines of a log are retained.
HasLines(f, n, store) ==
    \A i \in 1 .. n : <<f, i, disk[f].lines[i]>> \in Records(store)

\* A checkpoint names the line it was taken from, and whoever finds it there
\* has not lost a line before it.
CheckpointHolds(f, cursor, store) ==
    disk[f] # Absent /\ cursor.offset % 2 = 0 /\ cursor.offset > 0
        /\ cursor.offset \div 2 <= Len(disk[f].lines)
        /\ disk[f].lines[cursor.offset \div 2] = cursor.checkpoint
      => HasLines(f, cursor.offset \div 2, store)

\* All complete lines up to the recorded length have been read.
CursorOK(f, cursor) ==
    /\ f \notin Whole => cursor.offset % 2 = 0
    /\ cursor.offset \div 2 = cursor.length \div 2
    /\ cursor.offset > 1 => cursor.key = "session"

CursorsOK ==
    /\ DOMAIN cursors \subseteq Logs
    /\ \A f \in DOMAIN cursors :
          /\ cursors[f] \in Cursors /\ cursors[f].checkpoint <= now
          /\ CursorOK(f, cursors[f]) /\ CheckpointHolds(f, cursors[f], evidence)

\* The first line is read before or with any other.
KeptOK(store) == \A kept \in store : kept \in {"session"} \X FactSet

Busy == scan.stage # "idle"

\* The log is as the scan's inventory has it.
Unmoved(f) ==
    /\ disk[f] # Absent
    /\ scan.before[f] = [length |-> HalfLines(disk[f]), time |-> disk[f].time]

\* A log that has moved stays so, for lengths and times only grow.
BeforeOK ==
    /\ scan.todo \subseteq DOMAIN scan.before /\ DOMAIN scan.before \subseteq Logs
    /\ \A f \in DOMAIN scan.before :
          /\ scan.before[f] \in [length : Nat, time : 0 .. now]
          /\ disk[f] # Absent =>
                \/ disk[f].time > scan.before[f].time
                \/ disk[f].time = scan.before[f].time
                   /\ HalfLines(disk[f]) >= scan.before[f].length

Visited == DOMAIN scan.before \ scan.todo

ReadOK ==
    /\ DOMAIN scan.cursors \subseteq Visited /\ scan.failed \subseteq Visited
    /\ Visited \subseteq DOMAIN scan.cursors \cup scan.failed
    /\ \A f \in DOMAIN scan.cursors :
          /\ scan.cursors[f] \in Cursors /\ scan.cursors[f].checkpoint <= now
          /\ Unmoved(f) => /\ CursorOK(f, scan.cursors[f])
                           /\ HasLines(f, Len(disk[f].lines), scan.evidence)

\* What the scan adds to the store is on the disk.
StoreOK ==
    /\ evidence \subseteq scan.evidence
    /\ KeptOK(scan.evidence)
    /\ \A kept \in scan.evidence \ evidence : \E f \in DOMAIN scan.before :
          kept[2][1] = f /\ (Unmoved(f) => kept[2] \in Promise!Facts(disk, f))

ParsingOK ==
    LET f == Current IN
    scan.stage = "parse" =>
        /\ scan.todo # {} /\ scan.start \in Nat
        /\ scan.start > 0 =>
              /\ f \notin Whole /\ scan.start % 2 = 0
              /\ f \in DOMAIN cursors /\ cursors[f].key = "session"
              /\ Unmoved(f) => /\ scan.start \div 2 <= Len(disk[f].lines)
                               /\ HasLines(f, scan.start \div 2, evidence)

CheckpointingOK ==
    LET f == Current IN
    scan.stage = "checkpoint" =>
        /\ scan.todo # {} /\ scan.offset \in Nat /\ scan.key \in Keys
        /\ f \notin Whole => scan.offset % 2 = 0
        /\ Unmoved(f) => /\ scan.offset \div 2 = Len(disk[f].lines)
                         /\ scan.offset > 1 => scan.key = "session"
                         /\ HasLines(f, Len(disk[f].lines), scan.evidence)

ScanOK ==
    /\ DOMAIN scan = DOMAIN NoScan
    /\ scan.stage \in {"idle", "check", "parse", "checkpoint"}
    /\ Busy => BeforeOK /\ ReadOK /\ StoreOK /\ ParsingOK /\ CheckpointingOK

LogsInv == DiskOK /\ CursorsOK /\ KeptOK(evidence) /\ errors \subseteq Logs /\ ScanOK
----------------------------------------------------------------------------
(* Contents of a log *)

LEMMA HalfLinesCount ==
    ASSUME NEW c, NEW S, c.lines \in Seq(S), c.torn \in BOOLEAN
    PROVE  /\ Len(c.lines) \in Nat /\ HalfLines(c) \in Nat
           /\ HalfLines(c) \div 2 = Len(c.lines)
           /\ 2 * Len(c.lines) <= HalfLines(c) /\ HalfLines(c) <= 2 * Len(c.lines) + 1
           /\ c.torn => HalfLines(c) = 2 * Len(c.lines) + 1
           /\ ~c.torn => HalfLines(c) = 2 * Len(c.lines)
<1>1. Len(c.lines) \in Nat
    BY LenProperties
<1>2. c.torn => HalfLines(c) = 2 * Len(c.lines) + 1
    BY DEF HalfLines
<1>3. ~c.torn => HalfLines(c) = 2 * Len(c.lines) + 0
    BY DEF HalfLines
<1>4. HalfLines(c) = 2 * Len(c.lines) \/ HalfLines(c) = 2 * Len(c.lines) + 1
    BY <1>1, <1>2, <1>3
<1>5. QED
    BY <1>1, <1>2, <1>3, <1>4

\* What agents do to a log, as far as a reader can tell.
Grows(g) ==
    disk'[g] # Absent =>
        /\ \A n \in 1 .. Len(disk'[g].lines) : disk'[g].lines[n] <= now =>
              /\ disk[g] # Absent /\ n <= Len(disk[g].lines)
              /\ \A i \in 1 .. n : disk'[g].lines[i] = disk[g].lines[i]
        /\ Busy => \/ disk'[g] = disk[g]
                   \/ disk'[g].time = now + 1
                   \/ /\ disk[g] # Absent /\ disk'[g].time = disk[g].time
                      /\ HalfLines(disk'[g]) > HalfLines(disk[g])

LEMMA PutGrows ==
    ASSUME DiskOK, NEW f \in Logs, NEW lines, NEW torn, NEW time, Put(f, lines, torn, time),
           lines \in Seq(1 .. now'), Len(lines) <= MaxLines, torn \in BOOLEAN,
           time \in 0 .. now',
           f \in Whole => (Len(lines) = 1 /\ ~torn) \/ (Len(lines) = 0 /\ torn),
           \A n \in 1 .. Len(lines) : lines[n] <= now =>
              /\ disk[f] # Absent /\ n <= Len(disk[f].lines)
              /\ \A i \in 1 .. n : lines[i] = disk[f].lines[i],
           Busy => \/ time = now + 1
                   \/ /\ disk[f] # Absent /\ time = disk[f].time
                      /\ \/ 2 * Len(lines) > HalfLines(disk[f])
                         \/ torn /\ 2 * Len(lines) + 1 > HalfLines(disk[f])
    PROVE  DiskOK' /\ \A g \in Logs : Grows(g)
<1> DEFINE c == [lines |-> lines, torn |-> torn, time |-> time]
<1>1. /\ now' = now + 1 /\ DOMAIN disk' = Logs /\ disk'[f] = c
      /\ \A g \in Logs \ {f} : disk'[g] = disk[g]
    BY DEF Put, DiskOK
<1>3. c.lines = lines /\ c.torn = torn /\ c.time = time
    OBVIOUS
<1>2. /\ HalfLines(c) \in Nat /\ HalfLines(c) >= 2 * Len(lines) /\ Len(lines) \in Nat
      /\ torn => HalfLines(c) = 2 * Len(lines) + 1
    BY <1>3, HalfLinesCount
<1> HIDE DEF c
<1>4. now \in Nat
    BY DEF DiskOK
<1>5. ContentOK(f, c, now')
    BY <1>1, <1>3, <1>4 DEF ContentOK, c
<1>6. ASSUME NEW g \in Logs \ {f}, disk[g] # Absent
      PROVE  ContentOK(g, disk'[g], now')
  <2>1. ContentOK(g, disk[g], now) /\ disk'[g] = disk[g]
      BY <1>1, <1>6 DEF DiskOK
  <2>2. 1 .. now \subseteq 1 .. now' /\ 0 .. now \subseteq 0 .. now'
      BY <1>1, <1>4
  <2>3. disk[g].lines \in Seq(1 .. now')
      BY <2>1, <2>2, SeqMonotonic DEF ContentOK
  <2>4. QED
      BY <2>1, <2>2, <2>3 DEF ContentOK
<1>7. DiskOK'
    BY <1>1, <1>4, <1>5, <1>6 DEF DiskOK
<1>8. Grows(f)
  <2>1. disk[f] # Absent => HalfLines(disk[f]) \in Nat
      BY HalfLinesCount DEF DiskOK, ContentOK
  <2>2. Busy => \/ c.time = now + 1
                \/ /\ disk[f] # Absent /\ c.time = disk[f].time
                   /\ HalfLines(c) > HalfLines(disk[f])
      BY <1>2, <1>3, <2>1
  <2>3. QED
      BY <1>1, <1>3, <2>2 DEF Grows
<1>9. ASSUME NEW g \in Logs \ {f} PROVE Grows(g)
    BY SMTT(30), <1>1 DEF Grows, DiskOK, ContentOK
<1>10. QED
    BY <1>7, <1>8, <1>9

LEMMA AgentsGrow ==
    ASSUME DiskOK, Agents
    PROVE  DiskOK' /\ now' = now + 1 /\ \A g \in Logs : Grows(g)
<1>1. PICK f \in Logs : AppendLine(f) \/ TearLine(f) \/ Truncate(f) \/ Rotate(f) \/ Remove(f)
    BY DEF Agents
<1>2. now \in Nat /\ MaxLines \in Nat
    BY LogConstants DEF DiskOK
<1>3. now' = now + 1
    BY <1>1 DEF AppendLine, TearLine, Truncate, Rotate, Remove, Put
<1>4. ASSUME disk[f] # Absent
      PROVE  /\ disk[f].lines \in Seq(1 .. now) /\ disk[f].lines \in Seq(1 .. now')
             /\ Len(disk[f].lines) \in 0 .. MaxLines
             /\ \A i \in 1 .. Len(disk[f].lines) : disk[f].lines[i] \in 1 .. now
             /\ disk[f].time \in 0 .. now' /\ disk[f].torn \in BOOLEAN
             /\ HalfLines(disk[f]) \in Nat
             /\ HalfLines(disk[f]) <= 2 * Len(disk[f].lines) + 1
             /\ ~disk[f].torn => HalfLines(disk[f]) = 2 * Len(disk[f].lines)
  <2>1. ContentOK(f, disk[f], now)
      BY <1>4 DEF DiskOK
  <2>2. 1 .. now \subseteq 1 .. now'
      BY <1>2, <1>3
  <2>3. disk[f].lines \in Seq(1 .. now')
      BY <2>1, <2>2, SeqMonotonic DEF ContentOK
  <2>4. \A i \in 1 .. Len(disk[f].lines) : disk[f].lines[i] \in 1 .. now
      BY <2>1, ElementOfSeq DEF ContentOK
  <2>5. Len(disk[f].lines) \in Nat /\ Len(disk[f].lines) <= MaxLines
      BY <2>1, LenProperties DEF ContentOK
  <2>6. QED
      BY SMTT(30), <1>2, <1>3, <2>1, <2>3, <2>4, <2>5, HalfLinesCount DEF ContentOK
<1>5. CASE AppendLine(f)
  <2> DEFINE lines == Append(disk[f].lines, now + 1)
  <2>1. /\ disk[f] # Absent /\ f \notin Whole /\ Len(disk[f].lines) < MaxLines
      BY <1>5 DEF AppendLine
  <2>2. /\ lines \in Seq(1 .. now') /\ Len(lines) = Len(disk[f].lines) + 1
        /\ \A i \in 1 .. Len(disk[f].lines) : lines[i] = disk[f].lines[i]
        /\ lines[Len(lines)] = now + 1
      BY <1>2, <1>3, <1>4, <2>1, AppendProperties
  <2>3. PICK time \in {disk[f].time, now + 1} : Put(f, lines, FALSE, time)
      BY <1>5 DEF AppendLine
  <2> HIDE DEF lines
  <2>4. \A n \in 1 .. Len(lines) : lines[n] <= now =>
           /\ n <= Len(disk[f].lines)
           /\ \A i \in 1 .. n : lines[i] = disk[f].lines[i]
    <3> SUFFICES ASSUME NEW n \in 1 .. Len(lines), lines[n] <= now
                 PROVE  n \in 1 .. Len(disk[f].lines)
        BY <1>4, <2>1, <2>2
    <3>1. n # Len(lines)
        BY <1>2, <2>2
    <3>2. QED
        BY <1>4, <2>1, <2>2, <3>1
  <2>5. 2 * Len(lines) > HalfLines(disk[f])
      BY <1>4, <2>1, <2>2
  <2>6. Len(lines) <= MaxLines /\ time \in 0 .. now'
      BY SMTT(30), <1>2, <1>3, <1>4, <2>1, <2>2, <2>3
  <2>7. QED
      BY <1>3, <2>1, <2>2, <2>3, <2>4, <2>5, <2>6, PutGrows
<1>6. CASE TearLine(f)
  <2>1. disk[f] # Absent /\ f \notin Whole /\ ~disk[f].torn
      BY <1>6 DEF TearLine
  <2>2. PICK time \in {disk[f].time, now + 1} : Put(f, disk[f].lines, TRUE, time)
      BY <1>6 DEF TearLine
  <2> DEFINE lines == disk[f].lines
  <2>3. /\ 2 * Len(lines) + 1 > HalfLines(disk[f]) /\ time \in 0 .. now'
        /\ lines \in Seq(1 .. now') /\ Len(lines) <= MaxLines
      BY <1>2, <1>3, <1>4, <2>1, <2>2
  <2>7. Put(f, lines, TRUE, time)
      BY <2>2
  <2>4. \A n \in 1 .. Len(lines) : /\ n <= Len(disk[f].lines)
                                   /\ \A i \in 1 .. n : lines[i] = disk[f].lines[i]
      OBVIOUS
  <2> HIDE DEF lines
  <2>5. time # now + 1 => disk[f] # Absent /\ time = disk[f].time
      BY <2>1, <2>2
  <2>6. QED
      BY <1>3, <2>1, <2>3, <2>4, <2>5, <2>7, PutGrows
<1>7. CASE Truncate(f)
  <2>1. disk[f] # Absent /\ f \notin Whole
      BY <1>7 DEF Truncate
  <2>2. PICK n \in 0 .. Len(disk[f].lines) - 1 :
           Put(f, SubSeq(disk[f].lines, 1, n), FALSE, now + 1)
      BY <1>7 DEF Truncate
  <2> DEFINE lines == SubSeq(disk[f].lines, 1, n)
  <2>3. \A i \in 1 .. n : disk[f].lines[i] \in 1 .. now'
    <3>1. n \in Nat /\ n <= Len(disk[f].lines) /\ Len(disk[f].lines) \in Nat
        BY <1>2, <1>4, <2>1
    <3>2. 1 .. n \subseteq 1 .. Len(disk[f].lines) /\ 1 .. now \subseteq 1 .. now'
        BY <1>2, <1>3, <3>1
    <3>3. \A i \in 1 .. Len(disk[f].lines) : disk[f].lines[i] \in 1 .. now
        BY <1>4, <2>1
    <3>4. QED
        BY <3>2, <3>3
  <2>4. /\ lines \in Seq(1 .. now') /\ Len(lines) = n
        /\ \A i \in 1 .. n : lines[i] = disk[f].lines[i]
      BY <1>4, <2>1, <2>3, SubSeqProperties
  <2> HIDE DEF lines
  <2>5. Len(lines) <= MaxLines /\ now + 1 \in 0 .. now'
      BY <1>2, <1>3, <1>4, <2>1, <2>2, <2>4
  <2>8. Put(f, lines, FALSE, now + 1)
      BY <2>2 DEF lines
  <2>6. \A m \in 1 .. Len(lines) : /\ m <= Len(disk[f].lines)
                                   /\ \A i \in 1 .. m : lines[i] = disk[f].lines[i]
      BY <1>4, <2>1, <2>2, <2>4
  <2>7. QED
      BY <1>3, <2>1, <2>4, <2>5, <2>6, <2>8, PutGrows
<1>8. CASE Rotate(f)
  <2>1. PICK n \in 0 .. MaxLines, torn \in BOOLEAN :
           LET lines == [i \in 1 .. n |-> now + 1] IN
           /\ f \in Whole => (n = 1 /\ ~torn) \/ (n = 0 /\ torn)
           /\ torn => n < MaxLines
           /\ \/ Put(f, lines, torn, now + 1)
              \/ /\ scan.stage = "idle" /\ disk[f] # Absent
                 /\ Put(f, lines, torn, disk[f].time)
      BY <1>8 DEF Rotate
  <2> DEFINE lines == [i \in 1 .. n |-> now + 1]
  <2>2. PICK time \in {now + 1, disk[f].time} :
           /\ Put(f, lines, torn, time)
           /\ time # now + 1 => disk[f] # Absent /\ ~Busy
      BY <2>1 DEF Busy
  <2>3. /\ lines \in Seq(1 .. now') /\ Len(lines) = n
        /\ \A i \in 1 .. n : lines[i] = now + 1
    <3>1. lines \in [1 .. n -> 1 .. now'] /\ n \in Nat
        BY <1>2, <1>3
    <3>2. QED
        BY <3>1, SeqDef, LenProperties
  <2> HIDE DEF lines
  <2>4. Len(lines) <= MaxLines /\ time \in 0 .. now'
      BY <1>2, <1>3, <1>4, <2>2, <2>3
  <2>5. \A m \in 1 .. Len(lines) : ~(lines[m] <= now)
      BY <1>2, <2>3
  <2>6. QED
      BY <1>3, <2>1, <2>2, <2>3, <2>4, <2>5, PutGrows
<1>9. CASE Remove(f)
  <2>1. /\ DOMAIN disk' = Logs /\ disk'[f] = Absent
        /\ \A g \in Logs \ {f} : disk'[g] = disk[g]
      BY <1>9 DEF Remove, DiskOK
  <2>2. ASSUME NEW g \in Logs \ {f}, disk[g] # Absent
        PROVE  ContentOK(g, disk'[g], now')
    <3>1. ContentOK(g, disk[g], now) /\ disk'[g] = disk[g]
        BY <2>1, <2>2 DEF DiskOK
    <3>2. 1 .. now \subseteq 1 .. now' /\ 0 .. now \subseteq 0 .. now'
        BY <1>2, <1>3
    <3>3. disk[g].lines \in Seq(1 .. now')
        BY <3>1, <3>2, SeqMonotonic DEF ContentOK
    <3>4. QED
        BY <3>1, <3>2, <3>3 DEF ContentOK
  <2>3. DiskOK'
      BY <1>2, <1>3, <2>1, <2>2 DEF DiskOK
  <2>4. \A g \in Logs : Grows(g)
      BY <2>1 DEF Grows, DiskOK, ContentOK
  <2>5. QED
      BY <1>3, <2>3, <2>4
<1>10. QED
    BY <1>1, <1>5, <1>6, <1>7, <1>8, <1>9

\* The next log to be read is one of those that are left.
LEMMA CurrentIsLeft ==
    ASSUME BeforeOK, scan.todo # {}
    PROVE  Current \in scan.todo /\ Current \in DOMAIN scan.before /\ Current \in Logs
<1> DEFINE Below(f) == {g \in Logs : g \in scan.todo /\ g < f}
           T == {Below(f) : f \in scan.todo}
<1>1. /\ \A f \in scan.todo : f \in Logs /\ f \in Nat
      /\ IsFiniteSet(Logs)
    BY LogConstants DEF BeforeOK
<1>2. T \subseteq FiniteSubsetsOf(Logs) /\ T # {}
  <2>1. \A f : Below(f) \in SUBSET Logs
      OBVIOUS
  <2>2. \A f : IsFiniteSet(Below(f))
      BY <1>1, <2>1, FS_Subset
  <2>3. QED
      BY <2>1, <2>2 DEF FiniteSubsetsOf
<1>3. PICK B \in T : \A C \in T : ~(<<C, B>> \in StrictSubsetOrdering(Logs))
    BY <1>2, FS_StrictSubsetOrderingWellFounded, WFMin
<1>4. PICK f \in scan.todo : B = Below(f)
    OBVIOUS
<1>5. ASSUME NEW g \in scan.todo, g < f
      PROVE  FALSE
  <2>1. Below(g) \in T /\ Below(g) \in SUBSET Logs /\ B \in SUBSET Logs
      BY <1>4
  <2>2. Below(g) \subseteq B
      BY <1>1, <1>4, <1>5
  <2>3. g \in B /\ g \notin Below(g)
      BY <1>1, <1>4, <1>5
  <2> HIDE DEF Below, T
  <2>4. <<Below(g), B>> \in StrictSubsetOrdering(Logs)
      BY <2>1, <2>2, <2>3 DEF StrictSubsetOrdering
  <2>5. QED
      BY <1>3, <2>1, <2>4
<1>6. Current \in scan.todo
  <2>1. \A g \in scan.todo : f <= g
      BY <1>1, <1>5
  <2>2. QED
      BY <2>1 DEF Current, Min
<1>7. QED
    BY <1>1, <1>6 DEF BeforeOK

\* What a log holds, as numbers.
LEMMA Numbers ==
    ASSUME DiskOK, NEW f \in Logs, disk[f] # Absent
    PROVE  /\ disk[f].time \in 0 .. now /\ HalfLines(disk[f]) \in Nat
           /\ Len(disk[f].lines) \in Nat
           /\ HalfLines(disk[f]) \div 2 = Len(disk[f].lines)
           /\ \A i \in 1 .. Len(disk[f].lines) : disk[f].lines[i] \in 1 .. now
<1>1. /\ disk[f].lines \in Seq(1 .. now) /\ disk[f].torn \in BOOLEAN
      /\ disk[f].time \in 0 .. now
    BY DEF DiskOK, ContentOK
<1>2. QED
    BY <1>1, HalfLinesCount, ElementOfSeq

\* A log that agents have touched during a scan never looks untouched again.
LEMMA TouchedHasMoved ==
    ASSUME DiskOK, DiskOK', Busy, BeforeOK, NEW f \in DOMAIN scan.before, Grows(f),
           now' = now + 1, scan' = scan
    PROVE  /\ disk'[f] # Absent =>
                \/ disk'[f].time > scan.before[f].time
                \/ disk'[f].time = scan.before[f].time
                   /\ HalfLines(disk'[f]) >= scan.before[f].length
           /\ Unmoved(f)' => disk'[f] = disk[f] /\ Unmoved(f)
<1>1. /\ f \in Logs /\ scan.before[f] \in [length : Nat, time : 0 .. now] /\ now \in Nat
      /\ disk[f] # Absent =>
                \/ disk[f].time > scan.before[f].time
                \/ disk[f].time = scan.before[f].time
                   /\ HalfLines(disk[f]) >= scan.before[f].length
    BY DEF BeforeOK, DiskOK
<1>2. disk[f] # Absent => disk[f].time \in 0 .. now /\ HalfLines(disk[f]) \in Nat
    BY <1>1, Numbers
<1>3. disk'[f] # Absent => disk'[f].time \in 0 .. now' /\ HalfLines(disk'[f]) \in Nat
    BY <1>1, HalfLinesCount DEF DiskOK, ContentOK
<1>4. Unmoved(f)' => /\ disk'[f] # Absent /\ disk'[f].time = scan.before[f].time
                     /\ HalfLines(disk'[f]) = scan.before[f].length
    BY DEF Unmoved
<1>5. CASE disk'[f] = Absent
    BY <1>4, <1>5
<1>6. CASE disk'[f] = disk[f]
    BY <1>1, <1>6 DEF Unmoved
<1>7. CASE disk'[f] # Absent /\ disk'[f].time = now + 1
    BY <1>1, <1>4, <1>7
<1>8. CASE /\ disk'[f] # Absent /\ disk[f] # Absent /\ disk'[f].time = disk[f].time
           /\ HalfLines(disk'[f]) > HalfLines(disk[f])
    BY <1>1, <1>2, <1>3, <1>4, <1>8
<1>9. QED
    BY <1>5, <1>6, <1>7, <1>8 DEF Grows

LEMMA AgentsKeepInv ==
    ASSUME LogsInv, Agents
    PROVE  LogsInv' /\ UNCHANGED <<cursors, evidence, scan, errors>>
<1>1. /\ UNCHANGED <<cursors, evidence, scan, errors>>
    BY DEF Agents, AppendLine, TearLine, Truncate, Rotate, Remove, Put
<1>2. DiskOK /\ DiskOK' /\ now' = now + 1 /\ \A g \in Logs : Grows(g)
    BY AgentsGrow DEF LogsInv
<1>3. now \in Nat
    BY <1>2 DEF DiskOK
<1>4. CursorsOK'
  <2> SUFFICES ASSUME NEW f \in DOMAIN cursors
               PROVE  cursors[f].checkpoint <= now' /\ CheckpointHolds(f, cursors[f], evidence)'
      BY <1>1 DEF LogsInv, CursorsOK, CursorOK
  <2> DEFINE cursor == cursors[f]
             n == cursor.offset \div 2
  <2>1. /\ f \in Logs /\ cursor \in Cursors /\ cursor.checkpoint <= now
        /\ CheckpointHolds(f, cursor, evidence)
      BY DEF LogsInv, CursorsOK
  <2>2. cursor.checkpoint \in Nat /\ cursor.offset \in Nat /\ n \in Nat
      BY <2>1 DEF Cursors
  <2>3. ASSUME disk'[f] # Absent, cursor.offset % 2 = 0, cursor.offset > 0,
               n <= Len(disk'[f].lines), disk'[f].lines[n] = cursor.checkpoint
        PROVE  HasLines(f, n, evidence)'
    <3>1. n \in 1 .. Len(disk'[f].lines)
      <4>1. Len(disk'[f].lines) \in Nat /\ n > 0
          BY <2>1, <2>2, <2>3, <1>2, LenProperties DEF DiskOK, ContentOK
      <4>2. QED
          BY <2>2, <2>3, <4>1
    <3>2. /\ disk[f] # Absent /\ n <= Len(disk[f].lines)
          /\ \A i \in 1 .. n : disk'[f].lines[i] = disk[f].lines[i]
        BY <1>2, <2>1, <2>3, <3>1 DEF Grows
    <3>3. HasLines(f, n, evidence)
        BY <2>1, <2>3, <3>1, <3>2 DEF CheckpointHolds
    <3>4. QED
        BY <1>1, <3>2, <3>3 DEF HasLines, Records
  <2>4. QED
      BY <1>1, <1>2, <1>3, <2>1, <2>2, <2>3 DEF CheckpointHolds
<1>5. ASSUME Busy
      PROVE  (BeforeOK /\ ReadOK /\ StoreOK /\ ParsingOK /\ CheckpointingOK)'
  <2>1. BeforeOK /\ ReadOK /\ StoreOK /\ ParsingOK /\ CheckpointingOK
      BY <1>5 DEF LogsInv, ScanOK
  <2>2. \A f \in DOMAIN scan.before :
           /\ disk'[f] # Absent =>
                \/ disk'[f].time > scan.before[f].time
                \/ disk'[f].time = scan.before[f].time
                   /\ HalfLines(disk'[f]) >= scan.before[f].length
           /\ Unmoved(f)' => disk'[f] = disk[f] /\ Unmoved(f)
      BY <1>1, <1>2, <1>5, <2>1, TouchedHasMoved DEF BeforeOK
  <2>3. 0 .. now \subseteq 0 .. now' /\ \A n \in Nat : n <= now => n <= now'
      BY <1>2, <1>3
  <2>4. BeforeOK'
      BY <1>1, <2>1, <2>2, <2>3 DEF BeforeOK
  <2>5. ReadOK'
    <3> SUFFICES ASSUME NEW f \in DOMAIN scan.cursors
                 PROVE  /\ scan.cursors[f].checkpoint <= now'
                        /\ Unmoved(f)' => /\ CursorOK(f, scan.cursors[f])
                                          /\ HasLines(f, Len(disk[f].lines), scan.evidence)'
        BY <1>1, <2>1 DEF ReadOK, Visited, CursorOK
    <3>1. f \in DOMAIN scan.before /\ scan.cursors[f].checkpoint \in Nat
        BY <2>1 DEF ReadOK, Visited, Cursors
    <3>2. QED
        BY <1>1, <2>1, <2>2, <2>3, <3>1 DEF ReadOK, HasLines, Records
  <2>6. StoreOK'
    <3>1. \A f \in DOMAIN scan.before :
             Unmoved(f)' => Promise!Facts(disk', f) = Promise!Facts(disk, f)
        BY <2>2 DEF Promise!Facts
    <3>2. QED
        BY <1>1, <2>1, <2>2, <3>1 DEF StoreOK, KeptOK
  <2>7. /\ Current' = Current
        /\ scan.todo # {} => Current \in DOMAIN scan.before
      BY <1>1, <2>1, CurrentIsLeft DEF Current
  <2>8. ParsingOK'
      BY <1>1, <2>1, <2>2, <2>7 DEF ParsingOK, HasLines, Records
  <2>10. CheckpointingOK'
      BY <1>1, <2>1, <2>2, <2>7 DEF CheckpointingOK, HasLines, Records
  <2>9. QED
      BY <2>4, <2>5, <2>6, <2>8, <2>10
<1>6. QED
    BY <1>1, <1>2, <1>4, <1>5 DEF LogsInv, ScanOK, Busy, KeptOK

----------------------------------------------------------------------------
(* One log of a scan *)

LEMMA NoScanFields ==
    DOMAIN NoScan = {"stage", "before", "todo", "cursors", "evidence", "failed", "start",
                     "offset", "key"}
BY DEF NoScan

\* NextFile, field by field.
NextFileIs(s) ==
    /\ DOMAIN s = DOMAIN NoScan
    /\ s.stage = "check" /\ s.before = scan.before /\ s.todo = scan.todo \ {Current}
    /\ s.evidence = scan.evidence

LEMMA NextFileFields ==
    ASSUME DOMAIN scan = DOMAIN NoScan
    PROVE  /\ NextFileIs(NextFile)
           /\ NextFile.cursors = scan.cursors /\ NextFile.failed = scan.failed
BY NoScanFields DEF NextFile, NextFileIs

LEMMA WithCursorFields ==
    ASSUME DOMAIN scan = DOMAIN NoScan, NEW f, NEW cursor
    PROVE  LET s == WithCursor(NextFile, f, cursor) IN
           /\ NextFileIs(s) /\ s.failed = scan.failed
           /\ DOMAIN s.cursors = DOMAIN scan.cursors \cup {f}
           /\ s.cursors[f] = cursor
           /\ \A g \in DOMAIN scan.cursors \ {f} : s.cursors[g] = scan.cursors[g]
<1> DEFINE cs == [g \in DOMAIN NextFile.cursors \cup {f} |->
                     IF g = f THEN cursor ELSE NextFile.cursors[g]]
           s == WithCursor(NextFile, f, cursor)
<1>1. NextFileIs(NextFile) /\ NextFile.cursors = scan.cursors /\ NextFile.failed = scan.failed
    BY NextFileFields
<1>2. s = [NextFile EXCEPT !.cursors = cs]
    BY DEF WithCursor
<1>3. s.cursors = cs /\ s.failed = scan.failed /\ NextFileIs(s)
    BY <1>1, <1>2, NoScanFields DEF NextFileIs
<1>4. QED
    BY <1>1, <1>3

LEMMA SkipFields ==
    ASSUME DOMAIN scan = DOMAIN NoScan, Skip
    PROVE  /\ NextFileIs(scan') /\ scan'.cursors = scan.cursors
           /\ scan'.failed = scan.failed \cup {Current}
BY NextFileFields, NoScanFields DEF Skip, NextFileIs

\* What a step of a scan leaves as it is.
Keeps == UNCHANGED <<disk, now, cursors, evidence, errors>>

LEMMA BusyParts ==
    ASSUME LogsInv, Busy
    PROVE  /\ DOMAIN scan = DOMAIN NoScan
           /\ BeforeOK /\ ReadOK /\ StoreOK /\ ParsingOK /\ CheckpointingOK
BY DEF LogsInv, ScanOK

LEMMA SameDisk ==
    ASSUME Keeps, scan'.before = scan.before
    PROVE  /\ \A f : Unmoved(f)' <=> Unmoved(f)
           /\ \A f : Promise!Facts(disk, f)' = Promise!Facts(disk, f)
BY DEF Keeps, Unmoved, Promise!Facts

LEMMA MoreHasLines ==
    ASSUME NEW f, NEW n, NEW store, NEW more, store \subseteq more, HasLines(f, n, store)
    PROVE  HasLines(f, n, more)
BY DEF HasLines, Records

\* What a scan does not touch stays as it is.
LEMMA RestKept ==
    ASSUME LogsInv, Keeps
    PROVE  (DiskOK /\ CursorsOK /\ KeptOK(evidence) /\ errors \subseteq Logs)'
BY DEF LogsInv, DiskOK, CursorsOK, CheckpointHolds, HasLines, KeptOK, Keeps, CursorOK

\* A log is done with, with or without a cursor.
LEMMA VisitKeepsInv ==
    ASSUME LogsInv, Busy, scan.todo # {}, Keeps, NextFileIs(scan'),
           \/ scan'.cursors = scan.cursors /\ scan'.failed = scan.failed \cup {Current}
           \/ /\ scan'.failed = scan.failed
              /\ DOMAIN scan'.cursors = DOMAIN scan.cursors \cup {Current}
              /\ \A g \in DOMAIN scan.cursors \ {Current} : scan'.cursors[g] = scan.cursors[g]
              /\ scan'.cursors[Current] \in Cursors
              /\ scan'.cursors[Current].checkpoint <= now
              /\ Unmoved(Current) => /\ CursorOK(Current, scan'.cursors[Current])
                                     /\ HasLines(Current, Len(disk[Current].lines), scan.evidence)
    PROVE  LogsInv'
<1>1. /\ DOMAIN scan = DOMAIN NoScan
      /\ BeforeOK /\ ReadOK /\ StoreOK
    BY BusyParts
<1>2. /\ Current \in scan.todo /\ Current \in DOMAIN scan.before
      /\ Current \notin DOMAIN scan.cursors
    BY <1>1, CurrentIsLeft DEF ReadOK, Visited
<1>3. /\ scan'.stage = "check" /\ scan'.before = scan.before
      /\ scan'.todo = scan.todo \ {Current} /\ scan'.evidence = scan.evidence
      /\ DOMAIN scan' = DOMAIN NoScan'
    BY DEF NextFileIs, NoScan
<1>4. BeforeOK'
    BY <1>1, <1>3 DEF BeforeOK, Keeps
<1>5. Visited' = Visited \cup {Current}
    BY <1>2, <1>3 DEF Visited
<1>6. ReadOK'
  <2>1. \A f : Unmoved(f)' <=> Unmoved(f)
      BY <1>3, SameDisk
  <2>2. /\ DOMAIN scan'.cursors \subseteq Visited' /\ scan'.failed \subseteq Visited'
        /\ Visited' \subseteq DOMAIN scan'.cursors \cup scan'.failed
      BY <1>1, <1>5 DEF ReadOK
  <2>3. ASSUME NEW f \in DOMAIN scan'.cursors
        PROVE  /\ scan'.cursors[f] \in Cursors /\ scan'.cursors[f].checkpoint <= now
               /\ Unmoved(f) => /\ CursorOK(f, scan'.cursors[f])
                                /\ HasLines(f, Len(disk[f].lines), scan.evidence)
      BY <1>1, <1>2 DEF ReadOK
  <2>4. QED
      BY <1>3, <2>1, <2>2, <2>3 DEF ReadOK, Keeps, CursorOK, HasLines, Records, Cursors, Keys
<1>7. StoreOK'
  <2>1. /\ \A f : Unmoved(f)' <=> Unmoved(f)
        /\ \A f : Promise!Facts(disk, f)' = Promise!Facts(disk, f)
      BY <1>3, SameDisk
  <2>2. QED
      BY <1>1, <1>3, <2>1 DEF StoreOK, KeptOK, Keeps
<1>8. (ParsingOK /\ CheckpointingOK)'
    BY <1>3 DEF ParsingOK, CheckpointingOK
<1>9. (DiskOK /\ CursorsOK /\ KeptOK(evidence) /\ errors \subseteq Logs)'
    BY RestKept
<1>10. QED
    BY <1>3, <1>4, <1>6, <1>7, <1>8, <1>9 DEF LogsInv, ScanOK

LEMMA SkipKeepsInv ==
    ASSUME LogsInv, Busy, scan.todo # {}, Keeps, Skip
    PROVE  LogsInv'
BY BusyParts, SkipFields, VisitKeepsInv

LEMMA ReadFailsKeepsInv == ASSUME LogsInv, ReadFails PROVE LogsInv' /\ Keeps
BY SkipKeepsInv DEF ReadFails, Keeps, Busy, agentVars

\* One of the stages of reading a log.
LEMMA StageKeepsInv ==
    ASSUME LogsInv, Busy, Keeps, DOMAIN scan' = DOMAIN scan,
           scan'.stage \in {"check", "parse", "checkpoint"}, scan'.before = scan.before,
           scan'.todo = scan.todo, scan'.cursors = scan.cursors, scan'.failed = scan.failed,
           scan.evidence \subseteq scan'.evidence, StoreOK', ParsingOK', CheckpointingOK'
    PROVE  LogsInv'
<1>1. DOMAIN scan = DOMAIN NoScan /\ BeforeOK /\ ReadOK
    BY BusyParts
<1>2. BeforeOK'
    BY <1>1 DEF BeforeOK, Keeps
<1>3. ReadOK'
  <2>1. \A f : Unmoved(f)' <=> Unmoved(f)
      BY SameDisk
  <2>2. \A f, n : HasLines(f, n, scan.evidence) => HasLines(f, n, scan.evidence)'
      BY DEF HasLines, Records, Keeps
  <2>3. Visited' = Visited
      BY DEF Visited
  <2>4. \A f, cursor : CursorOK(f, cursor)' <=> CursorOK(f, cursor)
      BY DEF CursorOK
  <2>5. QED
      BY <1>1, <2>1, <2>2, <2>3, <2>4 DEF ReadOK, Keeps
<1>4. QED
    BY <1>1, <1>2, <1>3, RestKept DEF LogsInv, ScanOK, NoScan

LEMMA BeginKeepsInv == ASSUME LogsInv, Begin PROVE LogsInv' /\ Keeps
<1>1. Keeps
    BY DEF Begin, Keeps, agentVars
<1>2. /\ DOMAIN scan' = DOMAIN NoScan /\ scan'.stage = "check"
      /\ scan'.before = Inventory
      /\ scan'.todo = DOMAIN Inventory /\ scan'.cursors = <<>>
      /\ scan'.evidence = evidence
      /\ scan'.failed = {}
    BY DEF Begin, NoScan
<1>3. DiskOK /\ KeptOK(evidence)
    BY DEF LogsInv
<1>4. BeforeOK'
  <2>1. ASSUME NEW f \in DOMAIN Inventory
        PROVE  /\ f \in Logs /\ Inventory[f] \in [length : Nat, time : 0 .. now]
               /\ disk[f].time = Inventory[f].time
               /\ HalfLines(disk[f]) = Inventory[f].length
               /\ HalfLines(disk[f]) \in Nat
    <3>1. f \in Logs /\ disk[f] # Absent
        BY DEF Inventory
    <3>2. Inventory[f] = [length |-> HalfLines(disk[f]), time |-> disk[f].time]
        BY <3>1 DEF Inventory
    <3>3. QED
        BY <1>3, <3>1, <3>2, Numbers
  <2>2. /\ disk' = disk /\ now' = now /\ scan'.before = Inventory
        /\ scan'.todo = DOMAIN Inventory
      BY <1>1, <1>2 DEF Keeps
  <2>4. \A n \in Nat : n >= n
      OBVIOUS
  <2>3. \A f \in DOMAIN Inventory : HalfLines(disk[f]) >= Inventory[f].length
      BY <2>1, <2>4
  <2>5. \A f : HalfLines(disk[f])' = HalfLines(disk[f])
      BY <2>2 DEF HalfLines
  <2> HIDE DEF Inventory
  <2>6. QED
      BY <2>1, <2>2, <2>3, <2>5 DEF BeforeOK
<1>5. ReadOK'
    BY <1>2 DEF ReadOK, Visited
<1>6. StoreOK'
    BY <1>1, <1>2, <1>3 DEF StoreOK, KeptOK, Keeps
<1>7. (ParsingOK /\ CheckpointingOK)'
    BY <1>2 DEF ParsingOK, CheckpointingOK
<1>8. DOMAIN scan' = DOMAIN NoScan'
    BY <1>2 DEF NoScan
<1>9. QED
    BY <1>1, <1>2, <1>4, <1>5, <1>6, <1>7, <1>8, RestKept DEF LogsInv, ScanOK

\* What the cursor of a log says when its checkpoint is found again.
LEMMA MatchedCursor ==
    ASSUME LogsInv, NEW f \in DOMAIN cursors, disk[f] # Absent,
           Readable(disk[f], cursors[f].offset), Matches(disk[f], cursors[f])
    PROVE  /\ f \in Logs /\ cursors[f] \in Cursors /\ cursors[f].checkpoint <= now
           /\ CursorOK(f, cursors[f])
           /\ cursors[f].offset \in Nat /\ cursors[f].offset > 0
           /\ cursors[f].offset \div 2 <= Len(disk[f].lines)
           /\ cursors[f].offset % 2 = 0 => HasLines(f, cursors[f].offset \div 2, evidence)
<1> DEFINE cursor == cursors[f]
<1>1. /\ f \in Logs /\ cursor \in Cursors /\ cursor.checkpoint <= now
      /\ CursorOK(f, cursor) /\ CheckpointHolds(f, cursor, evidence)
    BY DEF LogsInv, CursorsOK
<1>2. /\ cursor.offset \in Nat /\ cursor.offset > 0
      /\ cursor.offset <= HalfLines(disk[f])
      /\ Checkpoint(disk[f], cursor.offset) = cursor.checkpoint
    BY <1>1 DEF Matches, Readable, Cursors
<1>3. /\ HalfLines(disk[f]) \in Nat /\ Len(disk[f].lines) \in Nat
      /\ HalfLines(disk[f]) \div 2 = Len(disk[f].lines)
    BY <1>1, Numbers DEF LogsInv
<1> HIDE DEF cursor
<1>4. cursor.offset \div 2 <= Len(disk[f].lines)
    BY <1>2, <1>3
<1>5. cursor.offset % 2 = 0 => disk[f].lines[cursor.offset \div 2] = cursor.checkpoint
    BY <1>2 DEF Checkpoint
<1>6. cursor.offset % 2 = 0 => HasLines(f, cursor.offset \div 2, evidence)
    BY <1>1, <1>2, <1>4, <1>5 DEF CheckpointHolds
<1>7. QED
    BY <1>1, <1>2, <1>4, <1>6 DEF cursor

LEMMA CheckKeepsInv == ASSUME LogsInv, Check PROVE LogsInv' /\ Keeps
<1> DEFINE f == Current
           c == disk[f]
           entry == scan.before[f]
           prior == IF f \in DOMAIN cursors THEN cursors[f] ELSE NoCursor
           same == prior # NoCursor /\ prior.length = entry.length
                                    /\ prior.time = entry.time
           grown == prior # NoCursor /\ f \notin Whole /\ entry.length > prior.length
<1>1. /\ scan.stage = "check" /\ Busy /\ scan.todo # {} /\ Keeps
    BY DEF Check, Reading, Busy, Keeps, agentVars
<1>2. /\ DOMAIN scan = DOMAIN NoScan /\ BeforeOK /\ ReadOK /\ StoreOK /\ DiskOK
    BY <1>1, BusyParts DEF LogsInv
<1>3. f \in scan.todo /\ f \in DOMAIN scan.before /\ f \in Logs
    BY <1>1, <1>2, CurrentIsLeft
<1>4. \/ Skip
      \/ /\ c # Absent /\ ((same \/ grown) /\ prior.offset > 0 => Readable(c, prior.offset))
         /\ \/ same /\ Matches(c, prior) /\ scan' = WithCursor(NextFile, f, prior)
            \/ scan' = [scan EXCEPT !.stage = "parse",
                                    !.start = IF grown /\ Matches(c, prior)
                                              THEN prior.offset ELSE 0]
    BY DEF Check
<1>5. (same \/ grown) => f \in DOMAIN cursors /\ prior = cursors[f]
    OBVIOUS
<1>6. ASSUME (same \/ grown) /\ Matches(c, prior), c # Absent,
             (same \/ grown) /\ prior.offset > 0 => Readable(c, prior.offset)
      PROVE  /\ f \in DOMAIN cursors /\ prior = cursors[f]
             /\ prior \in Cursors /\ prior.checkpoint <= now /\ CursorOK(f, prior)
             /\ prior.offset \in Nat /\ prior.offset > 0
             /\ prior.offset \div 2 <= Len(c.lines) /\ prior.offset <= HalfLines(c)
             /\ prior.offset % 2 = 0 => HasLines(f, prior.offset \div 2, evidence)
  <2>1. f \in DOMAIN cursors /\ prior = cursors[f]
      BY <1>5, <1>6
  <2>2. prior.offset > 0
      BY <1>6 DEF Matches
  <2>3. Readable(c, prior.offset)
      BY <1>6, <2>2
  <2> HIDE DEF prior, same, grown
  <2>4. QED
      BY <1>6, <2>1, <2>2, <2>3, MatchedCursor DEF Readable
<1>7. CASE Skip
    BY <1>1, <1>7, SkipKeepsInv
<1>8. ASSUME c # Absent, (same \/ grown) /\ prior.offset > 0 => Readable(c, prior.offset),
             same, Matches(c, prior), scan' = WithCursor(NextFile, f, prior)
      PROVE  LogsInv'
  <2>1. ASSUME Unmoved(f)
        PROVE  CursorOK(f, prior) /\ HasLines(f, Len(c.lines), scan.evidence)
    <3>1. ContentOK(f, c, now)
        BY <1>2, <1>3, <1>8 DEF DiskOK
    <3>2. /\ HalfLines(c) \in Nat /\ Len(c.lines) \in Nat
          /\ HalfLines(c) \div 2 = Len(c.lines)
          /\ ~c.torn => HalfLines(c) = 2 * Len(c.lines)
        BY <3>1, HalfLinesCount DEF ContentOK
    <3>3. prior.length = HalfLines(c)
        BY <1>8, <2>1 DEF Unmoved
    <3>4. prior.offset \div 2 = Len(c.lines)
        BY <1>6, <1>8, <3>2, <3>3 DEF CursorOK
    <3>5. CASE prior.offset % 2 = 0
      <4>1. HasLines(f, Len(c.lines), evidence)
          BY <1>6, <1>8, <3>4, <3>5
      <4>2. QED
          BY <1>2, <1>6, <1>8, <4>1, MoreHasLines DEF StoreOK
    <3>6. CASE prior.offset % 2 # 0
      <4>1. f \in Whole
          BY <1>6, <1>8, <3>6 DEF CursorOK
      <4>2. Len(c.lines) = 0
        <5>1. (Len(c.lines) = 1 /\ ~c.torn) \/ (Len(c.lines) = 0 /\ c.torn)
            BY <3>1, <4>1 DEF ContentOK
        <5>2. prior.offset \in Nat /\ prior.offset <= HalfLines(c)
            BY <1>6, <1>8
        <5> HIDE DEF prior, c
        <5>3. QED
            BY <3>2, <3>4, <3>6, <5>1, <5>2
      <4>3. QED
          BY <1>6, <1>8, <4>2 DEF HasLines
    <3>7. QED
        BY <3>5, <3>6
  <2>2. prior \in Cursors /\ prior.checkpoint <= now
      BY <1>6, <1>8
  <2> HIDE DEF prior, same, grown
  <2>3. QED
      BY <1>1, <1>2, <1>8, <2>1, <2>2, WithCursorFields, VisitKeepsInv
<1>9. ASSUME c # Absent, (same \/ grown) /\ prior.offset > 0 => Readable(c, prior.offset),
             scan' = [scan EXCEPT !.stage = "parse",
                                  !.start = IF grown /\ Matches(c, prior)
                                            THEN prior.offset ELSE 0]
      PROVE  LogsInv'
  <2> DEFINE start == IF grown /\ Matches(c, prior) THEN prior.offset ELSE 0
  <2>1. ASSUME start # 0
        PROVE  /\ start \in Nat /\ f \notin Whole /\ start % 2 = 0
               /\ f \in DOMAIN cursors /\ cursors[f].key = "session"
               /\ start \div 2 <= Len(c.lines) /\ HasLines(f, start \div 2, evidence)
    <3>1. start = prior.offset /\ grown /\ Matches(c, prior)
        BY <2>1
    <3>2. f \notin Whole
        BY <3>1
    <3> HIDE DEF grown, same, start
    <3>3. prior.offset % 2 = 0 /\ (prior.offset > 1 => prior.key = "session")
        BY <1>6, <1>9, <3>1, <3>2 DEF CursorOK
    <3>4. /\ f \in DOMAIN cursors /\ prior = cursors[f] /\ prior.offset \in Nat
          /\ prior.offset > 0 /\ prior.offset \div 2 <= Len(c.lines)
          /\ prior.offset % 2 = 0 => HasLines(f, prior.offset \div 2, evidence)
        BY <1>6, <1>9, <3>1
    <3> HIDE DEF prior
    <3>5. prior.offset > 1
        BY <3>3, <3>4
    <3>6. QED
        BY <3>1, <3>2, <3>3, <3>4, <3>5
  <2>2. scan' = [scan EXCEPT !.stage = "parse", !.start = start]
      BY <1>9
  <2> HIDE DEF prior, same, grown, start
  <2>3. /\ DOMAIN scan' = DOMAIN scan /\ scan'.stage = "parse"
        /\ scan'.before = scan.before
        /\ scan'.todo = scan.todo /\ scan'.cursors = scan.cursors
        /\ scan'.failed = scan.failed /\ scan'.evidence = scan.evidence
        /\ scan'.start = start
      BY <1>2, <2>2, NoScanFields
  <2>4. /\ \A g : Unmoved(g)' <=> Unmoved(g)
        /\ \A g : Promise!Facts(disk, g)' = Promise!Facts(disk, g)
      BY <1>1, <2>3, SameDisk
  <2>5. StoreOK'
      BY <1>1, <1>2, <2>3, <2>4 DEF StoreOK, KeptOK, Keeps
  <2>6. ParsingOK'
    <3>1. Current' = f
        BY <2>3 DEF Current
    <3>2. disk' = disk /\ evidence' = evidence /\ cursors' = cursors
        BY <1>1 DEF Keeps
    <3>3. start \in Nat
        BY <2>1
    <3>4. scan'.start > 0 => HasLines(Current, scan.start \div 2, evidence)'
      <4>1. scan'.start > 0 => HasLines(f, start \div 2, evidence)
          BY <2>1, <2>3, <3>3
      <4> HIDE DEF f
      <4>2. QED
          BY <2>3, <3>1, <3>2, <4>1 DEF HasLines, Records
    <3>5. scan'.start > 0 =>
             /\ Current' \notin Whole /\ scan'.start % 2 = 0
             /\ Current' \in DOMAIN cursors' /\ cursors'[Current'].key = "session"
             /\ scan'.start \div 2 <= Len(disk'[Current'].lines)
        BY <2>1, <2>3, <3>1, <3>2, <3>3
    <3>6. scan'.todo # {} /\ scan'.start \in Nat
        BY <1>1, <2>3, <3>3
    <3>7. QED
        BY <2>3, <3>4, <3>5, <3>6 DEF ParsingOK
  <2>7. CheckpointingOK'
      BY <2>3 DEF CheckpointingOK
  <2>8. QED
      BY <1>1, <2>3, <2>5, <2>6, <2>7, StageKeepsInv
<1>10. QED
    BY <1>1, <1>4, <1>7, <1>8, <1>9

\* What a chunk adds is of the session that the log belongs to.
LEMMA ChunkIsOfItsSession ==
    ASSUME LogsInv, scan.stage = "parse", scan.start \in Nat, ParsingOK,
           disk[Current] # Absent, Current \in Logs
    PROVE  LET f == Current
               c == disk[f]
               facts == FactsFrom(f, c, scan.start)
               key == IF facts = {} /\ f \in DOMAIN cursors THEN cursors[f].key
                      ELSE EvidenceKey(f, facts)
           IN  /\ key \in Keys
               /\ facts # {} => key = "session"
               /\ facts = {} => scan.start > 0 \/ Len(c.lines) = 0
               /\ scan.start > 0 => key = "session"
               /\ facts \subseteq FactSet /\ facts \subseteq Promise!Facts(disk, f)
               /\ \A r \in facts : r[1] = f
               /\ \A i \in 1 .. Len(c.lines) :
                     i > scan.start \div 2 /\ scan.start % 2 = 0 => <<f, i, c.lines[i]>> \in facts
<1> DEFINE f == Current
           c == disk[f]
           start == scan.start
           facts == FactsFrom(f, c, start)
           key == IF facts = {} /\ f \in DOMAIN cursors THEN cursors[f].key
                  ELSE EvidenceKey(f, facts)
<1>1. /\ Len(c.lines) \in Nat /\ DOMAIN c.lines = 1 .. Len(c.lines)
      /\ \A i \in 1 .. Len(c.lines) : c.lines[i] \in 1 .. now
      /\ f \in Logs /\ c # Absent /\ start \in Nat /\ now \in Nat
  <2>1. ContentOK(f, c, now) /\ now \in Nat
      BY DEF LogsInv, DiskOK
  <2>2. QED
      BY <2>1, LenProperties, ElementOfSeq DEF ContentOK
<1>2. f \in DOMAIN cursors => cursors[f].key \in Keys
    BY DEF LogsInv, CursorsOK, Cursors
<1>3. start > 0 => f \in DOMAIN cursors /\ cursors[f].key = "session"
    BY DEF ParsingOK
<1> HIDE DEF f, c, start
<1>4. \A i \in 1 .. Len(c.lines) : 2 * (i - 1) >= start => <<f, i, c.lines[i]>> \in facts
    BY <1>1 DEF FactsFrom
<1>5. \A r \in facts : \E i \in 1 .. Len(c.lines) :
         r = <<f, i, c.lines[i]>> /\ 2 * (i - 1) >= start
    BY <1>1 DEF FactsFrom
<1>6. facts \subseteq FactSet
    BY <1>1, <1>5 DEF FactSet
<1>7. facts \subseteq Promise!Facts(disk, f)
    BY <1>1, <1>5 DEF Promise!Facts, c
<1>8. key \in Keys
    BY <1>2 DEF EvidenceKey, Keys
<1>9. start = 0 /\ Len(c.lines) > 0 => \E r \in facts : r[2] = 1
  <2> SUFFICES ASSUME start = 0, Len(c.lines) > 0
               PROVE  <<f, 1, c.lines[1]>> \in facts
      OBVIOUS
  <2>1. 1 \in 1 .. Len(c.lines) /\ 2 * (1 - 1) >= start
      BY <1>1
  <2>2. QED
      BY <1>4, <2>1
<1>10. facts # {} => Len(c.lines) > 0
    BY <1>1, <1>5
<1>11. start > 0 => key = "session"
    BY <1>3 DEF EvidenceKey
<1>12. facts # {} => key = "session"
    BY <1>1, <1>9, <1>10, <1>11 DEF EvidenceKey
<1>13. facts = {} => start > 0 \/ Len(c.lines) = 0
    BY <1>1, <1>9
<1>14. \A i \in 1 .. Len(c.lines) :
          i > start \div 2 /\ start % 2 = 0 => <<f, i, c.lines[i]>> \in facts
  <2> SUFFICES ASSUME NEW i \in 1 .. Len(c.lines), i > start \div 2, start % 2 = 0
               PROVE  2 * (i - 1) >= start
      BY <1>4
  <2>1. QED
      BY <1>1
<1>15. \A r \in facts : r[1] = f
    BY <1>5
<1> HIDE DEF facts, key
<1>16. QED
    BY <1>6, <1>7, <1>8, <1>11, <1>12, <1>13, <1>14, <1>15 DEF facts, key, f, c, start

LEMMA ParseKeepsInv == ASSUME LogsInv, Parse PROVE LogsInv' /\ Keeps
<1> DEFINE f == Current
           c == disk[f]
           start == scan.start
           facts == FactsFrom(f, c, start)
           key == IF facts = {} /\ f \in DOMAIN cursors THEN cursors[f].key
                  ELSE EvidenceKey(f, facts)
           end == EndOfRead(f, c, start)
<1>1. /\ scan.stage = "parse" /\ Busy /\ scan.todo # {} /\ Keeps
    BY DEF Parse, Reading, Busy, Keeps, agentVars
<1>2. /\ DOMAIN scan = DOMAIN NoScan /\ BeforeOK /\ ReadOK /\ StoreOK /\ DiskOK
      /\ ParsingOK
    BY <1>1, BusyParts DEF LogsInv
<1>3. f \in scan.todo /\ f \in DOMAIN scan.before /\ f \in Logs
    BY <1>1, <1>2, CurrentIsLeft
<1>4. CASE Skip
    BY <1>1, <1>4, SkipKeepsInv
<1>5. ASSUME c # Absent,
             scan' = [scan EXCEPT !.stage = "checkpoint", !.key = key, !.offset = end,
                                  !.evidence = @ \cup Kept(key, facts)]
      PROVE  LogsInv'
  <2>1. start \in Nat
      BY <1>1, <1>2 DEF ParsingOK
  <2>2. /\ key \in Keys /\ (facts # {} => key = "session")
        /\ facts = {} => start > 0 \/ Len(c.lines) = 0
        /\ start > 0 => key = "session"
        /\ facts \subseteq FactSet /\ facts \subseteq Promise!Facts(disk, f)
        /\ \A r \in facts : r[1] = f
        /\ \A i \in 1 .. Len(c.lines) :
              i > start \div 2 /\ start % 2 = 0 => <<f, i, c.lines[i]>> \in facts
      BY <1>1, <1>2, <1>3, <1>5, <2>1, ChunkIsOfItsSession
  <2>3. /\ start > 0 => f \notin Whole /\ start % 2 = 0
        /\ start > 0 /\ Unmoved(f) => /\ start \div 2 <= Len(c.lines)
                                      /\ HasLines(f, start \div 2, evidence)
      BY <1>1, <1>2 DEF ParsingOK
  <2>4. /\ HalfLines(c) \in Nat /\ Len(c.lines) \in Nat
        /\ HalfLines(c) \div 2 = Len(c.lines)
      BY <1>2, <1>3, <1>5, Numbers
  <2>5. /\ scan.before[f].length \in Nat
        /\ Unmoved(f) => scan.before[f].length = HalfLines(c)
      BY <1>2, <1>3 DEF BeforeOK, Unmoved
  <2>6. /\ f \in Whole => end = scan.before[f].length
        /\ f \notin Whole => end = start \/ end = 2 * Len(c.lines)
        /\ f \notin Whole => end >= 2 * Len(c.lines)
        /\ f \notin Whole /\ end # 2 * Len(c.lines) => start > 2 * Len(c.lines)
      BY <2>1, <2>4 DEF EndOfRead
  <2> HIDE DEF f, c, start, facts, key, end
  <2>7. /\ DOMAIN scan' = DOMAIN scan /\ scan'.stage = "checkpoint"
        /\ scan'.before = scan.before
        /\ scan'.todo = scan.todo /\ scan'.cursors = scan.cursors
        /\ scan'.failed = scan.failed
        /\ scan'.evidence = scan.evidence \cup Kept(key, facts)
        /\ scan'.key = key /\ scan'.offset = end
      BY <1>2, <1>5, NoScanFields
  <2>8. end \in Nat /\ (f \notin Whole => end % 2 = 0)
      BY <2>1, <2>3, <2>4, <2>5, <2>6
  <2>9. Unmoved(f) => end \div 2 = Len(c.lines)
    <3>1. CASE f \in Whole
        BY <2>4, <2>5, <2>6, <3>1
    <3>2. CASE f \notin Whole
        BY <2>1, <2>3, <2>4, <2>6, <3>2
    <3>3. QED
        BY <3>1, <3>2
  <2>10. Unmoved(f) /\ end > 1 => key = "session"
      BY <2>2, <2>4, <2>8, <2>9
  <2>11. Unmoved(f) => HasLines(f, Len(c.lines), scan'.evidence)
    <3> SUFFICES ASSUME Unmoved(f), NEW i \in 1 .. Len(c.lines)
                 PROVE  <<f, i, c.lines[i]>> \in Records(scan'.evidence)
        BY DEF HasLines, c
    <3>1. CASE i > start \div 2
      <4>1. <<f, i, c.lines[i]>> \in facts
          BY <2>1, <2>2, <2>3, <3>1
      <4>2. <<key, <<f, i, c.lines[i]>>>> \in scan'.evidence
          BY <2>7, <4>1 DEF Kept
      <4>3. QED
          BY <4>2 DEF Records
    <3>2. CASE ~(i > start \div 2)
      <4>1. start > 0 /\ i \in 1 .. start \div 2
          BY <2>1, <2>4, <3>2
      <4>2. <<f, i, c.lines[i]>> \in Records(evidence)
          BY <2>3, <4>1 DEF HasLines, c
      <4>3. evidence \subseteq scan'.evidence
          BY <1>2, <2>7 DEF StoreOK
      <4>4. QED
          BY <4>2, <4>3 DEF Records
    <3>3. QED
        BY <3>1, <3>2
  <2>12. /\ \A g : Unmoved(g)' <=> Unmoved(g)
         /\ \A g : Promise!Facts(disk, g)' = Promise!Facts(disk, g)
      BY <1>1, <2>7, SameDisk
  <2>13. StoreOK'
    <3>1. ASSUME NEW kept \in Kept(key, facts)
          PROVE  /\ kept \in {"session"} \X FactSet /\ kept[2][1] = f
                 /\ kept[2] \in Promise!Facts(disk, f)
      <4>1. PICK r \in facts : kept = <<key, r>>
          BY DEF Kept
      <4>2. QED
          BY <2>2, <4>1
    <3>2. evidence' = evidence /\ evidence \subseteq scan'.evidence
        BY <1>1, <1>2, <2>7 DEF StoreOK, Keeps
    <3>3. KeptOK(scan'.evidence)
        BY <1>2, <2>7, <3>1 DEF StoreOK, KeptOK
    <3>4. ASSUME NEW kept \in scan'.evidence \ evidence
          PROVE  \E g \in DOMAIN scan.before :
                    kept[2][1] = g /\ (Unmoved(g) => kept[2] \in Promise!Facts(disk, g))
        BY <1>2, <1>3, <2>7, <3>1 DEF StoreOK, f
    <3>5. QED
        BY <2>7, <2>12, <3>2, <3>3, <3>4 DEF StoreOK, KeptOK
  <2>14. CheckpointingOK'
    <3>1. Current' = f /\ disk' = disk
        BY <1>1, <2>7 DEF Current, Keeps, f
    <3>2. HasLines(Current, Len(disk[Current].lines), scan.evidence)'
             <=> HasLines(f, Len(c.lines), scan'.evidence)
        BY <3>1 DEF HasLines, c, Records
    <3>3. Unmoved(Current)' <=> Unmoved(f)
        BY <2>7, <3>1 DEF Unmoved
    <3>4. Len(disk'[Current'].lines) = Len(c.lines)
        BY <3>1 DEF c
    <3>5. QED
        BY <1>1, <2>2, <2>7, <2>8, <2>9, <2>10, <2>11, <3>1, <3>2, <3>3, <3>4
        DEF CheckpointingOK, Keys
  <2>15. ParsingOK'
      BY <2>7 DEF ParsingOK
  <2>16. QED
      BY <1>1, <2>7, <2>13, <2>14, <2>15, StageKeepsInv
<1>6. QED
    BY <1>1, <1>4, <1>5 DEF Parse

LEMMA TakeCheckpointKeepsInv == ASSUME LogsInv, TakeCheckpoint PROVE LogsInv' /\ Keeps
<1> DEFINE f == Current
           line == IF scan.offset = 0 THEN 0 ELSE Checkpoint(disk[f], scan.offset)
           cursor == [length |-> scan.before[f].length, time |-> scan.before[f].time,
                      offset |-> scan.offset, key |-> scan.key, checkpoint |-> line]
<1>1. /\ scan.stage = "checkpoint" /\ Busy /\ scan.todo # {} /\ Keeps
    BY DEF TakeCheckpoint, Reading, Busy, Keeps, agentVars
<1>2. /\ DOMAIN scan = DOMAIN NoScan /\ BeforeOK /\ DiskOK /\ CheckpointingOK
    BY <1>1, BusyParts DEF LogsInv
<1>3. f \in DOMAIN scan.before /\ f \in Logs
    BY <1>1, <1>2, CurrentIsLeft
<1>4. \/ Skip
      \/ /\ scan.offset > 0 => Readable(disk[f], scan.offset)
         /\ scan' = WithCursor(NextFile, f, cursor)
    BY DEF TakeCheckpoint
<1>5. ASSUME scan.offset > 0 => Readable(disk[f], scan.offset),
             scan' = WithCursor(NextFile, f, cursor)
      PROVE  LogsInv'
  <2>1. scan.offset \in Nat /\ scan.key \in Keys /\ now \in Nat
      BY <1>1, <1>2 DEF CheckpointingOK, DiskOK
  <2>2. line \in 0 .. now
    <3>1. CASE scan.offset = 0 \/ scan.offset % 2 = 1
        BY <2>1, <3>1 DEF Checkpoint
    <3>2. CASE scan.offset # 0 /\ scan.offset % 2 # 1
      <4>1. disk[f] # Absent /\ scan.offset <= HalfLines(disk[f])
          BY <1>5, <2>1, <3>2 DEF Readable
      <4>2. /\ HalfLines(disk[f]) \in Nat /\ Len(disk[f].lines) \in Nat
            /\ HalfLines(disk[f]) \div 2 = Len(disk[f].lines)
            /\ \A i \in 1 .. Len(disk[f].lines) : disk[f].lines[i] \in 1 .. now
          BY <1>2, <1>3, <4>1, Numbers
      <4>3. scan.offset \div 2 \in 1 .. Len(disk[f].lines)
          BY <2>1, <3>2, <4>1, <4>2
      <4>4. line = disk[f].lines[scan.offset \div 2]
          BY <3>2 DEF Checkpoint
      <4> HIDE DEF line, f
      <4>5. QED
          BY <2>1, <4>2, <4>3, <4>4
    <3>3. QED
        BY <3>1, <3>2
  <2>3. scan.before[f] \in [length : Nat, time : 0 .. now]
      BY <1>2, <1>3 DEF BeforeOK
  <2> HIDE DEF line
  <2>4. cursor \in Cursors /\ cursor.checkpoint <= now
      BY <2>1, <2>2, <2>3 DEF Cursors
  <2>5. ASSUME Unmoved(f)
        PROVE  CursorOK(f, cursor) /\ HasLines(f, Len(disk[f].lines), scan.evidence)
    <3>1. /\ scan.offset \div 2 = Len(disk[f].lines)
          /\ scan.offset > 1 => scan.key = "session"
          /\ HasLines(f, Len(disk[f].lines), scan.evidence)
          /\ f \notin Whole => scan.offset % 2 = 0
        BY <1>1, <1>2, <2>5 DEF CheckpointingOK
    <3>2. scan.before[f].length \div 2 = Len(disk[f].lines)
        BY <1>2, <1>3, <2>5, Numbers DEF Unmoved
    <3>3. QED
        BY <3>1, <3>2 DEF CursorOK
  <2> HIDE DEF cursor
  <2>6. QED
      BY <1>1, <1>2, <1>5, <2>4, <2>5, WithCursorFields, VisitKeepsInv
<1>6. QED
    BY <1>1, <1>4, <1>5, SkipKeepsInv

----------------------------------------------------------------------------
(* The end of a scan *)

\* No log has moved: the facts of those that were read are all retained.
LEMMA AcceptPublishes ==
    ASSUME LogsInv, Accept
    PROVE  LogsInv' /\ scan.failed \subseteq Logs /\ Promise!Publish(scan.failed)
<1>1. /\ Busy /\ scan.todo = {} /\ Inventory = scan.before
      /\ disk' = disk /\ now' = now /\ cursors' = scan.cursors
      /\ evidence' = scan.evidence
      /\ errors' = scan.failed /\ scan' = NoScan
    BY DEF Accept, Busy, agentVars
<1>2. BeforeOK /\ ReadOK /\ StoreOK /\ DiskOK /\ CursorsOK
    BY <1>1, BusyParts DEF LogsInv
<1>3. /\ Visited = DOMAIN scan.before /\ DOMAIN scan.before \subseteq Logs
      /\ \A f \in Logs : f \in DOMAIN scan.before <=> disk[f] # Absent
    BY <1>1, <1>2 DEF Visited, BeforeOK, Inventory
<1>4. \A f \in DOMAIN scan.before : Unmoved(f)
    BY <1>1, <1>2, <1>3 DEF Unmoved, Inventory
<1>5. ASSUME NEW f \in DOMAIN scan.cursors
      PROVE  /\ f \in Logs /\ disk[f] # Absent
             /\ scan.cursors[f] \in Cursors /\ scan.cursors[f].checkpoint <= now
             /\ CursorOK(f, scan.cursors[f])
             /\ HasLines(f, Len(disk[f].lines), scan.evidence)
    BY <1>2, <1>3, <1>4 DEF ReadOK
<1>6. ASSUME NEW f \in DOMAIN scan.cursors
      PROVE  CheckpointHolds(f, scan.cursors[f], scan.evidence)
  <2>1. Len(disk[f].lines) \in Nat
      BY <1>2, <1>5, Numbers
  <2>2. scan.cursors[f].offset \in Nat
      BY <1>5 DEF Cursors
  <2>3. QED
      BY <1>5, <2>1, <2>2 DEF CheckpointHolds, HasLines
<1>7. CursorsOK'
  <2>1. \A f, cursor : CursorOK(f, cursor)' <=> CursorOK(f, cursor)
      BY DEF CursorOK
  <2>2. \A f \in DOMAIN scan.cursors : CheckpointHolds(f, cursors[f], evidence)'
      BY <1>1, <1>6 DEF CheckpointHolds, HasLines, Records
  <2>3. \A f \in DOMAIN scan.cursors : CursorOK(f, cursors[f])'
      BY <1>1, <1>5 DEF CursorOK
  <2>4. QED
      BY <1>1, <1>5, <2>2, <2>3 DEF CursorsOK, Cursors, Keys
<1>8. scan.failed \subseteq Logs
    BY <1>2, <1>3 DEF ReadOK
<1>9. DiskOK' /\ KeptOK(evidence)' /\ ScanOK'
    BY <1>1, <1>2 DEF DiskOK, KeptOK, StoreOK, ScanOK, Busy, NoScan
<1>10. LogsInv'
    BY <1>1, <1>7, <1>8, <1>9 DEF LogsInv
<1>11. ASSUME NEW f \in Logs \ scan.failed
       PROVE  Promise!Facts(disk, f) \subseteq Records(scan.evidence)
  <2>1. CASE disk[f] = Absent
      BY <2>1 DEF Promise!Facts
  <2>2. CASE disk[f] # Absent
    <3>1. f \in DOMAIN scan.cursors
        BY <1>2, <1>3, <2>2 DEF ReadOK
    <3>2. disk[f].lines \in Seq(1 .. now)
        BY <1>2, <2>2 DEF DiskOK, ContentOK
    <3>3. DOMAIN disk[f].lines = 1 .. Len(disk[f].lines)
        BY <3>2, LenProperties
    <3>4. QED
        BY <1>5, <2>2, <3>1, <3>3 DEF Promise!Facts, HasLines
  <2>3. QED
      BY <2>1, <2>2
<1>12. ASSUME NEW r \in Records(scan.evidence)
       PROVE  r \in Records(evidence) \/ \E f \in Logs : r \in Promise!Facts(disk, f)
  <2>1. PICK kept \in scan.evidence : r = kept[2]
      BY DEF Records
  <2>2. CASE kept \in evidence
      BY <2>1, <2>2 DEF Records
  <2>3. CASE kept \notin evidence
      BY <1>2, <1>3, <1>4, <2>1, <2>3 DEF StoreOK
  <2>4. QED
      BY <2>2, <2>3
<1>13. Records(evidence) \subseteq Records(scan.evidence)
    BY <1>2 DEF StoreOK, Records
<1>14. Records(evidence)' = Records(scan.evidence)
    BY <1>1 DEF Records
<1>15. Promise!Publish(scan.failed)
  <2>1. Promise!FactsOf(disk, Logs \ scan.failed) \subseteq Records(scan.evidence)
      BY <1>11 DEF Promise!FactsOf
  <2>2. Records(scan.evidence) \subseteq
           (Records(evidence) \cup Promise!FactsOf(disk, Logs \ scan.failed))
              \cup Promise!FactsOf(disk, scan.failed)
      BY <1>8, <1>12 DEF Promise!FactsOf
  <2>3. QED
      BY <1>1, <1>13, <1>14, <2>1, <2>2 DEF Promise!Publish
<1>16. QED
    BY <1>8, <1>10, <1>15

LEMMA DroppedKeepsInv ==
    ASSUME LogsInv, Reject \/ RootUnreadable
    PROVE  LogsInv' /\ Keeps
<1>1. Keeps /\ scan' = NoScan
    BY DEF Reject, RootUnreadable, Keeps, agentVars
<1>2. ScanOK'
    BY <1>1 DEF ScanOK, Busy, NoScan
<1>3. QED
    BY <1>1, <1>2, RestKept DEF LogsInv

----------------------------------------------------------------------------
(* The theorems *)

LEMMA InitGivesInv == Init => LogsInv
<1> SUFFICES ASSUME Init PROVE LogsInv
    OBVIOUS
<1>1. DiskOK
    BY DEF Init, DiskOK
<1>2. CursorsOK
    BY DEF Init, CursorsOK
<1>3. ScanOK
    BY DEF Init, ScanOK, Busy, NoScan
<1>4. QED
    BY <1>1, <1>2, <1>3 DEF Init, LogsInv, KeptOK

\* A step of the scan that publishes nothing changes nothing a reader sees.
LEMMA StepKeepsInv ==
    ASSUME LogsInv, [Next]_vars
    PROVE  LogsInv' /\ [Promise!Next]_(Promise!vars)
<1>1. ASSUME Keeps PROVE [Promise!Next]_(Promise!vars)
    BY <1>1 DEF Keeps, Promise!vars, Records
<1>2. CASE Begin \/ Check \/ Parse \/ TakeCheckpoint \/ Reject \/ RootUnreadable \/ ReadFails
    BY <1>1, <1>2, BeginKeepsInv, CheckKeepsInv, ParseKeepsInv, TakeCheckpointKeepsInv,
       DroppedKeepsInv, ReadFailsKeepsInv
<1>3. CASE Accept
  <2>1. LogsInv' /\ scan.failed \in SUBSET Logs /\ Promise!Publish(scan.failed)
      BY <1>3, AcceptPublishes
  <2>2. QED
      BY <2>1 DEF Promise!Next
<1>4. CASE Agents
  <2>1. LogsInv' /\ UNCHANGED <<cursors, evidence, scan, errors>>
      BY <1>4, AgentsKeepInv
  <2>2. Records(evidence)' = Records(evidence) /\ errors' = errors
      BY <2>1 DEF Records
  <2>3. QED
      BY <2>1, <2>2 DEF Promise!Next, Promise!Write, Promise!vars
<1>5. CASE UNCHANGED vars
  <2>1. Keeps /\ scan' = scan
      BY <1>5 DEF vars, Keeps
  <2>2. ScanOK'
    <3>1. /\ \A f : Unmoved(f)' <=> Unmoved(f)
          /\ \A f : Promise!Facts(disk, f)' = Promise!Facts(disk, f)
        BY <2>1, SameDisk
    <3>2. disk' = disk /\ cursors' = cursors /\ evidence' = evidence /\ now' = now
        BY <2>1 DEF Keeps
    <3>3. ScanOK
        BY DEF LogsInv
    <3>4. CASE ~Busy
        BY <2>1, <3>3, <3>4 DEF ScanOK, Busy, NoScan
    <3>5. CASE Busy
      <4>1. StoreOK'
          BY <2>1, <3>1, <3>2, <3>5, BusyParts DEF StoreOK, KeptOK
      <4>2. Current' = Current
          BY <2>1 DEF Current
      <4>3. (ParsingOK /\ CheckpointingOK)'
          BY <2>1, <3>1, <3>2, <3>5, <4>2, BusyParts
          DEF ParsingOK, CheckpointingOK, HasLines, Records, Keys
      <4>4. QED
          BY <2>1, <3>3, <3>5, <4>1, <4>3, StageKeepsInv DEF ScanOK, Busy, LogsInv
    <3>6. QED
        BY <3>4, <3>5
  <2>3. QED
      BY <1>1, <2>1, <2>2, RestKept DEF LogsInv
<1>6. QED
    BY <1>2, <1>3, <1>4, <1>5 DEF Next, Scanner

LEMMA InvGivesSoundness == ASSUME LogsInv PROVE EvidenceIsSound
<1>1. TypeOK
  <2>1. \A f \in Logs : disk[f] # Absent =>
           /\ disk[f].lines \in Seq(1 .. now) /\ Len(disk[f].lines) <= MaxLines
           /\ disk[f].torn \in BOOLEAN /\ disk[f].time \in 0 .. now
      BY DEF LogsInv, DiskOK, ContentOK
  <2>2. QED
      BY <2>1 DEF LogsInv, CursorsOK, KeptOK, ScanOK, TypeOK, Keys
<1>2. RetainedOnce
    BY DEF LogsInv, KeptOK, RetainedOnce
<1>3. QED
    BY <1>1, <1>2 DEF EvidenceIsSound

\* Whatever agents write while it is scanned, and however often a log is read
\* again, no record is ever retained under two keys (load_generation and the
\* store it merges into).
THEOREM EvidenceStaysSound == Spec => []EvidenceIsSound
<1>1. LogsInv /\ [Next]_vars => LogsInv'
    BY StepKeepsInv
<1>2. QED
    BY <1>1, InitGivesInv, InvGivesSoundness, PTL DEF Spec

\* Every accepted generation holds what all its logs held at the instant of
\* its second inventory, on top of what was published before; a log of which
\* something is missing is among its errors.
THEOREM ScansImplementEvidence == Spec => ImplementsEvidence
<1>1. Init => Promise!Init
    BY DEF Init, Promise!Init, Records
<1>2. LogsInv /\ [Next]_vars => LogsInv' /\ [Promise!Next]_(Promise!vars)
    BY StepKeepsInv
<1>3. QED
    BY <1>1, <1>2, InitGivesInv, PTL DEF Spec, ImplementsEvidence, Promise!Spec

----------------------------------------------------------------------------
(* The definitions of Activity, under their names there *)

Nobody == Work!Nobody
Officer == Work!Officer
Sessions == Work!Sessions
Blank == Work!Blank
Pos == Work!Pos
Of(kinds) == Work!Of(kinds)
In(src) == Work!In(src)
Rank(kind) == Work!Rank(kind)
Event(kind, at, session, call) == Work!Event(kind, at, session, call)
Before(a, b) == Work!Before(a, b)
StillOpen(events, open, close) == Work!StillOpen(events, open, close)
Reduce(events) == Work!Reduce(events)
OpenTurn(p) == Work!OpenTurn(p)
Confirmed(s, e) == Work!Confirmed(s, e)
IsWorkerOf(s, e) == Work!IsWorkerOf(s, e)
CodexWorker(s) == Work!CodexWorker(s)
Scopes(p, e) == Work!Scopes(p, e)
CodexOfficer(s, e) == Work!CodexOfficer(s, e)
HasSession(s) == Work!HasSession(s)
CodexEvents(e) == Work!CodexEvents(e)
Dispatches(e) == Work!Dispatches(e)
MatchingMeta(d, e) == Work!MatchingMeta(d, e)
Attributed(d, e) == Work!Attributed(d, e)
AgentOf(d, e) == Work!AgentOf(d, e)
Idles(e) == Work!Idles(e)
Boundaries(e) == Work!Boundaries(e)
Reopened(spoken, e) == Work!Reopened(spoken, e)
ClaudeWorker(s, e) == Work!ClaudeWorker(s, e)
AssistantKinds == Work!AssistantKinds
OfficerState(e) == Work!OfficerState(e)
ClaudeOfficer(e) == Work!ClaudeOfficer(e)
ClaudeEvents(e) == Work!ClaudeEvents(e)
Activity(e) == Work!Activity(e)
NoWorker == Work!NoWorker
Next1 == Work!Next1
Set(k, r) == Work!Set(k, r)
StartTurn == Work!StartTurn
EndTurn == Work!EndTurn
Call(e) == Work!Call(e)
Ask == Work!Ask
Answer == Work!Answer
Spawn(k, e) == Work!Spawn(k, e)
OpenFile(k) == Work!OpenFile(k)
Confirm(k) == Work!Confirm(k)
WorkerTurn(k) == Work!WorkerTurn(k)
WorkerCall(k) == Work!WorkerCall(k)
WorkerDone(k) == Work!WorkerDone(k)
Interrupt(k) == Work!Interrupt(k)
WriteMeta(k) == Work!WriteMeta(k)
WorkerSpeaks(k) == Work!WorkerSpeaks(k)
WorkerMessage(k) == Work!WorkerMessage(k)
GoIdle(k) == Work!GoIdle(k)
Redispatched(e) == Work!Redispatched(e)
AtWork(e) == Work!AtWork(e)
Goings(e) == Work!Goings(e)
ProvenWorkers(e) == Work!ProvenWorkers(e)
USE DEF Nobody, Officer, Sessions, Blank, Pos, Of, In, Rank, Event, Before,
        StillOpen, Reduce, OpenTurn, Confirmed, IsWorkerOf,
        CodexWorker, Scopes, CodexOfficer, HasSession, CodexEvents,
        Dispatches, MatchingMeta, Attributed, AgentOf, Idles,
        Boundaries, Reopened, ClaudeWorker, AssistantKinds,
        OfficerState, ClaudeOfficer, ClaudeEvents, Activity, NoWorker,
        Next1, Set, StartTurn, EndTurn, Call, Ask, Answer, Spawn,
        OpenFile, Confirm, WorkerTurn, WorkerCall, WorkerDone,
        Interrupt, WriteMeta, WorkerSpeaks, WorkerMessage, GoIdle,
        Redispatched, AtWork, Goings, ProvenWorkers

\* An instance has operators on sets of its own.
LEMMA SameSets ==
    ASSUME NEW S
    PROVE  /\ Work!Max(S) = Max(S) /\ Work!Min(S) = Min(S)
           /\ Work!IsFiniteSet(S) <=> IsFiniteSet(S)
           /\ Work!Cardinality(S) = Cardinality(S)
BY Zenon DEF Work!Max, Max, Work!Min, Min, Work!IsFiniteSet, IsFiniteSet,
             Work!Cardinality, Cardinality

----------------------------------------------------------------------------
(* The inductive invariant *)

OfficerKinds ==
    {"session", "task_started", "task_complete", "end_turn", "call", "spawn",
     "ask", "result", "started", "interrupted", "teammate", "idle"}
WorkerKinds ==
    {"session", "assignment", "task_started", "task_complete", "call", "meta",
     "assistant"}

Record == [src : Sessions, kind : OfficerKinds \cup WorkerKinds, id : Nat,
           about : SUBSET Entities, agent : Nat, from : Entities \cup {Nobody}]

AgentType ==
    [entity : Entities \cup {Nobody}, call : Nat, opened : BOOLEAN,
     known : BOOLEAN, turn : Nat, busy : BOOLEAN, own : BOOLEAN,
     rested : BOOLEAN, heard : BOOLEAN, shown : BOOLEAN]

AgentsType ==
    /\ runtime \in {"codex", "claude"}
    /\ log \in Seq(Record)
    /\ fo \in [turn : Nat, touched : SUBSET Entities, handed : SUBSET Entities,
               ask : Nat]
    /\ worker \in [Workers -> AgentType]

\* What a record in the officer's file, and in a worker's, can be.
OfficerRecords ==
    \A p \in In(Officer) :
        /\ log[p].kind \in OfficerKinds
        /\ log[p].kind = "session" => log[p].from = Nobody
        /\ log[p].kind \in {"task_started", "spawn", "ask"} => log[p].id = p
        /\ log[p].kind \in {"result", "task_complete"} => log[p].id < p

WorkerRecords ==
    \A p \in Pos : log[p].src # Officer =>
        LET w == worker[log[p].src] IN
        /\ log[p].kind \in WorkerKinds
        /\ w.entity \in Entities
        /\ log[p].kind \in {"session", "meta"} => log[p].from = w.entity
        /\ log[p].kind = "task_started" => log[p].id = p
        /\ log[p].kind = "task_complete" => log[p].id < p
        /\ log[p].kind \in {"call", "assignment"} => log[p].about = {w.entity}
        /\ log[p].kind = "assignment" => w.known
        /\ log[p].kind = "meta" => /\ log[p].agent = log[p].src
                                   /\ log[p].id \in {0, w.call} /\ w.known

\* Every spawn is of one worker, and every worker has its spawn.
Spawns ==
    /\ \A p \in In(Officer) : log[p].kind = "spawn" =>
          \E k \in Workers : /\ worker[k].call = p /\ worker[k].entity \in Entities
                             /\ log[p].about = {worker[k].entity}
    /\ \A k \in Workers : worker[k].entity \in Entities =>
          /\ worker[k].call \in In(Officer)
          /\ log[worker[k].call].kind = "spawn"
          /\ log[worker[k].call].about = {worker[k].entity}
    /\ \A k \in Workers : worker[k].entity = Nobody => worker[k] = NoWorker

\* A question is open exactly until its answer.
Questions ==
    /\ \A p \in In(Officer) : log[p].kind = "ask" =>
          \/ p = fo.ask
          \/ \E q \in In(Officer) : q > p /\ log[q].kind = "result" /\ log[q].id = p
    /\ fo.ask # 0 =>
          /\ fo.ask \in In(Officer) /\ log[fo.ask].kind = "ask"
          /\ \A q \in In(Officer) : log[q].kind = "result" => log[q].id # fo.ask

\* A file's open turn.
TurnOpen(s, t) ==
    /\ t \in In(s) /\ log[t].kind = "task_started"
    /\ \A q \in In(s) : /\ log[q].kind = "task_started" => q <= t
                        /\ log[q].kind = "task_complete" => q < t

Stops(k) ==
    {p \in In(k) : log[p].kind = "task_complete" /\ OpenTurn(p) = log[p].id}
    \cup {p \in Pos : log[p].kind = "interrupted" /\ log[p].agent = k}

\* A worker that is busy is in its last turn, which nothing has stopped.
BusyTurn(k) ==
    /\ worker[k].busy =>
          /\ worker[k].opened /\ TurnOpen(k, worker[k].turn)
          /\ \A q \in Stops(k) : q < worker[k].turn
    /\ ~worker[k].busy =>
          \A p \in In(k) : log[p].kind = "task_started" => \E r \in Stops(k) : r > p

CodexTurns ==
    /\ fo.turn # 0 => TurnOpen(Officer, fo.turn)
    /\ \A k \in Workers : BusyTurn(k)

CodexFiles ==
    /\ \E p \in In(Officer) : log[p].kind = "session"
    /\ \A k \in Workers : worker[k].opened =>
          \E p \in In(k) : log[p].kind = "session" /\ log[p].from = worker[k].entity
    /\ \A k \in Workers :
          worker[k].known => Confirmed(k, worker[k].entity)
    /\ \A p \in In(Officer) : log[p].kind = "started" =>
          log[p].agent \in Workers /\ worker[log[p].agent].known

Scoping(s, e) == {p \in In(s) : Scopes(p, e) /\ OpenTurn(p) # 0}
Completed(s, p) ==
    \E q \in In(s) : q > p /\ log[q].kind = "task_complete" /\ log[q].id = OpenTurn(p)

\* A record that scopes the officer's turn to e is of the open turn, or of one
\* that was completed.
OfficerScopes ==
    \A e \in Entities : \A p \in Scoping(Officer, e) :
        \/ e \in fo.touched /\ fo.turn # 0 /\ OpenTurn(p) = fo.turn
        \/ Completed(Officer, p)

TouchedScopes ==
    \A e \in fo.touched :
        /\ fo.turn # 0
        /\ \E p \in Scoping(Officer, e) :
              p > fo.turn /\ OpenTurn(p) = fo.turn /\ (fo.ask # 0 => p < fo.ask)

AskInTurn == \A p \in Pos : p = fo.ask => fo.turn # 0 /\ OpenTurn(p) = fo.turn

WorkerCalls ==
    \A k \in Workers : \A p \in In(k) : log[p].kind = "call" =>
        \/ worker[k].busy /\ worker[k].own /\ OpenTurn(p) = worker[k].turn
        \/ worker[k].known
        \/ Completed(k, p)

CodexScopes ==
    fo.handed = {} /\ OfficerScopes /\ TouchedScopes /\ AskInTurn /\ WorkerCalls

\* A Claude worker: its metadata, its messages and whether it is idle.
ClaudeFiles ==
    /\ \A k \in Workers : worker[k].known => \E p \in In(k) : log[p].kind = "meta"
    /\ \A p, q \in Pos : log[p].kind = "meta" /\ log[q].kind = "meta"
                         /\ log[p].src = log[q].src => p = q

Spoken(k) == {p \in In(k) : log[p].kind = "assistant"}

\* A record of the worker that reopens it.
Opening(k, p) ==
    /\ p \in Spoken(k)
    /\ \/ \A q \in Spoken(k) : p <= q
       \/ \E c \in Boundaries(worker[k].entity) :
             /\ \E i \in Idles(worker[k].entity) : i < c
             /\ c < p
             /\ \A q \in Spoken(k) : q > c => p <= q

Single(k) == \A j \in Workers : worker[j].entity = worker[k].entity => j = k

\* A worker's last rest, message and word, as its state tells them.
ClaudeTurn(k) ==
    LET w == worker[k] IN
    /\ w.rested => Idles(w.entity) # {}
    /\ w.heard => \E c \in Boundaries(w.entity) :
                    /\ \E i \in Idles(w.entity) : i < c
                    /\ \A q \in Spoken(k) : q < c
    /\ ~w.busy => \A p \in Spoken(k) : \E i \in Idles(w.entity) : i > p
    /\ w.shown => w.busy
    /\ w.shown /\ Single(k) => \E p \in Pos : /\ Opening(k, p)
                                              /\ \A i \in Idles(w.entity) : i < p

IdlesNamed ==
    \A p \in In(Officer) : log[p].kind = "idle" =>
        \E k \in Workers : worker[k].rested /\ worker[k].entity = log[p].from

ClaudeTurns == IdlesNamed /\ \A k \in Workers : ClaudeTurn(k)

\* What the officer's records up to each one make of it.
OfficerStep(was, p, e) ==
    LET r == log[p] IN
    IF r.src # Officer THEN was
    ELSE IF r.kind = "idle" /\ r.from = e /\ \E d \in Dispatches(e) : d < p
    THEN [scoped |-> FALSE, handoff |-> TRUE]
    ELSE IF r.kind \in AssistantKinds
    THEN [scoped |-> /\ r.kind # "end_turn"
                     /\ was.scoped \/ was.handoff \/ Scopes(p, e),
          handoff |-> FALSE]
    ELSE was

IsState(f, e) ==
    f = [p \in 0 .. Len(log) |-> IF p = 0 THEN [scoped |-> FALSE, handoff |-> FALSE]
                                 ELSE OfficerStep(f[p - 1], p, e)]

Started(f, p, e) ==
    /\ p \in In(Officer)
    /\ Scopes(p, e) \/ (log[p].kind \in AssistantKinds /\ f[p - 1].handoff)
Stopped(f, p, e) ==
    /\ p \in In(Officer) /\ log[p].kind = "end_turn"
    /\ f[p - 1].scoped \/ f[p - 1].handoff

Agrees(f, e) ==
    LET a == f[Len(log)] IN
    /\ a.scoped \in BOOLEAN /\ a.handoff \in BOOLEAN
    /\ a.handoff <=> e \in fo.handed
    /\ (a.scoped \/ a.handoff) <=> (e \in fo.touched \/ e \in fo.handed)
    /\ a.scoped => e \in fo.touched

Tells(f, e) ==
    /\ fo.ask # 0 => (f[fo.ask].scoped <=> e \in fo.touched)
    /\ \A p \in Pos : Started(f, p, e) =>
          e \in fo.touched \/ \E q \in Pos : q >= p /\ Stopped(f, q, e)
    /\ e \in fo.touched =>
          \E p \in Pos : Started(f, p, e) /\ \A q \in Pos : Stopped(f, q, e) => q < p

ClaudeOfficerAgrees ==
    \A e \in Entities :
        /\ \E f : IsState(f, e)
        /\ \A f : IsState(f, e) => Agrees(f, e) /\ Tells(f, e)

AgentsInv ==
    /\ AgentsType /\ OfficerRecords /\ WorkerRecords /\ Spawns /\ Questions
    /\ runtime = "codex" => CodexTurns /\ CodexFiles /\ CodexScopes
    /\ runtime = "claude" => ClaudeFiles /\ ClaudeTurns /\ ClaudeOfficerAgrees


----------------------------------------------------------------------------
(* Numbers, and the records that a step writes *)

\* A set of positions that is not empty has a least member.
LEMMA LeastPosition ==
    ASSUME NEW n \in Nat, NEW I \in SUBSET (1 .. n), I # {}
    PROVE  \E m \in I : \A i \in I : m <= i
<1> DEFINE Below(k) == {j \in 1 .. n : j \in I /\ j < k}
           T == {Below(k) : k \in I}
<1>1. T \subseteq FiniteSubsetsOf(1 .. n) /\ T # {}
  <2>1. IsFiniteSet(1 .. n)
      BY FS_Interval
  <2>2. \A k : Below(k) \in SUBSET (1 .. n)
      OBVIOUS
  <2>3. \A k : IsFiniteSet(Below(k))
      BY <2>1, <2>2, FS_Subset
  <2>4. QED
      BY <2>2, <2>3 DEF FiniteSubsetsOf
<1>2. PICK B \in T : \A C \in T : ~(<<C, B>> \in StrictSubsetOrdering(1 .. n))
    BY <1>1, FS_StrictSubsetOrderingWellFounded, FS_Interval, WFMin
<1>3. PICK k \in I : B = Below(k)
    OBVIOUS
<1>4. ASSUME NEW j \in I, j < k PROVE FALSE
  <2>1. Below(j) \in T /\ Below(j) \in SUBSET (1 .. n) /\ B \in SUBSET (1 .. n)
      BY <1>3, <1>4
  <2>2. Below(j) \subseteq B
      BY <1>3, <1>4
  <2>3. j \in B /\ j \notin Below(j)
      BY <1>3, <1>4
  <2> HIDE DEF Below, T
  <2>4. QED
      BY <1>2, <2>1, <2>2, <2>3 DEF StrictSubsetOrdering
<1>5. \A i \in I : k <= i
    BY <1>4
<1> QED BY <1>5

\* And a last one.
LEMMA LastPosition ==
    ASSUME NEW n \in Nat, NEW I \in SUBSET (1 .. n), I # {}
    PROVE  \E m \in I : \A i \in I : i <= m
<1> DEFINE J == {j \in 1 .. n : (n + 1) - j \in I}
<1>1. J \in SUBSET (1 .. n) /\ J # {}
  <2>1. PICK i \in I : TRUE
      OBVIOUS
  <2>2. (n + 1) - i \in 1 .. n /\ (n + 1) - ((n + 1) - i) = i
      OBVIOUS
  <2>3. QED
      BY <2>2
<1>2. PICK m \in J : \A j \in J : m <= j
  <2> HIDE DEF J
  <2>1. QED
      BY <1>1, LeastPosition
<1>3. (n + 1) - m \in I
    BY <1>1, <1>2
<1>4. ASSUME NEW i \in I PROVE i <= (n + 1) - m
  <2>1. (n + 1) - i \in J
    <3>1. (n + 1) - i \in 1 .. n /\ (n + 1) - ((n + 1) - i) = i
        OBVIOUS
    <3>2. QED
        BY <3>1
  <2>2. m <= (n + 1) - i /\ m \in 1 .. n
      BY <1>1, <1>2, <2>1
  <2>3. QED
      BY <2>2
<1> QED BY <1>3, <1>4

LEMMA MinIs ==
    ASSUME NEW I \in SUBSET Nat, NEW m \in I, \A i \in I : m <= i
    PROVE  Min(I) = m
<1>1. Min(I) \in I /\ \A i \in I : Min(I) <= i
      BY Zenon DEF Min
<1> DEFINE x == Min(I)
<1>2. x \in I /\ \A i \in I : x <= i
      BY <1>1
<1> HIDE DEF x
<1>3. x \in Nat /\ m \in Nat /\ x <= m /\ m <= x
      BY <1>2
<1>4. x = m
      BY <1>3
<1> QED BY <1>4 DEF x

LEMMA MaxIs ==
    ASSUME NEW I \in SUBSET Nat, NEW m \in I, \A i \in I : i <= m
    PROVE  Max(I) = m
<1>1. Max(I) \in I /\ \A i \in I : Max(I) >= i
      BY DEF Max
<1> DEFINE x == Max(I)
<1>2. x \in I /\ \A i \in I : x >= i
      BY <1>1
<1> HIDE DEF x
<1>3. x \in Nat /\ m \in Nat /\ x <= m /\ m <= x
      BY <1>2
<1>4. x = m
      BY <1>3
<1> QED BY <1>4 DEF x

\* The log has got the one record r.
LogGrown(r) ==
    /\ Next1 \in Nat \ {0} /\ Next1 \notin Pos
    /\ Pos' = Pos \cup {Next1}
    /\ \A p \in Pos : p \in Nat \ {0} /\ p < Next1 /\ log'[p] = log[p]
    /\ log'[Next1] = r
    /\ Len(log') = Next1

\* The log has got records, at its end.
LogGrows ==
    /\ Pos \subseteq Pos'
    /\ \A p \in Pos' : p \in Nat \ {0}
    /\ \A p \in Pos : log'[p] = log[p]
    /\ \A p \in Pos, q \in Pos' : q \notin Pos => p < q

\* The log has got one record, and this one.
Wrote(src, kind, id, about, agent, from) ==
    /\ LogGrows
    /\ Next1 \in Pos' /\ Next1 \notin Pos /\ \A p \in Pos' : p \in Pos \/ p = Next1
    /\ Next1 \in Nat \ {0} /\ Len(log') = Next1
    /\ \A p \in Pos : p < Next1
    /\ log'[Next1].src = src /\ log'[Next1].kind = kind /\ log'[Next1].id = id
    /\ log'[Next1].about = about /\ log'[Next1].agent = agent
    /\ log'[Next1].from = from

\* Of worker k, the state has become w, and of no other.
Sets(k, w) == worker'[k] = w /\ \A j \in Workers : j # k => worker'[j] = worker[j]

LEMMA Appends ==
    ASSUME AgentsType, NEW r \in Record, log' = Append(log, r)
    PROVE  LogGrown(r) /\ log' \in Seq(Record)
<1>1. Len(log) \in Nat /\ log' \in Seq(Record) /\ Len(log') = Len(log) + 1
      BY DEF AgentsType
<1>2. log'[Len(log) + 1] = r /\ \A p \in 1 .. Len(log) : log'[p] = log[p]
      BY DEF AgentsType
<1>3. Pos = 1 .. Len(log) /\ Pos' = 1 .. Len(log) + 1
      BY <1>1 DEF AgentsType, Work!Pos
<1> QED BY <1>1, <1>2, <1>3 DEF LogGrown, Work!Next1

LEMMA AppendsTwo ==
    ASSUME AgentsType, NEW a \in Record, NEW b \in Record, log' = log \o <<a, b>>
    PROVE  /\ LogGrows /\ log' \in Seq(Record)
           /\ Pos' \ Pos = {Next1, Next1 + 1}
           /\ log'[Next1] = a /\ log'[Next1 + 1] = b
<1>1. Len(log) \in Nat /\ log' \in Seq(Record) /\ Len(log') = Len(log) + 2
      BY DEF AgentsType
<1>2. log'[Len(log) + 1] = a /\ log'[Len(log) + 2] = b
      BY DEF AgentsType
<1>3. \A p \in 1 .. Len(log) : log'[p] = log[p]
      BY DEF AgentsType
<1>4. Pos = 1 .. Len(log) /\ Pos' = 1 .. Len(log) + 2
      BY <1>1 DEF AgentsType, Work!Pos
<1> QED BY <1>1, <1>2, <1>3, <1>4 DEF LogGrows, Work!Next1

LEMMA GrownGrows ==
    ASSUME NEW r, LogGrown(r)
    PROVE  LogGrows /\ Pos' \ Pos = {Next1}
BY DEF LogGrown, LogGrows

(***************************************************************************)
(* What each step writes and leaves behind.                                *)
(***************************************************************************)

LEMMA StartTurnStep ==
    ASSUME AgentsType, Spawns, StartTurn
    PROVE  /\ Wrote(Officer, "task_started", Next1, {}, 0, Nobody)
           /\ runtime = "codex" /\ fo.turn = 0
           /\ fo'.turn = Next1 /\ fo'.touched = fo.touched
           /\ fo'.handed = fo.handed /\ fo'.ask = fo.ask
           /\ UNCHANGED <<runtime, worker>>
           /\ AgentsType'
<1> DEFINE r == [Blank EXCEPT !.kind = "task_started", !.id = Next1]
<1>1. Next1 \in Nat \ {0}
      BY DEF AgentsType, Work!Next1
<1>2. log' = Append(log, r)
      BY DEF Work!StartTurn, Work!Write
<1>3. /\ worker \in [Workers -> AgentType] /\ fo.turn \in Nat /\ fo.ask \in Nat
      /\ fo \in [turn : Nat, touched : SUBSET Entities, handed : SUBSET Entities,
                ask : Nat]
      BY DEF Work!StartTurn, AgentsType, Spawns, Work!NoWorker, AgentType
<1>4. r \in Record
      BY <1>1, <1>3, MCActivityConstants, SameSets
         DEF Work!StartTurn, Work!ActivityConstants, Record, Work!Blank,
             OfficerKinds, WorkerKinds, Work!Sessions, Work!Officer
<1>5. /\ r.src = Officer /\ r.kind = ("task_started") /\ r.id = Next1
      /\ r.about = {} /\ r.agent = 0 /\ r.from = Nobody
      BY DEF Work!Blank
<1> HIDE DEF r
<1>6. LogGrown(r) /\ log' \in Seq(Record)
      BY <1>2, <1>4, Appends
<1>7. Wrote(Officer, "task_started", Next1, {}, 0, Nobody)
      BY <1>6, <1>5 DEF Wrote, LogGrown, LogGrows
<1>8. worker' \in [Workers -> AgentType]
      BY DEF Work!StartTurn, AgentsType
<1>9. fo' \in [turn : Nat, touched : SUBSET Entities, handed : SUBSET Entities,
                ask : Nat]
      BY <1>1, <1>3 DEF Work!StartTurn, Work!Speaks, AgentsType
<1>10. /\ fo'.turn = Next1 /\ fo'.touched = fo.touched
       /\ fo'.handed = fo.handed /\ fo'.ask = fo.ask
      BY <1>3 DEF Work!StartTurn, Work!Speaks
<1> QED BY <1>10, <1>7, <1>6, <1>8, <1>9
           DEF Work!StartTurn, Work!Free, Work!InTurn, Work!Speaks, AgentsType

LEMMA EndTurnStep ==
    ASSUME AgentsType, Spawns, EndTurn
    PROVE  /\ Wrote(Officer, IF runtime = "codex" THEN "task_complete" ELSE "end_turn",
                     fo.turn, {}, 0, Nobody)
           /\ fo.ask = 0 /\ (runtime = "claude" \/ fo.turn # 0)
           /\ fo'.turn = 0 /\ fo'.touched = {} /\ fo'.handed = {}
           /\ fo'.ask = fo.ask
           /\ UNCHANGED <<runtime, worker>>
           /\ AgentsType'
<1> DEFINE r == [Blank EXCEPT
                              !.kind = IF runtime = "codex" THEN "task_complete" ELSE "end_turn",
                              !.id = fo.turn]
<1>1. Next1 \in Nat \ {0}
      BY DEF AgentsType, Work!Next1
<1>2. log' = Append(log, r)
      BY DEF Work!EndTurn, Work!Write
<1>3. /\ worker \in [Workers -> AgentType] /\ fo.turn \in Nat /\ fo.ask \in Nat
      /\ fo \in [turn : Nat, touched : SUBSET Entities, handed : SUBSET Entities,
                ask : Nat]
      BY DEF Work!EndTurn, AgentsType, Spawns, Work!NoWorker, AgentType
<1>4. r \in Record
      BY <1>1, <1>3, MCActivityConstants, SameSets
         DEF Work!EndTurn, Work!ActivityConstants, Record, Work!Blank,
             OfficerKinds, WorkerKinds, Work!Sessions, Work!Officer
<1>5. /\ r.src = Officer /\ r.id = fo.turn
      /\ r.kind = (IF runtime = "codex" THEN "task_complete" ELSE "end_turn")
         /\ r.about = {} /\ r.agent = 0 /\ r.from = Nobody
      BY DEF Work!Blank
<1> HIDE DEF r
<1>6. LogGrown(r) /\ log' \in Seq(Record)
      BY <1>2, <1>4, Appends
<1>7. Wrote(Officer, IF runtime = "codex" THEN "task_complete" ELSE "end_turn",
                     fo.turn, {}, 0, Nobody)
      BY <1>6, <1>5 DEF Wrote, LogGrown, LogGrows
<1>8. worker' \in [Workers -> AgentType]
      BY DEF Work!EndTurn, AgentsType
<1>9. fo' \in [turn : Nat, touched : SUBSET Entities, handed : SUBSET Entities,
                ask : Nat]
      BY <1>1, <1>3 DEF Work!EndTurn, Work!Speaks, AgentsType
<1>10. /\ fo'.turn = 0 /\ fo'.touched = {} /\ fo'.handed = {}
       /\ fo'.ask = fo.ask
      BY <1>3 DEF Work!EndTurn, Work!Speaks
<1> QED BY <1>10, <1>7, <1>6, <1>8, <1>9
           DEF Work!EndTurn, Work!Free, Work!InTurn, Work!Speaks, AgentsType

LEMMA CallStep ==
    ASSUME AgentsType, Spawns, NEW e \in Entities, Call(e)
    PROVE  /\ Wrote(Officer, "call", Next1, {e}, 0, Nobody)
           /\ fo.ask = 0 /\ (runtime = "claude" \/ fo.turn # 0)
           /\ fo'.turn = fo.turn
           /\ fo'.touched = fo.touched \cup fo.handed \cup {e}
           /\ fo'.handed = {} /\ fo'.ask = fo.ask
           /\ UNCHANGED <<runtime, worker>>
           /\ AgentsType'
<1> DEFINE r == [Blank EXCEPT !.kind = "call", !.id = Next1, !.about = {e}]
<1>1. Next1 \in Nat \ {0}
      BY DEF AgentsType, Work!Next1
<1>2. log' = Append(log, r)
      BY DEF Work!Call, Work!Write
<1>3. /\ worker \in [Workers -> AgentType] /\ fo.turn \in Nat /\ fo.ask \in Nat
      /\ fo \in [turn : Nat, touched : SUBSET Entities, handed : SUBSET Entities,
                ask : Nat]
      BY DEF Work!Call, AgentsType, Spawns, Work!NoWorker, AgentType
<1>4. r \in Record
      BY <1>1, <1>3, MCActivityConstants, SameSets
         DEF Work!Call, Work!ActivityConstants, Record, Work!Blank,
             OfficerKinds, WorkerKinds, Work!Sessions, Work!Officer
<1>5. /\ r.src = Officer /\ r.kind = ("call") /\ r.id = Next1
      /\ r.about = {e} /\ r.agent = 0 /\ r.from = Nobody
      BY DEF Work!Blank
<1> HIDE DEF r
<1>6. LogGrown(r) /\ log' \in Seq(Record)
      BY <1>2, <1>4, Appends
<1>7. Wrote(Officer, "call", Next1, {e}, 0, Nobody)
      BY <1>6, <1>5 DEF Wrote, LogGrown, LogGrows
<1>8. worker' \in [Workers -> AgentType]
      BY DEF Work!Call, AgentsType
<1>9. fo' \in [turn : Nat, touched : SUBSET Entities, handed : SUBSET Entities,
                ask : Nat]
      BY <1>1, <1>3 DEF Work!Call, Work!Speaks, AgentsType
<1>10. /\ fo'.turn = fo.turn
       /\ fo'.touched = fo.touched \cup fo.handed \cup {e}
       /\ fo'.handed = {} /\ fo'.ask = fo.ask
      BY <1>3 DEF Work!Call, Work!Speaks
<1> QED BY <1>10, <1>7, <1>6, <1>8, <1>9
           DEF Work!Call, Work!Free, Work!InTurn, Work!Speaks, AgentsType

LEMMA AskStep ==
    ASSUME AgentsType, Spawns, Ask
    PROVE  /\ Wrote(Officer, "ask", Next1, {}, 0, Nobody)
           /\ fo.ask = 0 /\ (runtime = "claude" \/ fo.turn # 0)
           /\ fo'.turn = fo.turn /\ fo'.touched = fo.touched \cup fo.handed
           /\ fo'.handed = {} /\ fo'.ask = Next1
           /\ UNCHANGED <<runtime, worker>>
           /\ AgentsType'
<1> DEFINE r == [Blank EXCEPT !.kind = "ask", !.id = Next1]
<1>1. Next1 \in Nat \ {0}
      BY DEF AgentsType, Work!Next1
<1>2. log' = Append(log, r)
      BY DEF Work!Ask, Work!Write
<1>3. /\ worker \in [Workers -> AgentType] /\ fo.turn \in Nat /\ fo.ask \in Nat
      /\ fo \in [turn : Nat, touched : SUBSET Entities, handed : SUBSET Entities,
                ask : Nat]
      BY DEF Work!Ask, AgentsType, Spawns, Work!NoWorker, AgentType
<1>4. r \in Record
      BY <1>1, <1>3, MCActivityConstants, SameSets
         DEF Work!Ask, Work!ActivityConstants, Record, Work!Blank, OfficerKinds,
             WorkerKinds, Work!Sessions, Work!Officer
<1>5. /\ r.src = Officer /\ r.kind = ("ask") /\ r.id = Next1
      /\ r.about = {} /\ r.agent = 0 /\ r.from = Nobody
      BY DEF Work!Blank
<1> HIDE DEF r
<1>6. LogGrown(r) /\ log' \in Seq(Record)
      BY <1>2, <1>4, Appends
<1>7. Wrote(Officer, "ask", Next1, {}, 0, Nobody)
      BY <1>6, <1>5 DEF Wrote, LogGrown, LogGrows
<1>8. worker' \in [Workers -> AgentType]
      BY DEF Work!Ask, AgentsType
<1>9. fo' \in [turn : Nat, touched : SUBSET Entities, handed : SUBSET Entities,
                ask : Nat]
      BY <1>1, <1>3 DEF Work!Ask, Work!Speaks, AgentsType
<1>10. /\ fo'.turn = fo.turn /\ fo'.touched = fo.touched \cup fo.handed
       /\ fo'.handed = {} /\ fo'.ask = Next1
      BY <1>3 DEF Work!Ask, Work!Speaks
<1> QED BY <1>10, <1>7, <1>6, <1>8, <1>9
           DEF Work!Ask, Work!Free, Work!InTurn, Work!Speaks, AgentsType

LEMMA AnswerStep ==
    ASSUME AgentsType, Spawns, Answer
    PROVE  /\ Wrote(Officer, "result", fo.ask, {}, 0, Nobody)
           /\ fo.ask # 0
           /\ fo'.turn = fo.turn /\ fo'.touched = fo.touched
           /\ fo'.handed = fo.handed /\ fo'.ask = 0
           /\ UNCHANGED <<runtime, worker>>
           /\ AgentsType'
<1> DEFINE r == [Blank EXCEPT !.kind = "result", !.id = fo.ask]
<1>1. Next1 \in Nat \ {0}
      BY DEF AgentsType, Work!Next1
<1>2. log' = Append(log, r)
      BY DEF Work!Answer, Work!Write
<1>3. /\ worker \in [Workers -> AgentType] /\ fo.turn \in Nat /\ fo.ask \in Nat
      /\ fo \in [turn : Nat, touched : SUBSET Entities, handed : SUBSET Entities,
                ask : Nat]
      BY DEF Work!Answer, AgentsType, Spawns, Work!NoWorker, AgentType
<1>4. r \in Record
      BY <1>1, <1>3, MCActivityConstants, SameSets
         DEF Work!Answer, Work!ActivityConstants, Record, Work!Blank,
             OfficerKinds, WorkerKinds, Work!Sessions, Work!Officer
<1>5. /\ r.src = Officer /\ r.kind = ("result") /\ r.id = fo.ask
      /\ r.about = {} /\ r.agent = 0 /\ r.from = Nobody
      BY DEF Work!Blank
<1> HIDE DEF r
<1>6. LogGrown(r) /\ log' \in Seq(Record)
      BY <1>2, <1>4, Appends
<1>7. Wrote(Officer, "result", fo.ask, {}, 0, Nobody)
      BY <1>6, <1>5 DEF Wrote, LogGrown, LogGrows
<1>8. worker' \in [Workers -> AgentType]
      BY DEF Work!Answer, AgentsType
<1>9. fo' \in [turn : Nat, touched : SUBSET Entities, handed : SUBSET Entities,
                ask : Nat]
      BY <1>1, <1>3 DEF Work!Answer, Work!Speaks, AgentsType
<1>10. /\ fo'.turn = fo.turn /\ fo'.touched = fo.touched
       /\ fo'.handed = fo.handed /\ fo'.ask = 0
      BY <1>3 DEF Work!Answer, Work!Speaks
<1> QED BY <1>10, <1>7, <1>6, <1>8, <1>9
           DEF Work!Answer, Work!Free, Work!InTurn, Work!Speaks, AgentsType

LEMMA SpawnStep ==
    ASSUME AgentsType, Spawns, NEW k \in Workers, NEW e \in Entities, Spawn(k, e)
    PROVE  /\ Wrote(Officer, "spawn", Next1, {e}, 0, Nobody)
           /\ fo.ask = 0 /\ (runtime = "claude" \/ fo.turn # 0)
           /\ worker[k] = NoWorker
           /\ worker[k].entity = Nobody /\ worker[k].busy = FALSE
           /\ worker[k].known = FALSE /\ worker[k].rested = FALSE
           /\ worker[k].opened = FALSE /\ worker[k].shown = FALSE
           /\ worker[k].heard = FALSE
           /\ fo'.turn = fo.turn
           /\ fo'.touched = fo.touched \cup fo.handed \cup {e}
           /\ fo'.handed = {} /\ fo'.ask = fo.ask
           /\ worker'[k].entity = e /\ worker'[k].call = Next1
           /\ worker'[k].opened = FALSE /\ worker'[k].known = FALSE
           /\ worker'[k].turn = 0 /\ worker'[k].busy = FALSE
           /\ worker'[k].own = FALSE /\ worker'[k].rested = FALSE
           /\ worker'[k].heard = FALSE /\ worker'[k].shown = FALSE
           /\ \A j \in Workers : j # k => worker'[j] = worker[j]
           /\ UNCHANGED runtime
           /\ AgentsType'
<1> DEFINE r == [Blank EXCEPT !.kind = "spawn", !.id = Next1, !.about = {e}]
<1>1. Next1 \in Nat \ {0}
      BY DEF AgentsType, Work!Next1
<1>2. log' = Append(log, r)
      BY DEF Work!Spawn, Work!Write
<1>3. /\ worker \in [Workers -> AgentType] /\ fo.turn \in Nat /\ fo.ask \in Nat
      /\ fo \in [turn : Nat, touched : SUBSET Entities, handed : SUBSET Entities,
                ask : Nat]
      /\ worker[k] \in AgentType /\ worker[k].entity \in Entities \cup {Nobody}
      BY DEF Work!Spawn, AgentsType, Spawns, Work!NoWorker, AgentType
<1>4. r \in Record
      BY <1>1, <1>3, MCActivityConstants, SameSets
         DEF Work!Spawn, Work!ActivityConstants, Record, Work!Blank,
             OfficerKinds, WorkerKinds, Work!Sessions, Work!Officer
<1>5. /\ r.src = Officer /\ r.kind = ("spawn") /\ r.id = Next1
      /\ r.about = {e} /\ r.agent = 0 /\ r.from = Nobody
      BY DEF Work!Blank
<1> HIDE DEF r
<1>6. LogGrown(r) /\ log' \in Seq(Record)
      BY <1>2, <1>4, Appends
<1>7. Wrote(Officer, "spawn", Next1, {e}, 0, Nobody)
      BY <1>6, <1>5 DEF Wrote, LogGrown, LogGrows
<1>8. Sets(k, [NoWorker EXCEPT !.entity = e, !.call = Next1])
         /\ worker' \in [Workers -> AgentType]
  <2> DEFINE w == [NoWorker EXCEPT !.entity = e, !.call = Next1]
  <2>1. w \in AgentType
      BY <1>1, <1>3 DEF AgentType, Work!NoWorker
  <2>2. worker' = [worker EXCEPT ![k] = w]
      BY DEF Work!Spawn, Work!Set
  <2> HIDE DEF w
  <2>3. worker' \in [Workers -> AgentType] /\ Sets(k, w)
      BY <2>1, <2>2 DEF AgentsType, Sets
  <2> QED BY <2>3 DEF w
<1>9. fo' \in [turn : Nat, touched : SUBSET Entities, handed : SUBSET Entities,
                ask : Nat]
      BY <1>1, <1>3 DEF Work!Spawn, Work!Speaks, AgentsType
<1>10. /\ fo'.turn = fo.turn
       /\ fo'.touched = fo.touched \cup fo.handed \cup {e}
       /\ fo'.handed = {} /\ fo'.ask = fo.ask
      BY <1>3 DEF Work!Spawn, Work!Speaks
<1>11. /\ worker'[k].entity = e /\ worker'[k].call = Next1
       /\ worker'[k].opened = FALSE /\ worker'[k].known = FALSE
       /\ worker'[k].turn = 0 /\ worker'[k].busy = FALSE
       /\ worker'[k].own = FALSE /\ worker'[k].rested = FALSE
       /\ worker'[k].heard = FALSE /\ worker'[k].shown = FALSE
       /\ \A j \in Workers : j # k => worker'[j] = worker[j]
      BY <1>8, <1>3 DEF Sets, AgentType, Work!NoWorker
<1> QED BY <1>10, <1>11, <1>3, <1>7, <1>6, <1>8, <1>9
           DEF Work!Spawn, Work!Free, Work!InTurn, Work!Speaks, AgentsType,
               Work!NoWorker

LEMMA ConfirmStep ==
    ASSUME AgentsType, Spawns, NEW k \in Workers, Confirm(k)
    PROVE  /\ Wrote(Officer, "started", 0, {}, k, Nobody)
           /\ runtime = "codex" /\ worker[k].entity \in Entities
           /\ worker'[k].entity = worker[k].entity
           /\ worker'[k].call = worker[k].call
           /\ worker'[k].opened = worker[k].opened
           /\ worker'[k].known = TRUE /\ worker'[k].turn = worker[k].turn
           /\ worker'[k].busy = worker[k].busy
           /\ worker'[k].own = worker[k].own
           /\ worker'[k].rested = worker[k].rested
           /\ worker'[k].heard = worker[k].heard
           /\ worker'[k].shown = worker[k].shown
           /\ \A j \in Workers : j # k => worker'[j] = worker[j]
           /\ UNCHANGED <<runtime, fo>>
           /\ AgentsType'
<1> DEFINE r == [Blank EXCEPT !.kind = "started", !.agent = k]
<1>1. Next1 \in Nat \ {0}
      BY DEF AgentsType, Work!Next1
<1>2. log' = Append(log, r)
      BY DEF Work!Confirm, Work!Write
<1>3. /\ worker \in [Workers -> AgentType] /\ fo.turn \in Nat /\ fo.ask \in Nat
      /\ fo \in [turn : Nat, touched : SUBSET Entities, handed : SUBSET Entities,
                ask : Nat]
      /\ worker[k] \in AgentType /\ worker[k].entity \in Entities
      /\ worker[k].call \in Nat /\ worker[k].turn \in Nat
      BY DEF Work!Confirm, AgentsType, Spawns, Work!NoWorker, AgentType
<1>4. r \in Record
      BY <1>1, <1>3, MCActivityConstants, SameSets
         DEF Work!Confirm, Work!ActivityConstants, Record, Work!Blank,
             OfficerKinds, WorkerKinds, Work!Sessions, Work!Officer
<1>5. /\ r.src = Officer /\ r.kind = ("started") /\ r.id = 0
      /\ r.about = {} /\ r.agent = k /\ r.from = Nobody
      BY DEF Work!Blank
<1> HIDE DEF r
<1>6. LogGrown(r) /\ log' \in Seq(Record)
      BY <1>2, <1>4, Appends
<1>7. Wrote(Officer, "started", 0, {}, k, Nobody)
      BY <1>6, <1>5 DEF Wrote, LogGrown, LogGrows
<1>8. Sets(k, [worker[k] EXCEPT !.known = TRUE])
         /\ worker' \in [Workers -> AgentType]
  <2> DEFINE w == [worker[k] EXCEPT !.known = TRUE]
  <2>1. w \in AgentType
      BY <1>1, <1>3 DEF AgentType, Work!NoWorker
  <2>2. worker' = [worker EXCEPT ![k] = w]
      BY DEF Work!Confirm, Work!Set
  <2> HIDE DEF w
  <2>3. worker' \in [Workers -> AgentType] /\ Sets(k, w)
      BY <2>1, <2>2 DEF AgentsType, Sets
  <2> QED BY <2>3 DEF w
<1>9. fo' \in [turn : Nat, touched : SUBSET Entities, handed : SUBSET Entities,
                ask : Nat]
      BY <1>1, <1>3 DEF Work!Confirm, Work!Speaks, AgentsType
<1>10. /\ worker'[k].entity = worker[k].entity
       /\ worker'[k].call = worker[k].call
       /\ worker'[k].opened = worker[k].opened
       /\ worker'[k].known = TRUE /\ worker'[k].turn = worker[k].turn
       /\ worker'[k].busy = worker[k].busy
       /\ worker'[k].own = worker[k].own
       /\ worker'[k].rested = worker[k].rested
       /\ worker'[k].heard = worker[k].heard
       /\ worker'[k].shown = worker[k].shown
       /\ \A j \in Workers : j # k => worker'[j] = worker[j]
      BY <1>8, <1>3 DEF Sets, AgentType, Work!NoWorker
<1> QED BY <1>10, <1>3, <1>7, <1>6, <1>8, <1>9
           DEF Work!Confirm, Work!Free, Work!InTurn, Work!Speaks, AgentsType

LEMMA WorkerTurnStep ==
    ASSUME AgentsType, Spawns, NEW k \in Workers, WorkerTurn(k)
    PROVE  /\ Wrote(k, "task_started", Next1, {}, 0, Nobody)
           /\ runtime = "codex" /\ worker[k].opened /\ ~worker[k].busy
           /\ worker[k].entity \in Entities
           /\ worker'[k].entity = worker[k].entity
           /\ worker'[k].call = worker[k].call
           /\ worker'[k].opened = worker[k].opened
           /\ worker'[k].known = worker[k].known /\ worker'[k].turn = Next1
           /\ worker'[k].busy = TRUE /\ worker'[k].own = FALSE
           /\ worker'[k].rested = worker[k].rested
           /\ worker'[k].heard = worker[k].heard /\ worker'[k].shown = TRUE
           /\ \A j \in Workers : j # k => worker'[j] = worker[j]
           /\ UNCHANGED <<runtime, fo>>
           /\ AgentsType'
<1> DEFINE r == [Blank EXCEPT !.src = k, !.kind = "task_started", !.id = Next1]
<1>1. Next1 \in Nat \ {0}
      BY DEF AgentsType, Work!Next1
<1>2. log' = Append(log, r)
      BY DEF Work!WorkerTurn, Work!Write
<1>3. /\ worker \in [Workers -> AgentType] /\ fo.turn \in Nat /\ fo.ask \in Nat
      /\ fo \in [turn : Nat, touched : SUBSET Entities, handed : SUBSET Entities,
                ask : Nat]
      /\ worker[k] \in AgentType /\ worker[k].entity \in Entities
      /\ worker[k].call \in Nat /\ worker[k].turn \in Nat
      BY DEF Work!WorkerTurn, AgentsType, Spawns, Work!NoWorker, AgentType
<1>4. r \in Record
      BY <1>1, <1>3, MCActivityConstants, SameSets
         DEF Work!WorkerTurn, Work!ActivityConstants, Record, Work!Blank,
             OfficerKinds, WorkerKinds, Work!Sessions, Work!Officer
<1>5. /\ r.src = k /\ r.kind = ("task_started") /\ r.id = Next1
      /\ r.about = {} /\ r.agent = 0 /\ r.from = Nobody
      BY DEF Work!Blank
<1> HIDE DEF r
<1>6. LogGrown(r) /\ log' \in Seq(Record)
      BY <1>2, <1>4, Appends
<1>7. Wrote(k, "task_started", Next1, {}, 0, Nobody)
      BY <1>6, <1>5 DEF Wrote, LogGrown, LogGrows
<1>8. Sets(k, [worker[k] EXCEPT !.turn = Next1, !.busy = TRUE, !.own = FALSE,
                                     !.shown = TRUE])
         /\ worker' \in [Workers -> AgentType]
  <2> DEFINE w == [worker[k] EXCEPT !.turn = Next1, !.busy = TRUE, !.own = FALSE,
                                     !.shown = TRUE]
  <2>1. w \in AgentType
      BY <1>1, <1>3 DEF AgentType, Work!NoWorker
  <2>2. worker' = [worker EXCEPT ![k] = w]
      BY DEF Work!WorkerTurn, Work!Set
  <2> HIDE DEF w
  <2>3. worker' \in [Workers -> AgentType] /\ Sets(k, w)
      BY <2>1, <2>2 DEF AgentsType, Sets
  <2> QED BY <2>3 DEF w
<1>9. fo' \in [turn : Nat, touched : SUBSET Entities, handed : SUBSET Entities,
                ask : Nat]
      BY <1>1, <1>3 DEF Work!WorkerTurn, Work!Speaks, AgentsType
<1>10. /\ worker'[k].entity = worker[k].entity
       /\ worker'[k].call = worker[k].call
       /\ worker'[k].opened = worker[k].opened
       /\ worker'[k].known = worker[k].known /\ worker'[k].turn = Next1
       /\ worker'[k].busy = TRUE /\ worker'[k].own = FALSE
       /\ worker'[k].rested = worker[k].rested
       /\ worker'[k].heard = worker[k].heard /\ worker'[k].shown = TRUE
       /\ \A j \in Workers : j # k => worker'[j] = worker[j]
      BY <1>8, <1>3 DEF Sets, AgentType, Work!NoWorker
<1> QED BY <1>10, <1>3, <1>7, <1>6, <1>8, <1>9
           DEF Work!WorkerTurn, Work!Free, Work!InTurn, Work!Speaks, AgentsType

LEMMA WorkerCallStep ==
    ASSUME AgentsType, Spawns, NEW k \in Workers, WorkerCall(k)
    PROVE  /\ Wrote(k, "call", Next1, {worker[k].entity}, 0, Nobody)
           /\ runtime = "codex" /\ worker[k].busy
           /\ worker[k].entity \in Entities
           /\ worker'[k].entity = worker[k].entity
           /\ worker'[k].call = worker[k].call
           /\ worker'[k].opened = worker[k].opened
           /\ worker'[k].known = worker[k].known
           /\ worker'[k].turn = worker[k].turn
           /\ worker'[k].busy = worker[k].busy /\ worker'[k].own = TRUE
           /\ worker'[k].rested = worker[k].rested
           /\ worker'[k].heard = worker[k].heard
           /\ worker'[k].shown = worker[k].shown
           /\ \A j \in Workers : j # k => worker'[j] = worker[j]
           /\ UNCHANGED <<runtime, fo>>
           /\ AgentsType'
<1> DEFINE r == [Blank EXCEPT !.src = k, !.kind = "call", !.id = Next1,
                              !.about = {worker[k].entity}]
<1>1. Next1 \in Nat \ {0}
      BY DEF AgentsType, Work!Next1
<1>2. log' = Append(log, r)
      BY DEF Work!WorkerCall, Work!Write
<1>3. /\ worker \in [Workers -> AgentType] /\ fo.turn \in Nat /\ fo.ask \in Nat
      /\ fo \in [turn : Nat, touched : SUBSET Entities, handed : SUBSET Entities,
                ask : Nat]
      /\ worker[k] \in AgentType /\ worker[k].entity \in Entities
      /\ worker[k].call \in Nat /\ worker[k].turn \in Nat
      BY DEF Work!WorkerCall, AgentsType, Spawns, Work!NoWorker, AgentType
<1>4. r \in Record
      BY <1>1, <1>3, MCActivityConstants, SameSets
         DEF Work!WorkerCall, Work!ActivityConstants, Record, Work!Blank,
             OfficerKinds, WorkerKinds, Work!Sessions, Work!Officer
<1>5. /\ r.src = k /\ r.kind = ("call") /\ r.id = Next1
      /\ r.about = {worker[k].entity} /\ r.agent = 0 /\ r.from = Nobody
      BY DEF Work!Blank
<1> HIDE DEF r
<1>6. LogGrown(r) /\ log' \in Seq(Record)
      BY <1>2, <1>4, Appends
<1>7. Wrote(k, "call", Next1, {worker[k].entity}, 0, Nobody)
      BY <1>6, <1>5 DEF Wrote, LogGrown, LogGrows
<1>8. Sets(k, [worker[k] EXCEPT !.own = TRUE])
         /\ worker' \in [Workers -> AgentType]
  <2> DEFINE w == [worker[k] EXCEPT !.own = TRUE]
  <2>1. w \in AgentType
      BY <1>1, <1>3 DEF AgentType, Work!NoWorker
  <2>2. worker' = [worker EXCEPT ![k] = w]
      BY DEF Work!WorkerCall, Work!Set
  <2> HIDE DEF w
  <2>3. worker' \in [Workers -> AgentType] /\ Sets(k, w)
      BY <2>1, <2>2 DEF AgentsType, Sets
  <2> QED BY <2>3 DEF w
<1>9. fo' \in [turn : Nat, touched : SUBSET Entities, handed : SUBSET Entities,
                ask : Nat]
      BY <1>1, <1>3 DEF Work!WorkerCall, Work!Speaks, AgentsType
<1>10. /\ worker'[k].entity = worker[k].entity
       /\ worker'[k].call = worker[k].call
       /\ worker'[k].opened = worker[k].opened
       /\ worker'[k].known = worker[k].known
       /\ worker'[k].turn = worker[k].turn
       /\ worker'[k].busy = worker[k].busy /\ worker'[k].own = TRUE
       /\ worker'[k].rested = worker[k].rested
       /\ worker'[k].heard = worker[k].heard
       /\ worker'[k].shown = worker[k].shown
       /\ \A j \in Workers : j # k => worker'[j] = worker[j]
      BY <1>8, <1>3 DEF Sets, AgentType, Work!NoWorker
<1> QED BY <1>10, <1>3, <1>7, <1>6, <1>8, <1>9
           DEF Work!WorkerCall, Work!Free, Work!InTurn, Work!Speaks, AgentsType

LEMMA WorkerDoneStep ==
    ASSUME AgentsType, Spawns, NEW k \in Workers, WorkerDone(k)
    PROVE  /\ Wrote(k, "task_complete", worker[k].turn, {}, 0, Nobody)
           /\ runtime = "codex" /\ worker[k].busy
           /\ worker[k].entity \in Entities
           /\ worker'[k].entity = worker[k].entity
           /\ worker'[k].call = worker[k].call
           /\ worker'[k].opened = worker[k].opened
           /\ worker'[k].known = worker[k].known
           /\ worker'[k].turn = worker[k].turn /\ worker'[k].busy = FALSE
           /\ worker'[k].own = worker[k].own
           /\ worker'[k].rested = worker[k].rested
           /\ worker'[k].heard = worker[k].heard
           /\ worker'[k].shown = worker[k].shown
           /\ \A j \in Workers : j # k => worker'[j] = worker[j]
           /\ UNCHANGED <<runtime, fo>>
           /\ AgentsType'
<1> DEFINE r == [Blank EXCEPT !.src = k, !.kind = "task_complete",
                              !.id = worker[k].turn]
<1>1. Next1 \in Nat \ {0}
      BY DEF AgentsType, Work!Next1
<1>2. log' = Append(log, r)
      BY DEF Work!WorkerDone, Work!Write
<1>3. /\ worker \in [Workers -> AgentType] /\ fo.turn \in Nat /\ fo.ask \in Nat
      /\ fo \in [turn : Nat, touched : SUBSET Entities, handed : SUBSET Entities,
                ask : Nat]
      /\ worker[k] \in AgentType /\ worker[k].entity \in Entities
      /\ worker[k].call \in Nat /\ worker[k].turn \in Nat
      BY DEF Work!WorkerDone, AgentsType, Spawns, Work!NoWorker, AgentType
<1>4. r \in Record
      BY <1>1, <1>3, MCActivityConstants, SameSets
         DEF Work!WorkerDone, Work!ActivityConstants, Record, Work!Blank,
             OfficerKinds, WorkerKinds, Work!Sessions, Work!Officer
<1>5. /\ r.src = k /\ r.kind = ("task_complete") /\ r.id = worker[k].turn
      /\ r.about = {} /\ r.agent = 0 /\ r.from = Nobody
      BY DEF Work!Blank
<1> HIDE DEF r
<1>6. LogGrown(r) /\ log' \in Seq(Record)
      BY <1>2, <1>4, Appends
<1>7. Wrote(k, "task_complete", worker[k].turn, {}, 0, Nobody)
      BY <1>6, <1>5 DEF Wrote, LogGrown, LogGrows
<1>8. Sets(k, [worker[k] EXCEPT !.busy = FALSE])
         /\ worker' \in [Workers -> AgentType]
  <2> DEFINE w == [worker[k] EXCEPT !.busy = FALSE]
  <2>1. w \in AgentType
      BY <1>1, <1>3 DEF AgentType, Work!NoWorker
  <2>2. worker' = [worker EXCEPT ![k] = w]
      BY DEF Work!WorkerDone, Work!Set
  <2> HIDE DEF w
  <2>3. worker' \in [Workers -> AgentType] /\ Sets(k, w)
      BY <2>1, <2>2 DEF AgentsType, Sets
  <2> QED BY <2>3 DEF w
<1>9. fo' \in [turn : Nat, touched : SUBSET Entities, handed : SUBSET Entities,
                ask : Nat]
      BY <1>1, <1>3 DEF Work!WorkerDone, Work!Speaks, AgentsType
<1>10. /\ worker'[k].entity = worker[k].entity
       /\ worker'[k].call = worker[k].call
       /\ worker'[k].opened = worker[k].opened
       /\ worker'[k].known = worker[k].known
       /\ worker'[k].turn = worker[k].turn /\ worker'[k].busy = FALSE
       /\ worker'[k].own = worker[k].own
       /\ worker'[k].rested = worker[k].rested
       /\ worker'[k].heard = worker[k].heard
       /\ worker'[k].shown = worker[k].shown
       /\ \A j \in Workers : j # k => worker'[j] = worker[j]
      BY <1>8, <1>3 DEF Sets, AgentType, Work!NoWorker
<1> QED BY <1>10, <1>3, <1>7, <1>6, <1>8, <1>9
           DEF Work!WorkerDone, Work!Free, Work!InTurn, Work!Speaks, AgentsType

LEMMA InterruptStep ==
    ASSUME AgentsType, Spawns, NEW k \in Workers, Interrupt(k)
    PROVE  /\ Wrote(Officer, "interrupted", 0, {}, k, Nobody)
           /\ runtime = "codex" /\ worker[k].busy /\ worker[k].known
           /\ worker[k].entity \in Entities
           /\ worker'[k].entity = worker[k].entity
           /\ worker'[k].call = worker[k].call
           /\ worker'[k].opened = worker[k].opened
           /\ worker'[k].known = worker[k].known
           /\ worker'[k].turn = worker[k].turn /\ worker'[k].busy = FALSE
           /\ worker'[k].own = worker[k].own
           /\ worker'[k].rested = worker[k].rested
           /\ worker'[k].heard = worker[k].heard
           /\ worker'[k].shown = worker[k].shown
           /\ \A j \in Workers : j # k => worker'[j] = worker[j]
           /\ UNCHANGED <<runtime, fo>>
           /\ AgentsType'
<1> DEFINE r == [Blank EXCEPT !.kind = "interrupted", !.agent = k]
<1>1. Next1 \in Nat \ {0}
      BY DEF AgentsType, Work!Next1
<1>2. log' = Append(log, r)
      BY DEF Work!Interrupt, Work!Write
<1>3. /\ worker \in [Workers -> AgentType] /\ fo.turn \in Nat /\ fo.ask \in Nat
      /\ fo \in [turn : Nat, touched : SUBSET Entities, handed : SUBSET Entities,
                ask : Nat]
      /\ worker[k] \in AgentType /\ worker[k].entity \in Entities
      /\ worker[k].call \in Nat /\ worker[k].turn \in Nat
      BY DEF Work!Interrupt, AgentsType, Spawns, Work!NoWorker, AgentType
<1>4. r \in Record
      BY <1>1, <1>3, MCActivityConstants, SameSets
         DEF Work!Interrupt, Work!ActivityConstants, Record, Work!Blank,
             OfficerKinds, WorkerKinds, Work!Sessions, Work!Officer
<1>5. /\ r.src = Officer /\ r.kind = ("interrupted") /\ r.id = 0
      /\ r.about = {} /\ r.agent = k /\ r.from = Nobody
      BY DEF Work!Blank
<1> HIDE DEF r
<1>6. LogGrown(r) /\ log' \in Seq(Record)
      BY <1>2, <1>4, Appends
<1>7. Wrote(Officer, "interrupted", 0, {}, k, Nobody)
      BY <1>6, <1>5 DEF Wrote, LogGrown, LogGrows
<1>8. Sets(k, [worker[k] EXCEPT !.busy = FALSE])
         /\ worker' \in [Workers -> AgentType]
  <2> DEFINE w == [worker[k] EXCEPT !.busy = FALSE]
  <2>1. w \in AgentType
      BY <1>1, <1>3 DEF AgentType, Work!NoWorker
  <2>2. worker' = [worker EXCEPT ![k] = w]
      BY DEF Work!Interrupt, Work!Set
  <2> HIDE DEF w
  <2>3. worker' \in [Workers -> AgentType] /\ Sets(k, w)
      BY <2>1, <2>2 DEF AgentsType, Sets
  <2> QED BY <2>3 DEF w
<1>9. fo' \in [turn : Nat, touched : SUBSET Entities, handed : SUBSET Entities,
                ask : Nat]
      BY <1>1, <1>3 DEF Work!Interrupt, Work!Speaks, AgentsType
<1>10. /\ worker'[k].entity = worker[k].entity
       /\ worker'[k].call = worker[k].call
       /\ worker'[k].opened = worker[k].opened
       /\ worker'[k].known = worker[k].known
       /\ worker'[k].turn = worker[k].turn /\ worker'[k].busy = FALSE
       /\ worker'[k].own = worker[k].own
       /\ worker'[k].rested = worker[k].rested
       /\ worker'[k].heard = worker[k].heard
       /\ worker'[k].shown = worker[k].shown
       /\ \A j \in Workers : j # k => worker'[j] = worker[j]
      BY <1>8, <1>3 DEF Sets, AgentType, Work!NoWorker
<1> QED BY <1>10, <1>3, <1>7, <1>6, <1>8, <1>9
           DEF Work!Interrupt, Work!Free, Work!InTurn, Work!Speaks, AgentsType

LEMMA WriteMetaStep ==
    ASSUME AgentsType, Spawns, NEW k \in Workers, WriteMeta(k)
    PROVE  /\ \E c \in {0, worker[k].call} :
                  Wrote(k, "meta", c, {}, k, worker[k].entity)
           /\ runtime = "claude" /\ worker[k].entity \in Entities /\ ~worker[k].known
           /\ worker'[k].entity = worker[k].entity
           /\ worker'[k].call = worker[k].call
           /\ worker'[k].opened = worker[k].opened
           /\ worker'[k].known = TRUE /\ worker'[k].turn = worker[k].turn
           /\ worker'[k].busy = worker[k].busy
           /\ worker'[k].own = worker[k].own
           /\ worker'[k].rested = worker[k].rested
           /\ worker'[k].heard = worker[k].heard
           /\ worker'[k].shown = worker[k].shown
           /\ \A j \in Workers : j # k => worker'[j] = worker[j]
           /\ UNCHANGED <<runtime, fo>>
           /\ AgentsType'
<1>1. Next1 \in Nat \ {0}
      BY DEF AgentsType, Work!Next1
<1>2. PICK call \in {0, worker[k].call} :
             log' = Append(log, [Blank EXCEPT !.src = k, !.kind = "meta", !.id = call,
                                              !.agent = k, !.from = worker[k].entity])
      BY DEF Work!WriteMeta, Work!Write
<1> DEFINE r == [Blank EXCEPT !.src = k, !.kind = "meta", !.id = call, !.agent = k,
                              !.from = worker[k].entity]
<1>3. log' = Append(log, r)
      BY <1>2
<1>4. /\ worker \in [Workers -> AgentType] /\ fo.turn \in Nat /\ fo.ask \in Nat
      /\ fo \in [turn : Nat, touched : SUBSET Entities, handed : SUBSET Entities,
                ask : Nat]
      /\ worker[k] \in AgentType /\ worker[k].entity \in Entities
      /\ worker[k].call \in Nat /\ worker[k].turn \in Nat
      BY DEF Work!WriteMeta, AgentsType, Spawns, Work!NoWorker, AgentType
<1>5. call \in Nat /\ k \in Nat
      BY <1>2, <1>4, MCActivityConstants, SameSets DEF Work!ActivityConstants
<1>6. r \in Record
      BY <1>1, <1>4, <1>5, MCActivityConstants, SameSets
         DEF Work!WriteMeta, Work!ActivityConstants, Record, Work!Blank,
             OfficerKinds, WorkerKinds, Work!Sessions, Work!Officer
<1>7. /\ r.src = k /\ r.kind = ("meta") /\ r.id = call
      /\ r.about = {} /\ r.agent = k /\ r.from = worker[k].entity
      BY DEF Work!Blank
<1> HIDE DEF r
<1>8. LogGrown(r) /\ log' \in Seq(Record)
      BY <1>3, <1>6, Appends
<1>9. \E c \in {0, worker[k].call} :
                  Wrote(k, "meta", c, {}, k, worker[k].entity)
      BY <1>8, <1>7 DEF Wrote, LogGrown, LogGrows
<1>10. Sets(k, [worker[k] EXCEPT !.known = TRUE])
          /\ worker' \in [Workers -> AgentType]
  <2> DEFINE w == [worker[k] EXCEPT !.known = TRUE]
  <2>1. w \in AgentType
      BY <1>1, <1>4 DEF AgentType, Work!NoWorker
  <2>2. worker' = [worker EXCEPT ![k] = w]
      BY DEF Work!WriteMeta, Work!Set
  <2> HIDE DEF w
  <2>3. worker' \in [Workers -> AgentType] /\ Sets(k, w)
      BY <2>1, <2>2 DEF AgentsType, Sets
  <2> QED BY <2>3 DEF w
<1>11. fo' \in [turn : Nat, touched : SUBSET Entities, handed : SUBSET Entities,
                 ask : Nat]
      BY <1>1, <1>4 DEF Work!WriteMeta, Work!Speaks, AgentsType
<1>12. /\ worker'[k].entity = worker[k].entity
       /\ worker'[k].call = worker[k].call
       /\ worker'[k].opened = worker[k].opened
       /\ worker'[k].known = TRUE /\ worker'[k].turn = worker[k].turn
       /\ worker'[k].busy = worker[k].busy
       /\ worker'[k].own = worker[k].own
       /\ worker'[k].rested = worker[k].rested
       /\ worker'[k].heard = worker[k].heard
       /\ worker'[k].shown = worker[k].shown
       /\ \A j \in Workers : j # k => worker'[j] = worker[j]
      BY <1>10, <1>4 DEF Sets, AgentType, Work!NoWorker
<1> QED BY <1>12, <1>4, <1>9, <1>8, <1>10, <1>11
           DEF Work!WriteMeta, Work!Free, Work!InTurn, Work!Speaks, AgentsType

LEMMA WorkerSpeaksStep ==
    ASSUME AgentsType, Spawns, NEW k \in Workers, WorkerSpeaks(k)
    PROVE  /\ Wrote(k, "assistant", 0, {}, 0, Nobody)
           /\ runtime = "claude" /\ worker[k].entity \in Entities
           /\ worker'[k].entity = worker[k].entity
           /\ worker'[k].call = worker[k].call
           /\ worker'[k].opened = worker[k].opened
           /\ worker'[k].known = worker[k].known
           /\ worker'[k].turn = worker[k].turn /\ worker'[k].busy = TRUE
           /\ worker'[k].own = worker[k].own
           /\ worker'[k].rested = worker[k].rested
           /\ worker'[k].heard = FALSE
           /\ worker'[k].shown = (worker[k].shown \/ worker[k].heard \/ ~worker[k].rested)
           /\ \A j \in Workers : j # k => worker'[j] = worker[j]
           /\ UNCHANGED <<runtime, fo>>
           /\ AgentsType'
<1> DEFINE r == [Blank EXCEPT !.src = k, !.kind = "assistant"]
<1>1. Next1 \in Nat \ {0}
      BY DEF AgentsType, Work!Next1
<1>2. log' = Append(log, r)
      BY DEF Work!WorkerSpeaks, Work!Write
<1>3. /\ worker \in [Workers -> AgentType] /\ fo.turn \in Nat /\ fo.ask \in Nat
      /\ fo \in [turn : Nat, touched : SUBSET Entities, handed : SUBSET Entities,
                ask : Nat]
      /\ worker[k] \in AgentType /\ worker[k].entity \in Entities
      /\ worker[k].call \in Nat /\ worker[k].turn \in Nat
      BY DEF Work!WorkerSpeaks, AgentsType, Spawns, Work!NoWorker, AgentType
<1>4. r \in Record
      BY <1>1, <1>3, MCActivityConstants, SameSets
         DEF Work!WorkerSpeaks, Work!ActivityConstants, Record, Work!Blank,
             OfficerKinds, WorkerKinds, Work!Sessions, Work!Officer
<1>5. /\ r.src = k /\ r.kind = ("assistant") /\ r.id = 0
      /\ r.about = {} /\ r.agent = 0 /\ r.from = Nobody
      BY DEF Work!Blank
<1> HIDE DEF r
<1>6. LogGrown(r) /\ log' \in Seq(Record)
      BY <1>2, <1>4, Appends
<1>7. Wrote(k, "assistant", 0, {}, 0, Nobody)
      BY <1>6, <1>5 DEF Wrote, LogGrown, LogGrows
<1>8. Sets(k, [worker[k] EXCEPT !.busy = TRUE, !.heard = FALSE,
             !.shown = worker[k].shown \/ worker[k].heard \/ ~worker[k].rested])
         /\ worker' \in [Workers -> AgentType]
  <2> DEFINE w == [worker[k] EXCEPT !.busy = TRUE, !.heard = FALSE,
             !.shown = worker[k].shown \/ worker[k].heard \/ ~worker[k].rested]
  <2>1. w \in AgentType
      BY <1>1, <1>3 DEF AgentType, Work!NoWorker
  <2>2. worker' = [worker EXCEPT ![k] = w]
      BY DEF Work!WorkerSpeaks, Work!Set
  <2> HIDE DEF w
  <2>3. worker' \in [Workers -> AgentType] /\ Sets(k, w)
      BY <2>1, <2>2 DEF AgentsType, Sets
  <2> QED BY <2>3 DEF w
<1>9. fo' \in [turn : Nat, touched : SUBSET Entities, handed : SUBSET Entities,
                ask : Nat]
      BY <1>1, <1>3 DEF Work!WorkerSpeaks, Work!Speaks, AgentsType
<1>10. /\ worker'[k].entity = worker[k].entity
       /\ worker'[k].call = worker[k].call
       /\ worker'[k].opened = worker[k].opened
       /\ worker'[k].known = worker[k].known
       /\ worker'[k].turn = worker[k].turn /\ worker'[k].busy = TRUE
       /\ worker'[k].own = worker[k].own
       /\ worker'[k].rested = worker[k].rested
       /\ worker'[k].heard = FALSE
       /\ worker'[k].shown = (worker[k].shown \/ worker[k].heard \/ ~worker[k].rested)
       /\ \A j \in Workers : j # k => worker'[j] = worker[j]
      BY <1>8, <1>3 DEF Sets, AgentType, Work!NoWorker
<1> QED BY <1>10, <1>3, <1>7, <1>6, <1>8, <1>9
           DEF Work!WorkerSpeaks, Work!Free, Work!InTurn, Work!Speaks,
               AgentsType

LEMMA WorkerMessageStep ==
    ASSUME AgentsType, Spawns, NEW k \in Workers, WorkerMessage(k)
    PROVE  /\ Wrote(Officer, "teammate", 0, {}, 0, worker[k].entity)
           /\ runtime = "claude" /\ worker[k].entity \in Entities
           /\ worker'[k].entity = worker[k].entity
           /\ worker'[k].call = worker[k].call
           /\ worker'[k].opened = worker[k].opened
           /\ worker'[k].known = worker[k].known
           /\ worker'[k].turn = worker[k].turn
           /\ worker'[k].busy = worker[k].busy
           /\ worker'[k].own = worker[k].own
           /\ worker'[k].rested = worker[k].rested
           /\ worker'[k].heard = worker[k].rested
           /\ worker'[k].shown = worker[k].shown
           /\ \A j \in Workers : j # k => worker'[j] = worker[j]
           /\ UNCHANGED <<runtime, fo>>
           /\ AgentsType'
<1> DEFINE r == [Blank EXCEPT !.kind = "teammate", !.from = worker[k].entity]
<1>1. Next1 \in Nat \ {0}
      BY DEF AgentsType, Work!Next1
<1>2. log' = Append(log, r)
      BY DEF Work!WorkerMessage, Work!Write
<1>3. /\ worker \in [Workers -> AgentType] /\ fo.turn \in Nat /\ fo.ask \in Nat
      /\ fo \in [turn : Nat, touched : SUBSET Entities, handed : SUBSET Entities,
                ask : Nat]
      /\ worker[k] \in AgentType /\ worker[k].entity \in Entities
      /\ worker[k].call \in Nat /\ worker[k].turn \in Nat
      BY DEF Work!WorkerMessage, AgentsType, Spawns, Work!NoWorker, AgentType
<1>4. r \in Record
      BY <1>1, <1>3, MCActivityConstants, SameSets
         DEF Work!WorkerMessage, Work!ActivityConstants, Record, Work!Blank,
             OfficerKinds, WorkerKinds, Work!Sessions, Work!Officer
<1>5. /\ r.src = Officer /\ r.kind = ("teammate") /\ r.id = 0
      /\ r.about = {} /\ r.agent = 0 /\ r.from = worker[k].entity
      BY DEF Work!Blank
<1> HIDE DEF r
<1>6. LogGrown(r) /\ log' \in Seq(Record)
      BY <1>2, <1>4, Appends
<1>7. Wrote(Officer, "teammate", 0, {}, 0, worker[k].entity)
      BY <1>6, <1>5 DEF Wrote, LogGrown, LogGrows
<1>8. Sets(k, [worker[k] EXCEPT !.heard = worker[k].rested])
         /\ worker' \in [Workers -> AgentType]
  <2> DEFINE w == [worker[k] EXCEPT !.heard = worker[k].rested]
  <2>1. w \in AgentType
      BY <1>1, <1>3 DEF AgentType, Work!NoWorker
  <2>2. worker' = [worker EXCEPT ![k] = w]
      BY DEF Work!WorkerMessage, Work!Set
  <2> HIDE DEF w
  <2>3. worker' \in [Workers -> AgentType] /\ Sets(k, w)
      BY <2>1, <2>2 DEF AgentsType, Sets
  <2> QED BY <2>3 DEF w
<1>9. fo' \in [turn : Nat, touched : SUBSET Entities, handed : SUBSET Entities,
                ask : Nat]
      BY <1>1, <1>3 DEF Work!WorkerMessage, Work!Speaks, AgentsType
<1>10. /\ worker'[k].entity = worker[k].entity
       /\ worker'[k].call = worker[k].call
       /\ worker'[k].opened = worker[k].opened
       /\ worker'[k].known = worker[k].known
       /\ worker'[k].turn = worker[k].turn
       /\ worker'[k].busy = worker[k].busy
       /\ worker'[k].own = worker[k].own
       /\ worker'[k].rested = worker[k].rested
       /\ worker'[k].heard = worker[k].rested
       /\ worker'[k].shown = worker[k].shown
       /\ \A j \in Workers : j # k => worker'[j] = worker[j]
      BY <1>8, <1>3 DEF Sets, AgentType, Work!NoWorker
<1> QED BY <1>10, <1>3, <1>7, <1>6, <1>8, <1>9
           DEF Work!WorkerMessage, Work!Free, Work!InTurn, Work!Speaks,
               AgentsType

LEMMA GoIdleStep ==
    ASSUME AgentsType, Spawns, NEW k \in Workers, GoIdle(k)
    PROVE  /\ Wrote(Officer, "idle", 0, {}, 0, worker[k].entity)
           /\ runtime = "claude" /\ worker[k].busy
           /\ worker[k].entity \in Entities
           /\ worker'[k].entity = worker[k].entity
           /\ worker'[k].call = worker[k].call
           /\ worker'[k].opened = worker[k].opened
           /\ worker'[k].known = worker[k].known
           /\ worker'[k].turn = worker[k].turn /\ worker'[k].busy = FALSE
           /\ worker'[k].own = worker[k].own /\ worker'[k].rested = TRUE
           /\ worker'[k].heard = worker[k].heard /\ worker'[k].shown = FALSE
           /\ \A j \in Workers : j # k => worker'[j] = worker[j]
           /\ fo'.turn = fo.turn /\ fo'.touched = fo.touched
           /\ fo'.handed = fo.handed \cup {worker[k].entity}
           /\ fo'.ask = fo.ask
           /\ UNCHANGED runtime
           /\ AgentsType'
<1> DEFINE r == [Blank EXCEPT !.kind = "idle", !.from = worker[k].entity]
<1>1. Next1 \in Nat \ {0}
      BY DEF AgentsType, Work!Next1
<1>2. log' = Append(log, r)
      BY DEF Work!GoIdle, Work!Write
<1>3. /\ worker \in [Workers -> AgentType] /\ fo.turn \in Nat /\ fo.ask \in Nat
      /\ fo \in [turn : Nat, touched : SUBSET Entities, handed : SUBSET Entities,
                ask : Nat]
      /\ worker[k] \in AgentType /\ worker[k].entity \in Entities
      /\ worker[k].call \in Nat /\ worker[k].turn \in Nat
      BY DEF Work!GoIdle, AgentsType, Spawns, Work!NoWorker, AgentType
<1>4. r \in Record
      BY <1>1, <1>3, MCActivityConstants, SameSets
         DEF Work!GoIdle, Work!ActivityConstants, Record, Work!Blank,
             OfficerKinds, WorkerKinds, Work!Sessions, Work!Officer
<1>5. /\ r.src = Officer /\ r.kind = ("idle") /\ r.id = 0
      /\ r.about = {} /\ r.agent = 0 /\ r.from = worker[k].entity
      BY DEF Work!Blank
<1> HIDE DEF r
<1>6. LogGrown(r) /\ log' \in Seq(Record)
      BY <1>2, <1>4, Appends
<1>7. Wrote(Officer, "idle", 0, {}, 0, worker[k].entity)
      BY <1>6, <1>5 DEF Wrote, LogGrown, LogGrows
<1>8. Sets(k, [worker[k] EXCEPT !.busy = FALSE, !.rested = TRUE, !.shown = FALSE])
         /\ worker' \in [Workers -> AgentType]
  <2> DEFINE w == [worker[k] EXCEPT !.busy = FALSE, !.rested = TRUE, !.shown = FALSE]
  <2>1. w \in AgentType
      BY <1>1, <1>3 DEF AgentType, Work!NoWorker
  <2>2. worker' = [worker EXCEPT ![k] = w]
      BY DEF Work!GoIdle, Work!Set
  <2> HIDE DEF w
  <2>3. worker' \in [Workers -> AgentType] /\ Sets(k, w)
      BY <2>1, <2>2 DEF AgentsType, Sets
  <2> QED BY <2>3 DEF w
<1>9. fo' \in [turn : Nat, touched : SUBSET Entities, handed : SUBSET Entities,
                ask : Nat]
      BY <1>1, <1>3 DEF Work!GoIdle, Work!Speaks, AgentsType
<1>10. /\ worker'[k].entity = worker[k].entity
       /\ worker'[k].call = worker[k].call
       /\ worker'[k].opened = worker[k].opened
       /\ worker'[k].known = worker[k].known
       /\ worker'[k].turn = worker[k].turn /\ worker'[k].busy = FALSE
       /\ worker'[k].own = worker[k].own /\ worker'[k].rested = TRUE
       /\ worker'[k].heard = worker[k].heard /\ worker'[k].shown = FALSE
       /\ \A j \in Workers : j # k => worker'[j] = worker[j]
      BY <1>8, <1>3 DEF Sets, AgentType, Work!NoWorker
<1>11. /\ fo'.turn = fo.turn /\ fo'.touched = fo.touched
       /\ fo'.handed = fo.handed \cup {worker[k].entity}
       /\ fo'.ask = fo.ask
      BY <1>3 DEF Work!GoIdle, Work!Speaks
<1> QED BY <1>10, <1>11, <1>3, <1>7, <1>6, <1>8, <1>9
           DEF Work!GoIdle, Work!Free, Work!InTurn, Work!Speaks, AgentsType

LEMMA OpenFileStep ==
    ASSUME AgentsType, Spawns, NEW k \in Workers, OpenFile(k)
    PROVE  /\ LogGrows /\ AgentsType'
           /\ runtime = "codex" /\ worker[k].entity \in Entities /\ ~worker[k].opened
           /\ \E p \in Pos' : /\ p \notin Pos /\ log'[p].src = k /\ log'[p].kind = "session"
                                    /\ log'[p].from = worker[k].entity
           /\ \A p \in Pos' : p \notin Pos =>
                 /\ log'[p].src = k /\ log'[p].kind \in {"session", "assignment"}
                 /\ log'[p].kind = "session" => log'[p].from = worker[k].entity
                 /\ log'[p].kind = "assignment" => /\ log'[p].about = {worker[k].entity}
                                                   /\ worker'[k].known
           /\ worker[k].known => worker'[k].known
           /\ worker'[k].known => \/ worker[k].known
                                  \/ \E p \in Pos' :
                                        /\ log'[p].src = k
                                        /\ log'[p].kind = "assignment"
                                        /\ log'[p].about = {worker[k].entity}
           /\ worker'[k].entity = worker[k].entity /\ worker'[k].call = worker[k].call
           /\ worker'[k].opened = TRUE /\ worker'[k].turn = worker[k].turn
           /\ worker'[k].busy = worker[k].busy /\ worker'[k].own = worker[k].own
           /\ worker'[k].rested = worker[k].rested /\ worker'[k].heard = worker[k].heard
           /\ worker'[k].shown = worker[k].shown
           /\ \A j \in Workers : j # k => worker'[j] = worker[j]
           /\ UNCHANGED <<runtime, fo>>
<1> DEFINE a == [Blank EXCEPT !.src = k, !.kind = "session", !.from = worker[k].entity]
           b == [Blank EXCEPT !.src = k, !.kind = "assignment",
                              !.about = {worker[k].entity}]
<1>1. /\ worker \in [Workers -> AgentType] /\ worker[k] \in AgentType
      /\ worker[k].entity \in Entities /\ worker[k].known \in BOOLEAN
      BY DEF Work!OpenFile, AgentsType, AgentType
<1>2. a \in Record /\ b \in Record
      BY <1>1, MCActivityConstants, SameSets
         DEF Work!ActivityConstants, Record, Work!Blank, OfficerKinds,
             WorkerKinds, Work!Sessions, Work!Officer
<1>3. /\ a.src = k /\ a.kind = "session" /\ a.from = worker[k].entity
      /\ b.src = k /\ b.kind = "assignment" /\ b.about = {worker[k].entity}
      BY DEF Work!Blank
<1>4. \E known \in BOOLEAN :
         /\ worker' = [worker EXCEPT ![k] = [worker[k] EXCEPT !.opened = TRUE,
                                                              !.known = known]]
         /\ \/ log' = Append(log, a) /\ known = worker[k].known
            \/ log' = log \o <<a, b>> /\ known = TRUE
  <2>1. CASE log' = Append(log, a) /\ Set(k, [worker[k] EXCEPT !.opened = TRUE])
    <3>1. [worker[k] EXCEPT !.opened = TRUE]
             = [worker[k] EXCEPT !.opened = TRUE, !.known = worker[k].known]
          BY <1>1 DEF AgentType
    <3> QED BY <1>1, <2>1, <3>1 DEF Work!Set
  <2>2. CASE /\ log' = log \o <<a, b>>
             /\ Set(k, [worker[k] EXCEPT !.opened = TRUE, !.known = TRUE])
        BY <2>2 DEF Work!Set
  <2> QED BY <2>1, <2>2 DEF Work!OpenFile
<1> HIDE DEF a, b
<1>5. PICK known \in BOOLEAN :
         /\ worker' = [worker EXCEPT ![k] = [worker[k] EXCEPT !.opened = TRUE,
                                                              !.known = known]]
         /\ \/ log' = Append(log, a) /\ known = worker[k].known
            \/ log' = log \o <<a, b>> /\ known = TRUE
      BY <1>4
<1>6. /\ worker' \in [Workers -> AgentType]
      /\ Sets(k, [worker[k] EXCEPT !.opened = TRUE, !.known = known])
  <2> DEFINE w == [worker[k] EXCEPT !.opened = TRUE, !.known = known]
  <2>1. w \in AgentType
      BY <1>1 DEF AgentType
  <2>2. worker' = [worker EXCEPT ![k] = w]
      BY <1>5
  <2> HIDE DEF w
  <2>3. worker' \in [Workers -> AgentType] /\ Sets(k, w)
      BY <1>1, <2>1, <2>2 DEF Sets
  <2> QED BY <2>3 DEF w
<1>7. /\ worker'[k].known = known
      /\ worker'[k].entity = worker[k].entity /\ worker'[k].call = worker[k].call
      /\ worker'[k].opened = TRUE /\ worker'[k].turn = worker[k].turn
      /\ worker'[k].busy = worker[k].busy /\ worker'[k].own = worker[k].own
      /\ worker'[k].rested = worker[k].rested /\ worker'[k].heard = worker[k].heard
      /\ worker'[k].shown = worker[k].shown
      /\ \A j \in Workers : j # k => worker'[j] = worker[j]
      BY <1>1, <1>6 DEF Sets, AgentType
<1>8. CASE log' = Append(log, a) /\ known = worker[k].known
  <2>1. LogGrown(a) /\ log' \in Seq(Record)
      BY <1>2, <1>8, Appends
  <2>2. LogGrows /\ Pos' \ Pos = {Next1} /\ log'[Next1] = a
      BY <2>1 DEF LogGrown, LogGrows
  <2>3. AgentsType' /\ UNCHANGED <<runtime, fo>>
      BY <1>6, <2>1 DEF AgentsType, Work!OpenFile
  <2>4. Next1 \in Pos' /\ Next1 \notin Pos /\ \A p \in Pos' : p \in Pos \/ p = Next1
      BY <2>2
  <2> QED BY <1>1, <1>3, <1>7, <1>8, <2>2, <2>3, <2>4 DEF Work!OpenFile
<1>9. CASE log' = log \o <<a, b>> /\ known = TRUE
  <2>1. /\ LogGrows /\ log' \in Seq(Record) /\ Pos' \ Pos = {Next1, Next1 + 1}
        /\ log'[Next1] = a /\ log'[Next1 + 1] = b
      BY <1>2, <1>9, AppendsTwo
  <2>2. AgentsType' /\ UNCHANGED <<runtime, fo>>
      BY <1>6, <2>1 DEF AgentsType, Work!OpenFile
  <2>3. /\ Next1 \in Pos' /\ Next1 \notin Pos /\ Next1 + 1 \in Pos'
        /\ Next1 + 1 \notin Pos
        /\ \A p \in Pos' : p \in Pos \/ p = Next1 \/ p = Next1 + 1
      BY <2>1
  <2> QED BY ZenonT(60), <1>1, <1>3, <1>7, <1>9, <2>1, <2>2, <2>3 DEF Work!OpenFile
<1> QED BY <1>5, <1>8, <1>9

\* A record's open turn is of the records before it.
LEMMA OpenTurnKept ==
    ASSUME AgentsType, LogGrows, NEW p \in Pos
    PROVE  OpenTurn(p)' = OpenTurn(p)
<1> DEFINE starts == {q \in In(log[p].src) : q < p /\ log[q].kind = "task_started"}
           done(q) == \E r \in In(log[p].src) :
                         /\ q < r /\ r < p
                         /\ log[r].kind = "task_complete" /\ log[r].id = log[q].id
<1>1. \A q \in Pos' : q < p => q \in Pos
      BY DEF LogGrows
<1>2. \A q \in Pos : log'[q] = log[q] /\ q \in Pos'
      BY DEF LogGrows
<1>3. starts' = starts
      BY <1>1, <1>2 DEF Work!In
<1>4. \A q \in starts : done(q)' <=> done(q)
      BY <1>1, <1>2 DEF Work!In
<1>5. log'[p] = log[p] /\ p \in Pos'
      BY <1>2
<1>6. CASE starts = {}
      BY <1>3, <1>5, <1>6, SameSets DEF Work!OpenTurn
<1>7. CASE starts # {}
  <2>1. starts \in SUBSET (1 .. Len(log)) /\ Len(log) \in Nat
      BY DEF AgentsType, Work!Pos, Work!In
  <2>2. PICK m \in starts : \A q \in starts : q <= m
    <3> HIDE DEF starts
    <3> QED BY <1>7, <2>1, LastPosition
  <2>3. Max(starts) = m
    <3> HIDE DEF starts
    <3> QED BY <2>1, <2>2, MaxIs
  <2>4. OpenTurn(p) = IF done(m) THEN 0 ELSE log[m].id
      BY <1>7, <2>3, SameSets DEF Work!OpenTurn
  <2>5. OpenTurn(p)' = IF done(m)' THEN 0 ELSE log'[m].id
      BY <1>3, <1>5, <1>7, <2>3, SameSets DEF Work!OpenTurn
  <2>6. log'[m] = log[m]
      BY <1>2, <2>2 DEF Work!In
  <2> QED BY <1>4, <2>2, <2>4, <2>5, <2>6
<1> QED BY <1>6, <1>7

----------------------------------------------------------------------------
(* Records, spawns and questions *)

\* The positions of the log and the fields of its records.
LEMMA Positions ==
    ASSUME AgentsType
    PROVE  /\ Len(log) \in Nat /\ Pos = 1 .. Len(log) /\ Next1 = Len(log) + 1
           /\ \A p \in Pos : p \in Nat \ {0} /\ p <= Len(log) /\ p < Next1
BY DEF AgentsType, Work!Pos, Work!Next1

LEMMA Typed ==
    ASSUME AgentsType, NEW p \in Pos
    PROVE  /\ log[p].src \in Sessions /\ log[p].id \in Nat
           /\ log[p].about \in SUBSET Entities /\ log[p].agent \in Nat
           /\ log[p].src # Officer => log[p].src \in Workers
<1>1. log[p] \in Record
      BY DEF AgentsType, Work!Pos
<1> QED BY <1>1 DEF Record, Work!Sessions

RecordsInv == AgentsType /\ OfficerRecords /\ WorkerRecords /\ Spawns /\ Questions

\* A spawned worker stays what it was spawned as, and known once it is.
Steady ==
    \A k \in Workers :
        worker[k].entity \in Entities =>
            /\ worker'[k].entity = worker[k].entity
            /\ worker'[k].call = worker[k].call
            /\ worker[k].known => worker'[k].known

LEMMA StepSteady ==
    ASSUME AgentsType, Spawns, Work!Next
    PROVE  Steady /\ LogGrows /\ AgentsType'
<1>1. Nobody \notin Entities
      BY MCActivityConstants, SameSets DEF Work!ActivityConstants
<1>2. Steady /\ LogGrows
  <2>1. ASSUME StartTurn PROVE Steady /\ LogGrows
        BY <2>1, <1>1, StartTurnStep DEF Wrote, Steady
  <2>2. ASSUME EndTurn PROVE Steady /\ LogGrows
        BY <2>2, <1>1, EndTurnStep DEF Wrote, Steady
  <2>3. ASSUME Ask PROVE Steady /\ LogGrows
        BY <2>3, <1>1, AskStep DEF Wrote, Steady
  <2>4. ASSUME Answer PROVE Steady /\ LogGrows
        BY <2>4, <1>1, AnswerStep DEF Wrote, Steady
  <2>5. ASSUME NEW e \in Entities, Call(e) PROVE Steady /\ LogGrows
        BY <2>5, <1>1, CallStep DEF Wrote, Steady
  <2>6. ASSUME NEW k \in Workers, NEW e \in Entities, Spawn(k, e)
        PROVE  Steady /\ LogGrows
        BY ZenonT(60), <2>6, <1>1, SpawnStep DEF Wrote, Steady
  <2>7. ASSUME NEW k \in Workers, OpenFile(k) PROVE Steady /\ LogGrows
        BY ZenonT(60), <2>7, <1>1, OpenFileStep DEF Wrote, Steady
  <2>8. ASSUME NEW k \in Workers, Confirm(k) PROVE Steady /\ LogGrows
        BY <2>8, <1>1, ConfirmStep DEF Wrote, Steady
  <2>9. ASSUME NEW k \in Workers, WorkerTurn(k) PROVE Steady /\ LogGrows
        BY <2>9, <1>1, WorkerTurnStep DEF Wrote, Steady
  <2>10. ASSUME NEW k \in Workers, WorkerCall(k) PROVE Steady /\ LogGrows
        BY <2>10, <1>1, WorkerCallStep DEF Wrote, Steady
  <2>11. ASSUME NEW k \in Workers, WorkerDone(k) PROVE Steady /\ LogGrows
        BY <2>11, <1>1, WorkerDoneStep DEF Wrote, Steady
  <2>12. ASSUME NEW k \in Workers, Interrupt(k) PROVE Steady /\ LogGrows
        BY <2>12, <1>1, InterruptStep DEF Wrote, Steady
  <2>13. ASSUME NEW k \in Workers, WriteMeta(k) PROVE Steady /\ LogGrows
        BY <2>13, <1>1, WriteMetaStep DEF Wrote, Steady
  <2>14. ASSUME NEW k \in Workers, WorkerSpeaks(k) PROVE Steady /\ LogGrows
        BY <2>14, <1>1, WorkerSpeaksStep DEF Wrote, Steady
  <2>15. ASSUME NEW k \in Workers, WorkerMessage(k) PROVE Steady /\ LogGrows
        BY <2>15, <1>1, WorkerMessageStep DEF Wrote, Steady
  <2>16. ASSUME NEW k \in Workers, GoIdle(k) PROVE Steady /\ LogGrows
        BY <2>16, <1>1, GoIdleStep DEF Wrote, Steady
  <2> QED BY <2>1, <2>2, <2>3, <2>4, <2>5, <2>6, <2>7, <2>8, <2>9, <2>10, <2>11,
             <2>12, <2>13, <2>14, <2>15, <2>16
             DEF Work!Next, Work!Officers, Work!Agents
<1>3. AgentsType'
  <2>1. ASSUME StartTurn PROVE AgentsType'
        BY <2>1, StartTurnStep
  <2>2. ASSUME EndTurn PROVE AgentsType'
        BY <2>2, EndTurnStep
  <2>3. ASSUME Ask PROVE AgentsType'
        BY <2>3, AskStep
  <2>4. ASSUME Answer PROVE AgentsType'
        BY <2>4, AnswerStep
  <2>5. ASSUME NEW e \in Entities, Call(e) PROVE AgentsType'
        BY <2>5, CallStep
  <2>6. ASSUME NEW k \in Workers, NEW e \in Entities, Spawn(k, e) PROVE AgentsType'
        BY <2>6, SpawnStep
  <2>7. ASSUME NEW k \in Workers, OpenFile(k) PROVE AgentsType'
        BY <2>7, OpenFileStep
  <2>8. ASSUME NEW k \in Workers, Confirm(k) PROVE AgentsType'
        BY <2>8, ConfirmStep
  <2>9. ASSUME NEW k \in Workers, WorkerTurn(k) PROVE AgentsType'
        BY <2>9, WorkerTurnStep
  <2>10. ASSUME NEW k \in Workers, WorkerCall(k) PROVE AgentsType'
        BY <2>10, WorkerCallStep
  <2>11. ASSUME NEW k \in Workers, WorkerDone(k) PROVE AgentsType'
        BY <2>11, WorkerDoneStep
  <2>12. ASSUME NEW k \in Workers, Interrupt(k) PROVE AgentsType'
        BY <2>12, InterruptStep
  <2>13. ASSUME NEW k \in Workers, WriteMeta(k) PROVE AgentsType'
        BY <2>13, WriteMetaStep
  <2>14. ASSUME NEW k \in Workers, WorkerSpeaks(k) PROVE AgentsType'
        BY <2>14, WorkerSpeaksStep
  <2>15. ASSUME NEW k \in Workers, WorkerMessage(k) PROVE AgentsType'
        BY <2>15, WorkerMessageStep
  <2>16. ASSUME NEW k \in Workers, GoIdle(k) PROVE AgentsType'
        BY <2>16, GoIdleStep
  <2> QED BY <2>1, <2>2, <2>3, <2>4, <2>5, <2>6, <2>7, <2>8, <2>9, <2>10, <2>11,
             <2>12, <2>13, <2>14, <2>15, <2>16
             DEF Work!Next, Work!Officers, Work!Agents
<1> QED BY <1>2, <1>3

LEMMA OfficerRecordsKept ==
    ASSUME LogGrows, OfficerRecords,
           \A p \in Pos' : p \notin Pos /\ log'[p].src = Officer =>
              /\ log'[p].kind \in OfficerKinds
              /\ log'[p].kind = "session" => log'[p].from = Nobody
              /\ log'[p].kind \in {"task_started", "spawn", "ask"} => log'[p].id = p
              /\ log'[p].kind \in {"result", "task_complete"} => log'[p].id < p
    PROVE  OfficerRecords'
BY DEF LogGrows, OfficerRecords, Work!In, Work!Pos

LEMMA OfficerRecordsStep ==
    ASSUME RecordsInv, runtime = "codex" => CodexTurns, Work!Next
    PROVE  OfficerRecords'
<1> DEFINE New(p) == log'[p].src = Officer =>
              /\ log'[p].kind \in OfficerKinds
              /\ log'[p].kind = "session" => log'[p].from = Nobody
              /\ log'[p].kind \in {"task_started", "spawn", "ask"} => log'[p].id = p
              /\ log'[p].kind \in {"result", "task_complete"} => log'[p].id < p
<1>1. AgentsType /\ Spawns /\ OfficerRecords /\ \A k \in Workers : k # Officer
      BY MCActivityConstants, SameSets
         DEF Work!ActivityConstants, Work!Officer, RecordsInv
<1>2. /\ fo.ask # 0 => fo.ask < Next1
      /\ runtime = "codex" /\ fo.turn # 0 => fo.turn < Next1
      /\ 0 < Next1 /\ Next1 \in Nat
  <2>1. Pos = 1 .. Len(log) /\ Len(log) \in Nat
      BY DEF RecordsInv, AgentsType, Work!Pos
  <2> QED BY <2>1
             DEF RecordsInv, Questions, CodexTurns, BusyTurn, TurnOpen, Work!In,
                 Work!Next1
<1>3. \A p \in Pos' : p \notin Pos => New(p)
  <2>1. ASSUME StartTurn PROVE \A p \in Pos' : p \notin Pos => New(p)
        BY <2>1, <1>1, <1>2, StartTurnStep DEF Wrote, OfficerKinds
  <2>2. ASSUME EndTurn PROVE \A p \in Pos' : p \notin Pos => New(p)
      <3>1. \A p \in Pos' : p \notin Pos => /\ p = Next1 /\ log'[p].id = fo.turn
              /\ log'[p].kind = IF runtime = "codex" THEN "task_complete" ELSE "end_turn"
            BY <2>2, <1>1, EndTurnStep DEF Wrote
      <3>2. runtime = "codex" => fo.turn # 0
            BY <2>2, <1>1, EndTurnStep
      <3>3. CASE runtime = "codex"
        <4>1. fo.turn < Next1
            BY <1>2, <3>2, <3>3
        <4>2. \A p \in Pos' : p \notin Pos =>
                 log'[p].kind = "task_complete" /\ log'[p].id < p
            BY <3>1, <3>3, <4>1
        <4> QED BY <4>2 DEF OfficerKinds
      <3>4. CASE runtime # "codex"
            BY <3>1, <3>4 DEF OfficerKinds
      <3> QED BY <3>3, <3>4
  <2>3. ASSUME Ask PROVE \A p \in Pos' : p \notin Pos => New(p)
        BY <2>3, <1>1, <1>2, AskStep DEF Wrote, OfficerKinds
  <2>4. ASSUME Answer PROVE \A p \in Pos' : p \notin Pos => New(p)
        BY <2>4, <1>1, <1>2, AnswerStep DEF Wrote, OfficerKinds
  <2>5. ASSUME NEW e \in Entities, Call(e)
        PROVE  \A p \in Pos' : p \notin Pos => New(p)
        BY <2>5, <1>1, <1>2, CallStep DEF Wrote, OfficerKinds
  <2>6. ASSUME NEW k \in Workers, NEW e \in Entities, Spawn(k, e)
        PROVE  \A p \in Pos' : p \notin Pos => New(p)
        BY <2>6, <1>1, <1>2, SpawnStep DEF Wrote, OfficerKinds
  <2>7. ASSUME NEW k \in Workers, OpenFile(k)
        PROVE  \A p \in Pos' : p \notin Pos => New(p)
      <3>1. AgentsType /\ Spawns /\ OpenFile(k)
            BY <2>7, <1>1
      <3>2. \A p \in Pos' : p \notin Pos => log'[p].src = k
            BY ZenonT(60), <3>1, OpenFileStep
      <3> QED BY <1>1, <3>2
  <2>8. ASSUME NEW k \in Workers, Confirm(k)
        PROVE  \A p \in Pos' : p \notin Pos => New(p)
        BY <2>8, <1>1, <1>2, ConfirmStep DEF Wrote, OfficerKinds
  <2>9. ASSUME NEW k \in Workers, WorkerTurn(k)
        PROVE  \A p \in Pos' : p \notin Pos => New(p)
      <3>1. \A p \in Pos' : p \notin Pos => log'[p].src = k
            BY <2>9, <1>1, WorkerTurnStep DEF Wrote
      <3> QED BY <1>1, <3>1
  <2>10. ASSUME NEW k \in Workers, WorkerCall(k)
         PROVE  \A p \in Pos' : p \notin Pos => New(p)
      <3>1. \A p \in Pos' : p \notin Pos => log'[p].src = k
            BY <2>10, <1>1, WorkerCallStep DEF Wrote
      <3> QED BY <1>1, <3>1
  <2>11. ASSUME NEW k \in Workers, WorkerDone(k)
         PROVE  \A p \in Pos' : p \notin Pos => New(p)
      <3>1. \A p \in Pos' : p \notin Pos => log'[p].src = k
            BY <2>11, <1>1, WorkerDoneStep DEF Wrote
      <3> QED BY <1>1, <3>1
  <2>12. ASSUME NEW k \in Workers, Interrupt(k)
         PROVE  \A p \in Pos' : p \notin Pos => New(p)
        BY <2>12, <1>1, <1>2, InterruptStep DEF Wrote, OfficerKinds
  <2>13. ASSUME NEW k \in Workers, WriteMeta(k)
         PROVE  \A p \in Pos' : p \notin Pos => New(p)
      <3>1. \A p \in Pos' : p \notin Pos => log'[p].src = k
            BY <2>13, <1>1, WriteMetaStep DEF Wrote
      <3> QED BY <1>1, <3>1
  <2>14. ASSUME NEW k \in Workers, WorkerSpeaks(k)
         PROVE  \A p \in Pos' : p \notin Pos => New(p)
      <3>1. \A p \in Pos' : p \notin Pos => log'[p].src = k
            BY <2>14, <1>1, WorkerSpeaksStep DEF Wrote
      <3> QED BY <1>1, <3>1
  <2>15. ASSUME NEW k \in Workers, WorkerMessage(k)
         PROVE  \A p \in Pos' : p \notin Pos => New(p)
        BY <2>15, <1>1, <1>2, WorkerMessageStep DEF Wrote, OfficerKinds
  <2>16. ASSUME NEW k \in Workers, GoIdle(k)
         PROVE  \A p \in Pos' : p \notin Pos => New(p)
        BY <2>16, <1>1, <1>2, GoIdleStep DEF Wrote, OfficerKinds
  <2> QED BY <2>1, <2>2, <2>3, <2>4, <2>5, <2>6, <2>7, <2>8, <2>9, <2>10, <2>11,
             <2>12, <2>13, <2>14, <2>15, <2>16
             DEF Work!Next, Work!Officers, Work!Agents
<1> HIDE DEF New
<1> QED BY <1>1, <1>3, StepSteady, OfficerRecordsKept DEF New

LEMMA WorkerRecordsKept ==
    ASSUME AgentsType, LogGrows, Steady, WorkerRecords,
           \A p \in Pos' : p \notin Pos /\ log'[p].src # Officer =>
              LET w == worker'[log'[p].src] IN
              /\ log'[p].kind \in WorkerKinds
              /\ w.entity \in Entities
              /\ log'[p].kind \in {"session", "meta"} => log'[p].from = w.entity
              /\ log'[p].kind = "task_started" => log'[p].id = p
              /\ log'[p].kind = "task_complete" => log'[p].id < p
              /\ log'[p].kind \in {"call", "assignment"} => log'[p].about = {w.entity}
              /\ log'[p].kind = "assignment" => w.known
              /\ log'[p].kind = "meta" => /\ log'[p].agent = log'[p].src
                                          /\ log'[p].id \in {0, w.call} /\ w.known
    PROVE  WorkerRecords'
<1> SUFFICES ASSUME NEW p \in Pos', log'[p].src # Officer, p \in Pos
             PROVE  LET w == worker'[log'[p].src] IN
              /\ log'[p].kind \in WorkerKinds
              /\ w.entity \in Entities
              /\ log'[p].kind \in {"session", "meta"} => log'[p].from = w.entity
              /\ log'[p].kind = "task_started" => log'[p].id = p
              /\ log'[p].kind = "task_complete" => log'[p].id < p
              /\ log'[p].kind \in {"call", "assignment"} => log'[p].about = {w.entity}
              /\ log'[p].kind = "assignment" => w.known
              /\ log'[p].kind = "meta" => /\ log'[p].agent = log'[p].src
                                          /\ log'[p].id \in {0, w.call} /\ w.known
      BY DEF WorkerRecords
<1>1. log'[p] = log[p]
      BY DEF LogGrows
<1>2. log[p].src \in Workers
      BY <1>1, Typed
<1> QED BY <1>1, <1>2 DEF WorkerRecords, Steady

LEMMA WorkerRecordsStep ==
    ASSUME RecordsInv, runtime = "codex" => CodexTurns, Work!Next
    PROVE  WorkerRecords'
<1> DEFINE New(p) ==
              LET w == worker'[log'[p].src] IN
              /\ log'[p].kind \in WorkerKinds
              /\ w.entity \in Entities
              /\ log'[p].kind \in {"session", "meta"} => log'[p].from = w.entity
              /\ log'[p].kind = "task_started" => log'[p].id = p
              /\ log'[p].kind = "task_complete" => log'[p].id < p
              /\ log'[p].kind \in {"call", "assignment"} => log'[p].about = {w.entity}
              /\ log'[p].kind = "assignment" => w.known
              /\ log'[p].kind = "meta" => /\ log'[p].agent = log'[p].src
                                          /\ log'[p].id \in {0, w.call} /\ w.known
<1>1. AgentsType /\ Spawns /\ WorkerRecords
      BY DEF RecordsInv
<1>2. \A k \in Workers : runtime = "codex" /\ worker[k].busy => worker[k].turn < Next1
  <2>1. Pos = 1 .. Len(log) /\ Len(log) \in Nat
      BY DEF RecordsInv, AgentsType, Work!Pos
  <2> QED BY <2>1 DEF CodexTurns, BusyTurn, TurnOpen, Work!In, Work!Next1
<1>3. \A p \in Pos' : p \notin Pos /\ log'[p].src # Officer => New(p)
  <2>1. ASSUME StartTurn
        PROVE  \A p \in Pos' : p \notin Pos /\ log'[p].src # Officer => New(p)
      <3>1. \A p \in Pos' : p \notin Pos => log'[p].src = Officer
          BY <2>1, <1>1, StartTurnStep DEF Wrote
      <3> QED BY <3>1
  <2>2. ASSUME EndTurn
        PROVE  \A p \in Pos' : p \notin Pos /\ log'[p].src # Officer => New(p)
      <3>1. \A p \in Pos' : p \notin Pos => log'[p].src = Officer
          BY <2>2, <1>1, EndTurnStep DEF Wrote
      <3> QED BY <3>1
  <2>3. ASSUME Ask
        PROVE  \A p \in Pos' : p \notin Pos /\ log'[p].src # Officer => New(p)
      <3>1. \A p \in Pos' : p \notin Pos => log'[p].src = Officer
          BY <2>3, <1>1, AskStep DEF Wrote
      <3> QED BY <3>1
  <2>4. ASSUME Answer
        PROVE  \A p \in Pos' : p \notin Pos /\ log'[p].src # Officer => New(p)
      <3>1. \A p \in Pos' : p \notin Pos => log'[p].src = Officer
          BY <2>4, <1>1, AnswerStep DEF Wrote
      <3> QED BY <3>1
  <2>5. ASSUME NEW e \in Entities, Call(e)
        PROVE  \A p \in Pos' : p \notin Pos /\ log'[p].src # Officer => New(p)
      <3>1. \A p \in Pos' : p \notin Pos => log'[p].src = Officer
          BY <2>5, <1>1, CallStep DEF Wrote
      <3> QED BY <3>1
  <2>6. ASSUME NEW k \in Workers, NEW e \in Entities, Spawn(k, e)
        PROVE  \A p \in Pos' : p \notin Pos /\ log'[p].src # Officer => New(p)
      <3>1. \A p \in Pos' : p \notin Pos => log'[p].src = Officer
          BY <2>6, <1>1, SpawnStep DEF Wrote
      <3> QED BY <3>1
  <2>7. ASSUME NEW k \in Workers, OpenFile(k)
        PROVE  \A p \in Pos' : p \notin Pos /\ log'[p].src # Officer => New(p)
      <3>1. AgentsType /\ Spawns /\ OpenFile(k)
          BY <2>7, <1>1
      <3>2. \A p \in Pos' : p \notin Pos => log'[p].src = k
          BY ZenonT(60), <3>1, OpenFileStep
      <3>3. /\ worker[k].entity \in Entities /\ worker'[k].entity = worker[k].entity
            /\ \A p \in Pos' : p \notin Pos =>
                  /\ log'[p].kind \in {"session", "assignment"}
                  /\ log'[p].kind = "session" => log'[p].from = worker[k].entity
                  /\ log'[p].kind = "assignment" => /\ log'[p].about = {worker[k].entity}
                                                    /\ worker'[k].known
          BY <3>1, OpenFileStep
      <3> QED BY <3>2, <3>3 DEF WorkerKinds
  <2>8. ASSUME NEW k \in Workers, Confirm(k)
        PROVE  \A p \in Pos' : p \notin Pos /\ log'[p].src # Officer => New(p)
      <3>1. \A p \in Pos' : p \notin Pos => log'[p].src = Officer
          BY <2>8, <1>1, ConfirmStep DEF Wrote
      <3> QED BY <3>1
  <2>9. ASSUME NEW k \in Workers, WorkerTurn(k)
        PROVE  \A p \in Pos' : p \notin Pos /\ log'[p].src # Officer => New(p)
      <3>1. \A p \in Pos' : p \notin Pos => p = Next1
          BY <2>9, <1>1, WorkerTurnStep DEF Wrote
      <3>2. New(Next1)
          BY <2>9, <1>1, <1>2, WorkerTurnStep DEF Wrote, WorkerKinds
      <3> QED BY <3>1, <3>2
  <2>10. ASSUME NEW k \in Workers, WorkerCall(k)
         PROVE  \A p \in Pos' : p \notin Pos /\ log'[p].src # Officer => New(p)
      <3>1. \A p \in Pos' : p \notin Pos => p = Next1
          BY <2>10, <1>1, WorkerCallStep DEF Wrote
      <3>2. New(Next1)
          BY ZenonT(60), <2>10, <1>1, <1>2, WorkerCallStep DEF Wrote, WorkerKinds
      <3> QED BY <3>1, <3>2
  <2>11. ASSUME NEW k \in Workers, WorkerDone(k)
         PROVE  \A p \in Pos' : p \notin Pos /\ log'[p].src # Officer => New(p)
      <3>1. \A p \in Pos' : p \notin Pos => p = Next1
          BY <2>11, <1>1, WorkerDoneStep DEF Wrote
      <3>2. New(Next1)
          BY ZenonT(60), <2>11, <1>1, <1>2, WorkerDoneStep DEF Wrote, WorkerKinds
      <3> QED BY <3>1, <3>2
  <2>12. ASSUME NEW k \in Workers, Interrupt(k)
         PROVE  \A p \in Pos' : p \notin Pos /\ log'[p].src # Officer => New(p)
      <3>1. \A p \in Pos' : p \notin Pos => log'[p].src = Officer
          BY <2>12, <1>1, InterruptStep DEF Wrote
      <3> QED BY <3>1
  <2>13. ASSUME NEW k \in Workers, WriteMeta(k)
         PROVE  \A p \in Pos' : p \notin Pos /\ log'[p].src # Officer => New(p)
      <3>1. \A p \in Pos' : p \notin Pos => p = Next1
          BY <2>13, <1>1, WriteMetaStep DEF Wrote
      <3>2. New(Next1)
          BY ZenonT(60), <2>13, <1>1, <1>2, WriteMetaStep DEF Wrote, WorkerKinds
      <3> QED BY <3>1, <3>2
  <2>14. ASSUME NEW k \in Workers, WorkerSpeaks(k)
         PROVE  \A p \in Pos' : p \notin Pos /\ log'[p].src # Officer => New(p)
      <3>1. \A p \in Pos' : p \notin Pos => p = Next1
          BY <2>14, <1>1, WorkerSpeaksStep DEF Wrote
      <3>2. New(Next1)
          BY <2>14, <1>1, <1>2, WorkerSpeaksStep DEF Wrote, WorkerKinds
      <3> QED BY <3>1, <3>2
  <2>15. ASSUME NEW k \in Workers, WorkerMessage(k)
         PROVE  \A p \in Pos' : p \notin Pos /\ log'[p].src # Officer => New(p)
      <3>1. \A p \in Pos' : p \notin Pos => log'[p].src = Officer
          BY <2>15, <1>1, WorkerMessageStep DEF Wrote
      <3> QED BY <3>1
  <2>16. ASSUME NEW k \in Workers, GoIdle(k)
         PROVE  \A p \in Pos' : p \notin Pos /\ log'[p].src # Officer => New(p)
      <3>1. \A p \in Pos' : p \notin Pos => log'[p].src = Officer
          BY <2>16, <1>1, GoIdleStep DEF Wrote
      <3> QED BY <3>1
  <2> QED BY <2>1, <2>2, <2>3, <2>4, <2>5, <2>6, <2>7, <2>8, <2>9, <2>10, <2>11,
             <2>12, <2>13, <2>14, <2>15, <2>16
             DEF Work!Next, Work!Officers, Work!Agents
<1> HIDE DEF New
<1> QED BY <1>1, <1>3, StepSteady, WorkerRecordsKept DEF New

LEMMA SpawnsKept ==
    ASSUME AgentsType, LogGrows, Spawns,
           \A p \in Pos' : p \notin Pos /\ log'[p].src = Officer
                           => log'[p].kind # "spawn",
           \A k \in Workers : /\ worker'[k].entity = worker[k].entity
                              /\ worker'[k].call = worker[k].call
                              /\ worker'[k] = worker[k] \/ worker[k].entity \in Entities
    PROVE  Spawns'
<1>1. Nobody \notin Entities
      BY MCActivityConstants, SameSets DEF Work!ActivityConstants
<1>2. \A p \in Pos : p \in Pos' /\ log'[p] = log[p]
      BY DEF LogGrows
<1>3. ASSUME NEW p \in In(Officer)', log'[p].kind = "spawn"
      PROVE  \E k \in Workers : /\ worker'[k].call = p /\ worker'[k].entity \in Entities
                                /\ log'[p].about = {worker'[k].entity}
  <2>1. p \in Pos /\ p \in In(Officer) /\ log'[p] = log[p]
      BY <1>2, <1>3 DEF Work!In
  <2> QED BY <1>3, <2>1 DEF Spawns
<1>4. ASSUME NEW k \in Workers, worker'[k].entity \in Entities
      PROVE  /\ worker'[k].call \in In(Officer)'
             /\ log'[worker'[k].call].kind = "spawn"
             /\ log'[worker'[k].call].about = {worker'[k].entity}
      BY <1>2, <1>4 DEF Work!In, Spawns
<1>5. \A k \in Workers : worker'[k].entity = Nobody => worker'[k] = NoWorker
      BY <1>1 DEF Spawns
<1> QED BY <1>3, <1>4, <1>5 DEF Spawns, Work!NoWorker

LEMMA SpawnsStep ==
    ASSUME AgentsType, Spawns, Work!Next
    PROVE  Spawns'
<1>1. Nobody \notin Entities
      BY MCActivityConstants, SameSets DEF Work!ActivityConstants
<1>2. ASSUME StartTurn PROVE Spawns'
  <2>1. /\ LogGrows /\ worker' = worker
        /\ \A p \in Pos' : p \notin Pos => log'[p].kind # "spawn"
      BY <1>2, StartTurnStep DEF Wrote
  <2> QED BY <2>1, SpawnsKept
<1>3. ASSUME EndTurn PROVE Spawns'
  <2>1. /\ LogGrows /\ worker' = worker
        /\ \A p \in Pos' : p \notin Pos => log'[p].kind # "spawn"
      BY <1>3, EndTurnStep DEF Wrote
  <2> QED BY <2>1, SpawnsKept
<1>4. ASSUME Ask PROVE Spawns'
  <2>1. /\ LogGrows /\ worker' = worker
        /\ \A p \in Pos' : p \notin Pos => log'[p].kind # "spawn"
      BY <1>4, AskStep DEF Wrote
  <2> QED BY <2>1, SpawnsKept
<1>5. ASSUME Answer PROVE Spawns'
  <2>1. /\ LogGrows /\ worker' = worker
        /\ \A p \in Pos' : p \notin Pos => log'[p].kind # "spawn"
      BY <1>5, AnswerStep DEF Wrote
  <2> QED BY <2>1, SpawnsKept
<1>6. ASSUME NEW e \in Entities, Call(e) PROVE Spawns'
  <2>1. /\ LogGrows /\ worker' = worker
        /\ \A p \in Pos' : p \notin Pos => log'[p].kind # "spawn"
      BY <1>6, CallStep DEF Wrote
  <2> QED BY <2>1, SpawnsKept
<1>7. ASSUME NEW k \in Workers, NEW e \in Entities, Spawn(k, e) PROVE Spawns'
  <2>1. /\ LogGrows /\ Next1 \in Pos' /\ \A p \in Pos' : p \in Pos \/ p = Next1
        /\ log'[Next1].src = Officer /\ log'[Next1].kind = "spawn"
        /\ log'[Next1].about = {e} /\ Next1 \notin Pos
      BY <1>7, SpawnStep DEF Wrote
  <2>2. /\ worker'[k].entity = e /\ worker'[k].call = Next1
        /\ \A j \in Workers : j # k => worker'[j] = worker[j]
        /\ worker[k].entity = Nobody
      BY <1>7, SpawnStep
  <2>3. \A p \in Pos : p \in Pos' /\ log'[p] = log[p]
      BY <2>1 DEF LogGrows
  <2>4. ASSUME NEW p \in In(Officer)', log'[p].kind = "spawn"
        PROVE  \E j \in Workers : /\ worker'[j].call = p /\ worker'[j].entity \in Entities
                                  /\ log'[p].about = {worker'[j].entity}
    <3>1. CASE p = Next1
        BY <2>1, <2>2, <3>1
    <3>2. CASE p \in Pos
      <4>1. p \in In(Officer) /\ log'[p] = log[p]
          BY <2>3, <2>4, <3>2 DEF Work!In
      <4>2. PICK j \in Workers : /\ worker[j].call = p /\ worker[j].entity \in Entities
                                 /\ log[p].about = {worker[j].entity}
          BY <2>4, <4>1 DEF Spawns
      <4>3. worker'[j] = worker[j]
          BY <1>1, <2>2, <4>2
      <4> QED BY <4>1, <4>2, <4>3
    <3> QED BY <2>1, <2>4, <3>1, <3>2 DEF Work!In
  <2>5. ASSUME NEW j \in Workers, worker'[j].entity \in Entities
        PROVE  /\ worker'[j].call \in In(Officer)'
               /\ log'[worker'[j].call].kind = "spawn"
               /\ log'[worker'[j].call].about = {worker'[j].entity}
    <3>1. CASE j = k
        BY <2>1, <2>2, <3>1 DEF Work!In
    <3>2. CASE j # k
        BY <2>2, <2>3, <2>5, <3>2 DEF Work!In, Spawns
    <3> QED BY <3>1, <3>2
  <2>6. \A j \in Workers : worker'[j].entity = Nobody => worker'[j] = NoWorker
      BY <1>1, <2>2 DEF Spawns
  <2> QED BY <2>4, <2>5, <2>6 DEF Spawns, Work!NoWorker
<1>8. ASSUME NEW k \in Workers, OpenFile(k) PROVE Spawns'
  <2>1. /\ LogGrows
        /\ \A p \in Pos' : p \notin Pos => log'[p].kind \in {"session", "assignment"}
        /\ worker[k].entity \in Entities
        /\ worker'[k].entity = worker[k].entity /\ worker'[k].call = worker[k].call
        /\ \A j \in Workers : j # k => worker'[j] = worker[j]
      BY <1>8, OpenFileStep
  <2> QED BY <2>1, SpawnsKept
<1>9. ASSUME NEW k \in Workers, Confirm(k) PROVE Spawns'
  <2>1. /\ LogGrows
        /\ \A p \in Pos' : p \notin Pos => log'[p].kind # "spawn"
        /\ worker[k].entity \in Entities
        /\ worker'[k].entity = worker[k].entity /\ worker'[k].call = worker[k].call
        /\ \A j \in Workers : j # k => worker'[j] = worker[j]
      BY <1>9, ConfirmStep DEF Wrote
  <2> QED BY <2>1, SpawnsKept
<1>10. ASSUME NEW k \in Workers, WorkerTurn(k) PROVE Spawns'
  <2>1. /\ LogGrows
        /\ \A p \in Pos' : p \notin Pos => log'[p].kind # "spawn"
        /\ worker[k].entity \in Entities
        /\ worker'[k].entity = worker[k].entity /\ worker'[k].call = worker[k].call
        /\ \A j \in Workers : j # k => worker'[j] = worker[j]
      BY <1>10, WorkerTurnStep DEF Wrote
  <2> QED BY <2>1, SpawnsKept
<1>11. ASSUME NEW k \in Workers, WorkerCall(k) PROVE Spawns'
  <2>1. /\ LogGrows
        /\ \A p \in Pos' : p \notin Pos => log'[p].kind # "spawn"
        /\ worker[k].entity \in Entities
        /\ worker'[k].entity = worker[k].entity /\ worker'[k].call = worker[k].call
        /\ \A j \in Workers : j # k => worker'[j] = worker[j]
      BY <1>11, WorkerCallStep DEF Wrote
  <2> QED BY <2>1, SpawnsKept
<1>12. ASSUME NEW k \in Workers, WorkerDone(k) PROVE Spawns'
  <2>1. /\ LogGrows
        /\ \A p \in Pos' : p \notin Pos => log'[p].kind # "spawn"
        /\ worker[k].entity \in Entities
        /\ worker'[k].entity = worker[k].entity /\ worker'[k].call = worker[k].call
        /\ \A j \in Workers : j # k => worker'[j] = worker[j]
      BY <1>12, WorkerDoneStep DEF Wrote
  <2> QED BY <2>1, SpawnsKept
<1>13. ASSUME NEW k \in Workers, Interrupt(k) PROVE Spawns'
  <2>1. /\ LogGrows
        /\ \A p \in Pos' : p \notin Pos => log'[p].kind # "spawn"
        /\ worker[k].entity \in Entities
        /\ worker'[k].entity = worker[k].entity /\ worker'[k].call = worker[k].call
        /\ \A j \in Workers : j # k => worker'[j] = worker[j]
      BY <1>13, InterruptStep DEF Wrote
  <2> QED BY <2>1, SpawnsKept
<1>14. ASSUME NEW k \in Workers, WriteMeta(k) PROVE Spawns'
  <2>1. /\ LogGrows
        /\ \A p \in Pos' : p \notin Pos => log'[p].kind # "spawn"
        /\ worker[k].entity \in Entities
        /\ worker'[k].entity = worker[k].entity /\ worker'[k].call = worker[k].call
        /\ \A j \in Workers : j # k => worker'[j] = worker[j]
      BY <1>14, WriteMetaStep DEF Wrote
  <2> QED BY <2>1, SpawnsKept
<1>15. ASSUME NEW k \in Workers, WorkerSpeaks(k) PROVE Spawns'
  <2>1. /\ LogGrows
        /\ \A p \in Pos' : p \notin Pos => log'[p].kind # "spawn"
        /\ worker[k].entity \in Entities
        /\ worker'[k].entity = worker[k].entity /\ worker'[k].call = worker[k].call
        /\ \A j \in Workers : j # k => worker'[j] = worker[j]
      BY <1>15, WorkerSpeaksStep DEF Wrote
  <2> QED BY <2>1, SpawnsKept
<1>16. ASSUME NEW k \in Workers, WorkerMessage(k) PROVE Spawns'
  <2>1. /\ LogGrows
        /\ \A p \in Pos' : p \notin Pos => log'[p].kind # "spawn"
        /\ worker[k].entity \in Entities
        /\ worker'[k].entity = worker[k].entity /\ worker'[k].call = worker[k].call
        /\ \A j \in Workers : j # k => worker'[j] = worker[j]
      BY <1>16, WorkerMessageStep DEF Wrote
  <2> QED BY <2>1, SpawnsKept
<1>17. ASSUME NEW k \in Workers, GoIdle(k) PROVE Spawns'
  <2>1. /\ LogGrows
        /\ \A p \in Pos' : p \notin Pos => log'[p].kind # "spawn"
        /\ worker[k].entity \in Entities
        /\ worker'[k].entity = worker[k].entity /\ worker'[k].call = worker[k].call
        /\ \A j \in Workers : j # k => worker'[j] = worker[j]
      BY <1>17, GoIdleStep DEF Wrote
  <2> QED BY <2>1, SpawnsKept
<1> QED BY <1>2, <1>3, <1>4, <1>5, <1>6, <1>7, <1>8, <1>9, <1>10, <1>11, <1>12,
           <1>13, <1>14, <1>15, <1>16, <1>17
           DEF Work!Next, Work!Officers, Work!Agents

LEMMA QuestionsKept ==
    ASSUME LogGrows, Questions, fo'.ask = fo.ask,
           \A p \in Pos' : p \notin Pos => log'[p].kind \notin {"ask", "result"}
    PROVE  Questions'
<1>1. \A p \in Pos : p \in Pos' /\ log'[p] = log[p]
      BY DEF LogGrows
<1>2. \A p \in In(Officer)' : log'[p].kind \in {"ask", "result"} => p \in In(Officer)
      BY DEF Work!In, LogGrows
<1>3. \A p \in In(Officer) : p \in In(Officer)' /\ log'[p] = log[p]
      BY <1>1 DEF Work!In
<1> QED BY <1>2, <1>3 DEF Questions

LEMMA QuestionsStep ==
    ASSUME RecordsInv, Work!Next
    PROVE  Questions'
<1>1. AgentsType /\ Spawns /\ Questions
      BY DEF RecordsInv
<1>2. ASSUME StartTurn PROVE Questions'
  <2>1. /\ LogGrows /\ fo'.ask = fo.ask
        /\ \A p \in Pos' : p \notin Pos => log'[p].kind \notin {"ask", "result"}
      BY <1>2, <1>1, StartTurnStep DEF Wrote
  <2> QED BY <1>1, <2>1, QuestionsKept
<1>3. ASSUME EndTurn PROVE Questions'
  <2>1. /\ LogGrows /\ fo'.ask = fo.ask
        /\ \A p \in Pos' : p \notin Pos => log'[p].kind \notin {"ask", "result"}
      BY <1>3, <1>1, EndTurnStep DEF Wrote
  <2> QED BY <1>1, <2>1, QuestionsKept
<1>4. ASSUME Ask PROVE Questions'
  <2>1. /\ LogGrows /\ Next1 \in Pos' /\ \A p \in Pos' : p \in Pos \/ p = Next1
        /\ log'[Next1].src = Officer /\ log'[Next1].kind = "ask" /\ fo'.ask = Next1
        /\ \A p \in Pos : p < Next1
        /\ Next1 \notin Pos /\ fo.ask = 0
      BY <1>4, <1>1, AskStep DEF Wrote
  <2>2. \A p \in Pos : p \in Pos' /\ log'[p] = log[p]
      BY <2>1 DEF LogGrows
  <2>3. \A p \in In(Officer) : p \in In(Officer)' /\ log'[p] = log[p] /\ p < Next1
      BY <2>1, <2>2 DEF Work!In
  <2>4. \A p \in In(Officer)' : p = Next1 \/ (p \in In(Officer) /\ log'[p] = log[p])
      BY <2>1, <2>2 DEF Work!In
  <2>5. \A p \in In(Officer) : 0 \notin Pos
      BY <1>1 DEF AgentsType, Work!Pos
  <2>6. \A q \in In(Officer) : log[q].id \in Nat /\ q \in Nat
      BY <1>1, Typed, Positions DEF Work!In
  <2>7. \A q \in In(Officer) : log[q].kind = "result" => log[q].id < q /\ log[q].id \in Nat
                                                        /\ q \in Nat
      BY <2>6 DEF RecordsInv, OfficerRecords
  <2>8. Next1 \in In(Officer)' /\ Next1 \in Nat
      BY <2>1, <1>1 DEF Work!In, AgentsType, Work!Next1
  <2>9. \A q \in In(Officer)' : log'[q].kind = "result" => log'[q].id # Next1
      BY <2>1, <2>3, <2>4, <2>7, <2>8
  <2>10. \A p \in In(Officer)' : log'[p].kind = "ask" =>
            \/ p = fo'.ask
            \/ \E q \in In(Officer)' : /\ q > p /\ log'[q].kind = "result"
                                       /\ log'[q].id = p
    <3>1. \A p \in In(Officer) : p # 0
        BY <1>1 DEF AgentsType, Work!Pos, Work!In
    <3> QED BY <1>1, <2>1, <2>3, <2>4, <3>1 DEF Questions
  <2> QED BY <2>1, <2>8, <2>9, <2>10 DEF Questions
<1>5. ASSUME Answer PROVE Questions'
  <2>1. /\ LogGrows /\ Next1 \in Pos' /\ \A p \in Pos' : p \in Pos \/ p = Next1
        /\ log'[Next1].src = Officer /\ log'[Next1].kind = "result"
        /\ log'[Next1].id = fo.ask /\ fo'.ask = 0
        /\ \A p \in Pos : p < Next1
        /\ Next1 \notin Pos
      BY <1>5, <1>1, AnswerStep DEF Wrote
  <2>2. \A p \in Pos : p \in Pos' /\ log'[p] = log[p]
      BY <2>1 DEF LogGrows
  <2>3. \A p \in In(Officer) : p \in In(Officer)' /\ log'[p] = log[p] /\ Next1 > p
    <3>1. \A p \in Pos : p \in Nat /\ Next1 \in Nat
        BY <1>1 DEF AgentsType, Work!Pos, Work!Next1
    <3> QED BY <2>1, <2>2, <3>1 DEF Work!In
  <2>4. \A p \in In(Officer)' : p = Next1 \/ (p \in In(Officer) /\ log'[p] = log[p])
      BY <2>1, <2>2 DEF Work!In
  <2>5. Next1 \in In(Officer)'
      BY <2>1 DEF Work!In
  <2> QED BY <1>1, <2>1, <2>3, <2>4, <2>5 DEF Questions
<1>6. ASSUME NEW e \in Entities, Call(e) PROVE Questions'
  <2>1. /\ LogGrows /\ fo'.ask = fo.ask
        /\ \A p \in Pos' : p \notin Pos => log'[p].kind \notin {"ask", "result"}
      BY <1>6, <1>1, CallStep DEF Wrote
  <2> QED BY <1>1, <2>1, QuestionsKept
<1>7. ASSUME NEW k \in Workers, NEW e \in Entities, Spawn(k, e) PROVE Questions'
  <2>1. /\ LogGrows /\ fo'.ask = fo.ask
        /\ \A p \in Pos' : p \notin Pos => log'[p].kind \notin {"ask", "result"}
      BY <1>7, <1>1, SpawnStep DEF Wrote
  <2> QED BY <1>1, <2>1, QuestionsKept
<1>8. ASSUME NEW k \in Workers, OpenFile(k) PROVE Questions'
  <2>1. /\ LogGrows /\ fo' = fo
        /\ \A p \in Pos' : p \notin Pos => log'[p].kind \in {"session", "assignment"}
      BY <1>8, <1>1, OpenFileStep
  <2> QED BY <1>1, <2>1, QuestionsKept
<1>9. ASSUME NEW k \in Workers, Confirm(k) PROVE Questions'
  <2>1. /\ LogGrows /\ fo'.ask = fo.ask
        /\ \A p \in Pos' : p \notin Pos => log'[p].kind \notin {"ask", "result"}
      BY <1>9, <1>1, ConfirmStep DEF Wrote
  <2> QED BY <1>1, <2>1, QuestionsKept
<1>10. ASSUME NEW k \in Workers, WorkerTurn(k) PROVE Questions'
  <2>1. /\ LogGrows /\ fo'.ask = fo.ask
        /\ \A p \in Pos' : p \notin Pos => log'[p].kind \notin {"ask", "result"}
      BY <1>10, <1>1, WorkerTurnStep DEF Wrote
  <2> QED BY <1>1, <2>1, QuestionsKept
<1>11. ASSUME NEW k \in Workers, WorkerCall(k) PROVE Questions'
  <2>1. /\ LogGrows /\ fo'.ask = fo.ask
        /\ \A p \in Pos' : p \notin Pos => log'[p].kind \notin {"ask", "result"}
      BY <1>11, <1>1, WorkerCallStep DEF Wrote
  <2> QED BY <1>1, <2>1, QuestionsKept
<1>12. ASSUME NEW k \in Workers, WorkerDone(k) PROVE Questions'
  <2>1. /\ LogGrows /\ fo'.ask = fo.ask
        /\ \A p \in Pos' : p \notin Pos => log'[p].kind \notin {"ask", "result"}
      BY <1>12, <1>1, WorkerDoneStep DEF Wrote
  <2> QED BY <1>1, <2>1, QuestionsKept
<1>13. ASSUME NEW k \in Workers, Interrupt(k) PROVE Questions'
  <2>1. /\ LogGrows /\ fo'.ask = fo.ask
        /\ \A p \in Pos' : p \notin Pos => log'[p].kind \notin {"ask", "result"}
      BY <1>13, <1>1, InterruptStep DEF Wrote
  <2> QED BY <1>1, <2>1, QuestionsKept
<1>14. ASSUME NEW k \in Workers, WriteMeta(k) PROVE Questions'
  <2>1. /\ LogGrows /\ fo'.ask = fo.ask
        /\ \A p \in Pos' : p \notin Pos => log'[p].kind \notin {"ask", "result"}
      BY <1>14, <1>1, WriteMetaStep DEF Wrote
  <2> QED BY <1>1, <2>1, QuestionsKept
<1>15. ASSUME NEW k \in Workers, WorkerSpeaks(k) PROVE Questions'
  <2>1. /\ LogGrows /\ fo'.ask = fo.ask
        /\ \A p \in Pos' : p \notin Pos => log'[p].kind \notin {"ask", "result"}
      BY <1>15, <1>1, WorkerSpeaksStep DEF Wrote
  <2> QED BY <1>1, <2>1, QuestionsKept
<1>16. ASSUME NEW k \in Workers, WorkerMessage(k) PROVE Questions'
  <2>1. /\ LogGrows /\ fo'.ask = fo.ask
        /\ \A p \in Pos' : p \notin Pos => log'[p].kind \notin {"ask", "result"}
      BY <1>16, <1>1, WorkerMessageStep DEF Wrote
  <2> QED BY <1>1, <2>1, QuestionsKept
<1>17. ASSUME NEW k \in Workers, GoIdle(k) PROVE Questions'
  <2>1. /\ LogGrows /\ fo'.ask = fo.ask
        /\ \A p \in Pos' : p \notin Pos => log'[p].kind \notin {"ask", "result"}
      BY <1>17, <1>1, GoIdleStep DEF Wrote
  <2> QED BY <1>1, <2>1, QuestionsKept
<1> QED BY <1>2, <1>3, <1>4, <1>5, <1>6, <1>7, <1>8, <1>9, <1>10, <1>11, <1>12,
           <1>13, <1>14, <1>15, <1>16, <1>17
           DEF Work!Next, Work!Officers, Work!Agents

LEMMA RecordsStep ==
    ASSUME RecordsInv, runtime = "codex" => CodexTurns, Work!Next
    PROVE  RecordsInv'
<1>1. AgentsType /\ Spawns
      BY DEF RecordsInv
<1> QED BY <1>1, StepSteady, OfficerRecordsStep, WorkerRecordsStep, SpawnsStep,
           QuestionsStep DEF RecordsInv

----------------------------------------------------------------------------
(* Codex: turns *)

\* Of an old record, what file it is in and what it says stay.
LEMMA Old ==
    ASSUME LogGrows, NEW p \in Pos
    PROVE  /\ p \in Pos' /\ log'[p] = log[p]
           /\ \A s : p \in In(s)' <=> p \in In(s)
BY DEF LogGrows, Work!In

LEMMA TurnOpenKept ==
    ASSUME LogGrows, NEW s, NEW t, TurnOpen(s, t),
           \A p \in Pos' : p \notin Pos /\ log'[p].src = s
                           => log'[p].kind \notin {"task_started", "task_complete"}
    PROVE  TurnOpen(s, t)'
<1>1. t \in Pos
      BY DEF TurnOpen, Work!In
<1>2. t \in In(s)' /\ log'[t].kind = "task_started"
      BY <1>1, Old DEF TurnOpen
<1>3. ASSUME NEW q \in In(s)'
      PROVE  /\ log'[q].kind = "task_started" => q <= t
             /\ log'[q].kind = "task_complete" => q < t
  <2>1. CASE q \in Pos
      BY <2>1, Old DEF TurnOpen
  <2>2. CASE q \notin Pos
      BY <2>2 DEF Work!In
  <2> QED BY <2>1, <2>2
<1> QED BY <1>2, <1>3 DEF TurnOpen

LEMMA TurnOpenNew ==
    ASSUME AgentsType, LogGrows, NEW s, NEW n \in Pos', n \in Nat, n \notin Pos,
           \A p \in Pos' : p \in Pos \/ p = n,
           log'[n].src = s, log'[n].kind = "task_started"
    PROVE  TurnOpen(s, n)'
<1>1. \A p \in Pos : p < n /\ p \in Nat
      BY Positions DEF LogGrows
<1> QED BY <1>1 DEF TurnOpen, Work!In

\* The record that is written in an open turn.
LEMMA NewOpenTurn ==
    ASSUME AgentsType, LogGrows, NEW s, NEW t, TurnOpen(s, t),
           log[t].id = t, NEW n \in Pos', n \notin Pos, log'[n].src = s,
           \A p \in Pos' : p \in Pos \/ p = n
    PROVE  OpenTurn(n)' = t
<1> DEFINE starts == {q \in In(log[n].src) : q < n /\ log[q].kind = "task_started"}
<1>1. t \in Pos /\ t \in In(s) /\ log[t].kind = "task_started"
      BY DEF TurnOpen, Work!In
<1>2. \A q \in In(s)' : q < n => q \in In(s) /\ log'[q] = log[q] /\ q \in Nat
  <2>1. SUFFICES ASSUME NEW q \in In(s)', q < n
                 PROVE  q \in In(s) /\ log'[q] = log[q] /\ q \in Nat
        OBVIOUS
  <2>2. n \in Nat
      BY DEF LogGrows
  <2>3. q \in Pos
      BY <2>1, <2>2 DEF Work!In
  <2> QED BY <2>3, Old, Positions
<1>3. t \in starts'
  <2>1. t < n /\ t \in In(s)' /\ log'[t].kind = "task_started"
      BY <1>1, Old DEF LogGrows
  <2> QED BY <2>1
<1>4. \A q \in starts' : q <= t /\ q \in Nat
      BY <1>2 DEF TurnOpen
<1>5. Max(starts') = t
  <2> DEFINE S == starts'
  <2>1. S \in SUBSET Nat /\ t \in S /\ \A q \in S : q <= t
      BY <1>3, <1>4
  <2> HIDE DEF S
  <2>2. Max(S) = t
      BY <2>1, MaxIs
  <2> QED BY <2>2 DEF S
<1>6. ~\E r \in In(s)' : /\ t < r /\ r < n
                         /\ log'[r].kind = "task_complete" /\ log'[r].id = log'[t].id
  <2>1. SUFFICES ASSUME NEW r \in In(s)', t < r, r < n, log'[r].kind = "task_complete"
                 PROVE  FALSE
        OBVIOUS
  <2>2. r \in In(s) /\ log[r].kind = "task_complete" /\ r \in Nat
      BY <1>2, <2>1
  <2>3. r < t /\ t \in Nat
      BY <1>1, <2>2, Positions DEF TurnOpen
  <2> QED BY <2>1, <2>2, <2>3
<1>7. log'[t].id = t
      BY <1>1, Old
<1> QED BY <1>3, <1>5, <1>6, <1>7, SameSets DEF Work!OpenTurn

\* Records that stop a worker's turns stay what they are.
LEMMA StopsKept ==
    ASSUME AgentsType, LogGrows, NEW k, NEW p \in Pos
    PROVE  p \in Stops(k)' <=> p \in Stops(k)
BY Old, OpenTurnKept DEF Stops

LEMMA BusyTurnKept ==
    ASSUME AgentsType, LogGrows, NEW k \in Workers, BusyTurn(k),
           worker'[k].busy = worker[k].busy,
           worker[k].busy => worker'[k].turn = worker[k].turn,
           worker[k].opened => worker'[k].opened,
           \A p \in Pos' : p \notin Pos =>
              /\ log'[p].src = k => log'[p].kind \notin {"task_started", "task_complete"}
              /\ log'[p].kind = "interrupted" => log'[p].agent # k
    PROVE  BusyTurn(k)'
<1>1. \A q \in Stops(k)' : q \in Pos
      BY DEF Stops, Work!In
<1>2. \A q \in Stops(k)' : q \in Stops(k)
      BY <1>1, StopsKept
<1>3. \A q \in Stops(k) : q \in Stops(k)'
  <2>1. \A q \in Stops(k) : q \in Pos
      BY DEF Stops, Work!In
  <2> QED BY <2>1, StopsKept
<1>4. \A p \in In(k)' : log'[p].kind = "task_started"
                        => p \in In(k) /\ log[p].kind = "task_started"
      BY DEF Work!In, LogGrows
<1>5. CASE worker[k].busy
  <2>1. PICK t : t = worker[k].turn
      OBVIOUS
  <2>2. TurnOpen(k, t)
      BY <1>5, <2>1 DEF BusyTurn
  <2>3. TurnOpen(k, t)'
      BY <2>2, TurnOpenKept
  <2>4. \A q \in Stops(k)' : q < t
      BY <1>2, <1>5, <2>1 DEF BusyTurn
  <2>5. t = worker'[k].turn /\ worker'[k].opened /\ worker'[k].busy
      BY <1>5, <2>1 DEF BusyTurn
  <2> QED BY <2>3, <2>4, <2>5 DEF BusyTurn
<1>6. CASE ~worker[k].busy
      BY <1>3, <1>4, <1>6 DEF BusyTurn
<1> QED BY <1>5, <1>6

LEMMA OfficerTurnKept ==
    ASSUME LogGrows, CodexTurns, fo'.turn = fo.turn,
           \A p \in Pos' : p \notin Pos /\ log'[p].src = Officer
                           => log'[p].kind \notin {"task_started", "task_complete"}
    PROVE  (fo.turn # 0 => TurnOpen(Officer, fo.turn))'
<1>1. PICK t : t = fo.turn
      OBVIOUS
<1>2. t # 0 => TurnOpen(Officer, t)
      BY <1>1 DEF CodexTurns
<1>3. t # 0 => TurnOpen(Officer, t)'
      BY <1>2, TurnOpenKept
<1> QED BY <1>1, <1>3

\* No file gets a turn's start or end, or an interruption.
LEMMA CodexTurnsKept ==
    ASSUME AgentsType, LogGrows, CodexTurns, fo'.turn = fo.turn,
           \A p \in Pos' : p \notin Pos =>
              log'[p].kind \notin {"task_started", "task_complete", "interrupted"},
           \A k \in Workers : /\ worker'[k].busy = worker[k].busy
                              /\ worker[k].busy => worker'[k].turn = worker[k].turn
                              /\ worker[k].opened => worker'[k].opened
    PROVE  CodexTurns'
<1>1. (fo.turn # 0 => TurnOpen(Officer, fo.turn))'
      BY OfficerTurnKept
<1>2. ASSUME NEW k \in Workers PROVE BusyTurn(k)'
      BY BusyTurnKept DEF CodexTurns
<1> QED BY <1>1, <1>2 DEF CodexTurns

LEMMA CodexTurnsStep ==
    ASSUME RecordsInv, runtime = "codex", CodexTurns, Work!Next
    PROVE  CodexTurns'
<1>1. AgentsType /\ Spawns /\ runtime # "claude"
      BY DEF RecordsInv
<1>2. \A k \in Workers : k # Officer
      BY MCActivityConstants, SameSets DEF Work!ActivityConstants, Work!Officer
<1>3. ASSUME StartTurn PROVE CodexTurns'
  <2>1. /\ LogGrows /\ Next1 \in Pos' /\ Next1 \notin Pos /\ Next1 \in Nat
        /\ \A p \in Pos' : p \in Pos \/ p = Next1
        /\ \A p \in Pos : p < Next1
        /\ log'[Next1].src = Officer /\ log'[Next1].kind = "task_started"
        /\ fo'.turn = Next1 /\ worker' = worker
      BY <1>3, <1>1, StartTurnStep DEF Wrote
  <2>2. PICK n : n = Next1
      OBVIOUS
  <2>3. TurnOpen(Officer, n)'
      BY <1>1, <2>1, <2>2, TurnOpenNew
  <2>4. ASSUME NEW k \in Workers PROVE BusyTurn(k)'
      BY <1>1, <1>2, <2>1, BusyTurnKept DEF CodexTurns
  <2> QED BY <2>1, <2>2, <2>3, <2>4 DEF CodexTurns
<1>4. ASSUME EndTurn PROVE CodexTurns'
  <2>1. /\ LogGrows /\ Next1 \in Pos' /\ Next1 \notin Pos /\ Next1 \in Nat
        /\ \A p \in Pos' : p \in Pos \/ p = Next1
        /\ \A p \in Pos : p < Next1
        /\ log'[Next1].src = Officer /\ log'[Next1].kind = "task_complete"
        /\ fo'.turn = 0 /\ worker' = worker
      BY <1>4, <1>1, EndTurnStep DEF Wrote
  <2>2. ASSUME NEW k \in Workers PROVE BusyTurn(k)'
      BY <1>1, <1>2, <2>1, BusyTurnKept DEF CodexTurns
  <2> QED BY <2>1, <2>2 DEF CodexTurns
<1>5. ASSUME Ask PROVE CodexTurns'
  <2>1. /\ LogGrows
        /\ \A p \in Pos' : p \notin Pos =>
              log'[p].kind \notin {"task_started", "task_complete", "interrupted"}
      BY <1>5, <1>1, AskStep DEF Wrote
  <2>2. /\ fo'.turn = fo.turn
        /\ \A k \in Workers : /\ worker'[k].busy = worker[k].busy
                              /\ worker[k].busy => worker'[k].turn = worker[k].turn
                              /\ worker[k].opened => worker'[k].opened
      BY <1>5, <1>1, AskStep
  <2> QED BY <1>1, <2>1, <2>2, CodexTurnsKept
<1>6. ASSUME Answer PROVE CodexTurns'
  <2>1. /\ LogGrows
        /\ \A p \in Pos' : p \notin Pos =>
              log'[p].kind \notin {"task_started", "task_complete", "interrupted"}
      BY <1>6, <1>1, AnswerStep DEF Wrote
  <2>2. /\ fo'.turn = fo.turn
        /\ \A k \in Workers : /\ worker'[k].busy = worker[k].busy
                              /\ worker[k].busy => worker'[k].turn = worker[k].turn
                              /\ worker[k].opened => worker'[k].opened
      BY <1>6, <1>1, AnswerStep
  <2> QED BY <1>1, <2>1, <2>2, CodexTurnsKept
<1>7. ASSUME NEW e \in Entities, Call(e) PROVE CodexTurns'
  <2>1. /\ LogGrows
        /\ \A p \in Pos' : p \notin Pos =>
              log'[p].kind \notin {"task_started", "task_complete", "interrupted"}
      BY <1>7, <1>1, CallStep DEF Wrote
  <2>2. /\ fo'.turn = fo.turn
        /\ \A k \in Workers : /\ worker'[k].busy = worker[k].busy
                              /\ worker[k].busy => worker'[k].turn = worker[k].turn
                              /\ worker[k].opened => worker'[k].opened
      BY <1>7, <1>1, CallStep
  <2> QED BY <1>1, <2>1, <2>2, CodexTurnsKept
<1>8. ASSUME NEW k \in Workers, NEW e \in Entities, Spawn(k, e) PROVE CodexTurns'
  <2>1. /\ LogGrows
        /\ \A p \in Pos' : p \notin Pos =>
              log'[p].kind \notin {"task_started", "task_complete", "interrupted"}
      BY <1>8, <1>1, SpawnStep DEF Wrote
  <2>2. /\ fo'.turn = fo.turn
        /\ \A j \in Workers : /\ worker'[j].busy = worker[j].busy
                              /\ worker[j].busy => worker'[j].turn = worker[j].turn
                              /\ worker[j].opened => worker'[j].opened
      BY <1>8, <1>1, SpawnStep
  <2> QED BY <1>1, <2>1, <2>2, CodexTurnsKept
<1>9. ASSUME NEW k \in Workers, OpenFile(k) PROVE CodexTurns'
  <2>1. /\ LogGrows
        /\ \A p \in Pos' : p \notin Pos =>
              log'[p].kind \notin {"task_started", "task_complete", "interrupted"}
      BY <1>9, <1>1, OpenFileStep
  <2>2. /\ fo'.turn = fo.turn
        /\ \A j \in Workers : /\ worker'[j].busy = worker[j].busy
                              /\ worker[j].busy => worker'[j].turn = worker[j].turn
                              /\ worker[j].opened => worker'[j].opened
      BY ZenonT(60), <1>9, <1>1, OpenFileStep
  <2> QED BY <1>1, <2>1, <2>2, CodexTurnsKept
<1>10. ASSUME NEW k \in Workers, Confirm(k) PROVE CodexTurns'
  <2>1. /\ LogGrows
        /\ \A p \in Pos' : p \notin Pos =>
              log'[p].kind \notin {"task_started", "task_complete", "interrupted"}
      BY <1>10, <1>1, ConfirmStep DEF Wrote
  <2>2. /\ fo'.turn = fo.turn
        /\ \A j \in Workers : /\ worker'[j].busy = worker[j].busy
                              /\ worker[j].busy => worker'[j].turn = worker[j].turn
                              /\ worker[j].opened => worker'[j].opened
      BY <1>10, <1>1, ConfirmStep
  <2> QED BY <1>1, <2>1, <2>2, CodexTurnsKept
<1>11. ASSUME NEW k \in Workers, WorkerTurn(k) PROVE CodexTurns'
  <2>1. /\ LogGrows /\ Next1 \in Pos' /\ Next1 \notin Pos /\ Next1 \in Nat
        /\ \A p \in Pos' : p \in Pos \/ p = Next1
        /\ \A p \in Pos : p < Next1
        /\ log'[Next1].src = k /\ log'[Next1].kind = "task_started"
      BY <1>11, <1>1, WorkerTurnStep DEF Wrote
  <2>2. /\ fo' = fo /\ worker[k].opened
        /\ worker'[k].opened = worker[k].opened
        /\ worker'[k].turn = Next1 /\ worker'[k].busy
        /\ \A j \in Workers : j # k => worker'[j] = worker[j]
      BY <1>11, <1>1, WorkerTurnStep
  <2>3. PICK n : n = Next1
      OBVIOUS
  <2>4. TurnOpen(k, n)'
      BY <1>1, <2>1, <2>3, TurnOpenNew
  <2>5. (fo.turn # 0 => TurnOpen(Officer, fo.turn))'
      BY <1>2, <2>1, <2>2, OfficerTurnKept
  <2>6. ASSUME NEW j \in Workers, j # k PROVE BusyTurn(j)'
      BY <1>1, <2>1, <2>2, <2>6, BusyTurnKept DEF CodexTurns
  <2>7. \A q \in Stops(k)' : q < n
      BY <2>1, <2>3 DEF Stops, Work!In
  <2>8. BusyTurn(k)'
      BY <2>2, <2>3, <2>4, <2>7 DEF BusyTurn
  <2> QED BY <2>5, <2>6, <2>8 DEF CodexTurns
<1>12. ASSUME NEW k \in Workers, WorkerCall(k) PROVE CodexTurns'
  <2>1. /\ LogGrows
        /\ \A p \in Pos' : p \notin Pos =>
              log'[p].kind \notin {"task_started", "task_complete", "interrupted"}
      BY <1>12, <1>1, WorkerCallStep DEF Wrote
  <2>2. /\ fo'.turn = fo.turn
        /\ \A j \in Workers : /\ worker'[j].busy = worker[j].busy
                              /\ worker[j].busy => worker'[j].turn = worker[j].turn
                              /\ worker[j].opened => worker'[j].opened
      BY <1>12, <1>1, WorkerCallStep
  <2> QED BY <1>1, <2>1, <2>2, CodexTurnsKept
<1>13. ASSUME NEW k \in Workers, WorkerDone(k) PROVE CodexTurns'
  <2>1. /\ LogGrows /\ Next1 \in Pos' /\ Next1 \notin Pos /\ Next1 \in Nat
        /\ \A p \in Pos' : p \in Pos \/ p = Next1
        /\ \A p \in Pos : p < Next1
        /\ log'[Next1].src = k /\ log'[Next1].kind = "task_complete"
        /\ log'[Next1].id = worker[k].turn
      BY <1>13, <1>1, WorkerDoneStep DEF Wrote
  <2>2. /\ fo' = fo /\ worker[k].busy /\ ~worker'[k].busy
        /\ \A j \in Workers : j # k => worker'[j] = worker[j]
      BY <1>13, <1>1, WorkerDoneStep
  <2>3. PICK t : t = worker[k].turn
      OBVIOUS
  <2>4. TurnOpen(k, t)
      BY <2>2, <2>3 DEF CodexTurns, BusyTurn
  <2>5. log[t].id = t
      BY <1>2, <2>4 DEF TurnOpen, Work!In, RecordsInv, WorkerRecords
  <2>6. PICK n : n = Next1
      OBVIOUS
  <2>7. OpenTurn(n)' = t
      BY <1>1, <2>1, <2>4, <2>5, <2>6, NewOpenTurn
  <2>8. n \in Stops(k)'
      BY <2>1, <2>3, <2>6, <2>7 DEF Stops, Work!In
  <2>9. \A p \in In(k)' : log'[p].kind = "task_started" => n > p
    <3>1. \A p \in Pos : n > p
        BY <1>1, <2>6, Positions
    <3> QED BY <2>1, <2>6, <3>1 DEF Work!In
  <2>10. BusyTurn(k)'
      BY <2>2, <2>8, <2>9 DEF BusyTurn
  <2>11. (fo.turn # 0 => TurnOpen(Officer, fo.turn))'
      BY <1>2, <2>1, <2>2, OfficerTurnKept
  <2>12. ASSUME NEW j \in Workers, j # k PROVE BusyTurn(j)'
      BY <1>1, <2>1, <2>2, <2>12, BusyTurnKept DEF CodexTurns
  <2> QED BY <2>10, <2>11, <2>12 DEF CodexTurns
<1>14. ASSUME NEW k \in Workers, Interrupt(k) PROVE CodexTurns'
  <2>1. /\ LogGrows /\ Next1 \in Pos' /\ Next1 \notin Pos /\ Next1 \in Nat
        /\ \A p \in Pos' : p \in Pos \/ p = Next1
        /\ \A p \in Pos : p < Next1
        /\ log'[Next1].src = Officer /\ log'[Next1].kind = "interrupted"
        /\ log'[Next1].agent = k
      BY <1>14, <1>1, InterruptStep DEF Wrote
  <2>2. /\ fo' = fo /\ worker[k].busy /\ ~worker'[k].busy
        /\ \A j \in Workers : j # k => worker'[j] = worker[j]
      BY <1>14, <1>1, InterruptStep
  <2>3. PICK n : n = Next1
      OBVIOUS
  <2>4. n \in Stops(k)'
      BY <2>1, <2>3 DEF Stops
  <2>5. \A p \in In(k)' : log'[p].kind = "task_started" => n > p
    <3>1. \A p \in Pos : n > p
        BY <1>1, <2>3, Positions
    <3> QED BY <2>1, <2>3, <3>1 DEF Work!In
  <2>6. BusyTurn(k)'
      BY <2>2, <2>4, <2>5 DEF BusyTurn
  <2>7. (fo.turn # 0 => TurnOpen(Officer, fo.turn))'
      BY <1>2, <2>1, <2>2, OfficerTurnKept
  <2>8. ASSUME NEW j \in Workers, j # k PROVE BusyTurn(j)'
      BY <1>1, <1>2, <2>1, <2>2, <2>8, BusyTurnKept DEF CodexTurns
  <2> QED BY <2>6, <2>7, <2>8 DEF CodexTurns
<1>15. ASSUME NEW k \in Workers, WriteMeta(k) PROVE CodexTurns'
      BY <1>15, <1>1, WriteMetaStep
<1>16. ASSUME NEW k \in Workers, WorkerSpeaks(k) PROVE CodexTurns'
      BY <1>16, <1>1, WorkerSpeaksStep
<1>17. ASSUME NEW k \in Workers, WorkerMessage(k) PROVE CodexTurns'
      BY <1>17, <1>1, WorkerMessageStep
<1>18. ASSUME NEW k \in Workers, GoIdle(k) PROVE CodexTurns'
      BY <1>18, <1>1, GoIdleStep
<1> QED BY <1>3, <1>4, <1>5, <1>6, <1>7, <1>8, <1>9, <1>10, <1>11, <1>12, <1>13,
           <1>14, <1>15, <1>16, <1>17, <1>18
           DEF Work!Next, Work!Officers, Work!Agents

----------------------------------------------------------------------------
(* Codex: files and scopes *)

LEMMA CodexFilesKept ==
    ASSUME LogGrows, CodexFiles,
           \A k \in Workers : worker'[k].opened =>
              \/ worker[k].opened /\ worker'[k].entity = worker[k].entity
              \/ \E p \in In(k)' : /\ log'[p].kind = "session"
                                   /\ log'[p].from = worker'[k].entity,
           \A k \in Workers : worker'[k].known =>
              \/ worker[k].known /\ worker'[k].entity = worker[k].entity
              \/ \E p \in In(Officer)' : log'[p].kind = "started" /\ log'[p].agent = k
              \/ \E p \in In(k)' : /\ log'[p].kind = "assignment"
                                   /\ worker'[k].entity \in log'[p].about,
           \A k \in Workers : worker[k].known => worker'[k].known,
           \A p \in Pos' : p \notin Pos /\ log'[p].kind = "started" =>
              log'[p].agent \in Workers /\ worker'[log'[p].agent].known
    PROVE  CodexFiles'
<1>1. \A s : \A p \in In(s) : p \in In(s)' /\ log'[p] = log[p]
      BY Old DEF Work!In
<1>2. \A s : \A p \in In(s)' : p \in In(s) \/ (p \in Pos' /\ p \notin Pos)
      BY Old DEF Work!In
<1>3. \E p \in In(Officer)' : log'[p].kind = "session"
      BY <1>1 DEF CodexFiles
<1>4. ASSUME NEW k \in Workers, worker'[k].opened
      PROVE  \E p \in In(k)' : log'[p].kind = "session" /\ log'[p].from = worker'[k].entity
  <2>1. CASE worker[k].opened /\ worker'[k].entity = worker[k].entity
    <3>1. PICK p \in In(k) : log[p].kind = "session" /\ log[p].from = worker[k].entity
          BY <2>1 DEF CodexFiles
    <3> QED BY <1>1, <2>1, <3>1
  <2> QED BY <1>4, <2>1
<1>5. ASSUME NEW k \in Workers, worker'[k].known
      PROVE  \/ \E p \in In(Officer)' : log'[p].kind = "started" /\ log'[p].agent = k
             \/ \E p \in In(k)' : /\ log'[p].kind = "assignment"
                                  /\ worker'[k].entity \in log'[p].about
  <2>1. CASE worker[k].known /\ worker'[k].entity = worker[k].entity
      BY <1>1, <2>1 DEF CodexFiles, Work!Confirmed
  <2> QED BY <1>5, <2>1
<1>6. ASSUME NEW p \in In(Officer)', log'[p].kind = "started"
      PROVE  log'[p].agent \in Workers /\ worker'[log'[p].agent].known
  <2>1. CASE p \in In(Officer)
      BY <1>1, <1>6, <2>1 DEF CodexFiles
  <2> QED BY <1>2, <1>6, <2>1
<1> QED BY <1>3, <1>4, <1>5, <1>6 DEF CodexFiles, Work!Confirmed

LEMMA CodexFilesStep ==
    ASSUME RecordsInv, runtime = "codex", CodexFiles, Work!Next
    PROVE  CodexFiles'
<1>1. AgentsType /\ Spawns /\ runtime # "claude"
      BY DEF RecordsInv
<1>2. \A k \in Workers : k # Officer
      BY MCActivityConstants, SameSets DEF Work!ActivityConstants, Work!Officer
<1>3. ASSUME StartTurn PROVE CodexFiles'
  <2>1. /\ LogGrows /\ worker' = worker
        /\ \A p \in Pos' : p \notin Pos => log'[p].kind # "started"
      BY <1>3, <1>1, StartTurnStep DEF Wrote
  <2> QED BY <2>1, CodexFilesKept
<1>4. ASSUME EndTurn PROVE CodexFiles'
  <2>1. /\ LogGrows /\ worker' = worker
        /\ \A p \in Pos' : p \notin Pos => log'[p].kind # "started"
      BY <1>4, <1>1, EndTurnStep DEF Wrote
  <2> QED BY <2>1, CodexFilesKept
<1>5. ASSUME Ask PROVE CodexFiles'
  <2>1. /\ LogGrows /\ worker' = worker
        /\ \A p \in Pos' : p \notin Pos => log'[p].kind # "started"
      BY <1>5, <1>1, AskStep DEF Wrote
  <2> QED BY <2>1, CodexFilesKept
<1>6. ASSUME Answer PROVE CodexFiles'
  <2>1. /\ LogGrows /\ worker' = worker
        /\ \A p \in Pos' : p \notin Pos => log'[p].kind # "started"
      BY <1>6, <1>1, AnswerStep DEF Wrote
  <2> QED BY <2>1, CodexFilesKept
<1>7. ASSUME NEW e \in Entities, Call(e) PROVE CodexFiles'
  <2>1. /\ LogGrows /\ worker' = worker
        /\ \A p \in Pos' : p \notin Pos => log'[p].kind # "started"
      BY <1>7, <1>1, CallStep DEF Wrote
  <2> QED BY <2>1, CodexFilesKept
<1>8. ASSUME NEW k \in Workers, NEW e \in Entities, Spawn(k, e) PROVE CodexFiles'
  <2>1. /\ LogGrows
        /\ \A p \in Pos' : p \notin Pos => log'[p].kind # "started"
      BY <1>8, <1>1, SpawnStep DEF Wrote
  <2>2. /\ worker'[k].opened = FALSE /\ worker'[k].known = FALSE
        /\ worker[k].known = FALSE
        /\ \A j \in Workers : j # k => worker'[j] = worker[j]
      BY <1>8, <1>1, SpawnStep
  <2> QED BY <2>1, <2>2, CodexFilesKept
<1>9. ASSUME NEW k \in Workers, OpenFile(k) PROVE CodexFiles'
  <2>1. /\ LogGrows
        /\ \E p \in Pos' : /\ p \notin Pos /\ log'[p].src = k
                          /\ log'[p].kind = "session" /\ log'[p].from = worker[k].entity
        /\ \A p \in Pos' : p \notin Pos => log'[p].kind \in {"session", "assignment"}
      BY <1>9, <1>1, OpenFileStep
  <2>2. /\ worker'[k].entity = worker[k].entity
        /\ worker[k].known => worker'[k].known
        /\ worker'[k].known => \/ worker[k].known
                               \/ \E p \in Pos' :
                                     /\ log'[p].src = k
                                     /\ log'[p].kind = "assignment"
                                     /\ log'[p].about = {worker[k].entity}
        /\ \A j \in Workers : j # k => worker'[j] = worker[j]
      BY <1>9, <1>1, OpenFileStep
  <2>3. \E p \in In(k)' : log'[p].kind = "session" /\ log'[p].from = worker'[k].entity
      BY <2>1, <2>2 DEF Work!In
  <2>4. worker'[k].known => \/ worker[k].known
                            \/ \E p \in In(k)' : /\ log'[p].kind = "assignment"
                                                 /\ worker'[k].entity \in log'[p].about
      BY <2>2 DEF Work!In
  <2> QED BY <2>1, <2>2, <2>3, <2>4, CodexFilesKept
<1>10. ASSUME NEW k \in Workers, Confirm(k) PROVE CodexFiles'
  <2>1. /\ LogGrows /\ Next1 \in Pos'
        /\ log'[Next1].src = Officer /\ log'[Next1].kind = "started"
        /\ log'[Next1].agent = k /\ \A p \in Pos' : p \in Pos \/ p = Next1
      BY <1>10, <1>1, ConfirmStep DEF Wrote
  <2>2. /\ worker'[k].opened = worker[k].opened /\ worker'[k].known = TRUE
        /\ worker'[k].entity = worker[k].entity
        /\ \A j \in Workers : j # k => worker'[j] = worker[j]
      BY <1>10, <1>1, ConfirmStep
  <2>3. Next1 \in In(Officer)'
      BY <2>1 DEF Work!In
  <2> QED BY <2>1, <2>2, <2>3, CodexFilesKept
<1>11. ASSUME NEW k \in Workers, WorkerTurn(k) PROVE CodexFiles'
  <2>1. /\ LogGrows
        /\ \A p \in Pos' : p \notin Pos => log'[p].kind # "started"
      BY <1>11, <1>1, WorkerTurnStep DEF Wrote
  <2>2. /\ worker'[k].opened = worker[k].opened /\ worker'[k].known = worker[k].known
        /\ worker'[k].entity = worker[k].entity
        /\ \A j \in Workers : j # k => worker'[j] = worker[j]
      BY <1>11, <1>1, WorkerTurnStep
  <2> QED BY <2>1, <2>2, CodexFilesKept
<1>12. ASSUME NEW k \in Workers, WorkerCall(k) PROVE CodexFiles'
  <2>1. /\ LogGrows
        /\ \A p \in Pos' : p \notin Pos => log'[p].kind # "started"
      BY <1>12, <1>1, WorkerCallStep DEF Wrote
  <2>2. /\ worker'[k].opened = worker[k].opened /\ worker'[k].known = worker[k].known
        /\ worker'[k].entity = worker[k].entity
        /\ \A j \in Workers : j # k => worker'[j] = worker[j]
      BY <1>12, <1>1, WorkerCallStep
  <2> QED BY <2>1, <2>2, CodexFilesKept
<1>13. ASSUME NEW k \in Workers, WorkerDone(k) PROVE CodexFiles'
  <2>1. /\ LogGrows
        /\ \A p \in Pos' : p \notin Pos => log'[p].kind # "started"
      BY <1>13, <1>1, WorkerDoneStep DEF Wrote
  <2>2. /\ worker'[k].opened = worker[k].opened /\ worker'[k].known = worker[k].known
        /\ worker'[k].entity = worker[k].entity
        /\ \A j \in Workers : j # k => worker'[j] = worker[j]
      BY <1>13, <1>1, WorkerDoneStep
  <2> QED BY <2>1, <2>2, CodexFilesKept
<1>14. ASSUME NEW k \in Workers, Interrupt(k) PROVE CodexFiles'
  <2>1. /\ LogGrows
        /\ \A p \in Pos' : p \notin Pos => log'[p].kind # "started"
      BY <1>14, <1>1, InterruptStep DEF Wrote
  <2>2. /\ worker'[k].opened = worker[k].opened /\ worker'[k].known = worker[k].known
        /\ worker'[k].entity = worker[k].entity
        /\ \A j \in Workers : j # k => worker'[j] = worker[j]
      BY <1>14, <1>1, InterruptStep
  <2> QED BY <2>1, <2>2, CodexFilesKept
<1>15. ASSUME NEW k \in Workers, WriteMeta(k) PROVE CodexFiles'
      BY <1>15, <1>1, WriteMetaStep
<1>16. ASSUME NEW k \in Workers, WorkerSpeaks(k) PROVE CodexFiles'
      BY <1>16, <1>1, WorkerSpeaksStep
<1>17. ASSUME NEW k \in Workers, WorkerMessage(k) PROVE CodexFiles'
      BY <1>17, <1>1, WorkerMessageStep
<1>18. ASSUME NEW k \in Workers, GoIdle(k) PROVE CodexFiles'
      BY <1>18, <1>1, GoIdleStep
<1> QED BY <1>3, <1>4, <1>5, <1>6, <1>7, <1>8, <1>9, <1>10, <1>11, <1>12, <1>13,
           <1>14, <1>15, <1>16, <1>17, <1>18
           DEF Work!Next, Work!Officers, Work!Agents

LEMMA ScopingKept ==
    ASSUME AgentsType, LogGrows, NEW s, NEW e, NEW p \in Pos
    PROVE  /\ p \in Scoping(s, e)' <=> p \in Scoping(s, e)
           /\ Completed(s, p) => Completed(s, p)'
<1>1. OpenTurn(p)' = OpenTurn(p)
      BY OpenTurnKept
<1>2. p \in Scoping(s, e)' <=> p \in Scoping(s, e)
      BY <1>1, Old DEF Scoping, Work!Scopes
<1>3. ASSUME Completed(s, p) PROVE Completed(s, p)'
  <2>1. PICK q \in In(s) : /\ q > p /\ log[q].kind = "task_complete"
                           /\ log[q].id = OpenTurn(p)
        BY <1>3 DEF Completed
  <2>2. q \in Pos
        BY DEF Work!In
  <2>3. q \in In(s)' /\ log'[q] = log[q]
        BY <2>2, Old
  <2> QED BY <1>1, <2>1, <2>3 DEF Completed
<1> QED BY <1>2, <1>3

\* What the officer has scoped stays, when nothing is scoped or ended.
LEMMA OfficerScopesKept ==
    ASSUME AgentsType, LogGrows, OfficerScopes, fo'.touched = fo.touched, fo'.turn = fo.turn,
           \A p \in Pos' : p \notin Pos /\ log'[p].src = Officer
                           => log'[p].kind \notin {"call", "spawn"}
    PROVE  OfficerScopes'
<1>1. ASSUME NEW e \in Entities, NEW p \in Scoping(Officer, e)'
      PROVE  \/ e \in fo'.touched /\ fo'.turn # 0 /\ OpenTurn(p)' = fo'.turn
             \/ Completed(Officer, p)'
  <2>1. p \in Pos
      BY <1>1 DEF Scoping, Work!Scopes, Work!In
  <2> QED BY <2>1, ScopingKept, OpenTurnKept DEF OfficerScopes
<1> QED BY <1>1 DEF OfficerScopes

LEMMA TouchedScopesKept ==
    ASSUME AgentsType, LogGrows, TouchedScopes, fo'.touched \subseteq fo.touched,
           fo'.turn = fo.turn,
           fo'.ask # 0 => fo'.ask = fo.ask \/ \A p \in Pos : p < fo'.ask
    PROVE  TouchedScopes'
<1>1. ASSUME NEW e \in fo'.touched
      PROVE  /\ fo'.turn # 0
             /\ \E p \in Scoping(Officer, e)' :
                   /\ p > fo'.turn /\ OpenTurn(p)' = fo'.turn
                   /\ fo'.ask # 0 => p < fo'.ask
  <2>1. PICK p \in Scoping(Officer, e) :
             p > fo.turn /\ OpenTurn(p) = fo.turn /\ (fo.ask # 0 => p < fo.ask)
        BY DEF TouchedScopes
  <2>2. p \in Pos
        BY DEF Scoping, Work!In
  <2>3. p \in Scoping(Officer, e)' /\ OpenTurn(p)' = OpenTurn(p)
        BY <2>2, ScopingKept, OpenTurnKept
  <2> QED BY <2>1, <2>2, <2>3 DEF TouchedScopes
<1> QED BY <1>1 DEF TouchedScopes

LEMMA AskInTurnKept ==
    ASSUME AgentsType, LogGrows, AskInTurn, fo'.ask \in Pos => fo'.ask = fo.ask,
           fo'.ask \in Pos \cup {0}, fo'.turn = fo.turn
    PROVE  AskInTurn'
<1>1. ASSUME NEW p \in Pos', p = fo'.ask
      PROVE  fo'.turn # 0 /\ OpenTurn(p)' = fo'.turn
  <2>1. p \in Pos
      BY <1>1 DEF LogGrows
  <2> QED BY <1>1, <2>1, OpenTurnKept DEF AskInTurn
<1> QED BY <1>1 DEF AskInTurn

LEMMA WorkerCallsKept ==
    ASSUME RecordsInv, LogGrows, Steady, WorkerCalls,
           \A k \in Workers : worker[k].busy /\ worker[k].own =>
              \/ worker'[k].busy /\ worker'[k].own /\ worker'[k].turn = worker[k].turn
              \/ worker'[k].known,
           \A p \in Pos' : p \notin Pos /\ log'[p].src # Officer
                           => log'[p].kind # "call"
    PROVE  WorkerCalls'
<1>1. ASSUME NEW k \in Workers, NEW p \in In(k)', log'[p].kind = "call"
      PROVE  \/ worker'[k].busy /\ worker'[k].own /\ OpenTurn(p)' = worker'[k].turn
             \/ worker'[k].known
             \/ Completed(k, p)'
  <2>1. k # Officer
      BY MCActivityConstants, SameSets DEF Work!ActivityConstants, Work!Officer
  <2>2. p \in Pos
      BY <1>1, <2>1 DEF Work!In
  <2>3. log'[p] = log[p] /\ log[p].src = k
      BY <1>1, <2>2, Old DEF Work!In
  <2>4. worker[k].entity \in Entities /\ p \in In(k)
      BY <2>1, <2>2, <2>3 DEF RecordsInv, WorkerRecords, Work!In
  <2>5. worker[k].known => worker'[k].known
      BY <2>4 DEF Steady
  <2>6. OpenTurn(p)' = OpenTurn(p) /\ (Completed(k, p) => Completed(k, p)')
      BY <2>2, OpenTurnKept, ScopingKept DEF RecordsInv
  <2> QED BY <1>1, <2>3, <2>4, <2>5, <2>6 DEF WorkerCalls
<1> QED BY <1>1 DEF WorkerCalls

LEMMA CodexScopesStep ==
    ASSUME RecordsInv, runtime = "codex", CodexTurns, CodexScopes, Work!Next
    PROVE  CodexScopes'
<1>1. AgentsType /\ Spawns /\ runtime # "claude" /\ fo.ask \in Pos \cup {0}
      BY DEF RecordsInv, Questions, Work!In
<1>2. \A k \in Workers : k # Officer
      BY MCActivityConstants, SameSets DEF Work!ActivityConstants, Work!Officer
<1>3. /\ OfficerScopes /\ TouchedScopes /\ AskInTurn /\ WorkerCalls /\ fo.handed = {}
      /\ 0 \notin Pos
      BY <1>1, Positions DEF CodexScopes
<1>4. Steady
      BY <1>1, StepSteady
<1>5. ASSUME StartTurn PROVE CodexScopes'
  <2>1. /\ LogGrows /\ Next1 \in Pos' /\ Next1 \notin Pos /\ Next1 \in Nat
        /\ \A p \in Pos' : p \in Pos \/ p = Next1
        /\ \A p \in Pos : p < Next1
        /\ \A p \in Pos' : p \notin Pos /\ log'[p].src = Officer
                           => log'[p].kind \notin {"call", "spawn"}
        /\ \A p \in Pos' : p \notin Pos /\ log'[p].src # Officer => log'[p].kind # "call"
      BY <1>5, <1>1, StartTurnStep DEF Wrote
  <2>2. /\ worker' = worker /\ fo.turn = 0 /\ fo'.touched = fo.touched
        /\ fo'.handed = fo.handed /\ fo'.ask = fo.ask
      BY <1>5, <1>1, StartTurnStep
  <2>3. fo.touched = {} /\ fo.ask \notin Pos
      BY <1>3, <2>2 DEF TouchedScopes, AskInTurn
  <2>4. ASSUME NEW e \in Entities, NEW p \in Scoping(Officer, e)'
        PROVE  Completed(Officer, p)'
    <3>1. p \in Pos
        BY <2>1, <2>4 DEF Scoping, Work!Scopes, Work!In
    <3> QED BY <1>1, <1>3, <2>1, <2>2, <3>1, ScopingKept DEF OfficerScopes
  <2>5. AskInTurn'
      BY <1>1, <2>1, <2>2, <2>3 DEF AskInTurn, LogGrows
  <2>6. WorkerCalls'
      BY <1>3, <1>4, <2>1, <2>2, WorkerCallsKept
  <2> QED BY <1>3, <2>2, <2>3, <2>4, <2>5, <2>6
             DEF CodexScopes, OfficerScopes, TouchedScopes
<1>6. ASSUME EndTurn PROVE CodexScopes'
  <2>1. /\ LogGrows /\ Next1 \in Pos' /\ Next1 \notin Pos /\ Next1 \in Nat
        /\ \A p \in Pos' : p \in Pos \/ p = Next1
        /\ \A p \in Pos : p < Next1
        /\ log'[Next1].src = Officer /\ log'[Next1].kind = "task_complete"
        /\ log'[Next1].id = fo.turn
      BY <1>6, <1>1, EndTurnStep DEF Wrote
  <2>2. /\ worker' = worker /\ fo'.turn = 0 /\ fo'.touched = {}
        /\ fo'.handed = {} /\ fo.ask = 0 /\ fo'.ask = fo.ask
      BY <1>6, <1>1, EndTurnStep
  <2>3. ASSUME NEW e \in Entities, NEW p \in Scoping(Officer, e)'
        PROVE  Completed(Officer, p)'
    <3>1. p \in Pos /\ p \in Nat
        BY <1>1, <2>1, <2>3, Positions DEF Scoping, Work!Scopes, Work!In
    <3>2. p \in Scoping(Officer, e) /\ OpenTurn(p)' = OpenTurn(p)
          /\ (Completed(Officer, p) => Completed(Officer, p)')
        BY <1>1, <2>1, <2>3, <3>1, ScopingKept, OpenTurnKept
    <3>3. CASE OpenTurn(p) = fo.turn
      <4>1. Next1 \in In(Officer)' /\ Next1 > p
          BY <2>1, <3>1 DEF Work!In
      <4> QED BY <2>1, <3>2, <3>3, <4>1 DEF Completed
    <3> QED BY <1>3, <3>2, <3>3 DEF OfficerScopes
  <2>4. AskInTurn'
      BY <1>1, <1>3, <2>1, <2>2 DEF AskInTurn, LogGrows
  <2>5. \A p \in Pos' : p \notin Pos => log'[p].src = Officer
      BY <2>1
  <2>6. WorkerCalls'
      BY <1>3, <1>4, <2>1, <2>2, <2>5, WorkerCallsKept
  <2> QED BY <2>2, <2>3, <2>4, <2>6
             DEF CodexScopes, OfficerScopes, TouchedScopes
<1>7. ASSUME Ask PROVE CodexScopes'
  <2>1. /\ LogGrows /\ Next1 \in Pos' /\ Next1 \notin Pos /\ Next1 \in Nat
        /\ \A p \in Pos' : p \in Pos \/ p = Next1
        /\ \A p \in Pos : p < Next1
        /\ \A p \in Pos' : p \notin Pos /\ log'[p].src = Officer
                           => log'[p].kind \notin {"call", "spawn"}
        /\ \A p \in Pos' : p \notin Pos /\ log'[p].src # Officer => log'[p].kind # "call"
        /\ log'[Next1].src = Officer
      BY <1>7, <1>1, AskStep DEF Wrote
  <2>2. /\ worker' = worker /\ fo.turn # 0 /\ fo'.turn = fo.turn
        /\ fo'.touched = fo.touched \cup fo.handed
        /\ fo'.handed = {} /\ fo'.ask = Next1
      BY <1>7, <1>1, AskStep
  <2>3. fo'.touched = fo.touched
      BY <1>3, <2>2
  <2>4. PICK t, n : t = fo.turn /\ n = Next1
      OBVIOUS
  <2>5. OpenTurn(n)' = t
    <3>1. TurnOpen(Officer, t)
        BY <2>2, <2>4 DEF CodexTurns
    <3>2. log[t].id = t
        BY <3>1 DEF RecordsInv, OfficerRecords, TurnOpen
    <3>3. /\ AgentsType /\ LogGrows /\ n \in Pos' /\ n \notin Pos /\ log'[n].src = Officer
          /\ \A p \in Pos' : p \in Pos \/ p = n
        BY <1>1, <2>1, <2>4
    <3> QED BY <3>1, <3>2, <3>3, NewOpenTurn
  <2>6. OfficerScopes'
      BY <1>1, <1>3, <2>1, <2>2, <2>3, OfficerScopesKept
  <2>7. TouchedScopes'
      BY <1>1, <1>3, <2>1, <2>2, <2>3, TouchedScopesKept
  <2>8. AskInTurn'
      BY <2>1, <2>2, <2>4, <2>5 DEF AskInTurn
  <2>9. WorkerCalls'
      BY <1>3, <1>4, <2>1, <2>2, WorkerCallsKept
  <2> QED BY <2>2, <2>6, <2>7, <2>9, <2>8 DEF CodexScopes
<1>8. ASSUME Answer PROVE CodexScopes'
  <2>1. /\ LogGrows
        /\ \A p \in Pos' : p \notin Pos /\ log'[p].src = Officer
                           => log'[p].kind \notin {"call", "spawn"}
        /\ \A p \in Pos' : p \notin Pos /\ log'[p].src # Officer => log'[p].kind # "call"
      BY <1>8, <1>1, <1>2, AnswerStep DEF Wrote
  <2>2. /\ worker' = worker /\ fo'.touched = fo.touched /\ fo'.turn = fo.turn
        /\ fo'.handed = fo.handed /\ fo'.ask = 0
      BY <1>8, <1>1, AnswerStep
  <2>3. OfficerScopes'
      BY <1>1, <1>3, <2>1, <2>2, OfficerScopesKept
  <2>4. TouchedScopes'
      BY <1>1, <1>3, <2>1, <2>2, TouchedScopesKept
  <2>5. AskInTurn'
      BY <1>1, <1>3, <2>1, <2>2, AskInTurnKept
  <2>6. WorkerCalls'
      BY <1>3, <1>4, <2>1, <2>2, WorkerCallsKept
  <2> QED BY <1>3, <2>2, <2>3, <2>4, <2>5, <2>6 DEF CodexScopes
<1>9. ASSUME NEW e \in Entities, Call(e) PROVE CodexScopes'
  <2>1. /\ LogGrows /\ Next1 \in Pos' /\ Next1 \notin Pos /\ Next1 \in Nat
        /\ \A p \in Pos' : p \in Pos \/ p = Next1
        /\ \A p \in Pos : p < Next1
        /\ log'[Next1].src = Officer /\ log'[Next1].kind = "call"
        /\ log'[Next1].about = {e}
      BY <1>9, <1>1, CallStep DEF Wrote
  <2>2. /\ fo.turn # 0 /\ fo'.turn = fo.turn /\ fo.ask = 0 /\ fo'.ask = fo.ask
        /\ fo'.touched = fo.touched \cup fo.handed \cup {e} /\ fo'.handed = {}
        /\ worker' = worker
      BY <1>9, <1>1, CallStep
  <2>3. fo'.touched = fo.touched \cup {e}
      BY <1>3, <2>2
  <2>4. PICK t, n : t = fo.turn /\ n = Next1
      OBVIOUS
  <2>5. OpenTurn(n)' = t
    <3>1. TurnOpen(Officer, t)
        BY <2>2, <2>4 DEF CodexTurns
    <3>2. log[t].id = t
        BY <3>1 DEF RecordsInv, OfficerRecords, TurnOpen
    <3>3. /\ AgentsType /\ LogGrows /\ n \in Pos' /\ n \notin Pos /\ log'[n].src = Officer
          /\ \A p \in Pos' : p \in Pos \/ p = n
        BY <1>1, <2>1, <2>4
    <3> QED BY <3>1, <3>2, <3>3, NewOpenTurn
  <2>6. n > t /\ n \in Nat /\ t # 0
      BY <1>1, <2>1, <2>2, <2>4, Positions DEF CodexTurns, TurnOpen, Work!In
  <2>7. n \in Scoping(Officer, e)' /\ \A d \in Entities : n \in Scoping(Officer, d)' => d = e
      BY <2>1, <2>2, <2>4, <2>5 DEF Scoping, Work!Scopes, Work!In
  <2>8. ASSUME NEW d \in Entities, NEW p \in Scoping(Officer, d)'
        PROVE  \/ d \in fo'.touched /\ fo'.turn # 0 /\ OpenTurn(p)' = fo'.turn
               \/ Completed(Officer, p)'
    <3>1. CASE p = n
        BY <2>2, <2>3, <2>4, <2>5, <2>7, <2>8, <3>1
    <3>2. CASE p \in Pos
      <4>1. /\ p \in Scoping(Officer, d) /\ OpenTurn(p)' = OpenTurn(p)
            /\ (Completed(Officer, p) => Completed(Officer, p)')
          BY <1>1, <2>1, <2>8, <3>2, ScopingKept, OpenTurnKept
      <4> QED BY <1>3, <2>2, <2>3, <4>1 DEF OfficerScopes
    <3>3. p \in Pos'
        BY <2>8 DEF Scoping, Work!In
    <3> QED BY <2>1, <2>4, <3>1, <3>2, <3>3
  <2>9. ASSUME NEW d \in fo'.touched
       PROVE  /\ fo'.turn # 0
              /\ \E p \in Scoping(Officer, d)' :
                    /\ p > fo'.turn /\ OpenTurn(p)' = fo'.turn
                    /\ fo'.ask # 0 => p < fo'.ask
    <3>1. CASE d = e
        BY <2>2, <2>4, <2>5, <2>6, <2>7, <3>1
    <3>2. CASE d \in fo.touched
      <4>1. PICK p \in Scoping(Officer, d) : p > fo.turn /\ OpenTurn(p) = fo.turn
          BY <1>3, <3>2 DEF TouchedScopes
      <4>2. p \in Pos
          BY DEF Scoping, Work!In
      <4>3. p \in Scoping(Officer, d)' /\ OpenTurn(p)' = OpenTurn(p)
          BY <1>1, <2>1, <4>2, ScopingKept, OpenTurnKept
      <4> QED BY <2>2, <4>1, <4>3
    <3> QED BY <2>3, <3>1, <3>2
  <2>10. AskInTurn'
      BY <1>1, <1>3, <2>1, <2>2 DEF AskInTurn, LogGrows
  <2>11. \A p \in Pos' : p \notin Pos => log'[p].src = Officer
      BY <2>1
  <2>12. WorkerCalls'
      BY <1>3, <1>4, <2>1, <2>2, <2>11, WorkerCallsKept
  <2> QED BY <2>2, <2>12, <2>8, <2>9, <2>10
             DEF CodexScopes, OfficerScopes, TouchedScopes
<1>10. ASSUME NEW k \in Workers, NEW e \in Entities, Spawn(k, e) PROVE CodexScopes'
  <2>1. /\ LogGrows /\ Next1 \in Pos' /\ Next1 \notin Pos /\ Next1 \in Nat
        /\ \A p \in Pos' : p \in Pos \/ p = Next1
        /\ \A p \in Pos : p < Next1
        /\ log'[Next1].src = Officer /\ log'[Next1].kind = "spawn"
        /\ log'[Next1].about = {e}
      BY <1>10, <1>1, SpawnStep DEF Wrote
  <2>2. /\ fo.turn # 0 /\ fo'.turn = fo.turn /\ fo.ask = 0 /\ fo'.ask = fo.ask
        /\ fo'.touched = fo.touched \cup fo.handed \cup {e} /\ fo'.handed = {}
        /\ worker[k].busy = FALSE
        /\ \A j \in Workers : j # k => worker'[j] = worker[j]
      BY <1>10, <1>1, SpawnStep
  <2>3. fo'.touched = fo.touched \cup {e}
      BY <1>3, <2>2
  <2>4. PICK t, n : t = fo.turn /\ n = Next1
      OBVIOUS
  <2>5. OpenTurn(n)' = t
    <3>1. TurnOpen(Officer, t)
        BY <2>2, <2>4 DEF CodexTurns
    <3>2. log[t].id = t
        BY <3>1 DEF RecordsInv, OfficerRecords, TurnOpen
    <3>3. /\ AgentsType /\ LogGrows /\ n \in Pos' /\ n \notin Pos /\ log'[n].src = Officer
          /\ \A p \in Pos' : p \in Pos \/ p = n
        BY <1>1, <2>1, <2>4
    <3> QED BY <3>1, <3>2, <3>3, NewOpenTurn
  <2>6. n > t /\ n \in Nat /\ t # 0
      BY <1>1, <2>1, <2>2, <2>4, Positions DEF CodexTurns, TurnOpen, Work!In
  <2>7. n \in Scoping(Officer, e)' /\ \A d \in Entities : n \in Scoping(Officer, d)' => d = e
      BY <2>1, <2>2, <2>4, <2>5 DEF Scoping, Work!Scopes, Work!In
  <2>8. ASSUME NEW d \in Entities, NEW p \in Scoping(Officer, d)'
        PROVE  \/ d \in fo'.touched /\ fo'.turn # 0 /\ OpenTurn(p)' = fo'.turn
               \/ Completed(Officer, p)'
    <3>1. CASE p = n
        BY <2>2, <2>3, <2>4, <2>5, <2>7, <2>8, <3>1
    <3>2. CASE p \in Pos
      <4>1. /\ p \in Scoping(Officer, d) /\ OpenTurn(p)' = OpenTurn(p)
            /\ (Completed(Officer, p) => Completed(Officer, p)')
          BY <1>1, <2>1, <2>8, <3>2, ScopingKept, OpenTurnKept
      <4> QED BY <1>3, <2>2, <2>3, <4>1 DEF OfficerScopes
    <3>3. p \in Pos'
        BY <2>8 DEF Scoping, Work!In
    <3> QED BY <2>1, <2>4, <3>1, <3>2, <3>3
  <2>9. ASSUME NEW d \in fo'.touched
       PROVE  /\ fo'.turn # 0
              /\ \E p \in Scoping(Officer, d)' :
                    /\ p > fo'.turn /\ OpenTurn(p)' = fo'.turn
                    /\ fo'.ask # 0 => p < fo'.ask
    <3>1. CASE d = e
        BY <2>2, <2>4, <2>5, <2>6, <2>7, <3>1
    <3>2. CASE d \in fo.touched
      <4>1. PICK p \in Scoping(Officer, d) : p > fo.turn /\ OpenTurn(p) = fo.turn
          BY <1>3, <3>2 DEF TouchedScopes
      <4>2. p \in Pos
          BY DEF Scoping, Work!In
      <4>3. p \in Scoping(Officer, d)' /\ OpenTurn(p)' = OpenTurn(p)
          BY <1>1, <2>1, <4>2, ScopingKept, OpenTurnKept
      <4> QED BY <2>2, <4>1, <4>3
    <3> QED BY <2>3, <3>1, <3>2
  <2>10. AskInTurn'
      BY <1>1, <1>3, <2>1, <2>2 DEF AskInTurn, LogGrows
  <2>11. \A p \in Pos' : p \notin Pos => log'[p].src = Officer
      BY <2>1
  <2>12. WorkerCalls'
      BY <1>3, <1>4, <2>1, <2>2, <2>11, WorkerCallsKept
  <2> QED BY <2>2, <2>12, <2>8, <2>9, <2>10
             DEF CodexScopes, OfficerScopes, TouchedScopes
<1>11. ASSUME NEW k \in Workers, OpenFile(k) PROVE CodexScopes'
  <2>1. /\ LogGrows
        /\ \A p \in Pos' : p \notin Pos => log'[p].kind \in {"session", "assignment"}
      BY <1>11, <1>1, OpenFileStep
  <2>2. /\ fo' = fo
        /\ \A j \in Workers : worker[j].busy /\ worker[j].own =>
              \/ worker'[j].busy /\ worker'[j].own /\ worker'[j].turn = worker[j].turn
              \/ worker'[j].known
      BY <1>11, <1>1, OpenFileStep
  <2>3. OfficerScopes'
      BY <1>1, <1>3, <2>1, <2>2, OfficerScopesKept
  <2>4. TouchedScopes'
      BY <1>1, <1>3, <2>1, <2>2, TouchedScopesKept
  <2>5. AskInTurn'
      BY <1>1, <1>3, <2>1, <2>2, AskInTurnKept
  <2>6. WorkerCalls'
      BY <1>3, <1>4, <2>1, <2>2, WorkerCallsKept
  <2> QED BY <1>3, <2>2, <2>3, <2>4, <2>5, <2>6 DEF CodexScopes
<1>12. ASSUME NEW k \in Workers, Confirm(k) PROVE CodexScopes'
  <2>1. /\ LogGrows
        /\ \A p \in Pos' : p \notin Pos /\ log'[p].src = Officer
                           => log'[p].kind \notin {"call", "spawn"}
        /\ \A p \in Pos' : p \notin Pos /\ log'[p].src # Officer => log'[p].kind # "call"
      BY <1>12, <1>1, <1>2, ConfirmStep DEF Wrote
  <2>2. /\ fo' = fo
        /\ \A j \in Workers : worker[j].busy /\ worker[j].own =>
              \/ worker'[j].busy /\ worker'[j].own /\ worker'[j].turn = worker[j].turn
              \/ worker'[j].known
      BY <1>12, <1>1, ConfirmStep
  <2>3. OfficerScopes'
      BY <1>1, <1>3, <2>1, <2>2, OfficerScopesKept
  <2>4. TouchedScopes'
      BY <1>1, <1>3, <2>1, <2>2, TouchedScopesKept
  <2>5. AskInTurn'
      BY <1>1, <1>3, <2>1, <2>2, AskInTurnKept
  <2>6. WorkerCalls'
      BY <1>3, <1>4, <2>1, <2>2, WorkerCallsKept
  <2> QED BY <1>3, <2>2, <2>3, <2>4, <2>5, <2>6 DEF CodexScopes
<1>13. ASSUME NEW k \in Workers, WorkerTurn(k) PROVE CodexScopes'
  <2>1. /\ LogGrows
        /\ \A p \in Pos' : p \notin Pos /\ log'[p].src = Officer
                           => log'[p].kind \notin {"call", "spawn"}
        /\ \A p \in Pos' : p \notin Pos /\ log'[p].src # Officer => log'[p].kind # "call"
      BY <1>13, <1>1, <1>2, WorkerTurnStep DEF Wrote
  <2>2. /\ fo' = fo
        /\ \A j \in Workers : worker[j].busy /\ worker[j].own =>
              \/ worker'[j].busy /\ worker'[j].own /\ worker'[j].turn = worker[j].turn
              \/ worker'[j].known
      BY <1>13, <1>1, WorkerTurnStep
  <2>3. OfficerScopes'
      BY <1>1, <1>3, <2>1, <2>2, OfficerScopesKept
  <2>4. TouchedScopes'
      BY <1>1, <1>3, <2>1, <2>2, TouchedScopesKept
  <2>5. AskInTurn'
      BY <1>1, <1>3, <2>1, <2>2, AskInTurnKept
  <2>6. WorkerCalls'
      BY <1>3, <1>4, <2>1, <2>2, WorkerCallsKept
  <2> QED BY <1>3, <2>2, <2>3, <2>4, <2>5, <2>6 DEF CodexScopes
<1>14. ASSUME NEW k \in Workers, WorkerCall(k) PROVE CodexScopes'
  <2>1. /\ LogGrows /\ Next1 \in Pos' /\ Next1 \notin Pos /\ Next1 \in Nat
        /\ \A p \in Pos' : p \in Pos \/ p = Next1
        /\ \A p \in Pos : p < Next1
        /\ log'[Next1].src = k /\ log'[Next1].kind = "call"
      BY <1>14, <1>1, WorkerCallStep DEF Wrote
  <2>2. /\ fo' = fo /\ worker[k].busy /\ worker'[k].own = TRUE
        /\ worker'[k].known = worker[k].known
        /\ worker'[k].busy = worker[k].busy /\ worker'[k].turn = worker[k].turn
        /\ \A j \in Workers : j # k => worker'[j] = worker[j]
      BY <1>14, <1>1, WorkerCallStep
  <2>3. PICK t, n : t = worker[k].turn /\ n = Next1
      OBVIOUS
  <2>4. OpenTurn(n)' = t
    <3>1. TurnOpen(k, t)
        BY <2>2, <2>3 DEF CodexTurns, BusyTurn
    <3>2. log[t].id = t
        BY <1>2, <3>1 DEF TurnOpen, Work!In, RecordsInv, WorkerRecords
    <3>3. /\ AgentsType /\ LogGrows /\ n \in Pos' /\ n \notin Pos /\ log'[n].src = k
          /\ \A p \in Pos' : p \in Pos \/ p = n
        BY <1>1, <2>1, <2>3
    <3> QED BY <3>1, <3>2, <3>3, NewOpenTurn
  <2>5. ASSUME NEW j \in Workers, NEW p \in In(j)', log'[p].kind = "call"
        PROVE  \/ worker'[j].busy /\ worker'[j].own /\ OpenTurn(p)' = worker'[j].turn
               \/ worker'[j].known
               \/ Completed(j, p)'
    <3>1. CASE p = n
      <4>1. j = k
          BY <2>1, <2>3, <3>1, <2>5 DEF Work!In
      <4> QED BY <2>2, <2>3, <2>4, <3>1, <4>1
    <3>2. CASE p \in Pos
      <4>1. /\ p \in In(j) /\ log'[p] = log[p] /\ OpenTurn(p)' = OpenTurn(p)
            /\ (Completed(j, p) => Completed(j, p)')
          BY <1>1, <2>1, <2>5, <3>2, Old, ScopingKept, OpenTurnKept
      <4>2. /\ worker[j].busy /\ worker[j].own => worker'[j].busy /\ worker'[j].own
            /\ worker'[j].turn = worker[j].turn /\ worker'[j].known = worker[j].known
          BY <2>2
      <4> QED BY <1>3, <2>5, <4>1, <4>2 DEF WorkerCalls
    <3>3. p \in Pos'
        BY <2>5 DEF Work!In
    <3> QED BY <2>1, <2>3, <3>1, <3>2, <3>3
  <2>6. \A p \in Pos' : p \notin Pos /\ log'[p].src = Officer
                           => log'[p].kind \notin {"call", "spawn"}
      BY <1>2, <2>1
  <2>7. /\ OfficerScopes' /\ TouchedScopes' /\ AskInTurn' /\ fo'.handed = {}
      BY <1>1, <1>3, <2>1, <2>2, <2>6, OfficerScopesKept, TouchedScopesKept,
         AskInTurnKept
  <2>8. WorkerCalls'
      BY <2>5 DEF WorkerCalls
  <2> QED BY <2>7, <2>8 DEF CodexScopes
<1>15. ASSUME NEW k \in Workers, WorkerDone(k) PROVE CodexScopes'
  <2>1. /\ LogGrows /\ Next1 \in Pos' /\ Next1 \notin Pos /\ Next1 \in Nat
        /\ \A p \in Pos' : p \in Pos \/ p = Next1
        /\ \A p \in Pos : p < Next1
        /\ log'[Next1].src = k /\ log'[Next1].kind = "task_complete"
        /\ log'[Next1].id = worker[k].turn
      BY <1>15, <1>1, WorkerDoneStep DEF Wrote
  <2>2. /\ fo' = fo
        /\ worker'[k].known = worker[k].known
        /\ \A j \in Workers : j # k => worker'[j] = worker[j]
      BY <1>15, <1>1, WorkerDoneStep
  <2>3. ASSUME NEW j \in Workers, NEW p \in In(j)', log'[p].kind = "call"
        PROVE  \/ worker'[j].busy /\ worker'[j].own /\ OpenTurn(p)' = worker'[j].turn
               \/ worker'[j].known
               \/ Completed(j, p)'
    <3>1. p \in Pos /\ p \in Nat
        BY <1>1, <2>1, <2>3, Positions DEF Work!In
    <3>2. /\ p \in In(j) /\ log'[p] = log[p] /\ OpenTurn(p)' = OpenTurn(p)
          /\ (Completed(j, p) => Completed(j, p)')
        BY <1>1, <2>1, <2>3, <3>1, Old, ScopingKept, OpenTurnKept
    <3>3. CASE j # k
        BY <1>3, <2>2, <2>3, <3>2, <3>3 DEF WorkerCalls
    <3>4. CASE j = k
      <4>1. CASE OpenTurn(p) = worker[k].turn
        <5>1. Next1 \in In(k)' /\ Next1 > p
            BY <2>1, <3>1 DEF Work!In
        <5> QED BY <2>1, <3>2, <3>4, <4>1, <5>1 DEF Completed
      <4> QED BY <1>3, <2>2, <2>3, <3>2, <3>4, <4>1 DEF WorkerCalls
    <3> QED BY <3>3, <3>4
  <2>4. \A p \in Pos' : p \notin Pos /\ log'[p].src = Officer
                           => log'[p].kind \notin {"call", "spawn"}
      BY <1>2, <2>1
  <2>5. /\ OfficerScopes' /\ TouchedScopes' /\ AskInTurn' /\ fo'.handed = {}
      BY <1>1, <1>3, <2>1, <2>2, <2>4, OfficerScopesKept, TouchedScopesKept,
         AskInTurnKept
  <2>6. WorkerCalls'
      BY <2>3 DEF WorkerCalls
  <2> QED BY <2>5, <2>6 DEF CodexScopes
<1>16. ASSUME NEW k \in Workers, Interrupt(k) PROVE CodexScopes'
  <2>1. /\ LogGrows
        /\ \A p \in Pos' : p \notin Pos /\ log'[p].src = Officer
                           => log'[p].kind \notin {"call", "spawn"}
        /\ \A p \in Pos' : p \notin Pos /\ log'[p].src # Officer => log'[p].kind # "call"
      BY <1>16, <1>1, <1>2, InterruptStep DEF Wrote
  <2>2. /\ fo' = fo
        /\ \A j \in Workers : worker[j].busy /\ worker[j].own =>
              \/ worker'[j].busy /\ worker'[j].own /\ worker'[j].turn = worker[j].turn
              \/ worker'[j].known
      BY <1>16, <1>1, InterruptStep
  <2>3. OfficerScopes'
      BY <1>1, <1>3, <2>1, <2>2, OfficerScopesKept
  <2>4. TouchedScopes'
      BY <1>1, <1>3, <2>1, <2>2, TouchedScopesKept
  <2>5. AskInTurn'
      BY <1>1, <1>3, <2>1, <2>2, AskInTurnKept
  <2>6. WorkerCalls'
      BY <1>3, <1>4, <2>1, <2>2, WorkerCallsKept
  <2> QED BY <1>3, <2>2, <2>3, <2>4, <2>5, <2>6 DEF CodexScopes
<1>17. ASSUME NEW k \in Workers, WriteMeta(k) PROVE CodexScopes'
      BY <1>17, <1>1, WriteMetaStep
<1>18. ASSUME NEW k \in Workers, WorkerSpeaks(k) PROVE CodexScopes'
      BY <1>18, <1>1, WorkerSpeaksStep
<1>19. ASSUME NEW k \in Workers, WorkerMessage(k) PROVE CodexScopes'
      BY <1>19, <1>1, WorkerMessageStep
<1>20. ASSUME NEW k \in Workers, GoIdle(k) PROVE CodexScopes'
      BY <1>20, <1>1, GoIdleStep
<1> QED BY <1>5, <1>6, <1>7, <1>8, <1>9, <1>10, <1>11, <1>12, <1>13, <1>14,
           <1>15, <1>16, <1>17, <1>18, <1>19, <1>20
           DEF Work!Next, Work!Officers, Work!Agents

----------------------------------------------------------------------------
(* Claude: files and turns *)

LEMMA ClaudeFilesStep ==
    ASSUME RecordsInv, runtime = "claude", ClaudeFiles, Work!Next
    PROVE  ClaudeFiles'
<1>1. AgentsType /\ Spawns /\ runtime # "codex"
      BY DEF RecordsInv
<1>2. ASSUME LogGrows, \A k \in Workers : worker'[k].known => worker[k].known,
             \A p \in Pos' : p \notin Pos => log'[p].kind # "meta"
      PROVE  ClaudeFiles'
  <2>1. \A k : \A p \in In(k) : p \in In(k)' /\ log'[p] = log[p]
      BY <1>2, Old DEF Work!In
  <2>2. \A p \in Pos' : log'[p].kind = "meta" => p \in Pos /\ log'[p] = log[p]
      BY <1>2, Old
  <2> QED BY <1>2, <2>1, <2>2 DEF ClaudeFiles
<1>3. ASSUME StartTurn PROVE ClaudeFiles'
      BY <1>3, <1>1, StartTurnStep
<1>4. ASSUME EndTurn PROVE ClaudeFiles'
  <2>1. /\ LogGrows
        /\ \A p \in Pos' : p \notin Pos => log'[p].kind # "meta"
      BY <1>4, <1>1, EndTurnStep DEF Wrote
  <2>2. \A k \in Workers : worker'[k].known => worker[k].known
      BY <1>4, <1>1, EndTurnStep
  <2> QED BY <1>2, <2>1, <2>2
<1>5. ASSUME Ask PROVE ClaudeFiles'
  <2>1. /\ LogGrows
        /\ \A p \in Pos' : p \notin Pos => log'[p].kind # "meta"
      BY <1>5, <1>1, AskStep DEF Wrote
  <2>2. \A k \in Workers : worker'[k].known => worker[k].known
      BY <1>5, <1>1, AskStep
  <2> QED BY <1>2, <2>1, <2>2
<1>6. ASSUME Answer PROVE ClaudeFiles'
  <2>1. /\ LogGrows
        /\ \A p \in Pos' : p \notin Pos => log'[p].kind # "meta"
      BY <1>6, <1>1, AnswerStep DEF Wrote
  <2>2. \A k \in Workers : worker'[k].known => worker[k].known
      BY <1>6, <1>1, AnswerStep
  <2> QED BY <1>2, <2>1, <2>2
<1>7. ASSUME NEW e \in Entities, Call(e) PROVE ClaudeFiles'
  <2>1. /\ LogGrows
        /\ \A p \in Pos' : p \notin Pos => log'[p].kind # "meta"
      BY <1>7, <1>1, CallStep DEF Wrote
  <2>2. \A k \in Workers : worker'[k].known => worker[k].known
      BY <1>7, <1>1, CallStep
  <2> QED BY <1>2, <2>1, <2>2
<1>8. ASSUME NEW k \in Workers, NEW e \in Entities, Spawn(k, e) PROVE ClaudeFiles'
  <2>1. /\ LogGrows
        /\ \A p \in Pos' : p \notin Pos => log'[p].kind # "meta"
      BY <1>8, <1>1, SpawnStep DEF Wrote
  <2>2. \A j \in Workers : worker'[j].known => worker[j].known
      BY <1>8, <1>1, SpawnStep
  <2> QED BY <1>2, <2>1, <2>2
<1>9. ASSUME NEW k \in Workers, OpenFile(k) PROVE ClaudeFiles'
      BY <1>9, <1>1, OpenFileStep
<1>10. ASSUME NEW k \in Workers, Confirm(k) PROVE ClaudeFiles'
      BY <1>10, <1>1, ConfirmStep
<1>11. ASSUME NEW k \in Workers, WorkerTurn(k) PROVE ClaudeFiles'
      BY <1>11, <1>1, WorkerTurnStep
<1>12. ASSUME NEW k \in Workers, WorkerCall(k) PROVE ClaudeFiles'
      BY <1>12, <1>1, WorkerCallStep
<1>13. ASSUME NEW k \in Workers, WorkerDone(k) PROVE ClaudeFiles'
      BY <1>13, <1>1, WorkerDoneStep
<1>14. ASSUME NEW k \in Workers, Interrupt(k) PROVE ClaudeFiles'
      BY <1>14, <1>1, InterruptStep
<1>15. ASSUME NEW k \in Workers, WriteMeta(k) PROVE ClaudeFiles'
  <2>1. /\ LogGrows /\ Next1 \in Pos' /\ Next1 \notin Pos
        /\ \A p \in Pos' : p \in Pos \/ p = Next1
        /\ log'[Next1].src = k /\ log'[Next1].kind = "meta"
      BY <1>15, <1>1, WriteMetaStep DEF Wrote
  <2>2. /\ ~worker[k].known
        /\ \A j \in Workers : j # k => worker'[j] = worker[j]
      BY <1>15, <1>1, WriteMetaStep
  <2>3. \A p \in Pos : log[p].kind = "meta" => log[p].src # k
    <3>1. k # Officer
        BY MCActivityConstants, SameSets
           DEF Work!ActivityConstants, Work!Officer
    <3> QED BY <2>2, <3>1 DEF RecordsInv, WorkerRecords
  <2>4. \A p \in Pos : p \in Pos' /\ log'[p] = log[p]
      BY <2>1, Old
  <2>5. \A j : \A p \in In(j) : p \in In(j)' /\ log'[p] = log[p]
      BY <2>4 DEF Work!In
  <2>6. \A j \in Workers : worker'[j].known => \E p \in In(j)' : log'[p].kind = "meta"
    <3>1. Next1 \in In(k)'
        BY <2>1 DEF Work!In
    <3> QED BY <2>1, <2>2, <2>5, <3>1 DEF ClaudeFiles
  <2>7. \A p, q \in Pos' : log'[p].kind = "meta" /\ log'[q].kind = "meta"
                           /\ log'[p].src = log'[q].src => p = q
      BY <2>1, <2>3, <2>4 DEF ClaudeFiles
  <2> QED BY <2>6, <2>7 DEF ClaudeFiles
<1>16. ASSUME NEW k \in Workers, WorkerSpeaks(k) PROVE ClaudeFiles'
  <2>1. /\ LogGrows
        /\ \A p \in Pos' : p \notin Pos => log'[p].kind # "meta"
      BY <1>16, <1>1, WorkerSpeaksStep DEF Wrote
  <2>2. \A j \in Workers : worker'[j].known => worker[j].known
      BY <1>16, <1>1, WorkerSpeaksStep
  <2> QED BY <1>2, <2>1, <2>2
<1>17. ASSUME NEW k \in Workers, WorkerMessage(k) PROVE ClaudeFiles'
  <2>1. /\ LogGrows
        /\ \A p \in Pos' : p \notin Pos => log'[p].kind # "meta"
      BY <1>17, <1>1, WorkerMessageStep DEF Wrote
  <2>2. \A j \in Workers : worker'[j].known => worker[j].known
      BY <1>17, <1>1, WorkerMessageStep
  <2> QED BY <1>2, <2>1, <2>2
<1>18. ASSUME NEW k \in Workers, GoIdle(k) PROVE ClaudeFiles'
  <2>1. /\ LogGrows
        /\ \A p \in Pos' : p \notin Pos => log'[p].kind # "meta"
      BY <1>18, <1>1, GoIdleStep DEF Wrote
  <2>2. \A j \in Workers : worker'[j].known => worker[j].known
      BY <1>18, <1>1, GoIdleStep
  <2> QED BY <1>2, <2>1, <2>2
<1> QED BY <1>3, <1>4, <1>5, <1>6, <1>7, <1>8, <1>9, <1>10, <1>11, <1>12, <1>13,
           <1>14, <1>15, <1>16, <1>17, <1>18
           DEF Work!Next, Work!Officers, Work!Agents

LEMMA SpokenKept ==
    ASSUME LogGrows, NEW k, NEW e
    PROVE  /\ Spoken(k) \subseteq Spoken(k)' /\ Idles(e) \subseteq Idles(e)'
           /\ Boundaries(e) \subseteq Boundaries(e)'
           /\ \A p \in Pos : /\ p \in Spoken(k)' => p \in Spoken(k)
                             /\ p \in Idles(e)' => p \in Idles(e)
BY Old DEF Spoken, Work!Idles, Work!Boundaries, Work!In

\* What opened a worker's turn goes on doing so.
LEMMA OpeningKept ==
    ASSUME AgentsType, LogGrows, NEW k, NEW p \in Pos, worker'[k].entity = worker[k].entity,
           Opening(k, p)
    PROVE  Opening(k, p)'
<1>1. PICK e : e = worker[k].entity
      OBVIOUS
<1>2. \A q \in Spoken(k)' : q \in Spoken(k) \/ p < q
  <2>1. \A q \in Spoken(k)' : q \in Pos'
      BY DEF Spoken, Work!In
  <2> QED BY <2>1, SpokenKept DEF LogGrows
<1>3. p \in Spoken(k)'
      BY SpokenKept DEF Opening
<1>4. \A q \in Spoken(k)' : q \in Nat /\ p \in Nat
      BY DEF Spoken, Work!In, LogGrows
<1>5. CASE \A q \in Spoken(k) : p <= q
  <2>1. \A q \in Spoken(k)' : p <= q
      BY <1>2, <1>4, <1>5
  <2> QED BY <1>3, <2>1 DEF Opening
<1>6. CASE \E c \in Boundaries(e) : /\ \E i \in Idles(e) : i < c
                                    /\ c < p
                                    /\ \A q \in Spoken(k) : q > c => p <= q
  <2>1. PICK c \in Boundaries(e) : /\ \E i \in Idles(e) : i < c
                                   /\ c < p
                                   /\ \A q \in Spoken(k) : q > c => p <= q
        BY <1>6
  <2>2. c \in Boundaries(e)' /\ \E i \in Idles(e)' : i < c
        BY <2>1, SpokenKept
  <2>3. \A q \in Spoken(k)' : q > c => p <= q
        BY <1>2, <1>4, <2>1
  <2>4. e = worker'[k].entity
        BY <1>1
  <2> QED BY <1>3, <2>1, <2>2, <2>3, <2>4
             DEF Opening, Work!Boundaries, Work!Idles
<1> QED BY <1>1, <1>5, <1>6 DEF Opening

\* A worker's name belongs to it as long as no other gets it.
LEMMA SingleKept ==
    ASSUME Steady, NEW k \in Workers, worker[k].entity \in Entities, Single(k)'
    PROVE  Single(k)
<1>1. worker'[k].entity = worker[k].entity
      BY DEF Steady
<1>2. ASSUME NEW j \in Workers, worker[j].entity = worker[k].entity PROVE j = k
  <2>1. worker'[j].entity = worker[j].entity
        BY <1>2 DEF Steady
  <2> QED BY <1>1, <1>2, <2>1 DEF Single
<1> QED BY <1>2 DEF Single

LEMMA ShownSpawned ==
    ASSUME AgentsType, Spawns, NEW k \in Workers,
           worker[k].shown \/ worker[k].busy \/ worker[k].rested \/ worker[k].known
    PROVE  worker[k].entity \in Entities
<1>1. worker[k].entity \in Entities \/ worker[k].entity = Nobody
      BY DEF AgentsType, AgentType
<1>2. worker[k].entity = Nobody => worker[k] = NoWorker
      BY DEF Spawns
<1> QED BY <1>1, <1>2 DEF Work!NoWorker

\* The parts of ClaudeTurn, for the worker's entity e.
Rested(k, e) == Idles(e) # {}
Heard(k, e) ==
    \E c \in Boundaries(e) : /\ \E i \in Idles(e) : i < c
                             /\ \A q \in Spoken(k) : q < c
Silent(k, e) == \A p \in Spoken(k) : \E i \in Idles(e) : i > p
Shown(k, e) == \E p \in Pos : Opening(k, p) /\ \A i \in Idles(e) : i < p

LEMMA TurnThen ==
    ASSUME NEW k, NEW e, e = worker[k].entity, ClaudeTurn(k)
    PROVE  /\ worker[k].rested => Rested(k, e)
           /\ worker[k].heard => Heard(k, e)
           /\ ~worker[k].busy => Silent(k, e)
           /\ worker[k].shown => worker[k].busy
           /\ worker[k].shown /\ Single(k) => Shown(k, e)
BY DEF ClaudeTurn, Rested, Heard, Silent, Shown

LEMMA TurnNow ==
    ASSUME NEW k, NEW e, e = worker'[k].entity,
           worker'[k].rested => Rested(k, e)',
           worker'[k].heard => Heard(k, e)',
           ~worker'[k].busy => Silent(k, e)',
           worker'[k].shown => worker'[k].busy,
           worker'[k].shown /\ Single(k)' => Shown(k, e)'
    PROVE  ClaudeTurn(k)'
BY
   DEF ClaudeTurn, Rested, Heard, Silent, Shown, Work!Idles, Work!Boundaries,
       Work!In

LEMMA RestedKept ==
    ASSUME LogGrows, NEW k, NEW e
    PROVE  /\ Rested(k, e) => Rested(k, e)'
           /\ Spoken(k)' \subseteq Pos /\ Heard(k, e) => Heard(k, e)'
           /\ Spoken(k)' \subseteq Pos /\ Silent(k, e) => Silent(k, e)'
<1>1. /\ Spoken(k) \subseteq Spoken(k)' /\ Idles(e) \subseteq Idles(e)'
      /\ Boundaries(e) \subseteq Boundaries(e)'
      /\ \A p \in Pos : /\ p \in Spoken(k)' => p \in Spoken(k)
                        /\ p \in Idles(e)' => p \in Idles(e)
      BY SpokenKept
<1>2. Rested(k, e) => Rested(k, e)'
      BY <1>1 DEF Rested
<1>3. Spoken(k)' \subseteq Pos => Spoken(k)' = Spoken(k)
      BY <1>1
<1>4. Spoken(k)' = Spoken(k) /\ Heard(k, e) => Heard(k, e)'
      BY <1>1 DEF Heard
<1>5. Spoken(k)' = Spoken(k) /\ Silent(k, e) => Silent(k, e)'
      BY <1>1 DEF Silent
<1> QED BY <1>2, <1>3, <1>4, <1>5

LEMMA ShownKept ==
    ASSUME AgentsType, LogGrows, NEW k, NEW e, e = worker[k].entity, e = worker'[k].entity,
           Idles(e)' \subseteq Pos, Shown(k, e)
    PROVE  Shown(k, e)'
<1>1. PICK p \in Pos : Opening(k, p) /\ \A i \in Idles(e) : i < p
      BY DEF Shown
<1>2. Opening(k, p)'
      BY <1>1, OpeningKept
<1>3. p \in Pos'
      BY Old
<1>4. \A i \in Idles(e)' : i < p
      BY <1>1, SpokenKept
<1> QED BY <1>2, <1>3, <1>4 DEF Shown

\* A step that does not touch a worker leaves its turn as it was.
LEMMA ClaudeTurnKept ==
    ASSUME AgentsType, Spawns, Steady, LogGrows, NEW k \in Workers, ClaudeTurn(k),
           worker'[k].entity = worker[k].entity, worker'[k].rested = worker[k].rested,
           worker'[k].heard = worker[k].heard, worker'[k].busy = worker[k].busy,
           worker'[k].shown = worker[k].shown, NEW e, e = worker[k].entity,
           Spoken(k)' \subseteq Pos,
           Single(k)' => Idles(e)' \subseteq Pos
    PROVE  ClaudeTurn(k)'
<1>1. e = worker'[k].entity
      OBVIOUS
<1>2. /\ worker[k].rested => Rested(k, e)
      /\ worker[k].heard => Heard(k, e)
      /\ ~worker[k].busy => Silent(k, e)
      /\ worker[k].shown => worker[k].busy
      /\ worker[k].shown /\ Single(k) => Shown(k, e)
      BY TurnThen
<1>3. worker'[k].shown /\ Single(k)' => Shown(k, e)'
  <2> SUFFICES ASSUME worker'[k].shown, Single(k)' PROVE Shown(k, e)'
      OBVIOUS
  <2>1. worker[k].entity \in Entities
      BY ShownSpawned
  <2>2. Single(k)
      BY <2>1, SingleKept
  <2> QED BY <1>1, <1>2, <2>2, ShownKept
<1>4. /\ worker'[k].rested => Rested(k, e)'
      /\ worker'[k].heard => Heard(k, e)'
      /\ ~worker'[k].busy => Silent(k, e)'
      /\ worker'[k].shown => worker'[k].busy
      BY <1>2, RestedKept
<1> QED BY <1>1, <1>3, <1>4, TurnNow

LEMMA ClaudeTurnSpawn ==
    ASSUME RecordsInv, NEW k \in Workers, NEW e \in Entities, Spawn(k, e)
    PROVE  ClaudeTurn(k)'
<1>1. AgentsType /\ Spawns /\ WorkerRecords /\ k # Officer /\ Nobody \notin Entities
      BY MCActivityConstants, SameSets
         DEF RecordsInv, Work!ActivityConstants, Work!Officer
<1>2. /\ worker[k].entity = Nobody /\ worker'[k].entity = e
      /\ worker'[k].rested = FALSE /\ worker'[k].heard = FALSE
      /\ worker'[k].busy = FALSE /\ worker'[k].shown = FALSE
      BY <1>1, SpawnStep
<1>3. LogGrows /\ \A p \in Pos' : p \in Pos \/ log'[p].src = Officer
      BY <1>1, SpawnStep DEF Wrote
<1>4. \A p \in Pos : log[p].src # k
      BY <1>1, <1>2 DEF WorkerRecords
<1>5. Spoken(k)' = {}
      BY <1>1, <1>3, <1>4, Old DEF Spoken, Work!In
<1>6. Silent(k, e)'
      BY <1>5 DEF Silent
<1> QED BY <1>2, <1>6, TurnNow

LEMMA ClaudeTurnSpeaks ==
    ASSUME RecordsInv, ClaudeTurns, NEW k \in Workers, WorkerSpeaks(k), Steady
    PROVE  ClaudeTurn(k)'
<1>1. AgentsType /\ Spawns /\ ClaudeTurn(k) /\ IdlesNamed /\ k # Officer
      BY MCActivityConstants, SameSets
         DEF RecordsInv, ClaudeTurns, Work!ActivityConstants, Work!Officer
<1>2. PICK n : n = Next1
      OBVIOUS
<1>3. /\ LogGrows /\ n \in Pos' /\ n \notin Pos /\ \A p \in Pos' : p \in Pos \/ p = n
      /\ n \in Nat \ {0} /\ \A p \in Pos : p < n
      /\ log'[n].src = k /\ log'[n].kind = "assistant"
      BY <1>1, <1>2, WorkerSpeaksStep DEF Wrote
<1>4. PICK e : e = worker[k].entity
      OBVIOUS
<1>5. /\ e \in Entities /\ worker'[k].entity = e
      /\ worker'[k].rested = worker[k].rested /\ worker'[k].heard = FALSE
      /\ worker'[k].busy = TRUE
      /\ worker'[k].shown = (worker[k].shown \/ worker[k].heard \/ ~worker[k].rested)
      BY <1>1, <1>4, WorkerSpeaksStep
<1>6. /\ worker[k].rested => Rested(k, e)
      /\ worker[k].heard => Heard(k, e)
      /\ worker[k].shown /\ Single(k) => Shown(k, e)
      BY <1>1, <1>4, TurnThen
<1>7. Idles(e)' \subseteq Pos
      BY <1>1, <1>3 DEF Work!Idles, Work!In
<1>8. n \in Spoken(k)'
      BY <1>3 DEF Spoken, Work!In
<1>9. /\ Spoken(k) \subseteq Spoken(k)' /\ Idles(e) \subseteq Idles(e)'
      /\ Boundaries(e) \subseteq Boundaries(e)'
      /\ \A p \in Pos : /\ p \in Spoken(k)' => p \in Spoken(k)
                        /\ p \in Idles(e)' => p \in Idles(e)
      BY <1>3, SpokenKept
<1>10. Spoken(k)' \subseteq Pos' /\ \A q \in Spoken(k)' : q \in Spoken(k) \/ q = n
      BY <1>3, <1>9 DEF Spoken, Work!In
<1>11. ASSUME worker'[k].shown, Single(k)' PROVE Shown(k, e)'
  <2>1. Single(k)
        BY <1>4, <1>5, <1>11, SingleKept
  <2>2. CASE worker[k].shown
        BY <1>1, <1>3, <1>4, <1>5, <1>6, <1>7, <2>1, <2>2, ShownKept
  <2>3. CASE worker[k].heard
    <3>1. PICK c \in Boundaries(e) : /\ \E i \in Idles(e) : i < c
                                     /\ \A q \in Spoken(k) : q < c
          BY <1>6, <2>3 DEF Heard
    <3>2. c \in Pos /\ c < n /\ c \in Nat
          BY <1>1, <1>3, Positions DEF Work!Boundaries, Work!In
    <3>3. c \in Boundaries(e)' /\ \E i \in Idles(e)' : i < c
          BY <1>9, <3>1
    <3>4. \A q \in Spoken(k) : q \in Nat
          BY <1>1, Positions DEF Spoken, Work!In
    <3>5. \A q \in Spoken(k)' : q > c => n <= q
      <4> SUFFICES ASSUME NEW q \in Spoken(k)', q > c PROVE n <= q
          OBVIOUS
      <4>1. q = n
          BY <1>10, <3>1, <3>2, <3>4
      <4> QED BY <1>3, <4>1
    <3>6. Opening(k, n)'
          BY <1>5, <1>8, <3>2, <3>3, <3>5
             DEF Opening, Work!Idles, Work!Boundaries
    <3> QED BY <1>3, <1>7, <3>6 DEF Shown
  <2>4. CASE ~worker[k].rested
    <3>1. Idles(e) = {}
      <4> SUFFICES ASSUME NEW i \in Idles(e) PROVE FALSE
          OBVIOUS
      <4>1. PICK j \in Workers : worker[j].rested /\ worker[j].entity = e
          BY <1>1 DEF IdlesNamed, Work!Idles
      <4> QED BY <1>4, <2>1, <2>4, <4>1 DEF Single
    <3>2. Idles(e)' = {}
        BY <1>7, <1>9, <3>1
    <3>3. PICK m \in Spoken(k)' : \A q \in Spoken(k)' : m <= q
      <4>1. AgentsType'
          BY <1>1, WorkerSpeaksStep
      <4>2. Len(log)' \in Nat /\ Pos' = 1 .. Len(log)'
          BY <4>1 DEF AgentsType, Work!Pos
      <4> QED BY <1>8, <1>10, <4>2, LeastPosition
    <3>4. Opening(k, m)' /\ m \in Pos'
        BY <1>10, <3>3 DEF Opening
    <3> QED BY <3>2, <3>4 DEF Shown
  <2> QED BY <1>5, <1>11, <2>2, <2>3, <2>4
<1>12. worker'[k].rested => Rested(k, e)'
      BY <1>3, <1>5, <1>6, RestedKept
<1> QED BY <1>5, <1>11, <1>12, TurnNow

LEMMA ClaudeTurnMessage ==
    ASSUME RecordsInv, ClaudeTurns, NEW k \in Workers, WorkerMessage(k), Steady
    PROVE  ClaudeTurn(k)'
<1>1. AgentsType /\ Spawns /\ ClaudeTurn(k) /\ k # Officer
      BY MCActivityConstants, SameSets
         DEF RecordsInv, ClaudeTurns, Work!ActivityConstants, Work!Officer
<1>2. PICK n : n = Next1
      OBVIOUS
<1>3. PICK e : e = worker[k].entity
      OBVIOUS
<1>4. /\ LogGrows /\ n \in Pos' /\ n \notin Pos /\ \A p \in Pos' : p \in Pos \/ p = n
      /\ n \in Nat \ {0} /\ \A p \in Pos : p < n
      /\ log'[n].src = Officer /\ log'[n].kind = "teammate" /\ log'[n].from = e
      BY <1>1, <1>2, <1>3, WorkerMessageStep DEF Wrote
<1>5. /\ e \in Entities /\ worker'[k].entity = e
      /\ worker'[k].rested = worker[k].rested /\ worker'[k].heard = worker[k].rested
      /\ worker'[k].busy = worker[k].busy /\ worker'[k].shown = worker[k].shown
      BY <1>1, <1>3, WorkerMessageStep
<1>6. /\ worker[k].rested => Rested(k, e)
      /\ ~worker[k].busy => Silent(k, e)
      /\ worker[k].shown => worker[k].busy
      /\ worker[k].shown /\ Single(k) => Shown(k, e)
      BY <1>1, <1>3, TurnThen
<1>7. Idles(e)' \subseteq Pos /\ Spoken(k)' \subseteq Pos
      BY <1>1, <1>4 DEF Work!Idles, Spoken, Work!In
<1>8. ASSUME worker'[k].shown, Single(k)' PROVE Shown(k, e)'
  <2>1. Single(k)
        BY <1>3, <1>5, <1>8, SingleKept
  <2> QED BY <1>1, <1>3, <1>4, <1>5, <1>6, <1>7, <1>8, <2>1, ShownKept
<1>9. ASSUME worker[k].rested PROVE Heard(k, e)'
  <2>1. n \in Boundaries(e)'
        BY <1>4 DEF Work!Boundaries, Work!In
  <2>2. PICK i \in Idles(e) : TRUE
        BY <1>6, <1>9 DEF Rested
  <2>3. i \in Idles(e)' /\ i < n
        BY <1>4, SpokenKept DEF Work!Idles, Work!In
  <2> QED BY <1>4, <1>7, <2>1, <2>3 DEF Heard
<1>10. /\ worker'[k].rested => Rested(k, e)'
       /\ ~worker'[k].busy => Silent(k, e)'
      BY <1>4, <1>5, <1>6, <1>7, RestedKept
<1> QED BY <1>5, <1>6, <1>8, <1>9, <1>10, TurnNow

LEMMA ClaudeTurnIdle ==
    ASSUME RecordsInv, ClaudeTurns, NEW k \in Workers, GoIdle(k)
    PROVE  ClaudeTurn(k)'
<1>1. AgentsType /\ Spawns /\ ClaudeTurn(k) /\ k # Officer
      BY MCActivityConstants, SameSets
         DEF RecordsInv, ClaudeTurns, Work!ActivityConstants, Work!Officer
<1>2. PICK n : n = Next1
      OBVIOUS
<1>3. PICK e : e = worker[k].entity
      OBVIOUS
<1>4. /\ LogGrows /\ n \in Pos' /\ n \notin Pos /\ \A p \in Pos' : p \in Pos \/ p = n
      /\ n \in Nat \ {0} /\ \A p \in Pos : p < n
      /\ log'[n].src = Officer /\ log'[n].kind = "idle" /\ log'[n].from = e
      BY <1>1, <1>2, <1>3, GoIdleStep DEF Wrote
<1>5. /\ worker'[k].entity = e /\ worker'[k].heard = worker[k].heard
      /\ worker'[k].busy = FALSE /\ worker'[k].shown = FALSE
      BY <1>1, <1>3, GoIdleStep
<1>6. worker[k].heard => Heard(k, e)
      BY <1>1, <1>3, TurnThen
<1>7. Spoken(k)' \subseteq Pos
      BY <1>1, <1>4 DEF Spoken, Work!In
<1>8. n \in Idles(e)'
      BY <1>4 DEF Work!Idles, Work!In
<1>9. Rested(k, e)'
      BY <1>8 DEF Rested
<1>10. Silent(k, e)'
  <2>1. \A p \in Spoken(k)' : n > p
      BY <1>1, <1>4, <1>7, Positions
  <2> QED BY <1>8, <2>1 DEF Silent
<1>11. worker'[k].heard => Heard(k, e)'
      BY <1>4, <1>5, <1>6, <1>7, RestedKept
<1> QED BY <1>5, <1>9, <1>10, <1>11, TurnNow

LEMMA IdlesNamedKept ==
    ASSUME LogGrows, Steady, AgentsType, Spawns, IdlesNamed,
           \A k \in Workers : worker[k].rested => worker'[k].rested,
           \A p \in Pos' : p \notin Pos => log'[p].kind # "idle"
    PROVE  IdlesNamed'
<1> SUFFICES ASSUME NEW p \in In(Officer)', log'[p].kind = "idle"
             PROVE  \E k \in Workers : worker'[k].rested /\ worker'[k].entity = log'[p].from
    BY DEF IdlesNamed
<1>1. p \in In(Officer) /\ log'[p] = log[p]
      BY Old DEF Work!In
<1>2. PICK k \in Workers : worker[k].rested /\ worker[k].entity = log[p].from
      BY <1>1 DEF IdlesNamed
<1>3. worker[k].entity \in Entities
      BY <1>2, ShownSpawned
<1> QED BY <1>1, <1>2, <1>3 DEF Steady

LEMMA ClaudeTurnsStep ==
    ASSUME RecordsInv, runtime = "claude", ClaudeTurns, Work!Next
    PROVE  ClaudeTurns'
<1>1. /\ AgentsType /\ Spawns /\ runtime # "codex" /\ IdlesNamed
      /\ \A k \in Workers : ClaudeTurn(k) /\ k # Officer
      BY MCActivityConstants, SameSets
         DEF RecordsInv, ClaudeTurns, Work!ActivityConstants, Work!Officer
<1>2. Steady /\ LogGrows /\ AgentsType'
      BY <1>1, StepSteady
<1>3. ASSUME NEW k \in Workers, worker'[k] = worker[k],
             \A p \in Pos' : p \notin Pos /\ log'[p].src = k => log'[p].kind # "assistant",
             \A p \in Pos' : p \notin Pos /\ log'[p].kind = "idle"
                /\ log'[p].from = worker[k].entity => ~Single(k)'
      PROVE  ClaudeTurn(k)'
  <2>1. PICK e : e = worker[k].entity
        OBVIOUS
  <2>2. Spoken(k)' \subseteq Pos
        BY <1>3 DEF Spoken, Work!In
  <2>3. Single(k)' => Idles(e)' \subseteq Pos
        BY <1>3, <2>1 DEF Work!Idles, Work!In
  <2> QED BY <1>1, <1>2, <1>3, <2>1, <2>2, <2>3, ClaudeTurnKept
<1>4. ASSUME StartTurn PROVE ClaudeTurns'
      BY <1>4, <1>1, StartTurnStep
<1>5. ASSUME EndTurn PROVE ClaudeTurns'
  <2>1. worker' = worker /\ \A p \in Pos' : p \notin Pos =>
                               log'[p].kind \notin {"assistant", "idle"}
      BY <1>5, <1>1, EndTurnStep DEF Wrote
  <2>2. IdlesNamed'
      BY <1>1, <1>2, <2>1, IdlesNamedKept
  <2>3. ASSUME NEW k \in Workers PROVE ClaudeTurn(k)'
      BY <1>1, <1>3, <2>1
  <2> QED BY <2>2, <2>3 DEF ClaudeTurns
<1>6. ASSUME Ask PROVE ClaudeTurns'
  <2>1. worker' = worker /\ \A p \in Pos' : p \notin Pos =>
                               log'[p].kind \notin {"assistant", "idle"}
      BY <1>6, <1>1, AskStep DEF Wrote
  <2>2. IdlesNamed'
      BY <1>1, <1>2, <2>1, IdlesNamedKept
  <2>3. ASSUME NEW k \in Workers PROVE ClaudeTurn(k)'
      BY <1>1, <1>3, <2>1
  <2> QED BY <2>2, <2>3 DEF ClaudeTurns
<1>7. ASSUME Answer PROVE ClaudeTurns'
  <2>1. worker' = worker /\ \A p \in Pos' : p \notin Pos =>
                               log'[p].kind \notin {"assistant", "idle"}
      BY <1>7, <1>1, AnswerStep DEF Wrote
  <2>2. IdlesNamed'
      BY <1>1, <1>2, <2>1, IdlesNamedKept
  <2>3. ASSUME NEW k \in Workers PROVE ClaudeTurn(k)'
      BY <1>1, <1>3, <2>1
  <2> QED BY <2>2, <2>3 DEF ClaudeTurns
<1>8. ASSUME NEW e \in Entities, Call(e) PROVE ClaudeTurns'
  <2>1. worker' = worker /\ \A p \in Pos' : p \notin Pos =>
                               log'[p].kind \notin {"assistant", "idle"}
      BY <1>8, <1>1, CallStep DEF Wrote
  <2>2. IdlesNamed'
      BY <1>1, <1>2, <2>1, IdlesNamedKept
  <2>3. ASSUME NEW k \in Workers PROVE ClaudeTurn(k)'
      BY <1>1, <1>3, <2>1
  <2> QED BY <2>2, <2>3 DEF ClaudeTurns
<1>9. ASSUME NEW k \in Workers, NEW e \in Entities, Spawn(k, e) PROVE ClaudeTurns'
  <2>1. /\ \A p \in Pos' : p \notin Pos => log'[p].kind = "spawn" /\ log'[p].src = Officer
        /\ ~worker[k].rested
        /\ \A j \in Workers : j # k => worker'[j] = worker[j]
      BY <1>9, <1>1, SpawnStep DEF Wrote
  <2>2. IdlesNamed'
      BY <1>1, <1>2, <2>1, IdlesNamedKept
  <2>3. ASSUME NEW j \in Workers, j # k PROVE ClaudeTurn(j)'
      BY <1>1, <1>3, <2>1, <2>3
  <2>4. ClaudeTurn(k)'
      BY <1>9, <1>1, <1>2, ClaudeTurnSpawn
  <2> QED BY <2>2, <2>4, <2>3 DEF ClaudeTurns
<1>10. ASSUME NEW k \in Workers, OpenFile(k) PROVE ClaudeTurns'
      BY <1>10, <1>1, OpenFileStep
<1>11. ASSUME NEW k \in Workers, Confirm(k) PROVE ClaudeTurns'
      BY <1>11, <1>1, ConfirmStep
<1>12. ASSUME NEW k \in Workers, WorkerTurn(k) PROVE ClaudeTurns'
      BY <1>12, <1>1, WorkerTurnStep
<1>13. ASSUME NEW k \in Workers, WorkerCall(k) PROVE ClaudeTurns'
      BY <1>13, <1>1, WorkerCallStep
<1>14. ASSUME NEW k \in Workers, WorkerDone(k) PROVE ClaudeTurns'
      BY <1>14, <1>1, WorkerDoneStep
<1>15. ASSUME NEW k \in Workers, Interrupt(k) PROVE ClaudeTurns'
      BY <1>15, <1>1, InterruptStep
<1>16. ASSUME NEW k \in Workers, WriteMeta(k) PROVE ClaudeTurns'
  <2>1. /\ \A p \in Pos' : p \notin Pos => log'[p].kind = "meta"
        /\ worker'[k].entity = worker[k].entity /\ worker'[k].rested = worker[k].rested
        /\ worker'[k].heard = worker[k].heard /\ worker'[k].busy = worker[k].busy
        /\ worker'[k].shown = worker[k].shown
        /\ \A j \in Workers : j # k => worker'[j] = worker[j]
      BY <1>16, <1>1, WriteMetaStep DEF Wrote
  <2>2. IdlesNamed'
      BY <1>1, <1>2, <2>1, IdlesNamedKept
  <2>3. ClaudeTurn(k)'
    <3>1. PICK e : e = worker[k].entity
        OBVIOUS
    <3>2. Spoken(k)' \subseteq Pos /\ Idles(e)' \subseteq Pos
        BY <2>1 DEF Spoken, Work!Idles, Work!In
    <3> QED BY <1>1, <1>2, <2>1, <3>1, <3>2, ClaudeTurnKept
  <2>4. ASSUME NEW j \in Workers, j # k PROVE ClaudeTurn(j)'
      BY <1>1, <1>3, <2>1, <2>4
  <2> QED BY <2>2, <2>3, <2>4 DEF ClaudeTurns
<1>17. ASSUME NEW k \in Workers, WorkerSpeaks(k) PROVE ClaudeTurns'
  <2>1. /\ \A p \in Pos' : p \notin Pos => log'[p].kind = "assistant" /\ log'[p].src = k
        /\ worker'[k].rested = worker[k].rested
        /\ \A j \in Workers : j # k => worker'[j] = worker[j]
      BY <1>17, <1>1, WorkerSpeaksStep DEF Wrote
  <2>2. IdlesNamed'
      BY <1>1, <1>2, <2>1, IdlesNamedKept
  <2>3. ASSUME NEW j \in Workers, j # k PROVE ClaudeTurn(j)'
      BY <1>1, <1>3, <2>1, <2>3
  <2>4. ClaudeTurn(k)'
      BY <1>17, <1>1, <1>2, ClaudeTurnSpeaks
  <2> QED BY <2>2, <2>4, <2>3 DEF ClaudeTurns
<1>18. ASSUME NEW k \in Workers, WorkerMessage(k) PROVE ClaudeTurns'
  <2>1. /\ \A p \in Pos' : p \notin Pos => log'[p].kind = "teammate" /\ log'[p].src = Officer
        /\ worker'[k].rested = worker[k].rested
        /\ \A j \in Workers : j # k => worker'[j] = worker[j]
      BY <1>18, <1>1, WorkerMessageStep DEF Wrote
  <2>2. IdlesNamed'
      BY <1>1, <1>2, <2>1, IdlesNamedKept
  <2>3. ASSUME NEW j \in Workers, j # k PROVE ClaudeTurn(j)'
      BY <1>1, <1>3, <2>1, <2>3
  <2>4. ClaudeTurn(k)'
      BY <1>18, <1>1, <1>2, ClaudeTurnMessage
  <2> QED BY <2>2, <2>4, <2>3 DEF ClaudeTurns
<1>19. ASSUME NEW k \in Workers, GoIdle(k) PROVE ClaudeTurns'
  <2>1. /\ \A p \in Pos' : p \notin Pos => log'[p].kind = "idle" /\ log'[p].src = Officer
        /\ worker'[k].rested
        /\ \A j \in Workers : j # k => worker'[j] = worker[j]
      BY <1>19, <1>1, GoIdleStep DEF Wrote
  <2>2. /\ \A p \in Pos' : p \notin Pos => log'[p].from = worker[k].entity
        /\ worker'[k].entity = worker[k].entity
      BY <1>19, <1>1, GoIdleStep DEF Wrote
  <2>3. IdlesNamed'
    <3> SUFFICES ASSUME NEW p \in In(Officer)', log'[p].kind = "idle"
                 PROVE  \E j \in Workers : worker'[j].rested /\ worker'[j].entity = log'[p].from
        BY DEF IdlesNamed
    <3>1. CASE p \notin Pos
        BY <2>1, <2>2, <3>1 DEF Work!In
    <3>2. CASE p \in Pos
      <4>1. p \in In(Officer) /\ log'[p] = log[p]
          BY <1>2, <3>2, Old
      <4>2. PICK j \in Workers : worker[j].rested /\ worker[j].entity = log[p].from
          BY <1>1, <4>1 DEF IdlesNamed
      <4> QED BY <2>1, <2>2, <4>1, <4>2
    <3> QED BY <3>1, <3>2
  <2>4. ASSUME NEW j \in Workers, j # k PROVE ClaudeTurn(j)'
    <3>1. worker'[j] = worker[j]
        BY <2>1, <2>4
    <3>2. worker[j].entity = worker[k].entity => ~Single(j)'
        BY <2>4, <2>2, <3>1 DEF Single
    <3> QED BY <1>1, <1>3, <2>1, <2>2, <3>1, <3>2
  <2>5. ClaudeTurn(k)'
      BY <1>19, <1>1, <1>2, ClaudeTurnIdle
  <2> QED BY <2>3, <2>5, <2>4 DEF ClaudeTurns
<1> QED BY <1>4, <1>5, <1>6, <1>7, <1>8, <1>9, <1>10, <1>11, <1>12, <1>13,
           <1>14, <1>15, <1>16, <1>17, <1>18, <1>19
           DEF Work!Next, Work!Officers, Work!Agents

----------------------------------------------------------------------------
(* Claude: what the officer's records say *)

Fresh == [scoped |-> FALSE, handoff |-> FALSE]

LEMMA StepOld ==
    ASSUME AgentsType, LogGrows, NEW p \in Pos, NEW was, NEW e
    PROVE  OfficerStep(was, p, e)' = OfficerStep(was, p, e)
<1>1. log'[p] = log[p] /\ Scopes(p, e)' = Scopes(p, e)
      BY Old DEF Work!Scopes
<1>2. \A d \in Dispatches(e)' : d < p => d \in Dispatches(e)
  <2>1. \A d \in Pos' : d < p => d \in Pos
        BY Positions DEF LogGrows
  <2> QED BY <2>1, Old DEF Work!Dispatches, Work!In
<1>3. Dispatches(e) \subseteq Dispatches(e)'
      BY Old DEF Work!Dispatches, Work!In
<1>4. (\E d \in Dispatches(e)' : d < p) <=> (\E d \in Dispatches(e) : d < p)
      BY <1>2, <1>3
<1> QED BY <1>1, <1>4, Zenon DEF OfficerStep

\* The states of a longer log begin with those of the shorter one.
LEMMA StateBegins ==
    ASSUME AgentsType, LogGrows, NEW n, n = Next1, Len(log') = n, NEW m, m = Len(log),
           NEW e, NEW f, IsState(f, e)'
    PROVE  \E g : /\ IsState(g, e)
                  /\ \A p \in 0 .. Len(log) : g[p] = f[p]
                  /\ f[n] = OfficerStep(g[m], n, e)'
<1>1. PICK g : g = [p \in 0 .. Len(log) |-> f[p]]
      OBVIOUS
<1>2. m = Len(log) /\ Len(log) \in Nat /\ Pos = 1 .. Len(log) /\ n = Len(log) + 1
      BY Positions
<1>3. f = [p \in 0 .. n |-> IF p = 0 THEN Fresh ELSE OfficerStep(f[p - 1], p, e)']
      BY DEF IsState, Fresh
<1>4. \A p \in 0 .. n : f[p] = IF p = 0 THEN Fresh ELSE OfficerStep(f[p - 1], p, e)'
      BY <1>3
<1>5. \A p \in 0 .. Len(log) : g[p] = f[p]
      BY <1>1
<1>6. ASSUME NEW p \in 0 .. Len(log)
      PROVE  f[p] = IF p = 0 THEN Fresh ELSE OfficerStep(g[p - 1], p, e)
  <2>1. CASE p = 0
        BY <1>2, <1>4, <2>1
  <2>2. CASE p # 0
    <3>1. p \in Pos /\ p - 1 \in 0 .. Len(log) /\ p \in 0 .. n
          BY <1>2, <2>2
    <3>2. OfficerStep(f[p - 1], p, e)' = OfficerStep(f[p - 1], p, e)
          BY <3>1, StepOld
    <3>3. f[p] = OfficerStep(f[p - 1], p, e)
          BY <1>4, <2>2, <3>1, <3>2
    <3> QED BY <1>5, <2>2, <3>1, <3>3
  <2> QED BY <2>1, <2>2
<1>7. IsState(g, e)
  <2>1. g = [p \in 0 .. Len(log) |->
                IF p = 0 THEN Fresh ELSE OfficerStep(g[p - 1], p, e)]
        BY <1>1, <1>6
  <2> QED BY <2>1 DEF IsState, Fresh
<1>8. f[n] = OfficerStep(g[m], n, e)'
  <2>1. n \in 0 .. n /\ n # 0 /\ n - 1 = Len(log) /\ Len(log) \in 0 .. Len(log)
        BY <1>2
  <2>2. f[n] = OfficerStep(f[n - 1], n, e)'
        BY <1>4, <2>1
  <2>3. f[n - 1] = g[m]
        BY <1>2, <1>5, <2>1
  <2> QED BY <2>2, <2>3
<1> QED BY <1>5, <1>7, <1>8

LEMMA StateGrows ==
    ASSUME AgentsType, LogGrows, NEW n, n = Next1, Len(log') = n, NEW m, m = Len(log),
           NEW e, NEW g, IsState(g, e)
    PROVE  \E f : IsState(f, e)'
<1>1. m = Len(log) /\ Len(log) \in Nat /\ Pos = 1 .. Len(log) /\ n = Len(log) + 1
      BY Positions
<1>2. PICK a : a = OfficerStep(g[m], n, e)'
      OBVIOUS
<1> DEFINE f == [p \in 0 .. n |-> IF p = n THEN a ELSE g[p]]
<1>3. \A p \in 0 .. Len(log) : g[p] = IF p = 0 THEN Fresh ELSE OfficerStep(g[p - 1], p, e)
      BY <1>1 DEF IsState, Fresh
<1>4. \A p \in 0 .. Len(log) : f[p] = g[p]
      BY <1>1
<1>5. ASSUME NEW p \in 0 .. n
      PROVE  f[p] = IF p = 0 THEN Fresh ELSE OfficerStep(f[p - 1], p, e)'
  <2>1. CASE p = 0
        BY <1>1, <1>3, <1>4, <2>1
  <2>2. CASE p = n
    <3>1. p - 1 = Len(log) /\ p # 0 /\ Len(log) \in 0 .. Len(log) /\ f[p] = a
          BY <1>1, <2>2
    <3>2. f[p - 1] = g[m]
          BY <1>4, <3>1
    <3> QED BY <1>2, <2>2, <3>1, <3>2
  <2>3. CASE p # 0 /\ p # n
    <3>1. p \in Pos /\ p - 1 \in 0 .. Len(log) /\ p \in 0 .. Len(log)
          BY <1>1, <2>3
    <3>2. OfficerStep(g[p - 1], p, e)' = OfficerStep(g[p - 1], p, e)
          BY <3>1, StepOld
    <3>3. f[p] = g[p] /\ f[p - 1] = g[p - 1]
          BY <1>4, <3>1
    <3>4. g[p] = OfficerStep(g[p - 1], p, e)
          BY <1>3, <2>3, <3>1
    <3> QED BY <2>3, <3>2, <3>3, <3>4
  <2> QED BY <2>1, <2>2, <2>3
<1>6. f = [p \in 0 .. n |-> IF p = 0 THEN Fresh ELSE OfficerStep(f[p - 1], p, e)']
      BY <1>5
<1>7. IsState(f, e)'
      BY <1>6 DEF IsState, Fresh
<1> QED BY <1>7

\* A step that writes record n, between the states g of before and f of after.
Extends(g, f, m, n, e) ==
    /\ IsState(g, e) /\ Agrees(g, e) /\ Tells(g, e)
    /\ LogGrows /\ n = Next1 /\ n = Len(log') /\ n \in Pos' /\ n \notin Pos
    /\ \A p \in Pos' : p \in Pos \/ p = n
    /\ \A p \in Pos : p < n
    /\ n \in Nat /\ m = Len(log) /\ n - 1 = m
    /\ \A p \in 0 .. Len(log) : g[p] = f[p]
    /\ f[n] = OfficerStep(g[m], n, e)'

LEMMA StartedOld ==
    ASSUME AgentsType, NEW g, NEW f, NEW m, NEW n, NEW e, Extends(g, f, m, n, e), NEW p \in Pos
    PROVE  /\ Started(f, p, e)' <=> Started(g, p, e)
           /\ Stopped(f, p, e)' <=> Stopped(g, p, e)
<1>1. p - 1 \in 0 .. Len(log)
      BY Positions
<1>2. f[p - 1] = g[p - 1]
      BY <1>1 DEF Extends
<1>3. log'[p] = log[p] /\ (p \in In(Officer)' <=> p \in In(Officer))
      BY Old DEF Extends
<1> QED BY <1>2, <1>3 DEF Started, Stopped, Work!Scopes

\* A record that is not the officer's word, and no notification of e.
LEMMA PlainRecord ==
    ASSUME AgentsType, NEW g, NEW f, NEW m, NEW n, NEW e \in Entities, Extends(g, f, m, n, e),
           \/ log'[n].src # Officer
           \/ log'[n].kind \notin AssistantKinds /\ log'[n].kind # "idle"
           \/ log'[n].kind = "idle" /\ log'[n].from # e,
           fo.ask # 0 => fo.ask \in Pos,
           fo'.ask \in {0, fo.ask}, fo'.touched = fo.touched,
           e \in fo'.handed <=> e \in fo.handed
    PROVE  Agrees(f, e)' /\ Tells(f, e)'
<1>1. f[n] = g[m]
      BY DEF Extends, OfficerStep, Work!AssistantKinds
<1>2. n = Len(log)' /\ m = Len(log)
      BY DEF Extends
<1>3. Agrees(f, e)'
      BY <1>1, <1>2 DEF Agrees, Extends
<1>4. ~Started(f, n, e)' /\ ~Stopped(f, n, e)'
      BY DEF Started, Stopped, Work!In, Work!Scopes, Work!AssistantKinds
<1>5. fo'.ask # 0 => f[fo'.ask] = g[fo.ask]
      BY Positions DEF Extends
<1>6. fo'.ask # 0 => (f[fo'.ask].scoped <=> e \in fo'.touched)
      BY <1>5 DEF Tells, Extends
<1>7. \A p \in Pos' : Started(f, p, e)' =>
          e \in fo'.touched \/ \E q \in Pos' : q >= p /\ Stopped(f, q, e)'
  <2> SUFFICES ASSUME NEW p \in Pos', Started(f, p, e)', e \notin fo'.touched
               PROVE  \E q \in Pos' : q >= p /\ Stopped(f, q, e)'
      OBVIOUS
  <2>1. p \in Pos /\ Started(g, p, e)
        BY <1>4, StartedOld DEF Extends
  <2>2. PICK q \in Pos : q >= p /\ Stopped(g, q, e)
        BY <2>1 DEF Extends, Tells
  <2>3. q \in Pos' /\ Stopped(f, q, e)'
        BY <2>2, StartedOld, Old DEF Extends
  <2> QED BY <2>2, <2>3
<1>8. e \in fo'.touched =>
          \E p \in Pos' : Started(f, p, e)' /\ \A q \in Pos' : Stopped(f, q, e)' => q < p
  <2> SUFFICES ASSUME e \in fo'.touched
               PROVE  \E p \in Pos' : /\ Started(f, p, e)'
                                      /\ \A q \in Pos' : Stopped(f, q, e)' => q < p
      OBVIOUS
  <2>1. PICK p \in Pos : Started(g, p, e) /\ \A q \in Pos : Stopped(g, q, e) => q < p
        BY DEF Extends, Tells
  <2>2. p \in Pos' /\ Started(f, p, e)'
        BY <2>1, StartedOld, Old DEF Extends
  <2>3. \A q \in Pos' : Stopped(f, q, e)' => q < p
        BY <1>4, <2>1, StartedOld DEF Extends
  <2> QED BY <2>2, <2>3
<1>9. Tells(f, e)'
      BY <1>6, <1>7, <1>8 DEF Tells
<1> QED BY <1>3, <1>9

\* The officer speaks, and its turn goes on.
LEMMA OfficerSpeaks ==
    ASSUME AgentsType, NEW g, NEW f, NEW m, NEW n, NEW e \in Entities, Extends(g, f, m, n, e),
           log'[n].src = Officer, log'[n].kind \in {"call", "spawn", "ask"},
           fo'.ask \in {0, n}, fo'.handed = {},
           e \in fo'.touched <=> e \in fo.touched \/ e \in fo.handed \/ Scopes(n, e)'
    PROVE  Agrees(f, e)' /\ Tells(f, e)'
<1> DEFINE a == g[m]
<1>1. /\ a.scoped \in BOOLEAN /\ a.handoff \in BOOLEAN
      /\ a.handoff <=> e \in fo.handed
      /\ (a.scoped \/ a.handoff) <=> (e \in fo.touched \/ e \in fo.handed)
      BY DEF Extends, Agrees
<1>2. f[n] = [scoped |-> a.scoped \/ a.handoff \/ Scopes(n, e)', handoff |-> FALSE]
  <2>1. f[n] = OfficerStep(a, n, e)' /\ log'[n].kind # "idle"
        /\ log'[n].kind # "end_turn" /\ log'[n].kind \in AssistantKinds
        BY DEF Extends, Work!AssistantKinds
  <2> HIDE DEF a
  <2> QED BY <2>1 DEF OfficerStep
<1>3. f[n - 1] = a /\ a = g[Len(log)] /\ n = Len(log)' /\ n \in Nat
      BY Positions DEF Extends
<1> HIDE DEF a
<1>4. /\ f[n].scoped \in BOOLEAN /\ f[n].handoff = FALSE
      /\ f[n].scoped <=> (a.scoped \/ a.handoff \/ Scopes(n, e)')
  <2>1. Scopes(n, e)' \in BOOLEAN
        BY DEF Work!Scopes
  <2> QED BY <1>1, <1>2, <2>1
<1>5. Agrees(f, e)'
      BY <1>1, <1>3, <1>4 DEF Agrees
<1>6. ~Stopped(f, n, e)'
      BY DEF Stopped
<1>7. (Scopes(n, e)' \/ e \in fo.handed) => Started(f, n, e)'
      BY <1>1, <1>3 DEF Started, Work!In, Work!AssistantKinds, Extends
<1>8. Started(f, n, e)' => e \in fo'.touched
      BY <1>1, <1>3 DEF Started
<1>9. fo'.ask # 0 => (f[fo'.ask].scoped <=> e \in fo'.touched)
      BY <1>1, <1>4
<1>10. \A p \in Pos' : Started(f, p, e)' =>
          e \in fo'.touched \/ \E q \in Pos' : q >= p /\ Stopped(f, q, e)'
  <2> SUFFICES ASSUME NEW p \in Pos', Started(f, p, e)', e \notin fo'.touched
               PROVE  \E q \in Pos' : q >= p /\ Stopped(f, q, e)'
      OBVIOUS
  <2>1. p \in Pos /\ Started(g, p, e)
        BY <1>8, StartedOld DEF Extends
  <2>2. PICK q \in Pos : q >= p /\ Stopped(g, q, e)
        BY <2>1 DEF Extends, Tells
  <2>3. q \in Pos' /\ Stopped(f, q, e)'
        BY <2>2, StartedOld, Old DEF Extends
  <2> QED BY <2>2, <2>3
<1>11. e \in fo'.touched =>
          \E p \in Pos' : Started(f, p, e)' /\ \A q \in Pos' : Stopped(f, q, e)' => q < p
  <2> SUFFICES ASSUME e \in fo'.touched
               PROVE  \E p \in Pos' : /\ Started(f, p, e)'
                                      /\ \A q \in Pos' : Stopped(f, q, e)' => q < p
      OBVIOUS
  <2>1. CASE e \in fo.touched
    <3>1. PICK p \in Pos : Started(g, p, e) /\ \A q \in Pos : Stopped(g, q, e) => q < p
          BY <2>1 DEF Extends, Tells
    <3>2. p \in Pos' /\ Started(f, p, e)'
          BY <3>1, StartedOld, Old DEF Extends
    <3>3. \A q \in Pos' : Stopped(f, q, e)' => q < p
          BY <1>6, <3>1, StartedOld DEF Extends
    <3> QED BY <3>2, <3>3
  <2>2. CASE e \notin fo.touched
    <3>1. n \in Pos' /\ Started(f, n, e)'
          BY <1>7, <2>2 DEF Extends
    <3>2. \A q \in Pos' : Stopped(f, q, e)' => q < n
          BY <1>6 DEF Extends
    <3> QED BY <3>1, <3>2
  <2> QED BY <2>1, <2>2
<1>12. Tells(f, e)'
      BY <1>9, <1>10, <1>11 DEF Tells
<1> QED BY <1>5, <1>12

LEMMA OfficerEnds ==
    ASSUME AgentsType, NEW g, NEW f, NEW m, NEW n, NEW e \in Entities, Extends(g, f, m, n, e),
           log'[n].src = Officer, log'[n].kind = "end_turn",
           fo'.ask = 0, fo'.handed = {}, fo'.touched = {}
    PROVE  Agrees(f, e)' /\ Tells(f, e)'
<1> DEFINE a == g[m]
<1>1. /\ a.scoped \in BOOLEAN /\ a.handoff \in BOOLEAN
      /\ a.handoff <=> e \in fo.handed
      /\ (a.scoped \/ a.handoff) <=> (e \in fo.touched \/ e \in fo.handed)
      BY DEF Extends, Agrees
<1>2. f[n] = [scoped |-> FALSE, handoff |-> FALSE]
  <2>1. f[n] = OfficerStep(a, n, e)' /\ log'[n].kind \in AssistantKinds
        BY DEF Extends, Work!AssistantKinds
  <2> HIDE DEF a
  <2> QED BY <2>1 DEF OfficerStep
<1>3. f[n - 1] = a /\ a = g[Len(log)] /\ n = Len(log)' /\ n \in Nat
      BY Positions DEF Extends
<1> HIDE DEF a
<1>4. f[n].scoped = FALSE /\ f[n].handoff = FALSE
      BY <1>2
<1>5. Agrees(f, e)'
      BY <1>3, <1>4 DEF Agrees
<1>6. e \in fo.touched \/ e \in fo.handed => n \in Pos' /\ Stopped(f, n, e)'
      BY <1>1, <1>3 DEF Stopped, Work!In, Extends
<1>7. Started(f, n, e)' => e \in fo.handed
      BY <1>1, <1>3 DEF Started, Work!Scopes
<1>8. \A p \in Pos' : Started(f, p, e)' =>
          e \in fo'.touched \/ \E q \in Pos' : q >= p /\ Stopped(f, q, e)'
  <2> SUFFICES ASSUME NEW p \in Pos', Started(f, p, e)'
               PROVE  \E q \in Pos' : q >= p /\ Stopped(f, q, e)'
      OBVIOUS
  <2>1. CASE p = n
        BY <1>3, <1>6, <1>7, <2>1
  <2>2. CASE p # n
    <3>1. p \in Pos /\ Started(g, p, e) /\ p < n
          BY <2>2, StartedOld DEF Extends
    <3>2. CASE e \in fo.touched
          BY <1>3, <1>6, <3>1, <3>2, Positions
    <3>3. CASE e \notin fo.touched
      <4>1. PICK q \in Pos : q >= p /\ Stopped(g, q, e)
            BY <3>1, <3>3 DEF Extends, Tells
      <4>2. q \in Pos' /\ Stopped(f, q, e)'
            BY <4>1, StartedOld, Old DEF Extends
      <4> QED BY <4>1, <4>2
    <3> QED BY <3>2, <3>3
  <2> QED BY <2>1, <2>2
<1>9. Tells(f, e)'
      BY <1>8 DEF Tells
<1> QED BY <1>5, <1>9

\* A notification of a worker of e, after the spawn of it.
LEMMA HandsBack ==
    ASSUME AgentsType, NEW g, NEW f, NEW m, NEW n, NEW e \in Entities, Extends(g, f, m, n, e),
           log'[n].src = Officer, log'[n].kind = "idle", log'[n].from = e,
           \E d \in Dispatches(e)' : d < n,
           fo.ask # 0 => fo.ask \in Pos,
           fo'.ask = fo.ask, fo'.touched = fo.touched, e \in fo'.handed
    PROVE  Agrees(f, e)' /\ Tells(f, e)'
<1>1. f[n] = [scoped |-> FALSE, handoff |-> TRUE]
      BY DEF Extends, OfficerStep
<1>2. n = Len(log)'
      BY DEF Extends
<1>3. f[n].scoped = FALSE /\ f[n].handoff = TRUE
      BY <1>1
<1>4. Agrees(f, e)'
      BY <1>2, <1>3 DEF Agrees
<1>5. ~Started(f, n, e)' /\ ~Stopped(f, n, e)'
      BY DEF Started, Stopped, Work!In, Work!Scopes, Work!AssistantKinds
<1>6. fo'.ask # 0 => f[fo'.ask] = g[fo.ask]
      BY Positions DEF Extends
<1>7. fo'.ask # 0 => (f[fo'.ask].scoped <=> e \in fo'.touched)
      BY <1>6 DEF Tells, Extends
<1>8. \A p \in Pos' : Started(f, p, e)' =>
          e \in fo'.touched \/ \E q \in Pos' : q >= p /\ Stopped(f, q, e)'
  <2> SUFFICES ASSUME NEW p \in Pos', Started(f, p, e)', e \notin fo'.touched
               PROVE  \E q \in Pos' : q >= p /\ Stopped(f, q, e)'
      OBVIOUS
  <2>1. p \in Pos /\ Started(g, p, e)
        BY <1>5, StartedOld DEF Extends
  <2>2. PICK q \in Pos : q >= p /\ Stopped(g, q, e)
        BY <2>1 DEF Extends, Tells
  <2>3. q \in Pos' /\ Stopped(f, q, e)'
        BY <2>2, StartedOld, Old DEF Extends
  <2> QED BY <2>2, <2>3
<1>9. e \in fo'.touched =>
          \E p \in Pos' : Started(f, p, e)' /\ \A q \in Pos' : Stopped(f, q, e)' => q < p
  <2> SUFFICES ASSUME e \in fo'.touched
               PROVE  \E p \in Pos' : /\ Started(f, p, e)'
                                      /\ \A q \in Pos' : Stopped(f, q, e)' => q < p
      OBVIOUS
  <2>1. PICK p \in Pos : Started(g, p, e) /\ \A q \in Pos : Stopped(g, q, e) => q < p
        BY DEF Extends, Tells
  <2>2. p \in Pos' /\ Started(f, p, e)'
        BY <2>1, StartedOld, Old DEF Extends
  <2>3. \A q \in Pos' : Stopped(f, q, e)' => q < p
        BY <1>5, <2>1, StartedOld DEF Extends
  <2> QED BY <2>2, <2>3
<1>10. Tells(f, e)'
      BY <1>7, <1>8, <1>9 DEF Tells
<1> QED BY <1>4, <1>10

LEMMA ClaudeOfficerStep ==
    ASSUME RecordsInv, runtime = "claude", ClaudeOfficerAgrees, Work!Next
    PROVE  ClaudeOfficerAgrees'
<1>1. /\ AgentsType /\ Spawns /\ runtime # "codex"
      /\ fo.ask # 0 => fo.ask \in Pos
      /\ \A k \in Workers : k # Officer
      BY MCActivityConstants, SameSets
         DEF RecordsInv, Work!ActivityConstants, Work!Officer, Questions,
             Work!In
<1>2. LogGrows
      BY <1>1, StepSteady
<1>3. PICK m, n : m = Len(log) /\ n = Next1
      OBVIOUS
<1>4. m \in Nat /\ n = m + 1 /\ n \in Nat /\ n - 1 = m /\ \A p \in Pos : p < n
      BY <1>1, <1>3, Positions
\* It is enough to show the step from the states of before to those of after.
<1>5. ASSUME Len(log') = n, n \in Pos', n \notin Pos, \A p \in Pos' : p \in Pos \/ p = n,
             \A e \in Entities : \A g : \A f :
                 Extends(g, f, m, n, e) => Agrees(f, e)' /\ Tells(f, e)'
      PROVE  ClaudeOfficerAgrees'
  <2>1. ASSUME NEW e \in Entities PROVE \E f : IsState(f, e)'
        BY <1>1, <1>2, <1>3, <1>5, <2>1, StateGrows DEF ClaudeOfficerAgrees
  <2>2. ASSUME NEW e \in Entities, NEW f, IsState(f, e)'
        PROVE  Agrees(f, e)' /\ Tells(f, e)'
    <3>1. PICK g : /\ IsState(g, e)
                   /\ \A p \in 0 .. Len(log) : g[p] = f[p]
                   /\ f[n] = OfficerStep(g[m], n, e)'
          BY <1>1, <1>2, <1>3, <1>5, <2>2, StateBegins
    <3>2. Agrees(g, e) /\ Tells(g, e)
          BY <3>1 DEF ClaudeOfficerAgrees
    <3>3. Extends(g, f, m, n, e)
          BY <1>2, <1>3, <1>4, <1>5, <3>1, <3>2 DEF Extends
    <3> QED BY <1>5, <3>3
  <2> QED BY <2>1, <2>2 DEF ClaudeOfficerAgrees
<1>6. ASSUME StartTurn PROVE ClaudeOfficerAgrees'
      BY <1>6, <1>1, StartTurnStep
<1>7. ASSUME EndTurn PROVE ClaudeOfficerAgrees'
  <2>1. /\ log'[n].src = Officer /\ log'[n].kind = "end_turn"
        /\ fo'.ask = 0 /\ fo'.handed = {} /\ fo'.touched = {}
        /\ Len(log') = n /\ n \in Pos' /\ n \notin Pos
        /\ \A p \in Pos' : p \in Pos \/ p = n
      BY <1>7, <1>1, <1>3, EndTurnStep DEF Wrote
  <2>2. ASSUME NEW d \in Entities, NEW g, NEW f, Extends(g, f, m, n, d)
        PROVE  Agrees(f, d)' /\ Tells(f, d)'
      BY <1>1, <2>1, <2>2, OfficerEnds
  <2> QED BY <1>5, <2>1, <2>2
<1>8. ASSUME Ask PROVE ClaudeOfficerAgrees'
  <2>1. /\ log'[n].src = Officer /\ log'[n].kind = "ask"
        /\ log'[n].about = {} /\ fo'.ask = n /\ fo'.handed = {}
        /\ fo'.touched = fo.touched \cup fo.handed
        /\ Len(log') = n /\ n \in Pos' /\ n \notin Pos
        /\ \A p \in Pos' : p \in Pos \/ p = n
      BY <1>8, <1>1, <1>3, AskStep DEF Wrote
  <2>2. ASSUME NEW d \in Entities
        PROVE  d \in fo'.touched <=> d \in fo.touched \/ d \in fo.handed \/ Scopes(n, d)'
      BY <2>1 DEF Work!Scopes
  <2>3. ASSUME NEW d \in Entities, NEW g, NEW f, Extends(g, f, m, n, d)
        PROVE  Agrees(f, d)' /\ Tells(f, d)'
      BY <1>1, <2>1, <2>3, OfficerSpeaks, <2>2
  <2> QED BY <1>5, <2>1, <2>3
<1>9. ASSUME Answer PROVE ClaudeOfficerAgrees'
  <2>1. /\ log'[n].src = Officer /\ log'[n].kind = "result"
        /\ fo'.ask = 0 /\ fo'.handed = fo.handed /\ fo'.touched = fo.touched
        /\ Len(log') = n /\ n \in Pos' /\ n \notin Pos
        /\ \A p \in Pos' : p \in Pos \/ p = n
      BY <1>9, <1>1, <1>3, AnswerStep DEF Wrote
  <2>2. ASSUME NEW d \in Entities, NEW g, NEW f, Extends(g, f, m, n, d)
        PROVE  Agrees(f, d)' /\ Tells(f, d)'
      BY <1>1, <2>1, <2>2, PlainRecord DEF Work!AssistantKinds
  <2> QED BY <1>5, <2>1, <2>2
<1>10. ASSUME NEW e \in Entities, Call(e) PROVE ClaudeOfficerAgrees'
  <2>1. /\ log'[n].src = Officer /\ log'[n].kind = "call"
        /\ log'[n].about = {e} /\ fo'.ask = 0 /\ fo'.handed = {}
        /\ fo'.touched = fo.touched \cup fo.handed \cup {e}
        /\ Len(log') = n /\ n \in Pos' /\ n \notin Pos
        /\ \A p \in Pos' : p \in Pos \/ p = n
      BY <1>10, <1>1, <1>3, CallStep DEF Wrote
  <2>2. ASSUME NEW d \in Entities
        PROVE  d \in fo'.touched <=> d \in fo.touched \/ d \in fo.handed \/ Scopes(n, d)'
      BY <2>1 DEF Work!Scopes
  <2>3. ASSUME NEW d \in Entities, NEW g, NEW f, Extends(g, f, m, n, d)
        PROVE  Agrees(f, d)' /\ Tells(f, d)'
      BY <1>1, <2>1, <2>3, OfficerSpeaks, <2>2
  <2> QED BY <1>5, <2>1, <2>3
<1>11. ASSUME NEW k \in Workers, NEW e \in Entities, Spawn(k, e)
       PROVE  ClaudeOfficerAgrees'
  <2>1. /\ log'[n].src = Officer /\ log'[n].kind = "spawn"
        /\ log'[n].about = {e} /\ fo'.ask = 0 /\ fo'.handed = {}
        /\ fo'.touched = fo.touched \cup fo.handed \cup {e}
        /\ Len(log') = n /\ n \in Pos' /\ n \notin Pos
        /\ \A p \in Pos' : p \in Pos \/ p = n
      BY <1>11, <1>1, <1>3, SpawnStep DEF Wrote
  <2>2. ASSUME NEW d \in Entities
        PROVE  d \in fo'.touched <=> d \in fo.touched \/ d \in fo.handed \/ Scopes(n, d)'
      BY <2>1 DEF Work!Scopes
  <2>3. ASSUME NEW d \in Entities, NEW g, NEW f, Extends(g, f, m, n, d)
        PROVE  Agrees(f, d)' /\ Tells(f, d)'
      BY <1>1, <2>1, <2>3, OfficerSpeaks, <2>2
  <2> QED BY <1>5, <2>1, <2>3
<1>12. ASSUME NEW k \in Workers, OpenFile(k) PROVE ClaudeOfficerAgrees'
      BY <1>12, <1>1, OpenFileStep
<1>13. ASSUME NEW k \in Workers, Confirm(k) PROVE ClaudeOfficerAgrees'
      BY <1>13, <1>1, ConfirmStep
<1>14. ASSUME NEW k \in Workers, WorkerTurn(k) PROVE ClaudeOfficerAgrees'
      BY <1>14, <1>1, WorkerTurnStep
<1>15. ASSUME NEW k \in Workers, WorkerCall(k) PROVE ClaudeOfficerAgrees'
      BY <1>15, <1>1, WorkerCallStep
<1>16. ASSUME NEW k \in Workers, WorkerDone(k) PROVE ClaudeOfficerAgrees'
      BY <1>16, <1>1, WorkerDoneStep
<1>17. ASSUME NEW k \in Workers, Interrupt(k) PROVE ClaudeOfficerAgrees'
      BY <1>17, <1>1, InterruptStep
<1>18. ASSUME NEW k \in Workers, WriteMeta(k) PROVE ClaudeOfficerAgrees'
  <2>1. /\ log'[n].src # Officer /\ fo' = fo
        /\ Len(log') = n /\ n \in Pos' /\ n \notin Pos
        /\ \A p \in Pos' : p \in Pos \/ p = n
      BY <1>18, <1>1, <1>3, WriteMetaStep DEF Wrote
  <2>2. ASSUME NEW d \in Entities, NEW g, NEW f, Extends(g, f, m, n, d)
        PROVE  Agrees(f, d)' /\ Tells(f, d)'
      BY <1>1, <2>1, <2>2, PlainRecord
  <2> QED BY <1>5, <2>1, <2>2
<1>19. ASSUME NEW k \in Workers, WorkerSpeaks(k) PROVE ClaudeOfficerAgrees'
  <2>1. /\ log'[n].src # Officer /\ fo' = fo
        /\ Len(log') = n /\ n \in Pos' /\ n \notin Pos
        /\ \A p \in Pos' : p \in Pos \/ p = n
      BY ZenonT(60), <1>19, <1>1, <1>3, WorkerSpeaksStep DEF Wrote
  <2>2. ASSUME NEW d \in Entities, NEW g, NEW f, Extends(g, f, m, n, d)
        PROVE  Agrees(f, d)' /\ Tells(f, d)'
      BY <1>1, <2>1, <2>2, PlainRecord
  <2> QED BY <1>5, <2>1, <2>2
<1>20. ASSUME NEW k \in Workers, WorkerMessage(k) PROVE ClaudeOfficerAgrees'
  <2>1. /\ log'[n].src = Officer /\ log'[n].kind = "teammate" /\ fo' = fo
        /\ Len(log') = n /\ n \in Pos' /\ n \notin Pos
        /\ \A p \in Pos' : p \in Pos \/ p = n
      BY <1>20, <1>1, <1>3, WorkerMessageStep DEF Wrote
  <2>2. ASSUME NEW d \in Entities, NEW g, NEW f, Extends(g, f, m, n, d)
        PROVE  Agrees(f, d)' /\ Tells(f, d)'
      BY <1>1, <2>1, <2>2, PlainRecord DEF Work!AssistantKinds
  <2> QED BY <1>5, <2>1, <2>2
<1>21. ASSUME NEW k \in Workers, GoIdle(k) PROVE ClaudeOfficerAgrees'
  <2>1. /\ log'[n].src = Officer /\ log'[n].kind = "idle"
        /\ log'[n].from = worker[k].entity
        /\ fo'.ask = fo.ask /\ fo'.touched = fo.touched
        /\ fo'.handed = fo.handed \cup {worker[k].entity}
        /\ worker[k].entity \in Entities
        /\ Len(log') = n /\ n \in Pos' /\ n \notin Pos
        /\ \A p \in Pos' : p \in Pos \/ p = n
      BY <1>21, <1>1, <1>3, GoIdleStep DEF Wrote
  <2>2. ASSUME NEW d \in Entities, NEW g, NEW f, Extends(g, f, m, n, d)
        PROVE  Agrees(f, d)' /\ Tells(f, d)'
    <3>1. CASE d # worker[k].entity
        BY <1>1, <2>1, <2>2, <3>1, PlainRecord
    <3>2. CASE d = worker[k].entity
      <4>1. PICK c : c = worker[k].call
          OBVIOUS
      <4>2. c \in Dispatches(d)
          BY <1>1, <3>2, <4>1 DEF Spawns, Work!Dispatches
      <4>3. c \in Dispatches(d)' /\ c < n
          BY <1>2, <1>4, <4>2, Old DEF Work!Dispatches, Work!In
      <4> QED BY <1>1, <2>1, <2>2, <3>2, <4>3, HandsBack
    <3> QED BY <3>1, <3>2
  <2> QED BY <1>5, <2>1, <2>2
<1> QED BY <1>6, <1>7, <1>8, <1>9, <1>10, <1>11, <1>12, <1>13, <1>14, <1>15,
           <1>16, <1>17, <1>18, <1>19, <1>20, <1>21
           DEF Work!Next, Work!Officers, Work!Agents

----------------------------------------------------------------------------
(* The invariant is inductive *)

LEMMA InitRecords ==
    ASSUME Work!Init
    PROVE  /\ RecordsInv
           /\ \A k \in Workers : worker[k] = NoWorker /\ In(k) = {} /\ k # Officer
           /\ runtime = "codex" => \A p \in Pos : /\ p = 1 /\ log[p].src = Officer
                                                  /\ log[p].kind = "session"
           /\ runtime = "codex" => 1 \in Pos
           /\ runtime = "claude" => Pos = {} /\ Len(log) = 0
<1> DEFINE r == [Blank EXCEPT !.kind = "session"]
<1>1. r \in Record
      BY MCActivityConstants, SameSets
         DEF Work!ActivityConstants, Record, Work!Blank, OfficerKinds,
             WorkerKinds, Work!Sessions, Work!Officer
<1>2. /\ r.src = Officer /\ r.kind = "session" /\ r.from = Nobody /\ r.id = 0
      BY DEF Work!Blank
<1>3. log = IF runtime = "claude" THEN <<>> ELSE <<r>>
      BY DEF Work!Init
<1> HIDE DEF r
<1>4. log \in Seq(Record)
      BY <1>1, <1>3
<1>5. /\ runtime = "codex" => Pos = {1} /\ log[1] = r
      /\ runtime = "claude" => Pos = {} /\ Len(log) = 0
      /\ runtime \in {"codex", "claude"}
      BY <1>3 DEF Work!Pos, Work!Init
<1>6. \A k \in Workers : /\ k # Officer /\ worker[k] = NoWorker
                         /\ worker[k].entity = Nobody
      BY MCActivityConstants, SameSets
         DEF Work!ActivityConstants, Work!Officer, Work!Init, Work!NoWorker
<1>7. NoWorker \in AgentType
      BY DEF Work!NoWorker, AgentType
<1>8. AgentsType
      BY <1>4, <1>7 DEF AgentsType, Work!Init
<1>9. \A p \in Pos : log[p].src = Officer /\ log[p].kind = "session" /\ log[p].from = Nobody
      BY <1>2, <1>5
<1>10. \A k \in Workers : In(k) = {}
      BY <1>6, <1>9 DEF Work!In
<1>11. OfficerRecords /\ WorkerRecords
      BY <1>9 DEF OfficerRecords, WorkerRecords, Work!In, OfficerKinds
<1>12. Spawns
      BY <1>6, <1>9, MCActivityConstants, SameSets
         DEF Spawns, Work!In, Work!ActivityConstants
<1>13. Questions
      BY <1>9 DEF Questions, Work!Init, Work!In
<1> QED BY <1>2, <1>5, <1>6, <1>8, <1>10, <1>11, <1>12, <1>13 DEF RecordsInv

LEMMA AgentsInit ==
    ASSUME Work!Init
    PROVE  AgentsInv
<1>1. /\ RecordsInv
      /\ \A k \in Workers : worker[k] = NoWorker /\ In(k) = {} /\ k # Officer
      /\ runtime = "codex" => \A p \in Pos : /\ p = 1 /\ log[p].src = Officer
                                             /\ log[p].kind = "session"
      /\ runtime = "codex" => 1 \in Pos
      /\ runtime = "claude" => Pos = {} /\ Len(log) = 0
      BY InitRecords
<1>2. fo.turn = 0 /\ fo.touched = {} /\ fo.handed = {} /\ fo.ask = 0
      BY DEF Work!Init
<1>3. \A k \in Workers : /\ worker[k].busy = FALSE /\ worker[k].known = FALSE
                         /\ worker[k].opened = FALSE /\ worker[k].rested = FALSE
                         /\ worker[k].heard = FALSE /\ worker[k].shown = FALSE
      BY <1>1 DEF Work!NoWorker
<1>4. ASSUME runtime = "codex" PROVE CodexTurns /\ CodexFiles /\ CodexScopes
  <2>1. CodexTurns
        BY <1>1, <1>2, <1>3 DEF CodexTurns, BusyTurn
  <2>2. CodexFiles
        BY <1>1, <1>3, <1>4 DEF CodexFiles, Work!In
  <2>3. \A e : Scoping(Officer, e) = {}
        BY <1>1, <1>4 DEF Scoping, Work!Scopes, Work!In
  <2>4. \A p \in Pos : p # 0
        BY <1>1, <1>4
  <2>5. CodexScopes
        BY <1>1, <1>2, <2>3, <2>4
           DEF CodexScopes, OfficerScopes, TouchedScopes, AskInTurn, WorkerCalls
  <2> QED BY <2>1, <2>2, <2>5
<1>5. ASSUME runtime = "claude"
      PROVE  ClaudeFiles /\ ClaudeTurns /\ ClaudeOfficerAgrees
  <2>1. ClaudeFiles
        BY <1>1, <1>3, <1>5 DEF ClaudeFiles
  <2>2. ClaudeTurns
        BY <1>1, <1>3, <1>5
           DEF ClaudeTurns, ClaudeTurn, IdlesNamed, Work!In, Spoken
  <2>3. ASSUME NEW e \in Entities, NEW f, IsState(f, e)
        PROVE  Agrees(f, e) /\ Tells(f, e)
    <3>1. f = [p \in 0 .. 0 |-> IF p = 0 THEN Fresh ELSE OfficerStep(f[p - 1], p, e)]
          BY <1>1, <1>5, <2>3 DEF IsState, Fresh
    <3>2. 0 \in 0 .. 0
          OBVIOUS
    <3>3. f[0] = Fresh
          BY <3>1, <3>2
    <3>4. f[Len(log)].scoped = FALSE /\ f[Len(log)].handoff = FALSE
          BY <1>1, <1>5, <3>3 DEF Fresh
    <3> QED BY <1>1, <1>2, <1>5, <3>4 DEF Agrees, Tells
  <2>4. ASSUME NEW e \in Entities PROVE \E f : IsState(f, e)
    <3> DEFINE f == [p \in 0 .. 0 |-> Fresh]
    <3>1. f = [p \in 0 .. 0 |-> IF p = 0 THEN Fresh ELSE OfficerStep(f[p - 1], p, e)]
          OBVIOUS
    <3>2. IsState(f, e)
          BY <1>1, <1>5, <3>1 DEF IsState, Fresh
    <3> QED BY <3>2
  <2> QED BY <2>1, <2>2, <2>3, <2>4 DEF ClaudeOfficerAgrees
<1> QED BY <1>1, <1>4, <1>5 DEF AgentsInv, RecordsInv

LEMMA AgentsUnchanged ==
    ASSUME AgentsInv, UNCHANGED Work!vars
    PROVE  AgentsInv'
<1>1. runtime' = runtime /\ log' = log /\ fo' = fo /\ worker' = worker
      BY DEF Work!vars
<1>2. RecordsInv'
      BY <1>1
         DEF AgentsInv, RecordsInv, AgentsType, OfficerRecords, WorkerRecords,
             Spawns, Questions, Work!In, Work!Pos
<1>3. \A p \in Pos : OpenTurn(p)' = OpenTurn(p)
  <2>1. LogGrows /\ AgentsType
        BY <1>1, Positions DEF LogGrows, AgentsInv, Work!Pos
  <2> QED BY <2>1, OpenTurnKept
<1>4. Pos' = Pos /\ \A s : In(s)' = In(s)
      BY <1>1 DEF Work!In, Work!Pos
<1>5. /\ \A k : Stops(k)' = Stops(k)
      /\ \A s, t : TurnOpen(s, t)' = TurnOpen(s, t)
      /\ \A s, e : Scoping(s, e)' = Scoping(s, e)
      /\ \A s : \A p \in Pos : Completed(s, p)' = Completed(s, p)
      BY <1>1, <1>3, <1>4
         DEF Stops, TurnOpen, Scoping, Work!Scopes, Completed, Work!In
<1>6. runtime = "codex" => CodexTurns'
  <2>1. ASSUME NEW k \in Workers, BusyTurn(k) PROVE BusyTurn(k)'
        BY <1>1, <1>4, <1>5, <2>1 DEF BusyTurn, TurnOpen
  <2> QED BY <1>1, <1>4, <2>1 DEF AgentsInv, CodexTurns, TurnOpen
<1>7. runtime = "codex" => CodexFiles'
      BY <1>1 DEF AgentsInv, CodexFiles, Work!Confirmed, Work!In, Work!Pos
<1>8. runtime = "codex" => CodexScopes'
  <2> SUFFICES ASSUME runtime = "codex", CodexScopes PROVE CodexScopes'
        BY DEF AgentsInv
  <2>1. OfficerScopes'
    <3> SUFFICES ASSUME NEW e \in Entities, NEW p \in Scoping(Officer, e)'
                 PROVE  \/ e \in fo'.touched /\ fo'.turn # 0 /\ OpenTurn(p)' = fo'.turn
                        \/ Completed(Officer, p)'
        BY DEF OfficerScopes
    <3>1. p \in Scoping(Officer, e) /\ p \in Pos
        BY <1>5 DEF Scoping, Work!In
    <3> QED BY <1>1, <1>3, <1>5, <3>1 DEF CodexScopes, OfficerScopes
  <2>2. TouchedScopes'
        BY <1>1, <1>3, <1>4, <1>5
           DEF CodexScopes, TouchedScopes, Scoping, Work!In
  <2>3. AskInTurn'
        BY <1>1, <1>3, <1>4 DEF CodexScopes, AskInTurn
  <2>4. WorkerCalls'
        BY <1>1, <1>3, <1>4, <1>5 DEF CodexScopes, WorkerCalls, Work!In
  <2> QED BY <1>1, <2>1, <2>2, <2>3, <2>4 DEF CodexScopes
<1>9. runtime = "claude" => ClaudeFiles'
      BY <1>1 DEF AgentsInv, ClaudeFiles, Work!In, Work!Pos
<1>10. runtime = "claude" => ClaudeTurns'
      BY <1>1
         DEF AgentsInv, ClaudeTurns, IdlesNamed, ClaudeTurn, Spoken, Work!Idles,
             Work!Boundaries, Opening, Single, Work!In, Work!Pos
<1>11. runtime = "claude" => ClaudeOfficerAgrees'
  <2>1. SUFFICES ASSUME ClaudeOfficerAgrees PROVE ClaudeOfficerAgrees'
        BY <1>1 DEF AgentsInv
  <2>2. \A p, e : Scopes(p, e)' <=> Scopes(p, e)
        BY <1>1 DEF Work!Scopes
  <2>3. \A e : Dispatches(e)' = Dispatches(e)
        BY <1>1, <1>4 DEF Work!Dispatches
  <2>4. \A f, e : IsState(f, e)' <=> IsState(f, e)
    <3>1. \A w, p, e : OfficerStep(w, p, e)' = OfficerStep(w, p, e)
          BY ZenonT(60), <1>1, <2>2, <2>3 DEF OfficerStep
    <3> QED BY <1>1, <3>1 DEF IsState
  <2>5. \A f, e : (Agrees(f, e) /\ Tells(f, e))' <=> Agrees(f, e) /\ Tells(f, e)
        BY <1>1, <1>4, <2>2 DEF Agrees, Tells, Started, Stopped
  <2> QED BY <2>1, <2>4, <2>5 DEF ClaudeOfficerAgrees
<1> QED BY <1>1, <1>2, <1>6, <1>7, <1>8, <1>9, <1>10, <1>11
           DEF AgentsInv, RecordsInv

\* Every step of the agents keeps what their records say of them.
LEMMA AgentsStep ==
    ASSUME AgentsInv, Work!Next
    PROVE  AgentsInv'
<1>1. RecordsInv /\ (runtime = "codex" => CodexTurns)
      BY DEF AgentsInv, RecordsInv
<1>2. RecordsInv'
      BY <1>1, RecordsStep
<1>3. runtime' = runtime
      BY
         DEF Work!Next, Work!Officers, Work!Agents, Work!StartTurn,
             Work!EndTurn, Work!Ask, Work!Answer, Work!Call, Work!Spawn,
             Work!OpenFile, Work!Confirm, Work!WorkerTurn, Work!WorkerCall,
             Work!WorkerDone, Work!Interrupt, Work!WriteMeta, Work!WorkerSpeaks,
             Work!WorkerMessage, Work!GoIdle
<1>4. ASSUME runtime = "codex" PROVE CodexTurns' /\ CodexFiles' /\ CodexScopes'
      BY <1>1, <1>4, CodexTurnsStep, CodexFilesStep, CodexScopesStep
         DEF AgentsInv
<1>5. ASSUME runtime = "claude"
      PROVE  ClaudeFiles' /\ ClaudeTurns' /\ ClaudeOfficerAgrees'
      BY <1>1, <1>5, ClaudeFilesStep, ClaudeTurnsStep, ClaudeOfficerStep
         DEF AgentsInv
<1> QED BY <1>2, <1>3, <1>4, <1>5 DEF AgentsInv, RecordsInv

----------------------------------------------------------------------------
(* What is made of the events *)

Gates(E) == StillOpen(E, "GateOpened", "GateResolved")
WorkersOf(E) == StillOpen(E, "WorkerStarted", "WorkerStopped")
OfficersOf(E) == StillOpen(E, "OfficerStarted", "OfficerStopped")

\* A closing is before an opening when it is earlier: at one instant the
\* opening comes first.
LEMMA ClosingFirst ==
    ASSUME NEW a, NEW b,
           \/ a.kind = "GateOpened" /\ b.kind = "GateResolved"
           \/ a.kind = "WorkerStarted" /\ b.kind = "WorkerStopped"
           \/ a.kind = "OfficerStarted" /\ b.kind = "OfficerStopped",
           Before(b, a)
    PROVE  b.at < a.at
<1>1. ~(Rank(b.kind) < Rank(a.kind))
  <2>1. CASE a.kind = "GateOpened" /\ b.kind = "GateResolved"
        BY <2>1 DEF Work!Rank
  <2>2. CASE a.kind = "WorkerStarted" /\ b.kind = "WorkerStopped"
        BY <2>2 DEF Work!Rank
  <2>3. CASE a.kind = "OfficerStarted" /\ b.kind = "OfficerStopped"
        BY <2>3 DEF Work!Rank
  <2> QED BY <2>1, <2>2, <2>3
<1> QED BY <1>1 DEF Work!Before

LEMMA LatestIs ==
    ASSUME NEW n \in Nat, NEW S, S # {}, \A a \in S : a.at \in 1 .. n
    PROVE  (CHOOSE a \in S : \A b \in S : b.at <= a.at) \in S
<1> DEFINE I == {a.at : a \in S}
<1>1. I \in SUBSET (1 .. n) /\ I # {}
      OBVIOUS
<1>2. PICK m \in I : \A i \in I : i <= m
  <2> HIDE DEF I
  <2> QED BY <1>1, LastPosition
<1>3. PICK a \in S : a.at = m
      OBVIOUS
<1>4. \A b \in S : b.at <= a.at
      BY <1>2, <1>3
<1> QED BY <1>4

LEMMA ReduceIs ==
    ASSUME NEW n \in Nat, NEW E, \A a \in E : a.at \in 1 .. n
    PROVE  /\ Gates(E) # {} =>
                 /\ Reduce(E).status = "gate"
                 /\ \E a \in Gates(E) : Reduce(E).session = a.session
           /\ Gates(E) = {} /\ WorkersOf(E) # {} =>
                 /\ Reduce(E).status = "worker"
                 /\ \E a \in WorkersOf(E) : Reduce(E).session = a.session
           /\ Gates(E) = {} /\ WorkersOf(E) = {} /\ OfficersOf(E) # {} =>
                 /\ Reduce(E).status = "officer"
                 /\ \E a \in OfficersOf(E) : Reduce(E).session = a.session
           /\ Gates(E) = {} /\ WorkersOf(E) = {} /\ OfficersOf(E) = {} =>
                 Reduce(E).status = "idle"
<1> DEFINE Last(S) == CHOOSE a \in S : \A b \in S : b.at <= a.at
<1>1. \A S \in {Gates(E), WorkersOf(E), OfficersOf(E)} : \A a \in S : a.at \in 1 .. n
      BY DEF Gates, WorkersOf, OfficersOf, Work!StillOpen
<1>2. \A S \in {Gates(E), WorkersOf(E), OfficersOf(E)} : S # {} => Last(S) \in S
      BY <1>1, LatestIs
<1>3. PICK G, W, O : G = Gates(E) /\ W = WorkersOf(E) /\ O = OfficersOf(E)
      OBVIOUS
<1>4. Reduce(E) =
         CASE G # {} -> [status |-> "gate", session |-> Last(G).session]
           [] G = {} /\ W # {} -> [status |-> "worker", session |-> Last(W).session]
           [] G = {} /\ W = {} /\ O # {} ->
                 [status |-> "officer", session |-> Last(O).session]
           [] OTHER -> [status |-> "idle", session |-> Officer]
      BY <1>3, Zenon DEF Work!Reduce, Gates, WorkersOf, OfficersOf
<1>5. /\ G # {} => Last(G) \in G
      /\ W # {} => Last(W) \in W
      /\ O # {} => Last(O) \in O
      BY <1>2, <1>3
<1> HIDE DEF Last
<1>6. /\ G # {} => Reduce(E).status = "gate" /\ Reduce(E).session = Last(G).session
      /\ G = {} /\ W # {} =>
            Reduce(E).status = "worker" /\ Reduce(E).session = Last(W).session
      /\ G = {} /\ W = {} /\ O # {} =>
            Reduce(E).status = "officer" /\ Reduce(E).session = Last(O).session
      /\ G = {} /\ W = {} /\ O = {} => Reduce(E).status = "idle"
      BY <1>4
<1> QED BY <1>3, <1>5, <1>6

\* The events E of entity e that are still open are what is going on.
OpenIsTrue(E, e) ==
    /\ \A a \in E : a.at \in Pos
    /\ \A a \in Gates(E) : a.session = Officer /\ fo.ask # 0 /\ e \in fo.touched
    /\ fo.ask # 0 /\ e \in fo.touched => Gates(E) # {}
    /\ \A a \in WorkersOf(E) : a.session \in AtWork(e)
    /\ ProvenWorkers(e) # {} => WorkersOf(E) # {}
    /\ \A a \in OfficersOf(E) :
          \/ a.session = Officer /\ e \in fo.touched
          \/ a.session \in AtWork(e) /\ worker[a.session].own
    /\ e \in fo.touched => OfficersOf(E) # {}

LEMMA ReducedIsTrue ==
    ASSUME AgentsType, NEW E, NEW e \in Entities, OpenIsTrue(E, e)
    PROVE  /\ \/ Reduce(E).status = "idle"
              \/ <<Reduce(E).status, Reduce(E).session>> \in Goings(e)
           /\ fo.ask # 0 /\ e \in fo.touched => Reduce(E).status = "gate"
           /\ ~(fo.ask # 0 /\ e \in fo.touched) /\ ProvenWorkers(e) # {}
                  => Reduce(E).status = "worker"
           /\ e \in fo.touched => Reduce(E).status # "idle"
<1>1. Len(log) \in Nat /\ \A a \in E : a.at \in 1 .. Len(log)
      BY Positions DEF OpenIsTrue
<1>2. CASE Gates(E) # {}
  <2>1. Reduce(E).status = "gate" /\ \E a \in Gates(E) : Reduce(E).session = a.session
        BY <1>1, <1>2, ReduceIs
  <2> QED BY <1>2, <2>1 DEF OpenIsTrue, Work!Goings
<1>3. CASE Gates(E) = {} /\ WorkersOf(E) # {}
  <2>1. Reduce(E).status = "worker" /\ \E a \in WorkersOf(E) : Reduce(E).session = a.session
        BY <1>1, <1>3, ReduceIs
  <2> QED BY <1>3, <2>1 DEF OpenIsTrue, Work!Goings
<1>4. CASE Gates(E) = {} /\ WorkersOf(E) = {} /\ OfficersOf(E) # {}
  <2>1. PICK a \in OfficersOf(E) : /\ Reduce(E).status = "officer"
                                   /\ Reduce(E).session = a.session
        BY <1>1, <1>4, ReduceIs
  <2> QED BY <1>4, <2>1 DEF OpenIsTrue, Work!Goings
<1>5. CASE Gates(E) = {} /\ WorkersOf(E) = {} /\ OfficersOf(E) = {}
  <2>1. Reduce(E).status = "idle"
        BY <1>1, <1>5, ReduceIs
  <2> QED BY <1>5, <2>1 DEF OpenIsTrue
<1> QED BY <1>2, <1>3, <1>4, <1>5

----------------------------------------------------------------------------
(* Codex: the events that are still open *)

EventKinds == {"WorkerStarted", "WorkerStopped", "OfficerStarted", "OfficerStopped",
               "GateOpened", "GateResolved"}

\* What an event a of e tells.
CodexMeans(a, e) ==
    LET s == a.session
        p == a.at
    IN  /\ s \in Sessions /\ HasSession(s) /\ p \in Pos /\ a.kind \in EventKinds
        /\ a.kind = "WorkerStarted" =>
              IsWorkerOf(s, e) /\ p \in In(s) /\ log[p].kind = "task_started"
        /\ a.kind = "WorkerStopped" => IsWorkerOf(s, e) /\ p \in Stops(s)
        /\ a.kind = "OfficerStarted" => ~IsWorkerOf(s, e) /\ p \in Scoping(s, e)
        /\ a.kind = "OfficerStopped" =>
              ~IsWorkerOf(s, e) /\ p \in In(s) /\ log[p].kind = "task_complete"
        /\ a.kind = "GateOpened" =>
              /\ ~IsWorkerOf(s, e) /\ p \in In(s) /\ log[p].kind = "ask"
              /\ a.call = log[p].id
              /\ \E q \in Scoping(s, e) : q < p /\ OpenTurn(q) = OpenTurn(p)
        /\ a.kind = "GateResolved" =>
              /\ ~IsWorkerOf(s, e) /\ p \in In(s) /\ log[p].kind = "result"
              /\ a.call = log[p].id

LEMMA CodexEventsMean ==
    ASSUME AgentsType, NEW e, NEW a \in CodexEvents(e)
    PROVE  CodexMeans(a, e)
<1>1. PICK s \in Sessions :
         /\ HasSession(s)
         /\ \/ IsWorkerOf(s, e) /\ a \in CodexWorker(s)
            \/ ~IsWorkerOf(s, e) /\ a \in CodexOfficer(s, e)
      BY DEF Work!CodexEvents
<1>2. CASE IsWorkerOf(s, e) /\ a \in CodexWorker(s)
  <2>1. CASE \E p \in In(s) \cap Of({"task_started"}) : a = Event("WorkerStarted", p, s, 0)
        BY <1>1, <1>2, <2>1
           DEF CodexMeans, Work!Event, Work!In, Work!Of, EventKinds
  <2>2. CASE \E p \in Stops(s) : a = Event("WorkerStopped", p, s, 0)
        BY <1>1, <1>2, <2>2
           DEF CodexMeans, Work!Event, Stops, Work!In, EventKinds
  <2>3. \/ \E p \in In(s) \cap Of({"task_started"}) : a = Event("WorkerStarted", p, s, 0)
        \/ \E p \in Stops(s) : a = Event("WorkerStopped", p, s, 0)
        BY <1>2 DEF Work!CodexWorker, Stops, Work!In, Work!Of
  <2> QED BY <2>1, <2>2, <2>3
<1>3. CASE ~IsWorkerOf(s, e) /\ a \in CodexOfficer(s, e)
  <2>1. \/ \E p \in Scoping(s, e) : a = Event("OfficerStarted", p, s, 0)
        \/ \E p \in In(s) \cap Of({"ask"}) :
              /\ \E q \in Scoping(s, e) : q < p /\ OpenTurn(q) = OpenTurn(p)
              /\ a = Event("GateOpened", p, s, log[p].id)
        \/ \E p \in In(s) \cap Of({"result"}) : a = Event("GateResolved", p, s, log[p].id)
        \/ \E p \in In(s) \cap Of({"task_complete"}) : a = Event("OfficerStopped", p, s, 0)
        BY <1>3 DEF Work!CodexOfficer, Scoping
  <2>2. CASE \E p \in Scoping(s, e) : a = Event("OfficerStarted", p, s, 0)
        BY <1>1, <1>3, <2>2
           DEF CodexMeans, Work!Event, Scoping, Work!In, EventKinds
  <2>3. CASE \E p \in In(s) \cap Of({"ask"}) :
              /\ \E q \in Scoping(s, e) : q < p /\ OpenTurn(q) = OpenTurn(p)
              /\ a = Event("GateOpened", p, s, log[p].id)
        BY <1>1, <1>3, <2>3
           DEF CodexMeans, Work!Event, Work!In, Work!Of, EventKinds
  <2>4. CASE \E p \in In(s) \cap Of({"result"}) : a = Event("GateResolved", p, s, log[p].id)
        BY <1>1, <1>3, <2>4
           DEF CodexMeans, Work!Event, Work!In, Work!Of, EventKinds
  <2>5. CASE \E p \in In(s) \cap Of({"task_complete"}) : a = Event("OfficerStopped", p, s, 0)
        BY <1>1, <1>3, <2>5
           DEF CodexMeans, Work!Event, Work!In, Work!Of, EventKinds
  <2> QED BY <2>1, <2>2, <2>3, <2>4, <2>5
<1> QED BY <1>1, <1>2, <1>3

LEMMA CodexEventsHave ==
    ASSUME NEW s \in Sessions, HasSession(s), NEW e, NEW p \in In(s)
    PROVE  /\ IsWorkerOf(s, e) /\ log[p].kind = "task_started" =>
                 Event("WorkerStarted", p, s, 0) \in CodexEvents(e)
           /\ IsWorkerOf(s, e) /\ log[p].kind = "task_complete" /\ OpenTurn(p) = log[p].id =>
                 Event("WorkerStopped", p, s, 0) \in CodexEvents(e)
           /\ ~IsWorkerOf(s, e) /\ p \in Scoping(s, e) =>
                 Event("OfficerStarted", p, s, 0) \in CodexEvents(e)
           /\ ~IsWorkerOf(s, e) /\ log[p].kind = "task_complete"
              /\ (\E r \in Scoping(s, e) : r < p /\ OpenTurn(r) = log[p].id) =>
                 Event("OfficerStopped", p, s, 0) \in CodexEvents(e)
           /\ ~IsWorkerOf(s, e) /\ log[p].kind = "ask" /\ OpenTurn(p) # 0
              /\ (\E q \in Scoping(s, e) : q < p /\ OpenTurn(q) = OpenTurn(p)) =>
                 Event("GateOpened", p, s, log[p].id) \in CodexEvents(e)
           /\ ~IsWorkerOf(s, e) /\ log[p].kind = "result" =>
                 Event("GateResolved", p, s, log[p].id) \in CodexEvents(e)
<1>1. p \in Pos
      BY DEF Work!In
<1>2. ASSUME IsWorkerOf(s, e) PROVE CodexWorker(s) \subseteq CodexEvents(e)
      BY <1>2 DEF Work!CodexEvents
<1>3. ASSUME ~IsWorkerOf(s, e) PROVE CodexOfficer(s, e) \subseteq CodexEvents(e)
      BY <1>3 DEF Work!CodexEvents
<1>4. IsWorkerOf(s, e) /\ log[p].kind = "task_started" =>
                 Event("WorkerStarted", p, s, 0) \in CodexEvents(e)
      BY <1>1, <1>2 DEF Work!CodexWorker, Work!Of
<1>5. IsWorkerOf(s, e) /\ log[p].kind = "task_complete" /\ OpenTurn(p) = log[p].id =>
                 Event("WorkerStopped", p, s, 0) \in CodexEvents(e)
      BY <1>1, <1>2 DEF Work!CodexWorker, Work!Of
<1>6. ~IsWorkerOf(s, e) /\ p \in Scoping(s, e) =>
                 Event("OfficerStarted", p, s, 0) \in CodexEvents(e)
      BY <1>1, <1>3 DEF Work!CodexOfficer, Scoping
<1>7. ~IsWorkerOf(s, e) /\ log[p].kind = "task_complete"
      /\ (\E r \in Scoping(s, e) : r < p /\ OpenTurn(r) = log[p].id) =>
                 Event("OfficerStopped", p, s, 0) \in CodexEvents(e)
      BY <1>1, <1>3 DEF Work!CodexOfficer, Scoping, Work!Of
<1>8. ~IsWorkerOf(s, e) /\ log[p].kind = "ask" /\ OpenTurn(p) # 0
      /\ (\E q \in Scoping(s, e) : q < p /\ OpenTurn(q) = OpenTurn(p)) =>
                 Event("GateOpened", p, s, log[p].id) \in CodexEvents(e)
      BY <1>1, <1>3 DEF Work!CodexOfficer, Scoping, Work!Of
<1>9. ~IsWorkerOf(s, e) /\ log[p].kind = "result" =>
                 Event("GateResolved", p, s, log[p].id) \in CodexEvents(e)
      BY <1>1, <1>3 DEF Work!CodexOfficer, Work!Of
<1> QED BY <1>4, <1>5, <1>6, <1>7, <1>8, <1>9

LEMMA CodexStopsHave ==
    ASSUME NEW s \in Sessions, HasSession(s), NEW e, IsWorkerOf(s, e), NEW p \in Stops(s)
    PROVE  Event("WorkerStopped", p, s, 0) \in CodexEvents(e)
<1>1. CodexWorker(s) \subseteq CodexEvents(e)
      BY DEF Work!CodexEvents
<1> QED BY <1>1 DEF Work!CodexWorker, Stops, Work!Of, Work!In

\* What is used of the invariant, of one worker.
LEMMA CodexAgent ==
    ASSUME AgentsInv, runtime = "codex", NEW s \in Workers
    PROVE  /\ s # Officer /\ s \in Sessions /\ BusyTurn(s)
           /\ worker[s].opened =>
                 \E p \in In(s) : log[p].kind = "session" /\ log[p].from = worker[s].entity
           /\ worker[s].known => Confirmed(s, worker[s].entity)
           /\ \A p \in In(s) :
                 /\ log[p].kind \in WorkerKinds
                 /\ log[p].kind = "session" => log[p].from = worker[s].entity
                 /\ log[p].kind = "task_started" => log[p].id = p
                 /\ log[p].kind = "call" =>
                       /\ log[p].about = {worker[s].entity}
                       /\ \/ worker[s].busy /\ worker[s].own
                          \/ worker[s].known
                          \/ Completed(s, p)
<1>1. s # Officer /\ s \in Sessions
      BY MCActivityConstants, SameSets
         DEF Work!ActivityConstants, Work!Officer, Work!Sessions
<1>2. /\ BusyTurn(s)
      /\ worker[s].opened =>
            \E p \in In(s) : log[p].kind = "session" /\ log[p].from = worker[s].entity
      /\ worker[s].known => Confirmed(s, worker[s].entity)
      /\ WorkerCalls /\ WorkerRecords
      BY DEF AgentsInv, CodexTurns, CodexFiles, CodexScopes
<1> QED BY <1>1, <1>2 DEF WorkerCalls, WorkerRecords, Work!In

LEMMA CodexOfficerFile ==
    ASSUME AgentsInv, runtime = "codex", NEW e \in Entities
    PROVE  Officer \in Sessions /\ HasSession(Officer) /\ ~IsWorkerOf(Officer, e)
<1>1. OfficerRecords /\ CodexFiles /\ Nobody \notin Entities
      BY MCActivityConstants, SameSets DEF AgentsInv, Work!ActivityConstants
<1> QED BY <1>1
           DEF OfficerRecords, CodexFiles, Work!HasSession, Work!IsWorkerOf,
               Work!Sessions

LEMMA CodexGates ==
    ASSUME AgentsInv, runtime = "codex", NEW e \in Entities
    PROVE  /\ \A a \in Gates(CodexEvents(e)) :
                 a.session = Officer /\ fo.ask # 0 /\ e \in fo.touched
           /\ fo.ask # 0 /\ e \in fo.touched => Gates(CodexEvents(e)) # {}
<1>1. /\ AgentsType /\ OfficerRecords /\ WorkerRecords /\ Questions /\ CodexTurns
      /\ AskInTurn /\ OfficerScopes /\ TouchedScopes
      BY DEF AgentsInv, CodexScopes
<1>2. Officer \in Sessions /\ HasSession(Officer) /\ ~IsWorkerOf(Officer, e)
      BY CodexOfficerFile
<1>3. ASSUME NEW a \in Gates(CodexEvents(e))
      PROVE  a.session = Officer /\ fo.ask # 0 /\ e \in fo.touched
  <2>1. PICK p \in Pos : p = a.at /\ log[p].kind = "ask" /\ a.call = log[p].id
                         /\ p \in In(a.session) /\ a.session \in Sessions
                         /\ \E q \in Scoping(a.session, e) : q < p /\ OpenTurn(q) = OpenTurn(p)
    <3>1. a \in CodexEvents(e) /\ a.kind = "GateOpened"
          BY DEF Gates, Work!StillOpen
    <3> QED BY <1>1, <3>1, CodexEventsMean DEF CodexMeans
  <2>2. a.session = Officer
    <3>1. CASE a.session \in Workers
          BY <2>1, <3>1, CodexAgent DEF WorkerKinds
    <3> QED BY <2>1, <3>1 DEF Work!Sessions
  <2>3. p \in In(Officer) /\ log[p].id = p /\ a.call = p
        BY <1>1, <2>1, <2>2 DEF OfficerRecords
  <2>4. p = fo.ask
    <3>1. ASSUME NEW q \in In(Officer), q > p, log[q].kind = "result", log[q].id = p
          PROVE  FALSE
      <4>1. PICK b : b = Event("GateResolved", q, Officer, log[q].id)
            OBVIOUS
      <4>2. b \in CodexEvents(e)
            BY <1>2, <3>1, <4>1, CodexEventsHave
      <4>3. /\ b.kind = "GateResolved" /\ b.at = q /\ b.session = a.session
            /\ b.call = a.call /\ a.kind = "GateOpened"
            BY <2>2, <2>3, <3>1, <4>1 DEF Work!Event, Gates, Work!StillOpen
      <4>4. Before(b, a)
            BY <4>2, <4>3 DEF Gates, Work!StillOpen
      <4>5. q < p
            BY <2>1, <4>3, <4>4, ClosingFirst
      <4> QED BY <1>1, <3>1, <4>5, Positions DEF Work!In
    <3> QED BY <1>1, <2>1, <2>3, <3>1 DEF Questions
  <2>5. fo.turn # 0 /\ OpenTurn(p) = fo.turn /\ TurnOpen(Officer, fo.turn)
        BY <1>1, <2>1, <2>4 DEF AskInTurn, CodexTurns
  <2>6. PICK q \in Scoping(Officer, e) : OpenTurn(q) = fo.turn
        BY <2>1, <2>2, <2>5
  <2>7. ~Completed(Officer, q)
    <3>1. \A r \in In(Officer) : log[r].kind = "task_complete" =>
              log[r].id < r /\ r < fo.turn /\ r \in Nat
          BY <1>1, <2>5, Positions DEF OfficerRecords, TurnOpen, Work!In
    <3>2. \A r \in In(Officer) : log[r].id \in Nat /\ fo.turn \in Nat
          BY <1>1, Typed DEF Work!In, AgentsType
    <3>3. \A r \in In(Officer) : log[r].kind = "task_complete" => log[r].id # fo.turn
          BY <3>1, <3>2
    <3> QED BY <2>6, <3>3 DEF Completed
  <2>8. e \in fo.touched
        BY <1>1, <2>6, <2>7 DEF OfficerScopes
  <2> QED BY <1>1, <2>1, <2>2, <2>4, <2>8, Positions
<1>4. ASSUME fo.ask # 0, e \in fo.touched PROVE Gates(CodexEvents(e)) # {}
  <2>1. PICK p : p = fo.ask
        OBVIOUS
  <2>2. /\ p \in In(Officer) /\ log[p].kind = "ask" /\ log[p].id = p /\ p \in Pos
        /\ \A q \in In(Officer) : log[q].kind = "result" => log[q].id # p
        BY <1>1, <1>4, <2>1 DEF Questions, OfficerRecords, Work!In
  <2>3. fo.turn # 0 /\ OpenTurn(p) = fo.turn
        BY <1>1, <2>1, <2>2 DEF AskInTurn
  <2>4. \E q \in Scoping(Officer, e) : q < p /\ OpenTurn(q) = OpenTurn(p)
        BY <1>1, <1>4, <2>1, <2>3 DEF TouchedScopes
  <2>5. PICK a : a = Event("GateOpened", p, Officer, log[p].id)
        OBVIOUS
  <2>6. a \in CodexEvents(e)
        BY <1>2, <2>2, <2>3, <2>4, <2>5, CodexEventsHave
  <2>7. a.kind = "GateOpened" /\ a.session = Officer /\ a.call = p
        BY <2>2, <2>5 DEF Work!Event
  <2>8. ASSUME NEW b \in CodexEvents(e), b.kind = "GateResolved", b.session = Officer,
               b.call = p
        PROVE  FALSE
        BY <1>1, <2>2, <2>8, CodexEventsMean DEF CodexMeans
  <2>9. a \in Gates(CodexEvents(e))
        BY <2>6, <2>7, <2>8 DEF Gates, Work!StillOpen
  <2> QED BY <2>9
<1> QED BY <1>3, <1>4

LEMMA CodexWorkersOpen ==
    ASSUME AgentsInv, runtime = "codex", NEW e \in Entities
    PROVE  /\ \A a \in WorkersOf(CodexEvents(e)) : a.session \in AtWork(e)
           /\ ProvenWorkers(e) # {} => WorkersOf(CodexEvents(e)) # {}
<1>1. AgentsType
      BY DEF AgentsInv
<1>2. ~IsWorkerOf(Officer, e)
      BY CodexOfficerFile
<1>3. ASSUME NEW a \in WorkersOf(CodexEvents(e)) PROVE a.session \in AtWork(e)
  <2>1. PICK s \in Sessions, p \in Pos :
           /\ s = a.session /\ p = a.at /\ HasSession(s)
           /\ IsWorkerOf(s, e) /\ p \in In(s) /\ log[p].kind = "task_started"
    <3>1. a \in CodexEvents(e) /\ a.kind = "WorkerStarted"
          BY DEF WorkersOf, Work!StillOpen
    <3> QED BY <1>1, <3>1, CodexEventsMean DEF CodexMeans
  <2>2. s \in Workers
        BY <1>2, <2>1 DEF Work!Sessions
  <2>3. BusyTurn(s) /\ worker[s].entity = e
        BY <2>1, <2>2, CodexAgent DEF Work!IsWorkerOf
  <2>4. ASSUME ~worker[s].busy PROVE FALSE
    <3>1. PICK r \in Stops(s) : r > p
          BY <2>1, <2>3, <2>4 DEF BusyTurn
    <3>2. PICK b : b = Event("WorkerStopped", r, s, 0)
          OBVIOUS
    <3>3. b \in CodexEvents(e)
          BY <2>1, <3>2, CodexStopsHave
    <3>4. b.kind = "WorkerStopped" /\ b.session = a.session /\ b.at = r /\ b.call = 0
          BY <2>1, <3>2 DEF Work!Event
    <3>5. a.call = 0
      <4>1. a \in CodexEvents(e) /\ a.kind = "WorkerStarted"
            BY DEF WorkersOf, Work!StillOpen
      <4> QED BY <4>1
                 DEF Work!CodexEvents, Work!CodexWorker, Work!CodexOfficer,
                     Work!Event
    <3>6. Before(b, a) /\ a.kind = "WorkerStarted"
          BY <3>3, <3>4, <3>5 DEF WorkersOf, Work!StillOpen
    <3>7. r < p
          BY <2>1, <3>4, <3>6, ClosingFirst
    <3>8. r \in Pos
          BY DEF Stops, Work!In
    <3> QED BY <1>1, <3>1, <3>7, <3>8, Positions
  <2> QED BY <2>1, <2>2, <2>3, <2>4 DEF Work!AtWork
<1>4. ASSUME NEW k \in ProvenWorkers(e) PROVE WorkersOf(CodexEvents(e)) # {}
  <2>1. k \in Workers /\ worker[k].entity = e /\ worker[k].busy /\ worker[k].known
        BY DEF Work!ProvenWorkers, Work!AtWork
  <2>2. /\ k \in Sessions /\ worker[k].opened /\ TurnOpen(k, worker[k].turn)
        /\ \A q \in Stops(k) : q < worker[k].turn
        BY <2>1, CodexAgent DEF BusyTurn
  <2>3. PICK t : t = worker[k].turn
        OBVIOUS
  <2>4. t \in In(k) /\ log[t].kind = "task_started"
        BY <2>2, <2>3 DEF TurnOpen
  <2>5. /\ \E p \in In(k) : log[p].kind = "session" /\ log[p].from = e
        /\ Confirmed(k, e)
        BY <2>1, <2>2, CodexAgent
  <2>6. IsWorkerOf(k, e) /\ HasSession(k)
        BY <2>4, <2>5 DEF Work!IsWorkerOf, Work!HasSession
  <2>7. PICK a : a = Event("WorkerStarted", t, k, 0)
        OBVIOUS
  <2>8. a \in CodexEvents(e)
        BY <2>2, <2>4, <2>6, <2>7, CodexEventsHave
  <2>9. a.kind = "WorkerStarted" /\ a.at = t /\ a.session = k
        BY <2>7 DEF Work!Event
  <2>10. ASSUME NEW b \in CodexEvents(e), b.kind = "WorkerStopped", b.session = k
         PROVE  Before(b, a)
    <3>1. b.at \in Stops(k)
          BY <1>1, <2>10, CodexEventsMean DEF CodexMeans
    <3> QED BY <2>2, <2>3, <2>9, <3>1 DEF Work!Before
  <2>11. a \in WorkersOf(CodexEvents(e))
        BY <2>8, <2>9, <2>10 DEF WorkersOf, Work!StillOpen
  <2> QED BY <2>11
<1> QED BY <1>3, <1>4

LEMMA CodexOfficersOpen ==
    ASSUME AgentsInv, runtime = "codex", NEW e \in Entities
    PROVE  /\ \A a \in OfficersOf(CodexEvents(e)) :
                 \/ a.session = Officer /\ e \in fo.touched
                 \/ a.session \in AtWork(e) /\ worker[a.session].own
           /\ e \in fo.touched => OfficersOf(CodexEvents(e)) # {}
<1>1. AgentsType /\ OfficerScopes /\ TouchedScopes /\ CodexTurns
      BY DEF AgentsInv, CodexScopes
<1>2. Officer \in Sessions /\ HasSession(Officer) /\ ~IsWorkerOf(Officer, e)
      BY CodexOfficerFile
<1>3. ASSUME NEW a \in OfficersOf(CodexEvents(e))
      PROVE  \/ a.session = Officer /\ e \in fo.touched
             \/ a.session \in AtWork(e) /\ worker[a.session].own
  <2>1. PICK s \in Sessions, p \in Pos :
           /\ s = a.session /\ p = a.at /\ HasSession(s)
           /\ ~IsWorkerOf(s, e) /\ p \in Scoping(s, e)
    <3>1. a \in CodexEvents(e) /\ a.kind = "OfficerStarted"
          BY DEF OfficersOf, Work!StillOpen
    <3> QED BY <1>1, <3>1, CodexEventsMean DEF CodexMeans
  <2>2. ~Completed(s, p)
    <3> SUFFICES ASSUME Completed(s, p) PROVE FALSE
        OBVIOUS
    <3>1. PICK q \in In(s) : /\ q > p /\ log[q].kind = "task_complete"
                             /\ log[q].id = OpenTurn(p)
          BY DEF Completed
    <3>2. PICK b : b = Event("OfficerStopped", q, s, 0)
          OBVIOUS
    <3>3. \E r \in Scoping(s, e) : r < q /\ OpenTurn(r) = log[q].id
      <4>1. p < q
            BY <1>1, <3>1, Positions DEF Work!In
      <4> QED BY <2>1, <3>1, <4>1
    <3>4. b \in CodexEvents(e)
          BY <2>1, <3>1, <3>2, <3>3, CodexEventsHave
    <3>5. b.kind = "OfficerStopped" /\ b.session = a.session /\ b.at = q /\ b.call = 0
          BY <2>1, <3>2 DEF Work!Event
    <3>6. a.call = 0
      <4>1. a \in CodexEvents(e) /\ a.kind = "OfficerStarted"
            BY DEF OfficersOf, Work!StillOpen
      <4> QED BY <4>1
                 DEF Work!CodexEvents, Work!CodexWorker, Work!CodexOfficer,
                     Work!Event
    <3>7. Before(b, a) /\ a.kind = "OfficerStarted"
          BY <3>4, <3>5, <3>6 DEF OfficersOf, Work!StillOpen
    <3>8. q < p
          BY <2>1, <3>5, <3>7, ClosingFirst
    <3> QED BY <1>1, <3>1, <3>8, Positions DEF Work!In
  <2>3. CASE s = Officer
        BY <1>1, <2>1, <2>2, <2>3 DEF OfficerScopes
  <2>4. CASE s \in Workers
    <3>1. p \in In(s) /\ log[p].kind \in {"call", "spawn"} /\ e \in log[p].about
          /\ OpenTurn(p) # 0
          BY <2>1 DEF Scoping, Work!Scopes
    <3>2. log[p].kind = "call" /\ worker[s].entity = e
      <4>1. log[p].kind \in WorkerKinds
            BY <2>4, <3>1, CodexAgent
      <4>2. log[p].kind = "call"
            BY <3>1, <4>1 DEF WorkerKinds
      <4> QED BY <2>4, <3>1, <4>2, CodexAgent
    <3>3. ~worker[s].known
      <4>1. \E q \in In(s) : log[q].kind = "session" /\ log[q].from = e
            BY <2>1, <2>4, <3>2, CodexAgent DEF Work!HasSession
      <4>2. \E q \in In(s) : log[q].kind = "task_started"
            BY <3>1, SameSets DEF Work!OpenTurn, Work!In
      <4> QED BY <2>1, <2>4, <3>2, <4>1, <4>2, CodexAgent DEF Work!IsWorkerOf
    <3>4. worker[s].busy /\ worker[s].own
          BY <2>2, <2>4, <3>1, <3>2, <3>3, CodexAgent
    <3> QED BY <2>1, <2>4, <3>2, <3>4 DEF Work!AtWork
  <2> QED BY <2>3, <2>4 DEF Work!Sessions
<1>4. ASSUME e \in fo.touched PROVE OfficersOf(CodexEvents(e)) # {}
  <2>1. fo.turn # 0 /\ \E p \in Scoping(Officer, e) : p > fo.turn
        BY <1>1, <1>4 DEF TouchedScopes
  <2>2. PICK p \in Scoping(Officer, e) : p > fo.turn
        BY <2>1
  <2>3. PICK a : a = Event("OfficerStarted", p, Officer, 0)
        OBVIOUS
  <2>4. a \in CodexEvents(e)
        BY <1>2, <2>3, CodexEventsHave DEF Scoping
  <2>5. a.kind = "OfficerStarted" /\ a.at = p /\ a.session = Officer
        BY <2>3 DEF Work!Event
  <2>6. ASSUME NEW b \in CodexEvents(e), b.kind = "OfficerStopped", b.session = Officer
        PROVE  Before(b, a)
    <3>1. b.at \in In(Officer) /\ log[b.at].kind = "task_complete"
          BY <1>1, <2>6, CodexEventsMean DEF CodexMeans
    <3>2. b.at < fo.turn
          BY <1>1, <2>1, <3>1 DEF CodexTurns, TurnOpen
    <3>3. b.at \in Nat /\ p \in Nat /\ fo.turn \in Nat
          BY <1>1, <3>1, Positions DEF Work!In, Scoping, AgentsType
    <3>4. b.at < p
          BY <2>2, <3>2, <3>3
    <3> QED BY <2>5, <3>4 DEF Work!Before
  <2>7. a \in OfficersOf(CodexEvents(e))
        BY <2>4, <2>5, <2>6 DEF OfficersOf, Work!StillOpen
  <2> QED BY <2>7
<1> QED BY <1>3, <1>4

LEMMA CodexIsTrue ==
    ASSUME AgentsInv, runtime = "codex", NEW e \in Entities
    PROVE  OpenIsTrue(CodexEvents(e), e)
<1>1. AgentsType
      BY DEF AgentsInv
<1>2. \A a \in CodexEvents(e) : a.at \in Pos
      BY <1>1, CodexEventsMean DEF CodexMeans
<1> QED BY <1>2, CodexGates, CodexWorkersOpen, CodexOfficersOpen DEF OpenIsTrue

----------------------------------------------------------------------------
(* Claude: the events that are still open *)

LEMMA OneNamed ==
    ASSUME NEW e, ~Redispatched(e), NEW k \in Workers, NEW j \in Workers,
           worker[k].entity = e, worker[j].entity = e
    PROVE  k = j
<1> DEFINE S == {i \in Workers : worker[i].entity = e}
<1>1. IsFiniteSet(Workers)
      BY MCActivityConstants, SameSets DEF Work!ActivityConstants
<1>2. IsFiniteSet(S) /\ k \in S /\ j \in S
      BY <1>1, FS_Subset
<1> HIDE DEF S
<1>3. SUFFICES ASSUME k # j PROVE FALSE
      OBVIOUS
<1>4. IsFiniteSet({k}) /\ Cardinality({k}) = 1
      BY FS_Singleton
<1>5. Cardinality({k} \cup {j}) = 2
  <2>1. PICK T : T = {k} /\ j \notin T /\ IsFiniteSet(T) /\ Cardinality(T) = 1
        BY <1>3, <1>4
  <2>2. Cardinality(T \cup {j}) = Cardinality(T) + 1
        BY <2>1, FS_AddElement
  <2> QED BY <2>1, <2>2
<1>6. {k} \cup {j} \subseteq S
      BY <1>2
<1>7. Cardinality({k} \cup {j}) <= Cardinality(S) /\ Cardinality(S) \in Nat
      BY <1>2, <1>6, FS_Subset, FS_CardinalityType
<1>8. Cardinality(S) > 1
      BY <1>5, <1>7
<1> QED BY <1>8, SameSets DEF Work!Redispatched, S

\* A dispatch is of one worker, whose metadata attribute it.
LEMMA DispatchedIs ==
    ASSUME AgentsInv, runtime = "claude", NEW e \in Entities, ~Redispatched(e),
           NEW d \in Dispatches(e)
    PROVE  \E k \in Workers :
              /\ worker[k].entity = e /\ worker[k].call = d /\ Dispatches(e) = {d}
              /\ Attributed(d, e) => AgentOf(d, e) = k
              /\ worker[k].known => Attributed(d, e)
<1>1. AgentsType /\ Spawns /\ WorkerRecords /\ OfficerRecords /\ ClaudeFiles
      BY DEF AgentsInv
<1>2. \A x \in Dispatches(e) : \E k \in Workers : worker[k].entity = e /\ worker[k].call = x
  <2> SUFFICES ASSUME NEW x \in Dispatches(e)
               PROVE  \E k \in Workers : worker[k].entity = e /\ worker[k].call = x
      OBVIOUS
  <2>1. PICK k \in Workers : worker[k].call = x /\ log[x].about = {worker[k].entity}
        BY <1>1 DEF Spawns, Work!Dispatches
  <2> QED BY <2>1 DEF Work!Dispatches
<1>3. PICK k \in Workers : worker[k].entity = e /\ worker[k].call = d
      BY <1>2
<1>4. Dispatches(e) = {d}
      BY <1>2, <1>3, OneNamed
<1>5. \A p \in MatchingMeta(d, e) :
         p \in In(k) /\ log[p].kind = "meta" /\ log[p].agent = k
  <2> SUFFICES ASSUME NEW p \in MatchingMeta(d, e)
               PROVE  p \in In(k) /\ log[p].kind = "meta" /\ log[p].agent = k
      OBVIOUS
  <2>1. p \in Pos /\ log[p].kind = "meta" /\ log[p].from = e
        BY DEF Work!MatchingMeta, Work!Of
  <2>2. log[p].src # Officer
        BY <1>1, <2>1 DEF OfficerRecords, OfficerKinds, Work!In
  <2>3. log[p].src \in Workers
        BY <1>1, <2>1, <2>2, Typed
  <2>4. worker[log[p].src].entity = e /\ log[p].agent = log[p].src
        BY <1>1, <2>1, <2>2 DEF WorkerRecords
  <2>5. log[p].src = k
        BY <1>3, <2>3, <2>4, OneNamed
  <2> QED BY <2>1, <2>4, <2>5 DEF Work!In
<1>6. ASSUME Attributed(d, e) PROVE AgentOf(d, e) = k
  <2>1. MatchingMeta(d, e) # {}
        BY <1>6, FS_EmptySet, SameSets DEF Work!Attributed
  <2>2. (CHOOSE p \in MatchingMeta(d, e) : TRUE) \in MatchingMeta(d, e)
        BY <2>1
  <2> QED BY <1>5, <2>2 DEF Work!AgentOf
<1>7. ASSUME worker[k].known PROVE Attributed(d, e)
  <2>1. PICK m \in In(k) : log[m].kind = "meta"
        BY <1>1, <1>7 DEF ClaudeFiles
  <2>2. m \in Pos /\ log[m].src = k /\ k # Officer
        BY MCActivityConstants, SameSets
           DEF Work!In, Work!ActivityConstants, Work!Officer
  <2>3. log[m].from = e /\ log[m].id \in {0, worker[k].call}
        BY <1>1, <1>3, <2>1, <2>2 DEF WorkerRecords
  <2>4. log[d].id = d
        BY <1>1 DEF OfficerRecords, Work!Dispatches
  <2>5. m \in MatchingMeta(d, e)
        BY <1>3, <2>1, <2>2, <2>3, <2>4 DEF Work!MatchingMeta, Work!Of
  <2>6. MatchingMeta(d, e) = {m}
        BY <1>1, <1>5, <2>1, <2>2, <2>5 DEF ClaudeFiles, Work!In
  <2>7. Cardinality(MatchingMeta(d, e)) = 1 /\ Cardinality(Dispatches(e)) = 1
        BY <1>4, <2>6, FS_Singleton
  <2> QED BY <2>7, SameSets DEF Work!Attributed
<1> QED BY <1>3, <1>4, <1>6, <1>7

LEMMA OfficerStateIs ==
    ASSUME AgentsInv, runtime = "claude", NEW e \in Entities
    PROVE  IsState(OfficerState(e), e)
<1>1. \E f : IsState(f, e)
      BY DEF AgentsInv, ClaudeOfficerAgrees
<1>2. OfficerState(e) = CHOOSE f : IsState(f, e)
      BY Zenon DEF Work!OfficerState, IsState, OfficerStep
<1> QED BY <1>1, <1>2

\* What an event a of e tells, f being the states of the officer's turn.
ClaudeMeans(a, e, f) ==
    LET p == a.at IN
    /\ p \in Pos
    /\ a.kind = "WorkerStarted" =>
          \E d \in Dispatches(e) : /\ Attributed(d, e) /\ a.session = AgentOf(d, e)
                                   /\ p \in Spoken(a.session) /\ a.call = 0
    /\ a.kind = "WorkerStopped" => p \in Idles(e)
    /\ a.kind \in {"OfficerStarted", "OfficerStopped", "GateOpened", "GateResolved"} =>
          a.session = Officer /\ p \in In(Officer)
    /\ a.kind = "OfficerStarted" => Started(f, p, e) /\ a.call = 0
    /\ a.kind = "OfficerStopped" => Stopped(f, p, e)
    /\ a.kind = "GateOpened" => log[p].kind = "ask" /\ f[p].scoped /\ a.call = log[p].id
    /\ a.kind = "GateResolved" => log[p].kind = "result" /\ a.call = log[p].id

LEMMA ReopenedSpoken ==
    ASSUME AgentsType, NEW s, NEW e
    PROVE  /\ Spoken(s) # {} => Min(Spoken(s)) \in Spoken(s)
           /\ Reopened(Spoken(s), e) \subseteq Spoken(s)
<1>1. Len(log) \in Nat /\ Spoken(s) \in SUBSET (1 .. Len(log))
      BY Positions DEF Spoken, Work!In
<1>2. ASSUME NEW I \in SUBSET Spoken(s), I # {} PROVE Min(I) \in I
  <2>1. PICK m \in I : \A i \in I : m <= i
        BY <1>1, <1>2, LeastPosition
  <2> QED BY <1>1, <2>1, MinIs
<1>3. ASSUME NEW x \in Reopened(Spoken(s), e) PROVE x \in Spoken(s)
  <2>1. PICK b : x = Min({p \in Spoken(s) : p > b}) /\ \E p \in Spoken(s) : p > b
        BY SameSets DEF Work!Reopened
  <2> DEFINE I == {p \in Spoken(s) : p > b}
  <2>2. I \in SUBSET Spoken(s) /\ I # {}
        BY <2>1
  <2>3. Min(I) \in I
        BY <1>2, <2>2
  <2> QED BY <2>1, <2>2, <2>3
<1> QED BY <1>2, <1>3

LEMMA ClaudeEventsMean ==
    ASSUME AgentsType, NEW e, NEW a \in ClaudeEvents(e), NEW f, f = OfficerState(e)
    PROVE  ClaudeMeans(a, e, f)
<1>1. CASE a \in ClaudeOfficer(e)
  <2>1. \/ \E p \in In(Officer) : Started(f, p, e) /\ a = Event("OfficerStarted", p, Officer, 0)
        \/ \E p \in In(Officer) : /\ log[p].kind = "ask" /\ f[p].scoped
                                  /\ a = Event("GateOpened", p, Officer, log[p].id)
        \/ \E p \in In(Officer) : /\ log[p].kind = "result"
                                  /\ a = Event("GateResolved", p, Officer, log[p].id)
        \/ \E p \in In(Officer) : Stopped(f, p, e) /\ a = Event("OfficerStopped", p, Officer, 0)
        BY <1>1 DEF Work!ClaudeOfficer, Started, Stopped
  <2>2. CASE \E p \in In(Officer) : /\ Started(f, p, e)
                                    /\ a = Event("OfficerStarted", p, Officer, 0)
        BY <2>2 DEF ClaudeMeans, Work!Event, Work!In
  <2>3. CASE \E p \in In(Officer) : /\ log[p].kind = "ask" /\ f[p].scoped
                                    /\ a = Event("GateOpened", p, Officer, log[p].id)
        BY <2>3 DEF ClaudeMeans, Work!Event, Work!In
  <2>4. CASE \E p \in In(Officer) : /\ log[p].kind = "result"
                                    /\ a = Event("GateResolved", p, Officer, log[p].id)
        BY <2>4 DEF ClaudeMeans, Work!Event, Work!In
  <2>5. CASE \E p \in In(Officer) : /\ Stopped(f, p, e)
                                    /\ a = Event("OfficerStopped", p, Officer, 0)
        BY <2>5 DEF ClaudeMeans, Work!Event, Work!In
  <2> QED BY <2>1, <2>2, <2>3, <2>4, <2>5
<1>2. CASE \E d \in Dispatches(e) : Attributed(d, e) /\ a \in ClaudeWorker(AgentOf(d, e), e)
  <2>1. PICK d \in Dispatches(e) : Attributed(d, e) /\ a \in ClaudeWorker(AgentOf(d, e), e)
        BY <1>2
  <2>2. PICK s : s = AgentOf(d, e)
        OBVIOUS
  <2>3. \/ \E p \in Spoken(s) : a = Event("WorkerStarted", p, s, 0)
        \/ \E p \in Idles(e) : a = Event("WorkerStopped", p, s, 0)
    <3>1. a \in ClaudeWorker(s, e)
          BY <2>1, <2>2
    <3>2. Spoken(s) = {p \in In(s) : log[p].kind = "assistant"}
          BY DEF Spoken
    <3>3. Spoken(s) # {} /\ \/ a = Event("WorkerStarted", Min(Spoken(s)), s, 0)
                            \/ \E p \in Idles(e) : a = Event("WorkerStopped", p, s, 0)
                            \/ \E p \in Reopened(Spoken(s), e) :
                                  a = Event("WorkerStarted", p, s, 0)
          BY <3>1, <3>2, SameSets DEF Work!ClaudeWorker
    <3> QED BY <3>3, ReopenedSpoken
  <2>4. CASE \E p \in Spoken(s) : a = Event("WorkerStarted", p, s, 0)
        BY <2>1, <2>2, <2>4 DEF ClaudeMeans, Work!Event, Spoken, Work!In
  <2>5. CASE \E p \in Idles(e) : a = Event("WorkerStopped", p, s, 0)
        BY <2>5 DEF ClaudeMeans, Work!Event, Work!Idles, Work!In
  <2> QED BY <2>3, <2>4, <2>5
<1> QED BY <1>1, <1>2 DEF Work!ClaudeEvents

LEMMA ClaudeEventsHave ==
    ASSUME NEW e, NEW p \in In(Officer), NEW f, f = OfficerState(e)
    PROVE  /\ Started(f, p, e) =>
                 Event("OfficerStarted", p, Officer, 0) \in ClaudeEvents(e)
           /\ Stopped(f, p, e) =>
                 Event("OfficerStopped", p, Officer, 0) \in ClaudeEvents(e)
           /\ log[p].kind = "ask" /\ f[p].scoped =>
                 Event("GateOpened", p, Officer, log[p].id) \in ClaudeEvents(e)
           /\ log[p].kind = "result" =>
                 Event("GateResolved", p, Officer, log[p].id) \in ClaudeEvents(e)
<1>1. ClaudeOfficer(e) \subseteq ClaudeEvents(e)
      BY DEF Work!ClaudeEvents
<1>2. Started(f, p, e) => Event("OfficerStarted", p, Officer, 0) \in ClaudeOfficer(e)
      BY DEF Work!ClaudeOfficer, Started
<1>3. Stopped(f, p, e) => Event("OfficerStopped", p, Officer, 0) \in ClaudeOfficer(e)
      BY DEF Work!ClaudeOfficer, Stopped
<1>4. log[p].kind = "ask" /\ f[p].scoped =>
         Event("GateOpened", p, Officer, log[p].id) \in ClaudeOfficer(e)
      BY DEF Work!ClaudeOfficer
<1>5. log[p].kind = "result" =>
         Event("GateResolved", p, Officer, log[p].id) \in ClaudeOfficer(e)
      BY DEF Work!ClaudeOfficer
<1> QED BY <1>1, <1>2, <1>3, <1>4, <1>5

LEMMA ClaudeGates ==
    ASSUME AgentsInv, runtime = "claude", NEW e \in Entities
    PROVE  /\ \A a \in Gates(ClaudeEvents(e)) :
                 a.session = Officer /\ fo.ask # 0 /\ e \in fo.touched
           /\ fo.ask # 0 /\ e \in fo.touched => Gates(ClaudeEvents(e)) # {}
<1>1. AgentsType /\ OfficerRecords /\ Questions
      BY DEF AgentsInv
<1>2. PICK f : f = OfficerState(e)
      OBVIOUS
<1>3. Tells(f, e)
      BY <1>2, OfficerStateIs DEF AgentsInv, ClaudeOfficerAgrees
<1>4. ASSUME NEW a \in Gates(ClaudeEvents(e))
      PROVE  a.session = Officer /\ fo.ask # 0 /\ e \in fo.touched
  <2>1. PICK p \in Pos : /\ p = a.at /\ log[p].kind = "ask" /\ a.call = log[p].id
                         /\ p \in In(Officer) /\ a.session = Officer /\ f[p].scoped
    <3>1. a \in ClaudeEvents(e) /\ a.kind = "GateOpened"
          BY DEF Gates, Work!StillOpen
    <3> QED BY <1>1, <1>2, <3>1, ClaudeEventsMean DEF ClaudeMeans
  <2>2. log[p].id = p /\ a.call = p
        BY <1>1, <2>1 DEF OfficerRecords
  <2>3. p = fo.ask
    <3>1. ASSUME NEW q \in In(Officer), q > p, log[q].kind = "result", log[q].id = p
          PROVE  FALSE
      <4>1. PICK b : b = Event("GateResolved", q, Officer, log[q].id)
            OBVIOUS
      <4>2. b \in ClaudeEvents(e)
            BY <1>2, <3>1, <4>1, ClaudeEventsHave
      <4>3. /\ b.kind = "GateResolved" /\ b.at = q /\ b.session = a.session
            /\ b.call = a.call /\ a.kind = "GateOpened"
            BY <2>1, <2>2, <3>1, <4>1 DEF Work!Event, Gates, Work!StillOpen
      <4>4. Before(b, a)
            BY <4>2, <4>3 DEF Gates, Work!StillOpen
      <4>5. q < p
            BY <2>1, <4>3, <4>4, ClosingFirst
      <4> QED BY <1>1, <3>1, <4>5, Positions DEF Work!In
    <3> QED BY <1>1, <2>1, <2>2, <3>1 DEF Questions
  <2>4. p # 0
        BY <1>1, Positions
  <2> QED BY <1>3, <2>1, <2>3, <2>4 DEF Tells
<1>5. ASSUME fo.ask # 0, e \in fo.touched PROVE Gates(ClaudeEvents(e)) # {}
  <2>1. PICK p : p = fo.ask
        OBVIOUS
  <2>2. /\ p \in In(Officer) /\ log[p].kind = "ask" /\ log[p].id = p
        /\ \A q \in In(Officer) : log[q].kind = "result" => log[q].id # p
        BY <1>1, <1>5, <2>1 DEF Questions, OfficerRecords
  <2>3. f[p].scoped
        BY <1>3, <1>5, <2>1 DEF Tells
  <2>4. PICK a : a = Event("GateOpened", p, Officer, log[p].id)
        OBVIOUS
  <2>5. a \in ClaudeEvents(e)
        BY <1>2, <2>2, <2>3, <2>4, ClaudeEventsHave
  <2>6. a.kind = "GateOpened" /\ a.session = Officer /\ a.call = p
        BY <2>2, <2>4 DEF Work!Event
  <2>7. ASSUME NEW b \in ClaudeEvents(e), b.kind = "GateResolved", b.call = p
        PROVE  FALSE
        BY <1>1, <1>2, <2>2, <2>7, ClaudeEventsMean DEF ClaudeMeans
  <2>8. a \in Gates(ClaudeEvents(e))
        BY <2>5, <2>6, <2>7 DEF Gates, Work!StillOpen
  <2> QED BY <2>8
<1> QED BY <1>4, <1>5

LEMMA ClaudeWorkersOpen ==
    ASSUME AgentsInv, runtime = "claude", NEW e \in Entities, ~Redispatched(e)
    PROVE  /\ \A a \in WorkersOf(ClaudeEvents(e)) : a.session \in AtWork(e)
           /\ ProvenWorkers(e) # {} => WorkersOf(ClaudeEvents(e)) # {}
<1>1. /\ AgentsType /\ Spawns /\ OfficerRecords
      /\ \A k \in Workers : ClaudeTurn(k)
      BY DEF AgentsInv, ClaudeTurns
<1>2. PICK f : f = OfficerState(e)
      OBVIOUS
\* The events of the one worker k of a dispatch d that is attributed.
<1>3. ASSUME NEW d \in Dispatches(e), Attributed(d, e), Dispatches(e) = {d},
             NEW k, k = AgentOf(d, e), Spoken(k) # {}
      PROVE  /\ \A i \in Idles(e) : Event("WorkerStopped", i, k, 0) \in ClaudeEvents(e)
             /\ Event("WorkerStarted", Min(Spoken(k)), k, 0) \in ClaudeEvents(e)
             /\ \A p \in Reopened(Spoken(k), e) :
                   Event("WorkerStarted", p, k, 0) \in ClaudeEvents(e)
  <2>1. ClaudeWorker(k, e) \subseteq ClaudeEvents(e)
        BY <1>3 DEF Work!ClaudeEvents
  <2>2. Cardinality(Dispatches(e)) = 1
        BY <1>3, FS_Singleton
  <2>3. Spoken(k) = {p \in In(k) : log[p].kind = "assistant"}
        BY DEF Spoken
  <2> QED BY <1>3, <2>1, <2>2, <2>3, SameSets DEF Work!ClaudeWorker
<1>4. ASSUME NEW a \in WorkersOf(ClaudeEvents(e)) PROVE a.session \in AtWork(e)
  <2>1. a \in ClaudeEvents(e) /\ a.kind = "WorkerStarted"
        BY DEF WorkersOf, Work!StillOpen
  <2>2. PICK d \in Dispatches(e) : /\ Attributed(d, e) /\ a.session = AgentOf(d, e)
                                   /\ a.at \in Spoken(a.session) /\ a.call = 0
        BY <1>1, <1>2, <2>1, ClaudeEventsMean DEF ClaudeMeans
  <2>3. PICK k \in Workers : /\ worker[k].entity = e /\ Dispatches(e) = {d}
                             /\ AgentOf(d, e) = k
        BY <2>2, DispatchedIs
  <2>4. ASSUME ~worker[k].busy PROVE FALSE
    <3>1. Silent(k, e)
          BY <1>1, <2>3, <2>4, TurnThen
    <3>2. PICK i \in Idles(e) : i > a.at
          BY <2>2, <2>3, <3>1 DEF Silent
    <3>3. PICK b : b = Event("WorkerStopped", i, k, 0)
          OBVIOUS
    <3>4. b \in ClaudeEvents(e)
          BY <1>3, <2>2, <2>3, <3>3
    <3>5. b.kind = "WorkerStopped" /\ b.session = a.session /\ b.call = a.call /\ b.at = i
          BY <2>2, <2>3, <3>3 DEF Work!Event
    <3>6. Before(b, a)
          BY <3>4, <3>5 DEF WorkersOf, Work!StillOpen
    <3>7. i < a.at
          BY <2>1, <3>5, <3>6, ClosingFirst
    <3>8. i \in Nat /\ a.at \in Nat
          BY <1>1, <2>2, Positions DEF Work!Idles, Spoken, Work!In
    <3> QED BY <3>2, <3>7, <3>8
  <2> QED BY <2>2, <2>3, <2>4 DEF Work!AtWork
<1>5. ASSUME NEW k \in ProvenWorkers(e) PROVE WorkersOf(ClaudeEvents(e)) # {}
  <2>1. /\ k \in Workers /\ worker[k].entity = e /\ worker[k].busy /\ worker[k].known
        /\ worker[k].shown
        BY DEF Work!ProvenWorkers, Work!AtWork
  <2>2. PICK d : d = worker[k].call
        OBVIOUS
  <2>3. d \in Dispatches(e)
        BY <1>1, <2>1, <2>2 DEF Spawns, Work!Dispatches
  <2>4. Attributed(d, e) /\ AgentOf(d, e) = k /\ Dispatches(e) = {d}
    <3>1. PICK j \in Workers : /\ worker[j].entity = e /\ Dispatches(e) = {d}
                               /\ Attributed(d, e) => AgentOf(d, e) = j
                               /\ worker[j].known => Attributed(d, e)
          BY <2>3, DispatchedIs
    <3>2. j = k
          BY <2>1, <3>1, OneNamed
    <3> QED BY <2>1, <3>1, <3>2
  <2>5. Single(k)
        BY <2>1, OneNamed DEF Single
  <2>6. Shown(k, e)
        BY <1>1, <2>1, <2>5, TurnThen
  <2>7. PICK p \in Pos : Opening(k, p) /\ \A i \in Idles(e) : i < p
        BY <2>6 DEF Shown
  <2>8. p \in Spoken(k) /\ Spoken(k) \in SUBSET Nat
        BY <1>1, <2>7, Positions DEF Opening, Spoken, Work!In
  <2>9. PICK a : a = Event("WorkerStarted", p, k, 0)
        OBVIOUS
  <2>10. a \in ClaudeEvents(e)
    <3>1. CASE \A q \in Spoken(k) : p <= q
      <4>1. Min(Spoken(k)) = p
            BY <2>8, <3>1, MinIs
      <4> QED BY <1>3, <2>3, <2>4, <2>8, <2>9, <4>1
    <3>2. CASE \E c \in Boundaries(e) : /\ \E i \in Idles(e) : i < c
                                        /\ c < p
                                        /\ \A q \in Spoken(k) : q > c => p <= q
      <4>1. PICK c \in Boundaries(e) : /\ \E i \in Idles(e) : i < c
                                       /\ c < p
                                       /\ \A q \in Spoken(k) : q > c => p <= q
            BY <3>2
      <4>2. PICK I : I = {q \in Spoken(k) : q > c}
            OBVIOUS
      <4>3. p > c
            BY <1>1, <2>7, <4>1, Positions DEF Work!Boundaries, Work!In
      <4>4. I \in SUBSET Nat /\ p \in I /\ \A i \in I : p <= i
            BY <2>8, <4>1, <4>2, <4>3
      <4>5. Min(I) = p
            BY <4>4, MinIs
      <4>6. p \in Reopened(Spoken(k), e)
            BY <2>8, <4>1, <4>2, <4>3, <4>5, SameSets DEF Work!Reopened
      <4> QED BY <1>3, <2>3, <2>4, <2>8, <2>9, <4>6
    <3> QED BY <2>1, <2>7, <3>1, <3>2 DEF Opening
  <2>11. a.kind = "WorkerStarted" /\ a.at = p /\ a.session = k
        BY <2>9 DEF Work!Event
  <2>12. ASSUME NEW b \in ClaudeEvents(e), b.kind = "WorkerStopped"
         PROVE  Before(b, a)
    <3>1. b.at \in Idles(e)
          BY <1>1, <1>2, <2>12, ClaudeEventsMean DEF ClaudeMeans
    <3> QED BY <2>7, <2>11, <3>1 DEF Work!Before
  <2>13. a \in WorkersOf(ClaudeEvents(e))
        BY <2>10, <2>11, <2>12 DEF WorkersOf, Work!StillOpen
  <2> QED BY <2>13
<1> QED BY <1>4, <1>5

LEMMA ClaudeOfficersOpen ==
    ASSUME AgentsInv, runtime = "claude", NEW e \in Entities
    PROVE  /\ \A a \in OfficersOf(ClaudeEvents(e)) : a.session = Officer /\ e \in fo.touched
           /\ e \in fo.touched => OfficersOf(ClaudeEvents(e)) # {}
<1>1. AgentsType
      BY DEF AgentsInv
<1>2. PICK f : f = OfficerState(e)
      OBVIOUS
<1>3. Tells(f, e)
      BY <1>2, OfficerStateIs DEF AgentsInv, ClaudeOfficerAgrees
<1>4. ASSUME NEW a \in OfficersOf(ClaudeEvents(e))
      PROVE  a.session = Officer /\ e \in fo.touched
  <2>1. PICK p \in Pos : /\ p = a.at /\ Started(f, p, e) /\ a.session = Officer
                         /\ a.call = 0 /\ a.kind = "OfficerStarted"
    <3>1. a \in ClaudeEvents(e) /\ a.kind = "OfficerStarted"
          BY DEF OfficersOf, Work!StillOpen
    <3> QED BY <1>1, <1>2, <3>1, ClaudeEventsMean DEF ClaudeMeans
  <2>2. ASSUME NEW q \in Pos, q >= p, Stopped(f, q, e) PROVE FALSE
    <3>1. PICK b : b = Event("OfficerStopped", q, Officer, 0)
          OBVIOUS
    <3>2. b \in ClaudeEvents(e)
          BY <1>2, <2>2, <3>1, ClaudeEventsHave DEF Stopped
    <3>3. b.kind = "OfficerStopped" /\ b.session = a.session /\ b.call = a.call /\ b.at = q
          BY <2>1, <3>1 DEF Work!Event
    <3>4. Before(b, a)
          BY <3>2, <3>3 DEF OfficersOf, Work!StillOpen
    <3>5. q < p
          BY <2>1, <3>3, <3>4, ClosingFirst
    <3> QED BY <1>1, <2>2, <3>5, Positions
  <2>3. e \in fo.touched
        BY <1>3, <2>1, <2>2 DEF Tells
  <2> QED BY <2>1, <2>3
<1>5. ASSUME e \in fo.touched PROVE OfficersOf(ClaudeEvents(e)) # {}
  <2>1. PICK p \in Pos : Started(f, p, e) /\ \A q \in Pos : Stopped(f, q, e) => q < p
        BY <1>3, <1>5 DEF Tells
  <2>2. PICK a : a = Event("OfficerStarted", p, Officer, 0)
        OBVIOUS
  <2>3. a \in ClaudeEvents(e)
        BY <1>2, <2>1, <2>2, ClaudeEventsHave DEF Started
  <2>4. a.kind = "OfficerStarted" /\ a.at = p
        BY <2>2 DEF Work!Event
  <2>5. ASSUME NEW b \in ClaudeEvents(e), b.kind = "OfficerStopped"
        PROVE  Before(b, a)
    <3>1. b.at \in Pos /\ Stopped(f, b.at, e)
          BY <1>1, <1>2, <2>5, ClaudeEventsMean DEF ClaudeMeans
    <3> QED BY <2>1, <2>4, <3>1 DEF Work!Before
  <2>6. a \in OfficersOf(ClaudeEvents(e))
        BY <2>3, <2>4, <2>5 DEF OfficersOf, Work!StillOpen
  <2> QED BY <2>6
<1> QED BY <1>4, <1>5

LEMMA ClaudeIsTrue ==
    ASSUME AgentsInv, runtime = "claude", NEW e \in Entities, ~Redispatched(e)
    PROVE  OpenIsTrue(ClaudeEvents(e), e)
<1>1. AgentsType
      BY DEF AgentsInv
<1>2. \A a \in ClaudeEvents(e) : a.at \in Pos
      BY <1>1, ClaudeEventsMean DEF ClaudeMeans
<1> QED BY <1>2, ClaudeGates, ClaudeWorkersOpen, ClaudeOfficersOpen
           DEF OpenIsTrue

\* What is shown of an entity is what goes on about it.
LEMMA ShownIsTrue ==
    ASSUME AgentsInv
    PROVE  Work!NeverPhantom /\ Work!WorkIsShown
<1>1. AgentsType /\ runtime \in {"codex", "claude"}
      BY DEF AgentsInv, AgentsType
<1>2. ASSUME NEW e \in Entities, ~(runtime = "claude" /\ Redispatched(e))
      PROVE  /\ \/ Activity(e).status = "idle"
                \/ <<Activity(e).status, Activity(e).session>> \in Goings(e)
             /\ fo.ask # 0 /\ e \in fo.touched => Activity(e).status = "gate"
             /\ ~(fo.ask # 0 /\ e \in fo.touched) /\ ProvenWorkers(e) # {}
                    => Activity(e).status = "worker"
             /\ e \in fo.touched => Activity(e).status # "idle"
  <2>1. PICK E : /\ E = IF runtime = "codex" THEN CodexEvents(e) ELSE ClaudeEvents(e)
                 /\ OpenIsTrue(E, e)
        BY <1>1, <1>2, CodexIsTrue, ClaudeIsTrue
  <2>2. Activity(e) = Reduce(E)
        BY <2>1 DEF Work!Activity
  <2> QED BY <1>1, <2>1, <2>2, ReducedIsTrue
<1> QED BY <1>2 DEF Work!NeverPhantom, Work!WorkIsShown

----------------------------------------------------------------------------
(* Logs and agents, side by side *)

LEMMA SessionsStart == MCInit => AgentsInv
BY AgentsInit DEF MCInit

LEMMA SessionsStep ==
    ASSUME AgentsInv, [MCNext]_bothVars
    PROVE  AgentsInv'
<1>1. CASE AgentStep
      BY <1>1, AgentsStep DEF AgentStep
<1>2. CASE LogStep \/ UNCHANGED bothVars
  <2>1. UNCHANGED Work!vars
        BY <1>2 DEF LogStep, OnlyLogs, bothVars, workVars, Work!vars
  <2> QED BY <2>1, AgentsUnchanged
<1> QED BY <1>1, <1>2 DEF MCNext

LEMMA AgentsAlways == MCSpec => []AgentsInv
<1>1. MCInit => AgentsInv
      BY SessionsStart
<1>2. AgentsInv /\ [MCNext]_bothVars => AgentsInv'
      BY SessionsStep
<1> QED BY <1>1, <1>2, PTL DEF MCSpec

\* Whoever is shown at work on an entity is at work on it
\* (`reduce_activity` on what `codex::collect` or `claude::collect` has made
\* of the records).
THEOREM ShownWorkIsReal == MCSpec => []NeverPhantom
<1>1. AgentsInv => NeverPhantom
      BY ShownIsTrue DEF NeverPhantom
<1> QED BY <1>1, AgentsAlways, PTL

\* Work that is going on and proven is shown, and a question of the first
\* officer's before it.
THEOREM RealWorkIsShown == MCSpec => []WorkIsShown
<1>1. AgentsInv => WorkIsShown
      BY ShownIsTrue DEF WorkIsShown
<1> QED BY <1>1, AgentsAlways, PTL
=============================================================================
