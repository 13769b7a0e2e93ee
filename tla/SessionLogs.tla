---------------------------- MODULE SessionLogs ----------------------------
(***************************************************************************)
(* One generation after another of `load_generation`: an inventory of the  *)
(* session logs, each log read from its cursor or whole, and the inventory *)
(* again.  Agents append, tear, rotate, truncate and remove logs between   *)
(* any two of these reads.                                                 *)
(*                                                                         *)
(* A line is the time of its writing, so that no two lines at a position   *)
(* are the same unless they are one (agents stamp their records).  Lengths *)
(* and offsets are in half lines: a torn line is one half.                 *)
(***************************************************************************)
EXTENDS Naturals, Sequences, FiniteSets, FiniteSetsExt

CONSTANTS
    Logs,           \* paths of session files, as they are sorted
    Whole,          \* those with extension json, a single value each
    MaxLines,       \* bound: lines of a log
    MaxWrites,      \* bound: writes of agents
    MaxFaults,      \* bound: reads that fail although the log is there
    Absent, NoCursor

ASSUME LogConstants ==
    /\ Logs \subseteq Nat /\ Whole \subseteq Logs /\ IsFiniteSet(Logs)
    /\ MaxLines \in Nat \ {0} /\ MaxWrites \in Nat /\ MaxFaults \in Nat
    /\ Absent \notin [lines : Seq(Nat), torn : BOOLEAN, time : Nat]

VARIABLES
    disk,           \* the logs
    now,            \* writes so far
    cursors,        \* SessionScanState.files of the last accepted generation
    evidence,       \* SessionEvidenceStore of the last accepted generation
    scan,           \* the generation being read
    errors,         \* logs that generation could not read, as reported
    faults

vars == <<disk, now, cursors, evidence, scan, errors, faults>>
agentVars == <<disk, now>>

\* A record is kept under the key of its session, or of its file as long as
\* no session is known; `retained` is those of all keys.
Keys == {"session", "source"}
Kept(key, facts) == {<<key, r>> : r \in facts}
Records(store) == {kept[2] : kept \in store}

----------------------------------------------------------------------------
(* A log as it is read *)

HalfLines(c) == 2 * Len(c.lines) + IF c.torn THEN 1 ELSE 0

Inventory == [f \in {g \in Logs : disk[g] # Absent} |->
                 [length |-> HalfLines(disk[f]), time |-> disk[f].time]]

\* read_checkpoint: the bytes that end at an offset; an error beyond the end.
Readable(c, offset) == c # Absent /\ offset <= HalfLines(c)
Checkpoint(c, offset) ==
    IF offset = 0 \/ offset % 2 = 1 THEN 0 ELSE c.lines[offset \div 2]

\* Mutated form: only lengths and times are compared.
MatchesUnchecked(c, cursor) == cursor.offset > 0

\* append_checkpoint_matches
Matches(c, cursor) ==
    cursor.offset > 0 /\ Checkpoint(c, cursor.offset) = cursor.checkpoint

FactsFrom(f, c, start) ==
    {<<f, i, c.lines[i]>> : i \in {j \in DOMAIN c.lines : 2 * (j - 1) >= start}}

\* Mutated form: what is torn counts as read.
EndOfReadTorn(f, c, start) ==
    IF f \in Whole THEN scan.before[f].length ELSE HalfLines(c)

\* A Whole file is one value, and counts as read up to its inventoried end.
EndOfRead(f, c, start) ==
    IF f \in Whole THEN scan.before[f].length
    ELSE IF start > 2 * Len(c.lines) THEN start ELSE 2 * Len(c.lines)

\* Mutated form: a chunk that does not name its session goes to its file.
EvidenceKeyOfChunk(f, facts) ==
    IF \E r \in facts : r[2] = 1 THEN "session" ELSE "source"

\* The first line names the session; a chunk without it keeps the key that
\* the cursor had.
EvidenceKey(f, facts) ==
    IF \E r \in facts : r[2] = 1 THEN "session"
    ELSE IF f \in DOMAIN cursors THEN cursors[f].key ELSE "source"

----------------------------------------------------------------------------
(* The steps of a generation *)

NoScan == [stage |-> "idle", before |-> <<>>, todo |-> {}, cursors |-> <<>>,
           evidence |-> {}, failed |-> {}, start |-> 0, offset |-> 0,
           key |-> "source"]

Begin ==
    /\ scan.stage = "idle"
    /\ scan' = [NoScan EXCEPT !.stage = "check", !.before = Inventory,
                              !.todo = DOMAIN Inventory, !.evidence = evidence]
    /\ UNCHANGED <<agentVars, cursors, evidence, errors, faults>>

\* Files are visited in the order of their paths.
Current == Min(scan.todo)
Reading(stage) == scan.stage = stage /\ scan.todo # {}

NextFile == [scan EXCEPT !.stage = "check", !.todo = @ \ {Current},
                         !.start = 0, !.offset = 0, !.key = "source"]

WithCursor(s, f, cursor) ==
    [s EXCEPT !.cursors = [g \in DOMAIN @ \cup {f} |-> IF g = f THEN cursor ELSE @[g]]]

\* An error of any read leaves the log without a cursor.
Skip == scan' = [NextFile EXCEPT !.failed = @ \cup {Current}]

ReadFails ==
    /\ scan.stage \in {"check", "parse", "checkpoint"} /\ scan.todo # {}
    /\ faults < MaxFaults
    /\ faults' = faults + 1
    /\ Skip
    /\ UNCHANGED <<agentVars, cursors, evidence, errors>>

\* Unchanged, appended to, or to be read whole.
Check ==
    /\ Reading("check")
    /\ LET f == Current
           c == disk[f]
           entry == scan.before[f]
           prior == IF f \in DOMAIN cursors THEN cursors[f] ELSE NoCursor
           same == prior # NoCursor /\ prior.length = entry.length
                                    /\ prior.time = entry.time
           grown == prior # NoCursor /\ f \notin Whole /\ entry.length > prior.length
       IN  IF c = Absent \/ ((same \/ grown) /\ prior.offset > 0
                                             /\ ~Readable(c, prior.offset))
           THEN Skip
           ELSE IF same /\ Matches(c, prior)
           THEN scan' = WithCursor(NextFile, f, prior)
           ELSE scan' = [scan EXCEPT !.stage = "parse",
                                     !.start = IF grown /\ Matches(c, prior)
                                               THEN prior.offset ELSE 0]
    /\ UNCHANGED <<agentVars, cursors, evidence, errors, faults>>

Parse ==
    /\ Reading("parse")
    /\ LET f == Current
           c == disk[f]
           facts == FactsFrom(f, c, scan.start)
           key == IF facts = {} /\ f \in DOMAIN cursors THEN cursors[f].key
                  ELSE EvidenceKey(f, facts)
       IN  IF c = Absent THEN Skip
           ELSE scan' = [scan EXCEPT !.stage = "checkpoint", !.key = key,
                                     !.offset = EndOfRead(f, c, scan.start),
                                     !.evidence = @ \cup Kept(key, facts)]
    /\ UNCHANGED <<agentVars, cursors, evidence, errors, faults>>

TakeCheckpoint ==
    /\ Reading("checkpoint")
    /\ LET f == Current IN
       IF scan.offset > 0 /\ ~Readable(disk[f], scan.offset) THEN Skip
       ELSE scan' = WithCursor(NextFile, f,
                        [length |-> scan.before[f].length, time |-> scan.before[f].time,
                         offset |-> scan.offset, key |-> scan.key,
                         checkpoint |-> IF scan.offset = 0 THEN 0
                                        ELSE Checkpoint(disk[f], scan.offset)])
    /\ UNCHANGED <<agentVars, cursors, evidence, errors, faults>>

\* The inventory is as it was: the generation is published.
Accept ==
    /\ scan.stage = "check" /\ scan.todo = {}
    /\ Inventory = scan.before
    /\ cursors' = scan.cursors
    /\ evidence' = scan.evidence
    /\ errors' = scan.failed
    /\ scan' = NoScan
    /\ UNCHANGED <<agentVars, faults>>

\* It is not: all is dropped, and the worker asked to retry at once.
Reject ==
    /\ scan.stage = "check" /\ scan.todo = {}
    /\ Inventory # scan.before
    /\ scan' = NoScan
    /\ UNCHANGED <<agentVars, cursors, evidence, errors, faults>>

\* A root that cannot be listed fails the scan; what was published stays.
RootUnreadable ==
    /\ scan.stage = "check" /\ scan.todo = {}
    /\ faults < MaxFaults
    /\ faults' = faults + 1
    /\ scan' = NoScan
    /\ UNCHANGED <<agentVars, cursors, evidence, errors>>

Scanner == Begin \/ Check \/ Parse \/ TakeCheckpoint \/ Accept \/ Reject

----------------------------------------------------------------------------
(* Agents *)

Put(f, lines, torn, time) ==
    /\ now < MaxWrites
    /\ now' = now + 1
    /\ disk' = [disk EXCEPT ![f] = [lines |-> lines, torn |-> torn, time |-> time]]
    /\ UNCHANGED <<cursors, evidence, scan, errors, faults>>

\* The clock of the file system may be too coarse to tell two appends apart.
AppendLine(f) ==
    /\ disk[f] # Absent /\ f \notin Whole
    /\ Len(disk[f].lines) < MaxLines
    /\ \E time \in {disk[f].time, now + 1} :
          Put(f, Append(disk[f].lines, now + 1), FALSE, time)

TearLine(f) ==
    /\ disk[f] # Absent /\ f \notin Whole
    /\ ~disk[f].torn
    /\ Len(disk[f].lines) < MaxLines
    /\ \E time \in {disk[f].time, now + 1} : Put(f, disk[f].lines, TRUE, time)

\* A log cut off after some of its lines.
Truncate(f) ==
    /\ disk[f] # Absent /\ f \notin Whole
    /\ \E n \in 0 .. Len(disk[f].lines) - 1 :
          Put(f, SubSeq(disk[f].lines, 1, n), FALSE, now + 1)

\* A new log, or one in the place of another.  While no scan is looking, it
\* can have the length and the time of the old one.
Rotate(f) ==
    \E n \in 0 .. MaxLines, torn \in BOOLEAN :
        LET lines == [i \in 1 .. n |-> now + 1] IN
        /\ f \in Whole => (n = 1 /\ ~torn) \/ (n = 0 /\ torn)
        /\ torn => n < MaxLines
        /\ \/ Put(f, lines, torn, now + 1)
           \/ /\ scan.stage = "idle" /\ disk[f] # Absent
              /\ Put(f, lines, torn, disk[f].time)

Remove(f) ==
    /\ disk[f] # Absent
    /\ now < MaxWrites
    /\ now' = now + 1
    /\ disk' = [disk EXCEPT ![f] = Absent]
    /\ UNCHANGED <<cursors, evidence, scan, errors, faults>>

Agents == \E f \in Logs :
    AppendLine(f) \/ TearLine(f) \/ Truncate(f) \/ Rotate(f) \/ Remove(f)

----------------------------------------------------------------------------

Init ==
    /\ disk = [f \in Logs |-> Absent]
    /\ now = 0
    /\ cursors = <<>>
    /\ evidence = {}
    /\ scan = NoScan
    /\ errors = {}
    /\ faults = 0

Next == Scanner \/ ReadFails \/ RootUnreadable \/ Agents

\* The application asks for a scan every two seconds, and at once after a
\* rejected one; a scan is a thread that runs to its end.
Spec == Init /\ [][Next]_vars /\ WF_vars(Scanner)

----------------------------------------------------------------------------
(* Properties *)

Cursors == [length : Nat, time : Nat, offset : Nat, key : Keys, checkpoint : Nat]
FactSet == Logs \X Nat \X Nat

TypeOK ==
    /\ \A f \in Logs : disk[f] # Absent =>
          /\ disk[f].lines \in Seq(1 .. now) /\ Len(disk[f].lines) <= MaxLines
          /\ disk[f].torn \in BOOLEAN /\ disk[f].time \in 0 .. now
    /\ DOMAIN cursors \subseteq Logs /\ \A f \in DOMAIN cursors : cursors[f] \in Cursors
    /\ \A kept \in evidence : kept[1] \in Keys /\ kept[2] \in FactSet
    /\ scan.stage \in {"idle", "check", "parse", "checkpoint"}
    /\ errors \subseteq Logs

RetainedOnce ==
    \A one, two \in evidence : one[2] = two[2] => one = two

(***************************************************************************)
(* A record replayed by a second reading is the same record under the same *)
(* key: it is never retained twice, which would make a single dispatch of  *)
(* a worker look ambiguous.                                                *)
(***************************************************************************)
EvidenceIsSound == TypeOK /\ RetainedOnce

(***************************************************************************)
(* However a generation is pieced together from cursors, appends and whole *)
(* files, it is as if all logs had been read at one instant; what was once *)
(* published stays; and a log that is missing from it is reported.         *)
(***************************************************************************)
Promise == INSTANCE SessionEvidence WITH recorded <- Records(evidence)
ImplementsEvidence == Promise!Spec

(***************************************************************************)
(* When the agents pause, all they have written gets published, but for    *)
(* logs that the last scan reported as unreadable.                         *)
(***************************************************************************)
CatchesUp ==
    []<>(\A f \in Logs \ errors : Promise!Facts(disk, f) \subseteq Records(evidence))
=============================================================================
