------------------------------- MODULE Gates -------------------------------
(***************************************************************************)
(* The gate record in an entity's frontmatter: its strict decoding         *)
(* (parser/gates.rs), what it says about the task now (gates.rs), the      *)
(* read-only proof that a gate can be prepared (gate_proof.rs), and the    *)
(* reason for attention it gives (domain/attention.rs).                    *)
(*                                                                         *)
(* An optional part is a set of at most one element. A digest, a room      *)
(* reference, an attribution or a reason is whether it is acceptable.      *)
(***************************************************************************)
EXTENDS Integers, Sequences, FiniteSets, SequencesExt

CONSTANTS
    Stages,     \* the stages of the workflow README, in order
    Report      \* Report[b]: the lines of the body b

FirstOfficer == "agent:first-officer"
NoText == ""
Absent == {}

ASSUME StagesAssumption == \A s \in Range(Stages) : s.terminal \in BOOLEAN

StageNames == {Stages[i].name : i \in DOMAIN Stages}
StagesNamed(status) == {s \in Range(Stages) : s.name = status}

Distinct(ids) ==
    /\ NoText \notin Range(ids)
    /\ IsInjective(ids)

Leap(year) == year % 4 = 0 /\ (year % 100 # 0 \/ year % 400 = 0)
DaysIn(year, month) ==
    CASE month \in {1, 3, 5, 7, 8, 10, 12} -> 31
      [] month \in {4, 6, 9, 11} -> 30
      [] month = 2 /\ Leap(year) -> 29
      [] month = 2 -> 28
      [] OTHER -> 0

\* A UTC time is a date of the calendar and a time of day; only Z and +00:00
\* name UTC.
UtcTimestamp(t) ==
    /\ t.zone \in {"Z", "+00:00"}
    /\ t.day \in 1 .. DaysIn(t.year, t.month)
    /\ t.hour < 24 /\ t.minute < 60 /\ t.second < 60

ValidWithdrawal(w) == w.by = FirstOfficer /\ w.reasoned /\ UtcTimestamp(w.at)

ValidResolution(r, briefing) ==
    /\ r.briefing = briefing /\ r.attributed
    /\ r.decision # "Approve" => r.reasoned
    /\ \A c \in r.conn : r.by = FirstOfficer /\ c.quoted

Approved(attempt) == \E r \in attempt.resolution : r.decision = "Approve"

ValidAttempt(a) ==
    /\ a.briefing.bound
    /\ a.withdrawal = {} \/ a.resolution = {}
    /\ \A w \in a.withdrawal : ValidWithdrawal(w)
    /\ \A r \in a.resolution : ValidResolution(r, a.briefing.id)
    /\ \A p \in a.application : Approved(a) /\ a.withdrawal = {} /\ p.target # NoText

Pending(record) ==
    {i \in DOMAIN record.attempts :
        \E p \in record.attempts[i].application : p.state = "Pending"}

\* The attempts of a document: a record's place and the attempt's place in it.
Places(doc) == UNION {{<<i, j>> : j \in DOMAIN doc.records[i].attempts} : i \in DOMAIN doc.records}
AttemptAt(doc, at) == doc.records[at[1]].attempts[at[2]]

\* No identity is used twice in a document, whichever record it is in.
ValidIdentities(doc) ==
    LET resolved == {at \in Places(doc) : AttemptAt(doc, at).resolution # {}}
        Resolution(a) == CHOOSE r \in a.resolution : TRUE
    IN  /\ Distinct([i \in DOMAIN doc.records |-> doc.records[i].id])
        /\ Distinct([i \in DOMAIN doc.records |-> doc.records[i].stage])
        /\ Distinct([at \in Places(doc) |-> AttemptAt(doc, at).id])
        /\ Distinct([at \in Places(doc) |-> AttemptAt(doc, at).briefing.id])
        /\ Distinct([at \in resolved |-> Resolution(AttemptAt(doc, at)).id])

Valid(doc) ==
    /\ doc.readable /\ doc.version = 1 /\ doc.records # << >>
    /\ ValidIdentities(doc)
    /\ \A record \in Range(doc.records) :
        /\ record.attempts # << >>
        /\ \A a \in Range(record.attempts) : ValidAttempt(a)
        /\ Cardinality(Pending(record)) <= 1

\* gates is what the frontmatter has under that key: nothing, or one document.
\* The parts of a document are lists, its optional parts are at most one, and
\* decisions and states are those of the serialization.
Serialized(gates) ==
    \A doc \in gates :
        /\ gates = {doc} /\ doc.records \in Seq(Range(doc.records))
        /\ \A r \in Range(doc.records) :
            /\ r.attempts \in Seq(Range(r.attempts))
            /\ \A a \in Range(r.attempts) :
                /\ \A x \in a.resolution :
                     a.resolution = {x} /\ x.decision \in {"Approve", "Revise", "Hold"}
                /\ \A x \in a.application :
                     a.application = {x} /\ x.state \in {"Pending", "Consumed", "Superseded"}

Kind(gates) ==
    IF gates = Absent THEN "Absent"
    ELSE IF \A doc \in gates : Valid(doc) THEN "Valid" ELSE "Invalid"

\* A mutated form of SelectedAttempt: the first attempt of the record.
FirstAttempt(gates, status) ==
    IF Kind(gates) # "Valid" THEN {}
    ELSE UNION {{Head(r.attempts) : r \in {q \in Range(doc.records) : q.stage = status}} :
                    doc \in gates}

\* The latest attempt of the record of the current stage.
SelectedAttempt(gates, status) ==
    IF Kind(gates) # "Valid" THEN {}
    ELSE UNION {{Last(r.attempts) : r \in {q \in Range(doc.records) : q.stage = status}} :
                    doc \in gates}

Application(resolution, application, status) ==
    LET target == StagesNamed(application.target) IN
    IF application.state # "Pending" THEN application.state
    ELSE IF application.target = status \/ resolution.decision # "Approve" THEN "Invalid"
    ELSE IF target = {} THEN "Invalid"
    ELSE IF \E s \in target : s.terminal THEN "ApprovedAwaitingMerge"
    ELSE "ApprovedAwaitingAdvance"

Answered(attempt, resolution, status) ==
    IF attempt.application # {}
    THEN Application(resolution, CHOOSE p \in attempt.application : TRUE, status)
    ELSE [Hold |-> "Held", Revise |-> "FeedbackPending", Approve |-> "Invalid"][resolution.decision]

AtGate(status) == \E s \in StagesNamed(status) : s.gate /\ ~s.terminal

Readiness(gates, status, proven) ==
    LET selected == SelectedAttempt(gates, status)
        attempt == CHOOSE a \in selected : TRUE
    IN  IF Kind(gates) = "Invalid" THEN "Invalid"
        ELSE IF ~AtGate(status) THEN "None"
        ELSE IF selected = {} THEN (IF proven THEN "NeedsPreparation" ELSE "Validating")
        ELSE IF attempt.withdrawal # {} THEN "WithdrawnAwaitingPrepare"
        ELSE IF attempt.resolution = {} THEN "AwaitingCaptain"
        ELSE Answered(attempt, CHOOSE r \in attempt.resolution : TRUE, status)

\* The reason for attention of a row; diagnosed says that the preparation
\* could not be proved.
Attention(gates, readiness, diagnosed) ==
    IF Kind(gates) = "Invalid" THEN "InvalidInformation"
    ELSE CASE readiness = "AwaitingCaptain" -> "ReviewRequested"
           [] readiness = "Held" -> "RecordedBlocker"
           [] readiness = "FeedbackPending" -> "RecordedFollowUp"
           [] readiness = "NeedsPreparation" -> "PreparationNeeded"
           [] readiness = "WithdrawnAwaitingPrepare" -> "ReplacementNeeded"
           [] readiness = "ApprovedAwaitingAdvance" -> "AdvancePending"
           [] readiness = "ApprovedAwaitingMerge" -> "MergePending"
           [] readiness = "Invalid" -> "InvalidInformation"
           [] readiness = "Validating" /\ diagnosed -> "MissingOrUnverifiedInformation"
           [] OTHER -> "None"

(***************************************************************************)
(* The proof. A line of a body is a heading ("report" with its stage,      *)
(* "section", "subsection", "summary"), a checklist item ("DONE",          *)
(* "SKIPPED", "FAILED", with a text or without), "text" or "blank".        *)
(***************************************************************************)
Item(l) == l.kind \in {"DONE", "SKIPPED", "FAILED"}
Heading(l) == l.kind \in {"report", "section", "subsection", "summary"}
NotBlank(lines, from, to) == \E i \in from .. to : lines[i].kind # "blank"

\* The first line after `from` that satisfies Test, or one past the end.
FirstAfter(lines, from, Test(_)) ==
    LET next == SelectInSubSeq(lines, from + 1, Len(lines), Test) IN
    IF next = 0 THEN Len(lines) + 1 ELSE next

\* The last report of the stage is complete: it has items, each has a text and
\* evidence below it, none failed, and a Summary that says something.
CompleteReport(lines, stage) ==
    LET ForStage(l) == l.kind = "report" /\ l.stage = stage
        start == SelectLastInSeq(lines, ForStage)
        EndsReport(l) == l.kind \in {"report", "section"}
        section == SubSeq(lines, start + 1, FirstAfter(lines, start, EndsReport) - 1)
        EndsItems(l) == l.kind \in {"subsection", "summary"}
        limit == FirstAfter(section, 0, EndsItems)
        items == {i \in 1 .. limit - 1 : Item(section[i])}
        Evidence(i) == NotBlank(section, i + 1,
            (IF \E j \in items : j > i
             THEN CHOOSE j \in items : j > i /\ \A k \in items : k > i => j <= k
             ELSE limit) - 1)
        Summary(l) == l.kind = "summary"
        summary == SelectInSeq(section, Summary)
    IN  /\ start > 0 /\ items # {}
        /\ \A i \in items : section[i].kind # "FAILED" /\ section[i].text /\ Evidence(i)
        /\ summary > 0
        /\ NotBlank(section, summary + 1, FirstAfter(section, summary, Heading) - 1)

\* Whether a preparation is to be proved, and the proof for a body and the
\* state of its file in git.
ToProve(gates, status) ==
    AtGate(status) /\ SelectedAttempt(gates, status) = {} /\ Kind(gates) # "Invalid"
Proven(status, body, clean) ==
    /\ clean
    /\ \A s \in StagesNamed(status) : s.initial \/ CompleteReport(Report[body], status)
=============================================================================
