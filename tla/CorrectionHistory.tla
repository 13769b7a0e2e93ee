------------------------- MODULE CorrectionHistory -------------------------
(***************************************************************************)
(* The recorded review rounds of one entity and the browser over them: the *)
(* bounded loading of core correction_history.rs, the decoding of the      *)
(* review log (parser/correction_history.rs), the relationships between    *)
(* its records (query.rs) and the key handling of app/correction_history.rs*)
(* as functions from one browser value to the next.                        *)
(*                                                                         *)
(* A round is found under its key (stage and cycle, ordered); a Briefing is*)
(* its id and its digest; a line of the log is what record() decodes.      *)
(***************************************************************************)
EXTENDS Integers, Sequences, FiniteSets, SequencesExt

CONSTANTS
    Items,      \* Items[d]: the inventory of the Briefing with digest d
    MaxRounds   \* MAX_ROUNDS: how many candidates discovery keeps

None == [none |-> TRUE]

\* The entries of a sequence at these places, in their order.
Picked(seq, places) ==
    [k \in 1 .. Cardinality(places) |->
        seq[CHOOSE i \in places : Cardinality({j \in places : j < i}) = k - 1]]

\* The lines that were written whole: a line without its newline ends the
\* decoding, and so does one that does not decode.
Annotation(l) == l.kind = "annotation"
Resolution(l) == l.kind \in {"approve", "revise"}

\* decode_log accepts line i: it is whole, belongs to the Briefing, has a new
\* id, includes earlier ids only, and a refusal gives a reason or a finding.
Accepted(log, i, briefing) ==
    LET l == log[i]
        Earlier == {log[j] : j \in 1 .. i - 1}
        EarlierIds == {e.id : e \in Earlier}
    IN  /\ l.whole
        /\ l.briefing = briefing
        /\ l.id \notin EarlierIds
        /\ Range(l.includes) \subseteq EarlierIds
        /\ l.kind = "revise" =>
             \/ l.reason
             \/ \E e \in Earlier : e.id \in Range(l.includes) /\ Annotation(e)

\* The number of lines before the first one that is not accepted.
ValidPrefix(log, briefing) ==
    CHOOSE n \in 0 .. Len(log) :
        /\ \A i \in 1 .. n : Accepted(log, i, briefing)
        /\ n < Len(log) => ~Accepted(log, n + 1, briefing)

\* The first Resolution is the reviewer's verdict.
Reviewer(records) == SelectInSeq(records, Resolution)

\* relationship_role of a record at position i, which need not be decoded yet.
Role(records, i, record) ==
    LET first == Reviewer(records) IN
    IF i = first \/ (first = 0 /\ Resolution(record)) THEN "ReviewerEvidence"
    ELSE IF first > 0 /\ i > first THEN "FollowUp"
    ELSE "BeforeVerdict"

\* The includes of the refused line that name no earlier record: they are kept
\* as relationships that cannot be followed.
Dangling(log, n, briefing) ==
    LET l == log[n + 1]
        Missing(id) == id \notin {log[j].id : j \in 1 .. n}
        missing == Picked(l.includes, {k \in DOMAIN l.includes : Missing(l.includes[k])})
        Link(to) == [from |-> l.id, to |-> to, role |-> Role(SubSeq(log, 1, n), n + 1, l),
                     valid |-> FALSE]
    IN  IF n < Len(log) /\ l.whole /\ l.briefing = briefing /\ Missing(l.id)
        THEN [k \in DOMAIN missing |-> Link(missing[k])]
        ELSE <<>>

Completeness(log, records) ==
    LET first == Reviewer(records)
        last == Len(records)
    IN  IF log = <<>> \/ last < Len(log) THEN "Invalid"
        ELSE IF /\ first > 0
                /\ Resolution(records[last])
                /\ first # last \/ records[first].kind = "approve"
        THEN "Answered"
        ELSE "Incomplete"

-----------------------------------------------------------------------------
(* Loading                                                                   *)

\* load_round: what a room proves. `room` is its manifest and its log; pointer
\* is the binding the entity records for the round, or None; a retained room is
\* read for a folder-form entity only.
LoadRound(room, pointer, folder) ==
    LET Unverified == [briefing |-> IF pointer = None THEN "" ELSE pointer.id,
                       current |-> pointer # None, digest |-> 0, records |-> <<>>,
                       dangling |-> <<>>, completeness |-> "Invalid"]
    IN  IF \/ (pointer = None /\ ~folder)
           \/ room.manifest = None
           \/ (pointer # None /\ pointer # room.manifest)
        THEN Unverified
        ELSE LET id == room.manifest.id
                 n == ValidPrefix(room.log, id)
                 records == SubSeq(room.log, 1, n)
             IN  [briefing |-> id, current |-> pointer # None,
                  digest |-> room.manifest.digest, records |-> records,
                  dangling |-> Dangling(room.log, n, id),
                  completeness |-> Completeness(room.log, records)]

\* discover: the pointer's round first, then the directories in order, until
\* the list is full; the pointer's own directory takes a place of its own.
Candidates(rooms, pointer) ==
    LET Pointed == IF pointer = None THEN {} ELSE {pointer.key}
        Places == MaxRounds - Cardinality(Pointed)
    IN  Pointed \cup {k \in DOMAIN rooms :
                        /\ rooms[k] # None
                        /\ Cardinality({j \in DOMAIN rooms : j < k /\ rooms[j] # None}) < Places}

\* load: every candidate, the pointed one bound to the pointer's Briefing.
Load(rooms, pointer, folder) ==
    [k \in Candidates(rooms, pointer) |->
        LoadRound(IF rooms[k] = None THEN [manifest |-> None, log |-> <<>>] ELSE rooms[k],
                  IF pointer # None /\ pointer.key = k THEN pointer.briefing ELSE None,
                  folder)]

-----------------------------------------------------------------------------
(* Facts                                                                     *)

RoundOf(facts, k) == [key |-> k, briefing |-> facts[k].briefing]
Identities(facts) == {RoundOf(facts, k) : k \in DOMAIN facts}

\* correction_round: the round with this full identity, else nothing.
HasRound(facts, round) == round # None /\ round \in Identities(facts)

RecordsOf(facts, round) == IF HasRound(facts, round) THEN facts[round.key].records ELSE <<>>

\* correction_record: the record with this full identity, else nothing.
Record(facts, rec) ==
    LET records == RecordsOf(facts, rec.round)
        Same(l) == l.id = rec.id
        i == SelectInSeq(records, Same)
    IN  IF i = 0 THEN None ELSE records[i]

\* The includes of one round in the order of the log, then the dangling ones.
Links(facts, round) ==
    LET records == RecordsOf(facts, round)
        Of(i) == [k \in DOMAIN records[i].includes |->
                    [from |-> records[i].id, to |-> records[i].includes[k],
                     role |-> Role(records, i, records[i]), valid |-> TRUE]]
    IN  FlattenSeq([i \in DOMAIN records |-> Of(i)])
        \o (IF HasRound(facts, round) THEN facts[round.key].dangling ELSE <<>>)

\* correction_relationships: the links that touch a known record, each with the
\* direction in which the record sees it.
Relationships(facts, rec) ==
    LET Touches(l) == l.from = rec.id \/ l.to = rec.id
        links == Links(facts, rec.round)
        near == Picked(links, {k \in DOMAIN links : Touches(links[k])})
        Seen(l) == [from |-> l.from, to |-> l.to, role |-> l.role, valid |-> l.valid,
                    direction |-> IF l.from = rec.id THEN "Outgoing" ELSE "Incoming"]
    IN  IF Record(facts, rec) = None THEN <<>>
        ELSE [k \in DOMAIN near |-> Seen(near[k])]

-----------------------------------------------------------------------------
(* The browser                                                               *)

Closed == [facts |-> <<>>, round |-> None, selection |-> None, records_focus |-> FALSE,
           stack |-> <<>>, relationship |-> None, responses_only |-> FALSE,
           returns |-> <<>>, preview |-> None, initialized |-> FALSE]

IsResponse(e) == e.direction = "Incoming" /\ e.role = "FollowUp"

\* RelationshipSelection: what is kept of an edge to find it again.
Kept(e) == [from |-> e.from, to |-> e.to, direction |-> e.direction]

\* edges: the relationships of the record on top of the stack, filtered.
EdgesOf(h) ==
    LET edges == Relationships(h.facts, Last(h.stack)) IN
    IF h.stack = <<>> THEN <<>>
    ELSE Picked(edges, {k \in DOMAIN edges : h.responses_only => IsResponse(edges[k])})

Position(seq, Matches(_)) == SelectInSeq(seq, Matches)

\* The edge the selection stands for, 0 when it is gone.
EdgeAt(h) == LET Same(e) == h.relationship = Kept(e) IN Position(EdgesOf(h), Same)

FirstEdge(h) ==
    [h EXCEPT !.relationship = IF EdgesOf(h) = <<>> THEN None ELSE Kept(EdgesOf(h)[1])]

\* selections: the records of the selected round, then its inventory.
Selections(h) ==
    LET records == RecordsOf(h.facts, h.round)
        digest == IF HasRound(h.facts, h.round) THEN h.facts[h.round.key].digest ELSE 0
    IN  [k \in DOMAIN records |-> [round |-> h.round, id |-> records[k].id, item |-> FALSE]]
        \o (IF digest = 0 THEN <<>>
            ELSE [k \in DOMAIN Items[digest] |->
                    [round |-> h.round, id |-> Items[digest][k].id, item |-> TRUE]])

FirstSelection(h) ==
    [h EXCEPT !.selection = IF Selections(h) = <<>> THEN None ELSE Selections(h)[1]]

\* The first load selects the current round, else the last one.
Start(h) ==
    LET keys == DOMAIN h.facts
        current == {k \in keys : h.facts[k].current}
        best == IF current # {} THEN CHOOSE k \in current : TRUE
                ELSE CHOOSE k \in keys : \A j \in keys : j <= k
    IN  FirstSelection([h EXCEPT !.initialized = TRUE,
                                 !.round = IF keys = {} THEN None ELSE RoundOf(h.facts, best)])

\* A later load keeps what still exists and drops the rest, never replacing it;
\* a stack with a record that changed or went is dropped whole.
KeepRound(h) == IF HasRound(h.facts, h.round) THEN h ELSE [h EXCEPT !.round = None]
KeepSelection(h) ==
    IF h.selection \in Range(Selections(h)) THEN h ELSE [h EXCEPT !.selection = None]
DetailChanged(h, facts) ==
    \E r \in Range(h.stack) :
        Record(facts, r) = None \/ Record(facts, r) # Record(h.facts, r)
DropStack(h) == [h EXCEPT !.stack = <<>>, !.returns = <<>>]
KeepRelationship(h) == IF EdgeAt(h) > 0 THEN h ELSE [h EXCEPT !.relationship = None]

\* A refresh that looks only at the record on top of the stack.
RefreshHistoryTopOnly(h, facts) ==
    LET loaded == [h EXCEPT !.facts = facts, !.preview = None]
        kept == KeepSelection(KeepRound(loaded))
    IN  KeepRelationship(IF ~h.initialized THEN Start(loaded)
                         ELSE IF /\ h.stack # <<>>
                                 /\ DetailChanged([h EXCEPT !.stack = <<Last(h.stack)>>], facts)
                         THEN DropStack(kept)
                         ELSE kept)

RefreshHistory(h, facts) ==
    LET loaded == [h EXCEPT !.facts = facts, !.preview = None]
        kept == KeepSelection(KeepRound(loaded))
    IN  KeepRelationship(IF ~h.initialized THEN Start(loaded)
                         ELSE IF DetailChanged(h, facts) THEN DropStack(kept)
                         ELSE kept)

\* Esc: the preview first, then one record of the stack, with the edge and the
\* filter it was left with; FALSE stands for "close the browser".
Back(h) ==
    IF h.preview # None THEN [h EXCEPT !.preview = None]
    ELSE LET rest == Front(h.stack)
             source == IF rest = <<>> THEN Last(h.stack) ELSE Last(rest)
             left == IF h.returns = <<>> THEN [relationship |-> None, responses_only |-> h.responses_only]
                     ELSE Last(h.returns)
             back == [h EXCEPT !.stack = rest,
                               !.selection = [round |-> source.round, id |-> source.id, item |-> FALSE],
                               !.returns = IF @ = <<>> THEN @ ELSE Front(@),
                               !.relationship = left.relationship,
                               !.responses_only = left.responses_only]
         IN  [KeepRelationship(back) EXCEPT !.responses_only = @ /\ rest # <<>>]

CanGoBack(h) == h.preview # None \/ h.stack # <<>>

ToggleFocus(h) == [h EXCEPT !.records_focus = ~@]
ToggleFilter(h) == FirstEdge([h EXCEPT !.responses_only = ~@])

\* The entry at the position of the old one plus delta, clamped; the first
\* entry when the old one is gone.
Step(seq, at, delta) ==
    IF seq = <<>> THEN None
    ELSE LET to == IF at = 0 THEN 1 ELSE at + delta
         IN  seq[IF to < 1 THEN 1 ELSE IF to > Len(seq) THEN Len(seq) ELSE to]

\* move_selection: among the edges of a detail, the records, or the rounds.
MoveHistory(h, delta) ==
    LET edges == EdgesOf(h)
        edge == Step(edges, EdgeAt(h), delta)
        Selected(s) == s = h.selection
        keys == SetToSortSeq(DOMAIN h.facts, <)
        rounds == [k \in DOMAIN keys |-> RoundOf(h.facts, keys[k])]
        Here(r) == r = h.round
    IN  IF h.preview # None THEN h
        ELSE IF h.stack # <<>>
        THEN [h EXCEPT !.relationship = IF edge = None THEN None ELSE Kept(edge)]
        ELSE IF h.records_focus
        THEN [h EXCEPT !.selection = Step(Selections(h), SelectInSeq(Selections(h), Selected), delta)]
        ELSE FirstSelection([h EXCEPT !.round = Step(rounds, SelectInSeq(rounds, Here), delta)])

\* Only the id is looked for, as if records never changed.
RevalidatesId(h, fresh, rec) ==
    /\ HasRound(fresh, rec.round)
    /\ Record(fresh, rec) # None

\* revalidate_record: the fresh load must hold the same Briefing and the same
\* record, and the same record below it.
Revalidates(h, fresh, rec) ==
    /\ HasRound(h.facts, rec.round) /\ HasRound(fresh, rec.round)
    /\ h.facts[rec.round.key].digest # 0
    /\ h.facts[rec.round.key].digest = fresh[rec.round.key].digest
    /\ Record(h.facts, rec) # None
    /\ Record(h.facts, rec) = Record(fresh, rec)
    /\ h.stack # <<>> => Record(h.facts, Last(h.stack)) = Record(fresh, Last(h.stack))

\* Enter on an edge: a valid one is followed to its other end, and the way back
\* is remembered; a target that changed drops the whole stack.
Follow(h, fresh) ==
    LET e == EdgesOf(h)[EdgeAt(h)]
        target == [round |-> Last(h.stack).round,
                   id |-> IF e.direction = "Incoming" THEN e.from ELSE e.to]
        seen == RefreshHistory(h, fresh)
    IN  IF EdgeAt(h) = 0 \/ ~e.valid THEN h
        ELSE IF ~Revalidates(h, fresh, target) THEN DropStack(seen)
        ELSE FirstEdge([seen EXCEPT
                 !.returns = Append(@, [relationship |-> seen.relationship,
                                        responses_only |-> seen.responses_only]),
                 !.stack = Append(@, target)])

\* Enter on a record opens its detail when it is still what the list shows.
OpenRecord(h, fresh) ==
    LET rec == [round |-> h.selection.round, id |-> h.selection.id]
        seen == RefreshHistory(h, fresh)
    IN  IF Revalidates(h, fresh, rec) THEN FirstEdge([seen EXCEPT !.stack = Append(@, rec)])
        ELSE DropStack(seen)

\* Enter on an item: read_item loads the rounds again and wants the round, its
\* digest and the item unchanged, and the bytes to have the recorded revision.
OpenArtifact(h, fresh, bytes) ==
    LET round == h.selection.round
        digest == h.facts[round.key].digest
        wanted == {i \in Range(Items[digest]) : i.id = h.selection.id}
    IN  IF ~HasRound(h.facts, round) \/ digest = 0 \/ wanted = {} THEN h
        ELSE LET i == CHOOSE i \in wanted : TRUE IN
             IF /\ HasRound(fresh, round) /\ fresh[round.key].digest = digest
                /\ bytes[i.id] = i.revision
             THEN [h EXCEPT !.preview = [id |-> i.id, bytes |-> bytes[i.id]]]
             ELSE [h EXCEPT !.preview = None]

\* Enter, with what a load made at this moment would find.
OpenHistory(h, fresh, bytes) ==
    IF h.stack # <<>> THEN Follow(h, fresh)
    ELSE IF h.selection = None THEN h
    ELSE IF h.selection.item THEN OpenArtifact(h, fresh, bytes)
    ELSE OpenRecord(h, fresh)
=============================================================================
