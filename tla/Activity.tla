------------------------------ MODULE Activity ------------------------------
(***************************************************************************)
(* From the records of session logs to what each entity is shown to be     *)
(* doing: `codex::collect`, `claude::collect` and `reduce_activity`.       *)
(*                                                                         *)
(* The variables are the agents: what they really do and the records they  *)
(* leave.  What the code makes of the records are operators over `log`,    *)
(* the records of all files in the order of their timestamps; a scan gives *)
(* all of it at one instant (SessionEvidence).                             *)
(***************************************************************************)
EXTENDS Naturals, Sequences, FiniteSets, FiniteSetsExt

CONSTANTS
    Entities,
    Workers,        \* agents that can be spawned, positive numbers
    MaxRecords      \* bound: records written

Nobody == "nobody"

\* Assumed by the module that composes this one.
ActivityConstants ==
    /\ Workers \subseteq Nat \ {0} /\ IsFiniteSet(Workers) /\ MaxRecords \in Nat
    /\ Nobody \notin Entities

VARIABLES
    runtime,        \* "codex" or "claude"; no record is of both
    log,            \* the projected records
    fo,             \* the first officer
    worker          \* the spawned agents

vars == <<runtime, log, fo, worker>>

Officer == 0        \* session of the first officer
Sessions == {Officer} \cup Workers

\* A record: the file it is in, its kind, the turn or call it names, the
\* entities its input names exactly, and for messages of a teammate its name
\* (workers are named for their entity).
Blank == [src |-> Officer, kind |-> "", id |-> 0, about |-> {}, agent |-> 0,
          from |-> Nobody]
Pos == DOMAIN log
Of(kinds) == {p \in Pos : log[p].kind \in kinds}
In(src) == {p \in Pos : log[p].src = src}

----------------------------------------------------------------------------
(* reducer.rs *)

Rank(kind) ==
    CASE kind = "WorkerStarted" -> 0 [] kind = "OfficerStarted" -> 1
      [] kind = "GateOpened" -> 2 [] kind = "GateResolved" -> 3
      [] kind = "WorkerStopped" -> 4 [] kind = "OfficerStopped" -> 5

Event(kind, at, session, call) ==
    [kind |-> kind, at |-> at, session |-> session, call |-> call]

Before(a, b) == a.at < b.at \/ (a.at = b.at /\ Rank(a.kind) < Rank(b.kind))

\* The openings that no later closing of the same session and call follows.
StillOpen(events, open, close) ==
    {a \in events : a.kind = open
        /\ \A b \in events : b.kind = close /\ b.session = a.session
                             /\ b.call = a.call => Before(b, a)}

\* Mutated form: whoever was seen last is shown.
ReduceByTime(events) ==
    LET open == StillOpen(events, "GateOpened", "GateResolved")
                \cup StillOpen(events, "WorkerStarted", "WorkerStopped")
                \cup StillOpen(events, "OfficerStarted", "OfficerStopped")
        last == CHOOSE a \in open : \A b \in open : b.at <= a.at
    IN  IF open = {} THEN [status |-> "idle", session |-> Officer]
        ELSE [status |-> CASE last.kind = "GateOpened" -> "gate"
                           [] last.kind = "WorkerStarted" -> "worker"
                           [] last.kind = "OfficerStarted" -> "officer",
              session |-> last.session]

\* reduce_activity: a human gate over a worker over a first officer.
Reduce(events) ==
    LET gates == StillOpen(events, "GateOpened", "GateResolved")
        workers == StillOpen(events, "WorkerStarted", "WorkerStopped")
        officers == StillOpen(events, "OfficerStarted", "OfficerStopped")
        Latest(S) == (CHOOSE a \in S : \A b \in S : b.at <= a.at).session
    IN  CASE gates # {} -> [status |-> "gate", session |-> Latest(gates)]
          [] gates = {} /\ workers # {} ->
                [status |-> "worker", session |-> Latest(workers)]
          [] gates = {} /\ workers = {} /\ officers # {} ->
                [status |-> "officer", session |-> Latest(officers)]
          [] OTHER -> [status |-> "idle", session |-> Officer]

----------------------------------------------------------------------------
(* codex.rs: a session is a file *)

\* The turn that is open at a record of a file: its last task_started, unless
\* that was completed.
OpenTurn(p) ==
    LET starts == {q \in In(log[p].src) : q < p /\ log[q].kind = "task_started"}
        q == Max(starts)
    IN  IF starts = {} THEN 0
        ELSE IF \E r \in In(log[p].src) :
                    /\ q < r /\ r < p
                    /\ log[r].kind = "task_complete" /\ log[r].id = log[q].id
        THEN 0 ELSE log[q].id

\* parent_confirms_start, or the legacy assignment in the file itself
Confirmed(s, e) ==
    \/ \E p \in In(Officer) : log[p].kind = "started" /\ log[p].agent = s
    \/ \E p \in In(s) : log[p].kind = "assignment" /\ e \in log[p].about

\* child_matches
IsWorkerOf(s, e) ==
    /\ \E p \in In(s) : log[p].kind = "session" /\ log[p].from = e
    /\ \E p \in In(s) : log[p].kind = "task_started"
    /\ Confirmed(s, e)

\* Mutated form: an interruption by the parent is not looked for.
CodexWorkerUninterrupted(s) ==
    {Event("WorkerStarted", p, s, 0) : p \in In(s) \cap Of({"task_started"})}
    \cup {Event("WorkerStopped", p, s, 0) :
             p \in {q \in In(s) \cap Of({"task_complete"}) : OpenTurn(q) = log[q].id}}

\* collect_worker, and the interruptions that the parent records
CodexWorker(s) ==
    {Event("WorkerStarted", p, s, 0) : p \in In(s) \cap Of({"task_started"})}
    \cup {Event("WorkerStopped", p, s, 0) :
             p \in {q \in In(s) \cap Of({"task_complete"}) : OpenTurn(q) = log[q].id}}
    \cup {Event("WorkerStopped", p, s, 0) :
             p \in {q \in Of({"interrupted"}) : log[q].agent = s}}

\* call_scopes_entity
Scopes(p, e) == log[p].kind \in {"call", "spawn"} /\ e \in log[p].about

\* collect_first_officer
CodexOfficer(s, e) ==
    LET scoping == {p \in In(s) : Scopes(p, e) /\ OpenTurn(p) # 0}
        Scoped(p) == \E q \in scoping : q < p /\ OpenTurn(q) = OpenTurn(p)
    IN  {Event("OfficerStarted", p, s, 0) : p \in scoping}
        \cup {Event("GateOpened", p, s, log[p].id) :
                 p \in {q \in In(s) \cap Of({"ask"}) : OpenTurn(q) # 0 /\ Scoped(q)}}
        \cup {Event("GateResolved", p, s, log[p].id) : p \in In(s) \cap Of({"result"})}
        \cup {Event("OfficerStopped", p, s, 0) :
                 p \in {q \in In(s) \cap Of({"task_complete"}) :
                           \E r \in scoping : r < q /\ OpenTurn(r) = log[q].id}}

HasSession(s) == \E p \in In(s) : log[p].kind = "session"

CodexEvents(e) ==
    UNION {IF IsWorkerOf(s, e) THEN CodexWorker(s) ELSE CodexOfficer(s, e) :
              s \in {t \in Sessions : HasSession(t)}}

----------------------------------------------------------------------------
(* claude.rs: the officer's file, and a metadata and a sidechain file each  *)

Dispatches(e) == {p \in In(Officer) : log[p].kind = "spawn" /\ e \in log[p].about}

\* Metadata need not name the call; the worker's name is all there is then.
MatchingMeta(d, e) ==
    {p \in Of({"meta"}) : log[p].from = e /\ log[p].id \in {0, log[d].id}}

\* The worker a dispatch made, when that is certain.
Attributed(d, e) ==
    /\ Cardinality(MatchingMeta(d, e)) = 1
    /\ \A p \in MatchingMeta(d, e) : log[p].id = 0 => Cardinality(Dispatches(e)) = 1

AgentOf(d, e) == log[CHOOSE p \in MatchingMeta(d, e) : TRUE].agent

Idles(e) == {p \in In(Officer) : log[p].kind = "idle" /\ log[p].from = e}
Boundaries(e) == {p \in In(Officer) : log[p].kind = "teammate" /\ log[p].from = e}

\* After an idle notification, only a later message of the worker in the
\* officer's file lets the worker's next record reopen it.
Reopened(spoken, e) ==
    {Min({p \in spoken : p > b}) :
        b \in {c \in Boundaries(e) : /\ \E i \in Idles(e) : i < c
                                     /\ \E p \in spoken : p > c}}

\* collect_worker_lifecycle
ClaudeWorker(s, e) ==
    LET spoken == {p \in In(s) : log[p].kind = "assistant"} IN
    IF spoken = {} THEN {}
    ELSE {Event("WorkerStarted", Min(spoken), s, 0)} \cup
         IF Cardinality(Dispatches(e)) # 1 THEN {}
         ELSE {Event("WorkerStopped", p, s, 0) : p \in Idles(e)}
              \cup {Event("WorkerStarted", p, s, 0) : p \in Reopened(spoken, e)}

AssistantKinds == {"assistant", "end_turn", "call", "spawn", "ask"}

\* Whether the officer's turn is scoped to e, and whether a worker has
\* handed back to it, after its records up to p.
OfficerState(e) ==
    LET After[p \in 0 .. Len(log)] ==
            IF p = 0 THEN [scoped |-> FALSE, handoff |-> FALSE]
            ELSE LET was == After[p - 1]
                     r == log[p]
                 IN  IF r.src # Officer THEN was
                     ELSE IF r.kind = "idle" /\ r.from = e
                             /\ \E d \in Dispatches(e) : d < p
                     THEN [scoped |-> FALSE, handoff |-> TRUE]
                     ELSE IF r.kind \in AssistantKinds
                     THEN [scoped |-> /\ r.kind # "end_turn"
                                      /\ was.scoped \/ was.handoff \/ Scopes(p, e),
                           handoff |-> FALSE]
                     ELSE was
    IN  After

\* collect_first_officer
ClaudeOfficer(e) ==
    LET after == OfficerState(e)
        Was(p) == after[p - 1]
        mine == In(Officer)
    IN  {Event("OfficerStarted", p, Officer, 0) :
            p \in {q \in mine : \/ Scopes(q, e)
                                \/ log[q].kind \in AssistantKinds /\ Was(q).handoff}}
        \cup {Event("GateOpened", p, Officer, log[p].id) :
                 p \in {q \in mine : log[q].kind = "ask" /\ after[q].scoped}}
        \cup {Event("GateResolved", p, Officer, log[p].id) :
                 p \in {q \in mine : log[q].kind = "result"}}
        \cup {Event("OfficerStopped", p, Officer, 0) :
                 p \in {q \in mine : log[q].kind = "end_turn"
                                     /\ (Was(q).scoped \/ Was(q).handoff)}}

ClaudeEvents(e) ==
    ClaudeOfficer(e) \cup
    UNION {ClaudeWorker(AgentOf(d, e), e) : d \in {c \in Dispatches(e) : Attributed(c, e)}}

\* scan_local_sessions_inner
Activity(e) == Reduce(IF runtime = "codex" THEN CodexEvents(e) ELSE ClaudeEvents(e))

----------------------------------------------------------------------------
(* The agents *)

NoWorker == [entity |-> Nobody, call |-> 0, opened |-> FALSE, known |-> FALSE,
             turn |-> 0, busy |-> FALSE, own |-> FALSE,
             rested |-> FALSE, heard |-> FALSE, shown |-> FALSE]

Next1 == Len(log) + 1

Write(r) == Len(log) < MaxRecords /\ log' = Append(log, r)
Set(k, r) == worker' = [worker EXCEPT ![k] = r]

Free == fo.ask = 0
InTurn == runtime = "claude" \/ fo.turn # 0

\* An assistant record of the officer takes up what workers handed back.
Speaks(more) ==
    fo' = [fo EXCEPT !.touched = @ \cup fo.handed \cup more, !.handed = {}]

StartTurn ==
    /\ runtime = "codex" /\ fo.turn = 0
    /\ Write([Blank EXCEPT !.kind = "task_started", !.id = Next1])
    /\ fo' = [fo EXCEPT !.turn = Next1]
    /\ UNCHANGED <<runtime, worker>>

EndTurn ==
    /\ Free /\ InTurn
    /\ Write([Blank EXCEPT !.kind = IF runtime = "codex" THEN "task_complete"
                                    ELSE "end_turn", !.id = fo.turn])
    /\ fo' = [fo EXCEPT !.turn = 0, !.touched = {}, !.handed = {}]
    /\ UNCHANGED <<runtime, worker>>

Call(e) ==
    /\ Free /\ InTurn
    /\ Write([Blank EXCEPT !.kind = "call", !.id = Next1, !.about = {e}])
    /\ Speaks({e})
    /\ UNCHANGED <<runtime, worker>>

\* A gate question is put to the human, and waited for.
Ask ==
    /\ Free /\ InTurn
    /\ Write([Blank EXCEPT !.kind = "ask", !.id = Next1])
    /\ fo' = [fo EXCEPT !.touched = @ \cup fo.handed, !.handed = {}, !.ask = Next1]
    /\ UNCHANGED <<runtime, worker>>

Answer ==
    /\ fo.ask # 0
    /\ Write([Blank EXCEPT !.kind = "result", !.id = fo.ask])
    /\ fo' = [fo EXCEPT !.ask = 0]
    /\ UNCHANGED <<runtime, worker>>

Spawn(k, e) ==
    /\ Free /\ InTurn /\ worker[k] = NoWorker
    /\ \A j \in Workers : j < k => worker[j] # NoWorker
    /\ Write([Blank EXCEPT !.kind = "spawn", !.id = Next1, !.about = {e}])
    /\ Speaks({e})
    /\ Set(k, [NoWorker EXCEPT !.entity = e, !.call = Next1])
    /\ UNCHANGED runtime

\* A Codex agent opens its file; an old one finds its assignment in it.
OpenFile(k) ==
    /\ runtime = "codex" /\ worker[k].entity \in Entities /\ ~worker[k].opened
    /\ Len(log) + 1 < MaxRecords
    /\ LET session == [Blank EXCEPT !.src = k, !.kind = "session",
                                    !.from = worker[k].entity]
           assigned == [Blank EXCEPT !.src = k, !.kind = "assignment",
                                     !.about = {worker[k].entity}]
       IN \/ /\ log' = Append(log, session)
             /\ Set(k, [worker[k] EXCEPT !.opened = TRUE])
          \/ /\ log' = log \o <<session, assigned>>
             /\ Set(k, [worker[k] EXCEPT !.opened = TRUE, !.known = TRUE])
    /\ UNCHANGED <<runtime, fo>>

\* The officer's file confirms the start, sooner or later.
Confirm(k) ==
    /\ runtime = "codex" /\ worker[k].entity \in Entities /\ ~worker[k].known
    /\ Write([Blank EXCEPT !.kind = "started", !.agent = k])
    /\ Set(k, [worker[k] EXCEPT !.known = TRUE])
    /\ UNCHANGED <<runtime, fo>>

WorkerTurn(k) ==
    /\ runtime = "codex" /\ worker[k].opened /\ ~worker[k].busy
    /\ Write([Blank EXCEPT !.src = k, !.kind = "task_started", !.id = Next1])
    /\ Set(k, [worker[k] EXCEPT !.turn = Next1, !.busy = TRUE, !.own = FALSE,
                                !.shown = TRUE])
    /\ UNCHANGED <<runtime, fo>>

WorkerCall(k) ==
    /\ runtime = "codex" /\ worker[k].busy
    /\ Write([Blank EXCEPT !.src = k, !.kind = "call", !.id = Next1,
                           !.about = {worker[k].entity}])
    /\ Set(k, [worker[k] EXCEPT !.own = TRUE])
    /\ UNCHANGED <<runtime, fo>>

WorkerDone(k) ==
    /\ runtime = "codex" /\ worker[k].busy
    /\ Write([Blank EXCEPT !.src = k, !.kind = "task_complete", !.id = worker[k].turn])
    /\ Set(k, [worker[k] EXCEPT !.busy = FALSE])
    /\ UNCHANGED <<runtime, fo>>

Interrupt(k) ==
    /\ runtime = "codex" /\ worker[k].busy /\ worker[k].known
    /\ Write([Blank EXCEPT !.kind = "interrupted", !.agent = k])
    /\ Set(k, [worker[k] EXCEPT !.busy = FALSE])
    /\ UNCHANGED <<runtime, fo>>

\* A Claude agent gets its metadata file, with or without the call's id.
WriteMeta(k) ==
    /\ runtime = "claude" /\ worker[k].entity \in Entities /\ ~worker[k].known
    /\ \E call \in {0, worker[k].call} :
          Write([Blank EXCEPT !.src = k, !.kind = "meta", !.id = call, !.agent = k,
                              !.from = worker[k].entity])
    /\ Set(k, [worker[k] EXCEPT !.known = TRUE])
    /\ UNCHANGED <<runtime, fo>>

\* Its first record shows it, and later the first after a message of its.
WorkerSpeaks(k) ==
    /\ runtime = "claude" /\ worker[k].entity \in Entities
    /\ Write([Blank EXCEPT !.src = k, !.kind = "assistant"])
    /\ Set(k, [worker[k] EXCEPT !.busy = TRUE, !.heard = FALSE,
                                !.shown = @ \/ worker[k].heard \/ ~worker[k].rested])
    /\ UNCHANGED <<runtime, fo>>

WorkerMessage(k) ==
    /\ runtime = "claude" /\ worker[k].entity \in Entities
    /\ worker[k].busy \/ worker[k].rested
    /\ Write([Blank EXCEPT !.kind = "teammate", !.from = worker[k].entity])
    /\ Set(k, [worker[k] EXCEPT !.heard = worker[k].rested])
    /\ UNCHANGED <<runtime, fo>>

GoIdle(k) ==
    /\ runtime = "claude" /\ worker[k].busy
    /\ Write([Blank EXCEPT !.kind = "idle", !.from = worker[k].entity])
    /\ Set(k, [worker[k] EXCEPT !.busy = FALSE, !.rested = TRUE, !.shown = FALSE])
    /\ fo' = [fo EXCEPT !.handed = @ \cup {worker[k].entity}]
    /\ UNCHANGED runtime

Officers == StartTurn \/ EndTurn \/ Ask \/ Answer \/ \E e \in Entities : Call(e)
Agents == \E k \in Workers :
    \/ \E e \in Entities : Spawn(k, e)
    \/ OpenFile(k) \/ Confirm(k) \/ WorkerTurn(k) \/ WorkerCall(k)
    \/ WorkerDone(k) \/ Interrupt(k)
    \/ WriteMeta(k) \/ WorkerSpeaks(k) \/ WorkerMessage(k) \/ GoIdle(k)

Init ==
    /\ runtime \in {"codex", "claude"}
    /\ log = IF runtime = "claude" THEN <<>>
             ELSE <<[Blank EXCEPT !.kind = "session"]>>
    /\ fo = [turn |-> 0, touched |-> {}, handed |-> {}, ask |-> 0]
    /\ worker = [k \in Workers |-> NoWorker]

Next == Officers \/ Agents

Spec == Init /\ [][Next]_vars

----------------------------------------------------------------------------
(* Properties *)

\* Two workers of one name: their notifications cannot be told apart.
Redispatched(e) == Cardinality({k \in Workers : worker[k].entity = e}) > 1

\* What is really going on about an entity, as <<status, session>>.
AtWork(e) == {k \in Workers : worker[k].entity = e /\ worker[k].busy}

Goings(e) ==
    (IF fo.ask # 0 /\ e \in fo.touched THEN {<<"gate", Officer>>} ELSE {})
    \cup {<<"worker", k>> : k \in AtWork(e)}
    \cup (IF e \in fo.touched THEN {<<"officer", Officer>>} ELSE {})
    \cup {<<"officer", k>> : k \in {j \in AtWork(e) : worker[j].own}}

(***************************************************************************)
(* No activity is shown that is not going on: an interruption, the end of  *)
(* a turn, an answer or an idle notification ends what it ends, in         *)
(* whichever file it is written.                                           *)
(***************************************************************************)
NeverPhantom ==
    \A e \in Entities :
        ~(runtime = "claude" /\ Redispatched(e)) =>
            \/ Activity(e).status = "idle"
            \/ <<Activity(e).status, Activity(e).session>> \in Goings(e)

\* A worker that its records prove to be one, and to be working.
ProvenWorkers(e) ==
    {k \in AtWork(e) : worker[k].known /\ worker[k].shown}

(***************************************************************************)
(* What the records prove to go on is shown, and of several things that go *)
(* on about an entity the one that matters most: a human is waited for     *)
(* before a worker works before a first officer does.                      *)
(***************************************************************************)
WorkIsShown ==
    \A e \in Entities :
        ~(runtime = "claude" /\ Redispatched(e)) =>
            /\ fo.ask # 0 /\ e \in fo.touched => Activity(e).status = "gate"
            /\ ~(fo.ask # 0 /\ e \in fo.touched) /\ ProvenWorkers(e) # {}
                   => Activity(e).status = "worker"
            /\ e \in fo.touched => Activity(e).status # "idle"
=============================================================================
