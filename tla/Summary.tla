-------------------------------- MODULE Summary --------------------------------
(***************************************************************************)
(* AI summaries of one task: SummaryState, the requests and results it     *)
(* keeps, and SummaryWorker, which runs one provider thread at a time.     *)
(* The main thread polls the worker, joins it, launches the next request   *)
(* (`tick`, here three steps, the provider may end between any two), and   *)
(* then takes a reload and a key.                                          *)
(***************************************************************************)
EXTENDS Naturals, Sequences, FiniteSets, SequencesExt

CONSTANTS
    Tasks,          \* the tasks that can be selected
    NoRequest,      \* no request, no view, nothing running
    Changed,        \* a snapshot that could not be captured
    CacheSize,      \* summaries kept: 16
    MaxVersion,     \* bound: edits of a task's source
    MaxRequests     \* bound: requests made in one behaviour

Keys == [task : Tasks, version : 0 .. MaxVersion]
Requests == [nonce : 1 .. MaxRequests, key : Keys]
Views == [task : Tasks, version : (0 .. MaxVersion) \cup {Changed},
          notice : {"none", "error", "canceled"}]

ASSUME SummaryConstants ==
    /\ Tasks # {}
    /\ CacheSize \in Nat \ {0}
    /\ MaxVersion \in Nat /\ MaxRequests \in Nat
    /\ Changed \notin 0 .. MaxVersion
    /\ NoRequest # Changed
    /\ NoRequest \notin Requests \cup Views
    /\ NoRequest \notin [request : Requests, cancel : BOOLEAN]

VARIABLES
    pc,         \* "poll", "join", "launch", "keys", "dropping" or "stopped"
    file,       \* version of each task's source on disk
    shown,      \* version of each task in the loaded index
    selected,   \* the selected task
    preview,    \* the preview pane is open
    view,       \* the summary view and the snapshot it captured
    active,     \* the request the user waits for
    pending,    \* the request not yet handed to the worker
    cache,      \* summaries, oldest first
    next_nonce,
    running,    \* the worker's thread
    thread,     \* each request's thread
    result,     \* what each thread has sent and main not yet received
    quit,
    canceled    \* ghost: requests the user gave up

workerVars == <<running, thread, result>>
worldVars == <<file, shown, selected, preview, quit>>
requestVars == <<active, pending, cache, next_nonce, canceled>>
vars == <<pc, worldVars, view, requestVars, workerVars>>

----------------------------------------------------------------------------
(* Snapshots *)

\* capture refuses a source that is no longer what the index has loaded.
Capture(task) == IF shown[task] = file[task] THEN file[task] ELSE Changed

\* refresh_summary_snapshot
Refreshed(v) ==
    IF v # NoRequest /\ v.task = selected
    THEN [v EXCEPT !.version = Capture(selected)] ELSE v

Showing == preview /\ view # NoRequest /\ view.task = selected

Notice(v, task, text) ==
    IF v # NoRequest /\ v.task = task THEN [v EXCEPT !.notice = text] ELSE v

----------------------------------------------------------------------------
(* Completion *)

\* An older summary of the same version, of which there is at most one, goes.
Remember(request) ==
    LET kept == RemoveFirstMatch(cache, LAMBDA entry : entry.key = request.key)
        full == Append(kept, request)
    IN  IF Len(full) > CacheSize THEN Tail(full) ELSE full

Complete(request, outcome) ==
    IF active = request
    THEN /\ active' = NoRequest
         /\ pending' = NoRequest
         /\ cache' = IF outcome = "text" THEN Remember(request) ELSE cache
         /\ view' = IF outcome = "text" THEN Refreshed(view)
                    ELSE Notice(Refreshed(view), request.key.task, "error")
         /\ UNCHANGED <<next_nonce, canceled>>
    ELSE view' = Refreshed(view) /\ UNCHANGED requestVars

----------------------------------------------------------------------------
(* SummaryWorker::tick *)

\* A request that is no longer waited for is asked to stop.
AskToStop ==
    running' = IF running # NoRequest
                  /\ (active = NoRequest \/ active.nonce # running.request.nonce)
               THEN [running EXCEPT !.cancel = TRUE] ELSE running

Receive(n) ==
    /\ result' = [result EXCEPT ![n] = "empty"]
    /\ Complete(running.request, result[n])

\* Mutated form: a thread that is no longer wanted is let go, not joined.
TickPollDetaches ==
    /\ pc = "poll"
    /\ ~quit
    /\ running' = IF running # NoRequest
                     /\ (active = NoRequest \/ active.nonce # running.request.nonce)
                  THEN NoRequest ELSE running
    /\ pc' = "join"
    /\ IF running' # NoRequest /\ result[running.request.nonce] # "empty"
       THEN Receive(running.request.nonce)
       ELSE UNCHANGED <<view, requestVars, result>>
    /\ UNCHANGED <<worldVars, thread>>

TickPoll ==
    /\ pc = "poll"
    /\ ~quit
    /\ AskToStop
    /\ pc' = "join"
    /\ IF running # NoRequest /\ result[running.request.nonce] # "empty"
       THEN Receive(running.request.nonce)
       ELSE UNCHANGED <<view, requestVars, result>>
    /\ UNCHANGED <<worldVars, thread>>

\* Mutated form: a thread that panicked leaves its request waiting.
TickJoinIgnoresPanic ==
    /\ pc = "join"
    /\ pc' = "launch"
    /\ IF running # NoRequest /\ thread[running.request.nonce] \in {"done", "panicked"}
       THEN LET n == running.request.nonce IN
            /\ running' = NoRequest
            /\ IF result[n] # "empty" THEN Receive(n)
               ELSE UNCHANGED <<view, requestVars, result>>
       ELSE UNCHANGED <<running, view, requestVars, result>>
    /\ UNCHANGED <<worldVars, thread>>

\* The thread has ended: a result sent since the poll is received here.
TickJoin ==
    /\ pc = "join"
    /\ pc' = "launch"
    /\ IF running # NoRequest /\ thread[running.request.nonce] \in {"done", "panicked"}
       THEN LET n == running.request.nonce IN
            /\ running' = NoRequest
            /\ IF result[n] # "empty" THEN Receive(n)
               ELSE /\ UNCHANGED result
                    /\ IF thread[n] = "panicked" THEN Complete(running.request, "error")
                       ELSE UNCHANGED <<view, requestVars>>
       ELSE UNCHANGED <<running, view, requestVars, result>>
    /\ UNCHANGED <<worldVars, thread>>

TickLaunch ==
    /\ pc = "launch"
    /\ pc' = "keys"
    /\ IF running = NoRequest /\ pending # NoRequest
       THEN \/ /\ running' = [request |-> pending, cancel |-> FALSE]
               /\ thread' = [thread EXCEPT ![pending.nonce] = "running"]
               /\ pending' = NoRequest
               /\ UNCHANGED <<view, active, cache, next_nonce, canceled>>
            \/ \* the thread cannot be spawned
               /\ Complete(pending, "error")
               /\ UNCHANGED <<running, thread>>
       ELSE UNCHANGED <<running, thread, view, requestVars>>
    /\ UNCHANGED <<worldVars, result>>

\* Mutated form: quitting asks the provider to stop but does not wait for it.
QuitsAtOnce ==
    /\ pc = "poll"
    /\ quit
    /\ pc' = "stopped"
    /\ running' = IF running # NoRequest THEN [running EXCEPT !.cancel = TRUE] ELSE running
    /\ UNCHANGED <<worldVars, view, requestVars, thread, result>>

\* The loop is left; the worker is dropped, which joins its thread.
Quits ==
    /\ pc = "poll"
    /\ quit
    /\ pc' = "dropping"
    /\ running' = IF running # NoRequest THEN [running EXCEPT !.cancel = TRUE] ELSE running
    /\ UNCHANGED <<worldVars, view, requestVars, thread, result>>

Dropped ==
    /\ pc = "dropping"
    /\ running # NoRequest => thread[running.request.nonce] \in {"done", "panicked"}
    /\ pc' = "stopped"
    /\ running' = NoRequest
    /\ UNCHANGED <<worldVars, view, requestVars, thread, result>>

----------------------------------------------------------------------------
(* Keys and reloads *)

Reload ==
    /\ pc = "keys"
    /\ shown' = file
    /\ view' = IF view # NoRequest /\ view.task = selected
               THEN [view EXCEPT !.version = file[selected]] ELSE view
    /\ UNCHANGED <<pc, file, selected, preview, quit, requestVars, workerVars>>

\* Mutated form: the request that is still pending is not withdrawn.
CancelKeepsPending ==
    /\ active # NoRequest
    /\ active' = NoRequest
    /\ canceled' = canceled \cup {active.nonce}
    /\ view' = Refreshed(Notice(view, active.key.task, "canceled"))
    /\ UNCHANGED <<pending, cache, next_nonce, selected, preview, quit>>

Cancel ==
    /\ active # NoRequest
    /\ active' = NoRequest
    /\ pending' = NoRequest
    /\ canceled' = canceled \cup {active.nonce}
    /\ view' = Refreshed(Notice(view, active.key.task, "canceled"))
    /\ UNCHANGED <<cache, next_nonce, selected, preview, quit>>

\* S, and Esc or O on the view when nothing is active (O also when it is).
ToggleView ==
    /\ preview
    /\ view' = IF Showing THEN NoRequest
               ELSE [task |-> selected, version |-> Capture(selected), notice |-> "none"]
    /\ UNCHANGED <<requestVars, selected, preview, quit>>

\* Enter reuses a cached summary, R makes a new one.
Start(regenerate) ==
    /\ Showing
    /\ LET v == Refreshed(view)
           key == [task |-> selected, version |-> v.version]
           request == [nonce |-> next_nonce + 1, key |-> key]
       IN  IF active # NoRequest
           THEN view' = v /\ UNCHANGED requestVars
           ELSE IF v.version = Changed
           THEN view' = [v EXCEPT !.notice = "error"] /\ UNCHANGED requestVars
           ELSE IF ~regenerate /\ \E i \in DOMAIN cache : cache[i].key = key
           THEN view' = v /\ UNCHANGED requestVars
           ELSE /\ next_nonce < MaxRequests
                /\ next_nonce' = request.nonce
                /\ pending' = request
                /\ active' = request
                /\ view' = [v EXCEPT !.notice = "none"]
                /\ UNCHANGED <<cache, canceled>>
    /\ UNCHANGED <<selected, preview, quit>>

\* Any other key: the selection or the preview changes, or the user quits.
OtherKey ==
    /\ \/ selected' \in Tasks /\ UNCHANGED <<preview, quit>>
       \/ preview' = ~preview /\ UNCHANGED <<selected, quit>>
       \/ quit' = TRUE /\ UNCHANGED <<selected, preview>>
    /\ view' = IF view # NoRequest /\ view.task = selected'
               THEN [view EXCEPT !.version = Capture(selected')] ELSE view
    /\ UNCHANGED requestVars

NoKey == UNCHANGED <<view, requestVars, selected, preview, quit>>

Key ==
    /\ pc = "keys"
    /\ pc' = "poll"
    /\ \/ Cancel \/ ToggleView \/ (\E regenerate \in BOOLEAN : Start(regenerate))
       \/ OtherKey \/ NoKey
    /\ UNCHANGED <<file, shown, workerVars>>

----------------------------------------------------------------------------
(* The provider threads, and other processes *)

ThreadSends(n) ==
    /\ thread[n] = "running"
    /\ thread' = [thread EXCEPT ![n] = "sent"]
    /\ \E outcome \in {"text", "error"} : result' = [result EXCEPT ![n] = outcome]
    /\ UNCHANGED <<pc, worldVars, view, requestVars, running>>

ThreadPanics(n) ==
    /\ thread[n] = "running"
    /\ thread' = [thread EXCEPT ![n] = "panicked"]
    /\ UNCHANGED <<pc, worldVars, view, requestVars, running, result>>

ThreadEnds(n) ==
    /\ thread[n] = "sent"
    /\ thread' = [thread EXCEPT ![n] = "done"]
    /\ UNCHANGED <<pc, worldVars, view, requestVars, running, result>>

EditTask(task) ==
    /\ file[task] < MaxVersion
    /\ file' = [file EXCEPT ![task] = @ + 1]
    /\ UNCHANGED <<pc, shown, selected, preview, quit, view, requestVars, workerVars>>

----------------------------------------------------------------------------

Init ==
    /\ pc = "poll"
    /\ file = [t \in Tasks |-> 0] /\ shown = file
    /\ selected \in Tasks
    /\ preview = FALSE /\ quit = FALSE
    /\ view = NoRequest
    /\ active = NoRequest /\ pending = NoRequest
    /\ cache = <<>> /\ next_nonce = 0 /\ canceled = {}
    /\ running = NoRequest
    /\ thread = [n \in 1 .. MaxRequests |-> "none"]
    /\ result = [n \in 1 .. MaxRequests |-> "empty"]

Frame == TickPoll \/ TickJoin \/ TickLaunch \/ Key \/ Quits \/ Dropped
Provider(n) == ThreadSends(n) \/ ThreadPanics(n) \/ ThreadEnds(n)

Next ==
    \/ Frame \/ Reload
    \/ \E n \in 1 .. MaxRequests : Provider(n)
    \/ \E t \in Tasks : EditTask(t)

\* The event loop goes on; a provider ends: by itself, or at its time limit.
Spec == /\ Init /\ [][Next]_vars
        /\ WF_vars(Frame) /\ \A n \in 1 .. MaxRequests : WF_vars(Provider(n))

----------------------------------------------------------------------------
(* Properties *)

TypeOK ==
    /\ pc \in {"poll", "join", "launch", "keys", "dropping", "stopped"}
    /\ file \in [Tasks -> 0 .. MaxVersion] /\ shown \in [Tasks -> 0 .. MaxVersion]
    /\ selected \in Tasks
    /\ preview \in BOOLEAN /\ quit \in BOOLEAN
    /\ view \in Views \cup {NoRequest}
    /\ active \in Requests \cup {NoRequest} /\ pending \in Requests \cup {NoRequest}
    /\ cache \in Seq(Requests) /\ Len(cache) <= CacheSize
    /\ \A i, j \in DOMAIN cache : cache[i].key = cache[j].key => i = j
    /\ next_nonce \in 0 .. MaxRequests
    /\ canceled \subseteq 1 .. next_nonce
    /\ running \in {NoRequest} \cup [request : Requests, cancel : BOOLEAN]
    /\ thread \in [1 .. MaxRequests -> {"none", "running", "sent", "done", "panicked"}]
    /\ result \in [1 .. MaxRequests -> {"empty", "text", "error"}]

(***************************************************************************)
(* A provider, which costs money, runs for at most one request at a time,  *)
(* also when one is cancelled and another started at once.                 *)
(***************************************************************************)
OneProvider ==
    \A m, n \in 1 .. MaxRequests : thread[m] = "running" /\ thread[n] = "running" => m = n

(***************************************************************************)
(* While "Generating summary" is shown there is somebody to end it: the    *)
(* request is still to be launched, or its own thread has an answer to     *)
(* come.                                                                   *)
(***************************************************************************)
ActiveIsServed ==
    active # NoRequest /\ pc # "stopped" =>
        \/ pending = active
        \/ /\ running # NoRequest /\ running.request = active
           /\ ~(thread[active.nonce] = "done" /\ result[active.nonce] = "empty")

\* A summary is kept only for a request the user did not give up.
CanceledNotKept == \A i \in DOMAIN cache : cache[i].nonce \notin canceled

(***************************************************************************)
(* "Nothing is sent by browsing": a provider is launched only for the      *)
(* request the user is waiting for at that moment, once.                   *)
(***************************************************************************)
Launches(n) == thread[n] = "none" /\ thread'[n] = "running"
Relaunches(n) == thread[n] # "none" /\ thread'[n] = "running" /\ thread[n] # "running"
SentOnlyIfWanted ==
    [][\A n \in 1 .. MaxRequests :
          /\ Launches(n) => active # NoRequest /\ active.nonce = n
          /\ ~Relaunches(n)]_vars

(***************************************************************************)
(* No provider outlives the application.                                   *)
(***************************************************************************)
NothingOutlives ==
    pc = "stopped" => \A n \in 1 .. MaxRequests : thread[n] \notin {"running", "sent"}

WaitEnds == active # NoRequest ~> (active = NoRequest \/ quit)
QuitEnds == quit ~> pc = "stopped"
=============================================================================
