---------------------------- MODULE SummaryProofs ----------------------------
(***************************************************************************)
(* Proofs about the AI summaries, for any tasks, any number of requests    *)
(* and any size of the cache, and about the call of the provider that a    *)
(* thread of theirs makes.                                                 *)
(*                                                                         *)
(* The inductive invariant IInv ties together the three places a request   *)
(* goes through: it is pending, then the worker's thread, then an answer.  *)
(* The properties alone are not inductive: that a launch is wanted rests   *)
(* on the pending request being the active one, that providers do not      *)
(* overlap rests on every live thread being the worker's own.  KeptInv is  *)
(* about what is kept of the answers, CleanInv about the call.             *)
(***************************************************************************)
EXTENDS MCSummary, Integers, FiniteSetTheorems, WellFoundedInduction,
        SequenceTheorems, TLAPS

Typed ==
    /\ active \in Requests \cup {NoRequest}
    /\ pending \in Requests \cup {NoRequest}
    /\ next_nonce \in 0 .. MaxRequests
    /\ running \in {NoRequest} \cup [request : Requests, cancel : BOOLEAN]
    /\ thread \in [1 .. MaxRequests -> {"none", "running", "sent", "done", "panicked"}]
    /\ result \in [1 .. MaxRequests -> {"empty", "text", "error"}]

ViewTyped ==
    /\ file \in [Tasks -> 0 .. MaxVersion] /\ shown \in [Tasks -> 0 .. MaxVersion]
    /\ selected \in Tasks
    /\ view \in Views \cup {NoRequest}

\* A pending request is the one the user waits for, and has no thread yet.
PendingIsActive ==
    pending # NoRequest => pending = active /\ thread[pending.nonce] = "none"

\* Only nonces that were given out are in use.
NoncesGiven ==
    /\ active # NoRequest => active.nonce <= next_nonce
    /\ \A n \in 1 .. MaxRequests : thread[n] # "none" => n <= next_nonce

\* A live thread is the worker's own, until the worker is dropped.
LiveThreadIsRunning ==
    /\ \A n \in 1 .. MaxRequests :
          thread[n] \in {"running", "sent"} =>
              running # NoRequest /\ running.request.nonce = n
    /\ running # NoRequest => thread[running.request.nonce] # "none"
    /\ pc = "stopped" => running = NoRequest

\* The answer of a thread that has ended is not lost while it is waited for.
AnswerWaits ==
    active # NoRequest /\ pc # "stopped" =>
        \/ pending = active
        \/ /\ running # NoRequest /\ running.request = active
           /\ thread[active.nonce] \in {"sent", "done"} => result[active.nonce] # "empty"

IInv ==
    /\ Typed /\ ViewTyped
    /\ PendingIsActive /\ NoncesGiven /\ LiveThreadIsRunning /\ AnswerWaits

\* The part of it that is about requests.
RInv == Typed /\ PendingIsActive /\ NoncesGiven /\ LiveThreadIsRunning /\ AnswerWaits

(***************************************************************************)
(* What the helpers do to the request, whatever they do to view and cache. *)
(***************************************************************************)
LEMMA CompleteEffect ==
    ASSUME NEW request, NEW outcome, Complete(request, outcome)
    PROVE  /\ next_nonce' = next_nonce
           /\ active = request => active' = NoRequest /\ pending' = NoRequest
           /\ active # request => active' = active /\ pending' = pending
BY DEF Complete, requestVars

(***************************************************************************)
(* Refreshing a view and leaving a notice keep it a view of its task.      *)
(***************************************************************************)
LEMMA RefreshedView ==
    ASSUME ViewTyped, NEW v \in Views \cup {NoRequest}
    PROVE  /\ Refreshed(v) \in Views \cup {NoRequest}
           /\ v # NoRequest => Refreshed(v) # NoRequest /\ Refreshed(v).task = v.task
<1>1. Capture(selected) \in (0 .. MaxVersion) \cup {Changed}
  BY DEF Capture, ViewTyped
<1>2. CASE v \in Views
  <2>1. [v EXCEPT !.version = Capture(selected)] \in Views
    BY <1>1, <1>2 DEF Views
  <2>2. [v EXCEPT !.version = Capture(selected)].task = v.task
    BY <1>2 DEF Views
  <2>3. QED
    BY <1>2, <2>1, <2>2, SummaryConstants DEF Refreshed
<1>3. CASE v = NoRequest
  BY <1>3 DEF Refreshed
<1>4. QED
  BY <1>2, <1>3

LEMMA NoticedView ==
    ASSUME NEW v \in Views \cup {NoRequest}, NEW task,
           NEW text \in {"none", "error", "canceled"}
    PROVE  Notice(v, task, text) \in Views \cup {NoRequest}
<1>1. CASE v \in Views
  <2>1. [v EXCEPT !.notice = text] \in Views
    BY <1>1 DEF Views
  <2>2. QED
    BY <1>1, <2>1 DEF Notice
<1>2. CASE v = NoRequest
  BY <1>2 DEF Notice
<1>3. QED
  BY <1>1, <1>2

LEMMA CompleteView ==
    ASSUME ViewTyped, NEW request, NEW outcome, Complete(request, outcome)
    PROVE  view' \in Views \cup {NoRequest}
<1>1. view \in Views \cup {NoRequest}
  BY DEF ViewTyped
<1>2. Refreshed(view) \in Views \cup {NoRequest}
  BY <1>1, RefreshedView
<1>3. Notice(Refreshed(view), request.key.task, "error") \in Views \cup {NoRequest}
  BY <1>2, NoticedView
<1>4. QED
  BY <1>2, <1>3 DEF Complete

LEMMA InitHolds == Init => IInv
BY SummaryConstants
   DEF Init, IInv, Typed, ViewTyped, PendingIsActive, NoncesGiven,
       LiveThreadIsRunning, AnswerWaits

(***************************************************************************)
(* The view stays a view of a task, whatever the step.                     *)
(***************************************************************************)
LEMMA ViewKept == ViewTyped /\ [Next]_vars => ViewTyped'
<1> SUFFICES ASSUME ViewTyped, [Next]_vars PROVE ViewTyped'
    OBVIOUS
<1>0. view \in Views \cup {NoRequest}
  BY DEF ViewTyped
<1>1. ASSUME UNCHANGED worldVars, view' \in Views \cup {NoRequest}
      PROVE  ViewTyped'
  BY <1>1 DEF ViewTyped, worldVars
<1>2. CASE TickPoll
  <2>1. view' \in Views \cup {NoRequest}
    BY <1>0, <1>2, CompleteView DEF TickPoll, Receive
  <2>2. QED
    BY <1>1, <1>2, <2>1 DEF TickPoll
<1>3. CASE TickJoin
  <2>1. view' \in Views \cup {NoRequest}
    BY <1>0, <1>3, CompleteView DEF TickJoin, Receive
  <2>2. QED
    BY <1>1, <1>3, <2>1 DEF TickJoin
<1>4. CASE TickLaunch
  <2>1. view' \in Views \cup {NoRequest}
    BY <1>0, <1>4, CompleteView DEF TickLaunch
  <2>2. QED
    BY <1>1, <1>4, <2>1 DEF TickLaunch
<1>5. CASE Quits \/ Dropped \/ \E n \in 1 .. MaxRequests : Provider(n)
  <2>1. UNCHANGED <<worldVars, view>>
    BY <1>5 DEF Quits, Dropped, Provider, ThreadSends, ThreadPanics, ThreadEnds
  <2>2. QED
    BY <1>0, <1>1, <2>1
<1>6. CASE Reload
  <2>1. file[selected] \in 0 .. MaxVersion
    BY DEF ViewTyped
  <2>2. view # NoRequest => [view EXCEPT !.version = file[selected]] \in Views
    BY <1>0, <2>1 DEF Views
  <2>3. QED
    BY <1>0, <1>6, <2>2 DEF Reload, ViewTyped
<1>7. CASE \E t \in Tasks : EditTask(t)
  BY <1>7, SummaryConstants DEF EditTask, ViewTyped
<1>8. CASE Key
  <2> USE <1>8 DEF Key
  <2>1. CASE Cancel
    <3>1. Notice(view, active.key.task, "canceled") \in Views \cup {NoRequest}
      BY <1>0, NoticedView
    <3>2. Refreshed(Notice(view, active.key.task, "canceled")) \in Views \cup {NoRequest}
      BY <3>1, RefreshedView
    <3>3. QED
      BY <2>1, <3>2 DEF Cancel, ViewTyped
  <2>2. CASE ToggleView
    <3>1. Capture(selected) \in (0 .. MaxVersion) \cup {Changed}
      BY DEF Capture, ViewTyped
    <3>2. [task |-> selected, version |-> Capture(selected), notice |-> "none"] \in Views
      BY <3>1 DEF Views, ViewTyped
    <3>3. QED
      BY <2>2, <3>2 DEF ToggleView, ViewTyped
  <2>3. ASSUME NEW regenerate \in BOOLEAN, Start(regenerate) PROVE ViewTyped'
    <3> DEFINE v == Refreshed(view)
    <3>1. v \in Views
      BY <1>0, <2>3, RefreshedView DEF Start, Showing
    <3>2. /\ [v EXCEPT !.notice = "none"] \in Views
          /\ [v EXCEPT !.notice = "error"] \in Views
      BY <3>1 DEF Views
    <3>3. view' \in Views
      <4> HIDE DEF v
      <4>1. QED
        BY <2>3, <3>1, <3>2 DEF Start, v
    <3>4. QED
      BY <2>3, <3>3 DEF Start, ViewTyped
  <2>4. CASE OtherKey
    <3>1. selected' \in Tasks
      BY <2>4 DEF OtherKey, ViewTyped
    <3>2. Capture(selected') \in (0 .. MaxVersion) \cup {Changed}
      BY <3>1 DEF Capture, ViewTyped
    <3>3. view # NoRequest => [view EXCEPT !.version = Capture(selected')] \in Views
      BY <1>0, <3>2 DEF Views
    <3>4. QED
      BY <1>0, <2>4, <3>1, <3>3 DEF OtherKey, ViewTyped
  <2>5. CASE NoKey
    BY <2>5 DEF NoKey, ViewTyped
  <2>6. QED
    BY <2>1, <2>2, <2>3, <2>4, <2>5
<1>9. CASE UNCHANGED vars
  BY <1>9 DEF vars, worldVars, ViewTyped
<1>10. QED
  BY <1>2, <1>3, <1>4, <1>5, <1>6, <1>7, <1>8, <1>9 DEF Next, Frame

LEMMA PollKeeps == RInv /\ TickPoll => RInv'
<1> SUFFICES ASSUME RInv, TickPoll PROVE RInv'
    OBVIOUS
<1> USE SummaryConstants DEF RInv
<1>1. /\ next_nonce' = next_nonce /\ thread' = thread /\ pc' = "join" /\ pc = "poll"
      /\ running' \in {NoRequest} \cup [request : Requests, cancel : BOOLEAN]
      /\ running # NoRequest => running' # NoRequest /\ running'.request = running.request
      /\ running = NoRequest => running' = NoRequest
  <2>1. next_nonce' = next_nonce
    BY CompleteEffect DEF TickPoll, Receive, requestVars
  <2>2. QED
    BY <2>1 DEF TickPoll, AskToStop, Typed
<1>2. CASE running # NoRequest /\ result[running.request.nonce] # "empty"
  <2> DEFINE n == running.request.nonce
  <2>1. /\ result' = [result EXCEPT ![n] = "empty"]
        /\ Complete(running.request, result[n])
    BY <1>2 DEF TickPoll, Receive
  <2>2. n \in 1 .. MaxRequests
    BY <1>2 DEF Typed, Requests
  <2>3. CASE active = running.request
    <3>1. active' = NoRequest /\ pending' = NoRequest
      BY <2>1, <2>3, CompleteEffect
    <3>2. QED
      BY <1>1, <2>1, <2>2, <3>1
         DEF Typed, PendingIsActive, NoncesGiven, LiveThreadIsRunning, AnswerWaits
  <2>4. CASE active # running.request
    <3>1. active' = active /\ pending' = pending
      BY <2>1, <2>4, CompleteEffect
    <3>2. QED
      BY <1>1, <1>2, <2>1, <2>2, <2>4, <3>1
         DEF Typed, PendingIsActive, NoncesGiven, LiveThreadIsRunning, AnswerWaits
  <2>5. QED
    BY <2>3, <2>4
<1>3. CASE ~(running # NoRequest /\ result[running.request.nonce] # "empty")
  <2>1. UNCHANGED <<active, pending, result>>
    BY <1>3 DEF TickPoll, requestVars
  <2>2. QED
    BY <1>1, <2>1
       DEF Typed, PendingIsActive, NoncesGiven, LiveThreadIsRunning, AnswerWaits
<1>4. QED
  BY <1>2, <1>3

LEMMA JoinKeeps == RInv /\ TickJoin => RInv'
<1> SUFFICES ASSUME RInv, TickJoin PROVE RInv'
    OBVIOUS
<1> USE SummaryConstants DEF RInv
<1> DEFINE n == running.request.nonce
<1>1. thread' = thread /\ pc' = "launch" /\ pc = "join"
  BY DEF TickJoin
<1>2. CASE running # NoRequest /\ thread[n] \in {"done", "panicked"}
  <2>1. running' = NoRequest
    BY <1>2 DEF TickJoin
  <2>2. n \in 1 .. MaxRequests
    BY <1>2 DEF Typed, Requests
  <2>3. /\ next_nonce' = next_nonce
        /\ active = running.request => active' = NoRequest /\ pending' = NoRequest
        /\ active # running.request => active' = active /\ pending' = pending
        /\ result' = result \/ result' = [result EXCEPT ![n] = "empty"]
    <3>1. CASE result[n] # "empty"
      BY <1>2, <3>1, CompleteEffect DEF TickJoin, Receive
    <3>2. CASE result[n] = "empty" /\ thread[n] = "panicked"
      BY <1>2, <3>2, CompleteEffect DEF TickJoin
    <3>3. CASE result[n] = "empty" /\ thread[n] # "panicked"
      <4>1. UNCHANGED <<result, active, pending, next_nonce>>
        BY <1>2, <3>3 DEF TickJoin, requestVars
      <4>2. active # running.request
        BY <1>1, <1>2, <3>3, <2>2 DEF Typed, AnswerWaits, PendingIsActive
      <4>3. QED
        BY <4>1, <4>2
    <3>4. QED
      BY <3>1, <3>2, <3>3
  <2>4. QED
    BY <1>1, <1>2, <2>1, <2>2, <2>3
       DEF Typed, PendingIsActive, NoncesGiven, LiveThreadIsRunning, AnswerWaits
<1>3. CASE ~(running # NoRequest /\ thread[n] \in {"done", "panicked"})
  <2>1. UNCHANGED <<running, active, pending, next_nonce, result>>
    BY <1>3 DEF TickJoin, requestVars
  <2>2. QED
    BY <1>1, <2>1
       DEF Typed, PendingIsActive, NoncesGiven, LiveThreadIsRunning, AnswerWaits
<1>4. QED
  BY <1>2, <1>3

LEMMA LaunchKeeps == RInv /\ TickLaunch => RInv'
<1> SUFFICES ASSUME RInv, TickLaunch PROVE RInv'
    OBVIOUS
<1> USE SummaryConstants DEF RInv
<1>1. result' = result /\ pc' = "keys" /\ pc = "launch"
  BY DEF TickLaunch
<1>2. CASE /\ running = NoRequest /\ pending # NoRequest
           /\ running' = [request |-> pending, cancel |-> FALSE]
           /\ thread' = [thread EXCEPT ![pending.nonce] = "running"]
           /\ pending' = NoRequest
           /\ UNCHANGED <<active, next_nonce>>
  <2>1. pending \in Requests /\ pending = active /\ pending.nonce \in 1 .. MaxRequests
    BY <1>2 DEF Typed, PendingIsActive, Requests
  <2>2. running' \in [request : Requests, cancel : BOOLEAN]
    BY <1>2, <2>1
  <2>3. running' # NoRequest /\ running'.request = active
    BY <1>2, <2>1, <2>2
  <2>4. /\ Typed' /\ PendingIsActive' /\ NoncesGiven'
    BY <1>1, <1>2, <2>1, <2>2 DEF Typed, PendingIsActive, NoncesGiven
  <2>5. LiveThreadIsRunning'
    BY <1>1, <1>2, <2>1, <2>3 DEF Typed, LiveThreadIsRunning
  <2>6. AnswerWaits'
    BY <1>1, <1>2, <2>1, <2>3 DEF Typed, AnswerWaits
  <2>7. QED
    BY <2>4, <2>5, <2>6
<1>3. CASE /\ running = NoRequest /\ pending # NoRequest
           /\ Complete(pending, "error")
           /\ UNCHANGED <<running, thread>>
  <2>1. active' = NoRequest /\ pending' = NoRequest /\ next_nonce' = next_nonce
    BY <1>3, CompleteEffect DEF PendingIsActive
  <2>2. QED
    BY <1>1, <1>3, <2>1
       DEF Typed, PendingIsActive, NoncesGiven, LiveThreadIsRunning, AnswerWaits
<1>4. CASE /\ ~(running = NoRequest /\ pending # NoRequest)
           /\ UNCHANGED <<running, thread, active, pending, next_nonce>>
  BY <1>1, <1>4
     DEF Typed, PendingIsActive, NoncesGiven, LiveThreadIsRunning, AnswerWaits
<1>5. QED
  BY <1>2, <1>3, <1>4 DEF TickLaunch, requestVars

LEMMA KeyKeeps == RInv /\ ViewTyped /\ Key => RInv'
<1> SUFFICES ASSUME RInv, ViewTyped, Key PROVE RInv'
    OBVIOUS
<1> USE SummaryConstants DEF RInv
<1>1. UNCHANGED <<running, thread, result>> /\ pc' = "poll" /\ pc = "keys"
  BY DEF Key, workerVars
<1>2. CASE UNCHANGED <<active, pending, next_nonce>>
  BY <1>1, <1>2
     DEF Typed, PendingIsActive, NoncesGiven, LiveThreadIsRunning, AnswerWaits
<1>3. CASE Cancel
  <2>1. active' = NoRequest /\ pending' = NoRequest /\ next_nonce' = next_nonce
    BY <1>3 DEF Cancel
  <2>2. QED
    BY <1>1, <2>1
       DEF Typed, PendingIsActive, NoncesGiven, LiveThreadIsRunning, AnswerWaits
<1>4. CASE /\ active = NoRequest /\ next_nonce < MaxRequests
           /\ next_nonce' = next_nonce + 1
           /\ pending' = active' /\ active' \in Requests
           /\ active'.nonce = next_nonce + 1
  <2>1. /\ next_nonce' \in 1 .. MaxRequests /\ thread[next_nonce'] = "none"
        /\ active' # NoRequest /\ active'.nonce = next_nonce'
    BY <1>4 DEF Typed, NoncesGiven
  <2>2. Typed' /\ PendingIsActive' /\ NoncesGiven'
    BY <1>1, <1>4, <2>1 DEF Typed, PendingIsActive, NoncesGiven
  <2>3. LiveThreadIsRunning' /\ AnswerWaits'
    BY <1>1, <1>4, <2>1 DEF LiveThreadIsRunning, AnswerWaits
  <2>4. QED
    BY <2>2, <2>3
<1>5. ASSUME NEW regenerate \in BOOLEAN, Start(regenerate)
      PROVE  \/ UNCHANGED <<active, pending, next_nonce>>
             \/ /\ active = NoRequest /\ next_nonce < MaxRequests
                /\ next_nonce' = next_nonce + 1
                /\ pending' = active' /\ active' \in Requests
                /\ active'.nonce = next_nonce + 1
  <2> DEFINE v == Refreshed(view)
             request == [nonce |-> next_nonce + 1,
                         key |-> [task |-> selected, version |-> v.version]]
  <2>1. v \in Views /\ selected \in Tasks
    BY <1>5, RefreshedView DEF Start, Showing, ViewTyped
  <2>2. v.version \in (0 .. MaxVersion) \cup {Changed}
    BY <2>1 DEF Views
  <2>3. CASE active = NoRequest /\ v.version # Changed /\ next_nonce < MaxRequests
    <3>1. request \in Requests
      BY <2>1, <2>2, <2>3 DEF Requests, Keys, Typed
    <3>2. request.nonce = next_nonce + 1
      OBVIOUS
    <3> HIDE DEF request, v
    <3>3. QED
      BY <1>5, <2>3, <3>1, <3>2 DEF Start, requestVars, request, v
  <2>4. CASE ~(active = NoRequest /\ v.version # Changed /\ next_nonce < MaxRequests)
    BY <1>5, <2>4 DEF Start, requestVars
  <2>5. QED
    BY <2>3, <2>4
<1>6. QED
  BY <1>2, <1>3, <1>4, <1>5 DEF Key, ToggleView, OtherKey, NoKey, requestVars

(***************************************************************************)
(* Every step keeps the invariant.                                         *)
(***************************************************************************)
LEMMA StepKeeps == IInv /\ [Next]_vars => IInv'
<1> SUFFICES ASSUME IInv, [Next]_vars PROVE IInv'
    OBVIOUS
<1>1. RInv /\ ViewTyped
  BY DEF IInv, RInv
<1>2. ViewTyped'
  BY <1>1, ViewKept
<1>3. RInv'
  <2>1. CASE TickPoll
    BY <1>1, <2>1, PollKeeps
  <2>2. CASE TickJoin
    BY <1>1, <2>2, JoinKeeps
  <2>3. CASE TickLaunch
    BY <1>1, <2>3, LaunchKeeps
  <2>4. CASE Key
    BY <1>1, <2>4, KeyKeeps
  <2>5. CASE Quits
    <3>1. /\ UNCHANGED <<active, pending, next_nonce, thread, result>>
          /\ pc' = "dropping" /\ pc = "poll"
      BY <2>5 DEF Quits, requestVars
    <3>2. /\ running' \in {NoRequest} \cup [request : Requests, cancel : BOOLEAN]
          /\ running # NoRequest => running' # NoRequest /\ running'.request = running.request
          /\ running = NoRequest => running' = NoRequest
      BY <1>1, <2>5, SummaryConstants DEF Quits, RInv, Typed
    <3>3. QED
      BY <1>1, <3>1, <3>2
         DEF RInv, Typed, PendingIsActive, NoncesGiven, LiveThreadIsRunning, AnswerWaits
  <2>6. CASE Dropped
    <3>1. /\ UNCHANGED <<active, pending, next_nonce, thread, result>>
          /\ pc' = "stopped" /\ running' = NoRequest
      BY <2>6 DEF Dropped, requestVars
    <3>2. \A n \in 1 .. MaxRequests : thread[n] \notin {"running", "sent"}
      BY <1>1, <2>6 DEF Dropped, RInv, LiveThreadIsRunning
    <3>3. QED
      BY <1>1, <3>1, <3>2
         DEF RInv, Typed, PendingIsActive, NoncesGiven, LiveThreadIsRunning, AnswerWaits
  <2>7. CASE Reload \/ \E t \in Tasks : EditTask(t)
    <3>1. UNCHANGED <<pc, active, pending, next_nonce, running, thread, result>>
      BY <2>7 DEF Reload, EditTask, requestVars, workerVars
    <3>2. QED
      BY <1>1, <3>1
         DEF RInv, Typed, PendingIsActive, NoncesGiven, LiveThreadIsRunning, AnswerWaits
  <2>8. ASSUME NEW n \in 1 .. MaxRequests, Provider(n) PROVE RInv'
    <3>1. /\ UNCHANGED <<pc, active, pending, next_nonce, running>>
          /\ thread[n] \in {"running", "sent"}
          /\ \E s \in {"sent", "done", "panicked"} :
                /\ thread' = [thread EXCEPT ![n] = s]
                /\ thread[n] = "running" => s # "done"
                /\ thread[n] = "sent" => s = "done"
                /\ s # "sent" => result' = result
          /\ result' = result \/ \E outcome \in {"text", "error"} :
                                   result' = [result EXCEPT ![n] = outcome]
          /\ thread'[n] = "sent" => result'[n] # "empty"
      BY <1>1, <2>8
         DEF Provider, ThreadSends, ThreadPanics, ThreadEnds, requestVars, RInv, Typed
    <3>2. Typed'
      BY <1>1, <3>1 DEF RInv, Typed
    <3>3. PendingIsActive'
      BY <1>1, <3>1 DEF RInv, Typed, PendingIsActive, Requests
    <3>4. NoncesGiven'
      BY <1>1, <3>1 DEF RInv, Typed, NoncesGiven
    <3>5. LiveThreadIsRunning'
      BY <1>1, <3>1 DEF RInv, Typed, LiveThreadIsRunning
    <3>6. active # NoRequest => active.nonce \in 1 .. MaxRequests
      BY <1>1 DEF RInv, Typed, Requests
    <3>7. \A m \in 1 .. MaxRequests :
             /\ thread'[m] \in {"sent", "done"} /\ thread[m] \notin {"sent", "done"}
                => m = n /\ thread'[n] = "sent"
             /\ result[m] # "empty" => result'[m] # "empty"
      BY <1>1, <3>1 DEF RInv, Typed
    <3>8. AnswerWaits'
      BY <1>1, <3>1, <3>6, <3>7 DEF RInv, AnswerWaits
    <3>9. QED
      BY <3>2, <3>3, <3>4, <3>5, <3>8 DEF RInv
  <2>9. CASE UNCHANGED vars
    BY <1>1, <2>9
       DEF vars, requestVars, workerVars, RInv, Typed, PendingIsActive, NoncesGiven,
           LiveThreadIsRunning, AnswerWaits
  <2>10. QED
    BY <2>1, <2>2, <2>3, <2>4, <2>5, <2>6, <2>7, <2>8, <2>9 DEF Next, Frame
<1>4. QED
  BY <1>2, <1>3 DEF IInv, RInv

THEOREM Invariance == Spec => []IInv
<1>1. QED
  BY InitHolds, StepKeeps, PTL DEF Spec

(***************************************************************************)
(* At most one provider runs, whatever is cancelled and started again.     *)
(***************************************************************************)
THEOREM OneProviderAtATime == Spec => []OneProvider
<1>1. IInv => OneProvider
  BY DEF IInv, LiveThreadIsRunning, OneProvider
<1>2. QED
  BY Invariance, <1>1, PTL

(***************************************************************************)
(* Once the application has stopped no provider thread is left.            *)
(***************************************************************************)
THEOREM NothingOutlivesTheApp == Spec => []NothingOutlives
<1>1. IInv => NothingOutlives
  BY DEF IInv, LiveThreadIsRunning, NothingOutlives
<1>2. QED
  BY Invariance, <1>1, PTL

(***************************************************************************)
(* A request that is waited for always has somebody to answer it.          *)
(***************************************************************************)
THEOREM ActiveIsAlwaysServed == Spec => []ActiveIsServed
<1>1. IInv => ActiveIsServed
  BY DEF IInv, AnswerWaits, ActiveIsServed
<1>2. QED
  BY Invariance, <1>1, PTL

(***************************************************************************)
(* A provider is launched only for the request waited for, and only once.  *)
(***************************************************************************)
THEOREM LaunchesAreWanted == Spec => SentOnlyIfWanted
<1> DEFINE Wanted == \A n \in 1 .. MaxRequests :
                        /\ Launches(n) => active # NoRequest /\ active.nonce = n
                        /\ ~Relaunches(n)
<1>1. IInv /\ [Next]_vars => [Wanted]_vars
  <2> SUFFICES ASSUME IInv, [Next]_vars PROVE Wanted \/ UNCHANGED vars
      OBVIOUS
  <2>1. CASE TickLaunch
    <3>1. CASE thread' = thread
      BY <3>1 DEF Launches, Relaunches
    <3>2. CASE /\ pending # NoRequest
               /\ thread' = [thread EXCEPT ![pending.nonce] = "running"]
      <4>1. pending = active /\ thread[pending.nonce] = "none"
        BY <3>2 DEF IInv, PendingIsActive
      <4>2. QED
        BY <3>2, <4>1 DEF IInv, Typed, Launches, Relaunches
    <3>3. QED
      BY <2>1, <3>1, <3>2 DEF TickLaunch
  <2>2. CASE TickPoll \/ TickJoin \/ Key \/ Quits \/ Dropped \/ Reload
             \/ \E t \in Tasks : EditTask(t)
    <3>1. thread' = thread
      BY <2>2 DEF TickPoll, TickJoin, Key, Quits, Dropped, Reload, EditTask, workerVars
    <3>2. QED
      BY <3>1 DEF Launches, Relaunches
  <2>3. ASSUME NEW m \in 1 .. MaxRequests, Provider(m) PROVE Wanted
    <3>1. \E s \in {"sent", "done", "panicked"} : thread' = [thread EXCEPT ![m] = s]
      BY <2>3 DEF Provider, ThreadSends, ThreadPanics, ThreadEnds
    <3>2. QED
      BY <3>1 DEF IInv, Typed, Launches, Relaunches
  <2>4. QED
    BY <2>1, <2>2, <2>3 DEF Next, Frame
<1>2. QED
  BY Invariance, <1>1, PTL DEF Spec, SentOnlyIfWanted
----------------------------------------------------------------------------
(* What is kept *)

\* Each summary kept is of a version of its own.
OneOfEach(s) == \A i, j \in DOMAIN s : s[i].key = s[j].key => i = j

\* What is typed besides the requests, with the summaries kept.
RestTyped ==
    /\ pc \in {"poll", "join", "launch", "keys", "dropping", "stopped"}
    /\ preview \in BOOLEAN /\ quit \in BOOLEAN
    /\ canceled \subseteq 1 .. next_nonce
    /\ cache \in Seq(Requests) /\ Len(cache) <= CacheSize /\ OneOfEach(cache)

\* A request is waited for, or given up, or answered and kept: only one of them.
OneFate ==
    /\ active # NoRequest => active.nonce \notin canceled
    /\ \A i \in DOMAIN cache :
          /\ cache[i].nonce <= next_nonce /\ cache[i].nonce \notin canceled
          /\ active # NoRequest => cache[i].nonce # active.nonce

KeptInv == RestTyped /\ OneFate

\* A set of positions that has a member has a first one.
LEMMA FirstPosition ==
    ASSUME NEW n \in Nat, NEW I \in SUBSET (1 .. n), I # {}
    PROVE  Min(I) \in I
<1> DEFINE Below(k) == {j \in 1 .. n : j \in I /\ j < k}
           T == {Below(k) : k \in I}
<1>1. T \subseteq FiniteSubsetsOf(1 .. n) /\ T # {}
  <2>1. IsFiniteSet(1 .. n)
      BY FS_Interval
  <2>2. \A k : Below(k) \in SUBSET (1 .. n)
      OBVIOUS
  <2>3. \A k : IsFiniteSet(Below(k))
      BY <2>1, <2>2, FS_Subset
  <2>4. QED
      BY <2>2, <2>3 DEF FiniteSubsetsOf
<1>2. PICK B \in T : \A C \in T : ~(<<C, B>> \in StrictSubsetOrdering(1 .. n))
    BY <1>1, FS_StrictSubsetOrderingWellFounded, FS_Interval, WFMin
<1>3. PICK k \in I : B = Below(k)
    OBVIOUS
<1>4. ASSUME NEW j \in I, j < k PROVE FALSE
  <2>1. Below(j) \in T /\ Below(j) \in SUBSET (1 .. n) /\ B \in SUBSET (1 .. n)
      BY <1>3
  <2>2. Below(j) \subseteq B
      BY <1>3, <1>4
  <2>3. j \in B /\ j \notin Below(j)
      BY <1>3, <1>4
  <2> HIDE DEF Below, T
  <2>4. <<Below(j), B>> \in StrictSubsetOrdering(1 .. n)
      BY <2>1, <2>2, <2>3 DEF StrictSubsetOrdering
  <2>5. QED
      BY <1>2, <2>1, <2>4
<1>5. \A j \in I : k <= j
    BY <1>4
<1>6. QED
    BY <1>5 DEF Min

\* A summary of the version comes at the end, the others of it go, and what
\* else is kept stays in its order, as long as there is room.
LEMMA Remembered ==
    ASSUME CacheSize \in Nat \ {0}, cache \in Seq(Requests), Len(cache) <= CacheSize,
           OneOfEach(cache), NEW request \in Requests
    PROVE  /\ Remember(request) \in Seq(Requests)
           /\ Len(Remember(request)) <= CacheSize
           /\ OneOfEach(Remember(request))
           /\ \A i \in DOMAIN Remember(request) :
                 \/ Remember(request)[i] = request
                 \/ \E j \in DOMAIN cache : Remember(request)[i] = cache[j]
<1> DEFINE Same(entry) == entry.key = request.key
           kept == RemoveFirstMatch(cache, Same)
           full == Append(kept, request)
<1>1. DOMAIN cache = 1 .. Len(cache) /\ Len(cache) \in Nat
    BY LenProperties
<1>2. /\ kept \in Seq(Requests) /\ Len(kept) <= Len(cache)
      /\ OneOfEach(kept)
      /\ \A i \in 1 .. Len(kept) : kept[i].key # request.key
      /\ \A i \in 1 .. Len(kept) : \E j \in DOMAIN cache : kept[i] = cache[j]
  <2>1. CASE ~\E i \in 1 .. Len(cache) : Same(cache[i])
    <3>1. kept = cache
        BY <2>1 DEF RemoveFirstMatch
    <3>2. \A i \in 1 .. Len(cache) : cache[i].key # request.key
        BY <2>1
    <3> HIDE DEF kept
    <3>3. QED
        BY <1>1, <3>1, <3>2
  <2>2. CASE \E i \in 1 .. Len(cache) : Same(cache[i])
    <3> DEFINE I == {i \in 1 .. Len(cache) : Same(cache[i])}
               n == Min(I)
    <3>1. kept = RemoveAt(cache, n)
        BY <2>2 DEF RemoveFirstMatch, SelectInSeq
    <3>2. n \in 1 .. Len(cache) /\ cache[n].key = request.key
      <4>1. I \in SUBSET (1 .. Len(cache)) /\ I # {}
          BY <2>2
      <4>2. \A i \in I : i \in 1 .. Len(cache) /\ cache[i].key = request.key
          OBVIOUS
      <4> HIDE DEF I
      <4>3. n \in I
          BY <1>1, <4>1, FirstPosition
      <4>4. QED
          BY <4>2, <4>3
    <3> HIDE DEF I, n
    <3> DEFINE a == SubSeq(cache, 1, n - 1)
               b == SubSeq(cache, n + 1, Len(cache))
    <3>3. /\ a \in Seq(Requests) /\ Len(a) = n - 1
          /\ \A i \in 1 .. n - 1 : a[i] = cache[i]
      <4>1. 1 \in Int /\ n - 1 \in Int /\ \A i \in 1 .. n - 1 : cache[i] \in Requests
          BY <1>1, <3>2, ElementOfSeq
      <4>2. /\ a \in Seq(Requests)
            /\ Len(a) = IF 1 <= n - 1 THEN (n - 1) - 1 + 1 ELSE 0
            /\ \A i \in 1 .. (n - 1) - 1 + 1 : a[i] = cache[1 + i - 1]
          BY <4>1, SubSeqProperties
      <4> HIDE DEF a
      <4>3. QED
          BY <1>1, <3>2, <4>2
    <3>4. /\ b \in Seq(Requests) /\ Len(b) = Len(cache) - n
          /\ \A i \in 1 .. Len(cache) - n : b[i] = cache[n + i]
      <4>1. /\ n + 1 \in Int /\ Len(cache) \in Int
            /\ \A i \in n + 1 .. Len(cache) : cache[i] \in Requests
          BY <1>1, <3>2, ElementOfSeq
      <4>2. /\ b \in Seq(Requests)
            /\ Len(b) = IF n + 1 <= Len(cache) THEN Len(cache) - (n + 1) + 1 ELSE 0
            /\ \A i \in 1 .. Len(cache) - (n + 1) + 1 : b[i] = cache[(n + 1) + i - 1]
          BY <4>1, SubSeqProperties
      <4> HIDE DEF b
      <4>3. Len(b) = Len(cache) - n /\ Len(cache) - (n + 1) + 1 = Len(cache) - n
        <5>1. \A m \in Nat : \A l \in Nat : l \in 1 .. m =>
                 /\ m - (l + 1) + 1 = m - l
                 /\ (IF l + 1 <= m THEN m - (l + 1) + 1 ELSE 0) = m - l
            OBVIOUS
        <5>2. n \in Nat /\ Len(cache) \in Nat /\ n \in 1 .. Len(cache)
            BY <1>1, <3>2
        <5>3. QED
            BY <4>2, <5>1, <5>2
      <4>4. ASSUME NEW i \in 1 .. Len(cache) - n PROVE b[i] = cache[n + i]
        <5>1. (n + 1) + i - 1 = n + i
            BY <3>2, <4>4
        <5>2. b[i] = cache[(n + 1) + i - 1]
            BY <4>2, <4>3, <4>4
        <5>3. QED
            BY <5>1, <5>2
      <4>5. QED
          BY <4>2, <4>3, <4>4
    <3>5. kept = a \o b
        BY <3>1 DEF RemoveAt
    <3> HIDE DEF a, b, kept
    <3>6. /\ kept \in Seq(Requests) /\ Len(kept) = Len(cache) - 1
          /\ \A i \in 1 .. Len(cache) - 1 : kept[i] = cache[IF i < n THEN i ELSE i + 1]
      <4>1. /\ a \o b \in Seq(Requests) /\ Len(a \o b) = Len(a) + Len(b)
            /\ \A i \in 1 .. Len(a) + Len(b) :
                  (a \o b)[i] = IF i <= Len(a) THEN a[i] ELSE b[i - Len(a)]
          BY <3>3, <3>4, ConcatProperties
      <4>2. Len(a) + Len(b) = Len(cache) - 1
          BY <1>1, <3>2, <3>3, <3>4
      <4>3. ASSUME NEW i \in 1 .. Len(cache) - 1
            PROVE  kept[i] = cache[IF i < n THEN i ELSE i + 1]
        <5>1. CASE i < n
            BY <1>1, <3>2, <3>3, <3>5, <4>1, <4>2, <5>1
        <5>2. CASE i >= n
          <6>1. i - (n - 1) \in 1 .. Len(cache) - n /\ n + (i - (n - 1)) = i + 1 /\ ~(i <= n - 1)
              BY <1>1, <3>2, <5>2
          <6>2. kept[i] = b[i - (n - 1)]
              BY <1>1, <3>2, <3>3, <3>5, <4>1, <4>2, <6>1
          <6>3. b[i - (n - 1)] = cache[n + (i - (n - 1))]
              BY <3>4, <6>1
          <6>4. kept[i] = cache[i + 1]
              BY <6>1, <6>2, <6>3
          <6>5. QED
              BY <3>2, <5>2, <6>4
        <5>3. QED
            BY <1>1, <3>2, <5>1, <5>2
      <4>4. QED
          BY <3>5, <4>1, <4>2, <4>3
    <3>7. DOMAIN kept = 1 .. Len(cache) - 1
        BY <3>6, LenProperties
    <3>8. ASSUME NEW i \in 1 .. Len(cache) - 1
          PROVE  \E j \in DOMAIN cache :
                    /\ kept[i] = cache[j] /\ j # n
                    /\ i < n => j = i
                    /\ i >= n => j = i + 1
      <4>1. CASE i < n
        <5>1. i \in 1 .. Len(cache) /\ i # n /\ ~(i >= n)
            BY <1>1, <3>2, <4>1
        <5>2. kept[i] = cache[i]
            BY <3>6, <4>1
        <5>3. QED
            BY <1>1, <5>1, <5>2
      <4>2. CASE i >= n
        <5>1. i + 1 \in 1 .. Len(cache) /\ i + 1 # n /\ ~(i < n)
            BY <1>1, <3>2, <4>2
        <5>2. kept[i] = cache[i + 1]
            BY <3>6, <5>1
        <5>3. QED
            BY <1>1, <5>1, <5>2
      <4>3. QED
          BY <1>1, <3>2, <4>1, <4>2
    <3>9. OneOfEach(kept)
      <4>1. ASSUME NEW i \in DOMAIN kept, NEW j \in DOMAIN kept, kept[i].key = kept[j].key
            PROVE  i = j
        <5>1. PICK k \in DOMAIN cache : kept[i] = cache[k] /\ (i < n => k = i) /\ (i >= n => k = i + 1)
            BY <3>7, <3>8
        <5>2. PICK l \in DOMAIN cache : kept[j] = cache[l] /\ (j < n => l = j) /\ (j >= n => l = j + 1)
            BY <3>7, <3>8
        <5>3. k = l
            BY <4>1, <5>1, <5>2 DEF OneOfEach
        <5>4. QED
            BY <1>1, <3>2, <3>7, <4>1, <5>1, <5>2, <5>3
      <4>2. QED
          BY <4>1 DEF OneOfEach
    <3>10. \A i \in 1 .. Len(kept) : kept[i].key # request.key
        BY <3>2, <3>6, <3>8 DEF OneOfEach
    <3>11. QED
        BY <1>1, <3>6, <3>8, <3>9, <3>10
  <2>3. QED
      BY <2>1, <2>2
<1> HIDE DEF kept
<1>3. /\ full \in Seq(Requests) /\ Len(full) = Len(kept) + 1
      /\ \A i \in 1 .. Len(kept) : full[i] = kept[i]
      /\ full[Len(kept) + 1] = request
    BY <1>2, AppendProperties
<1> HIDE DEF full
<1>4. Len(kept) \in Nat /\ DOMAIN full = 1 .. Len(kept) + 1
    BY <1>2, <1>3, LenProperties
<1>5. OneOfEach(full)
    BY <1>2, <1>3, <1>4, LenProperties DEF OneOfEach
<1>6. \A i \in DOMAIN full : full[i] = request \/ \E j \in DOMAIN cache : full[i] = cache[j]
    BY <1>2, <1>3, <1>4
<1>7. Remember(request) = IF Len(full) > CacheSize THEN Tail(full) ELSE full
    BY DEF Remember, full, kept
<1>8. CASE Len(full) > CacheSize
  <2> DEFINE t == Tail(full)
  <2>1. /\ t \in Seq(Requests) /\ Len(t) = Len(full) - 1
        /\ \A i \in 1 .. Len(t) : t[i] = full[i + 1]
    <3>1. full # <<>>
        BY <1>3, <1>4
    <3>2. QED
        BY <1>3, <3>1, HeadTailProperties
  <2> HIDE DEF t
  <2>2. DOMAIN t = 1 .. Len(kept)
      BY <1>3, <1>4, <2>1, LenProperties
  <2>3. \A i \in DOMAIN t : i + 1 \in DOMAIN full /\ t[i] = full[i + 1]
      BY <1>3, <1>4, <2>1, <2>2
  <2>4. OneOfEach(t)
    <3>1. ASSUME NEW i \in DOMAIN t, NEW j \in DOMAIN t, t[i].key = t[j].key
          PROVE  i = j
      <4>1. i + 1 = j + 1
          BY <1>5, <2>3, <3>1 DEF OneOfEach
      <4>2. QED
          BY <2>2, <4>1
    <3>2. QED
        BY <3>1 DEF OneOfEach
  <2>5. Len(t) <= CacheSize
      BY <1>1, <1>2, <1>3, <1>4, <2>1
  <2>6. Remember(request) = t
      BY <1>7, <1>8 DEF t
  <2>7. QED
      BY <1>6, <2>1, <2>3, <2>4, <2>5, <2>6
<1>9. CASE ~(Len(full) > CacheSize)
  <2>1. Remember(request) = full /\ Len(full) <= CacheSize
      BY <1>3, <1>4, <1>7, <1>9
  <2>2. QED
      BY <1>3, <1>5, <1>6, <2>1
<1>10. QED
    BY <1>8, <1>9

LEMMA KeptInit == Init => KeptInv
<1> SUFFICES ASSUME Init PROVE KeptInv
    OBVIOUS
<1>1. cache = <<>> /\ cache \in Seq(Requests) /\ Len(cache) = 0 /\ DOMAIN cache = {}
    BY DEF Init
<1>2. OneOfEach(cache) /\ OneFate
    BY <1>1 DEF Init, OneOfEach, OneFate
<1>3. Len(cache) <= CacheSize
    BY <1>1, SummaryConstants
<1>4. QED
    BY <1>1, <1>2, <1>3 DEF Init, KeptInv, RestTyped

\* An answer is kept in place of the request that was waited for.
LEMMA CompleteKeepsFate ==
    ASSUME IInv, KeptInv, NEW request \in Requests, NEW outcome, Complete(request, outcome)
    PROVE  /\ canceled' = canceled /\ next_nonce' = next_nonce
           /\ cache' \in Seq(Requests) /\ Len(cache') <= CacheSize /\ OneOfEach(cache')
           /\ OneFate'
<1>a. /\ cache \in Seq(Requests) /\ Len(cache) <= CacheSize /\ OneOfEach(cache) /\ OneFate
    BY DEF KeptInv, RestTyped
<1>b. canceled' = canceled /\ next_nonce' = next_nonce
    BY DEF Complete, requestVars
<1>1. CASE active = request
  <2>1. active' = NoRequest /\ (cache' = Remember(request) \/ cache' = cache)
      BY <1>1 DEF Complete
  <2>2. request # NoRequest /\ request.nonce \notin canceled /\ request.nonce <= next_nonce
      BY <1>1, <1>a, SummaryConstants DEF OneFate, IInv, NoncesGiven
  <2>3. CASE cache' = cache
      BY <1>a, <1>b, <2>1, <2>3 DEF OneFate
  <2>4. CASE cache' = Remember(request)
    <3> DEFINE c == Remember(request)
    <3>1. /\ c \in Seq(Requests) /\ Len(c) <= CacheSize /\ OneOfEach(c)
          /\ \A i \in DOMAIN c : c[i] = request \/ \E j \in DOMAIN cache : c[i] = cache[j]
        BY <1>a, SummaryConstants, Remembered
    <3> HIDE DEF c
    <3>2. cache' = c
        BY <2>4 DEF c
    <3>3. \A i \in DOMAIN c : c[i].nonce <= next_nonce /\ c[i].nonce \notin canceled
        BY <1>a, <2>2, <3>1 DEF OneFate
    <3>4. OneFate'
        BY <1>b, <2>1, <3>2, <3>3 DEF OneFate
    <3>5. QED
        BY <1>b, <3>1, <3>2, <3>4
  <2>5. QED
      BY <2>1, <2>3, <2>4
<1>2. CASE active # request
  <2>1. UNCHANGED <<active, cache>>
      BY <1>2 DEF Complete, requestVars
  <2>2. QED
      BY <1>a, <1>b, <2>1 DEF OneFate
<1>3. QED
    BY <1>1, <1>2

LEMMA KeptStep == IInv /\ KeptInv /\ [Next]_vars => KeptInv'
<1> SUFFICES ASSUME IInv, KeptInv, [Next]_vars PROVE KeptInv'
    OBVIOUS
<1>a. /\ pc \in {"poll", "join", "launch", "keys", "dropping", "stopped"}
      /\ preview \in BOOLEAN /\ quit \in BOOLEAN /\ canceled \subseteq 1 .. next_nonce
      /\ cache \in Seq(Requests) /\ Len(cache) <= CacheSize /\ OneOfEach(cache) /\ OneFate
    BY DEF KeptInv, RestTyped
<1>b. /\ running # NoRequest => running.request \in Requests
      /\ pending # NoRequest => pending \in Requests
    BY DEF IInv, Typed
<1>1. ASSUME UNCHANGED <<active, cache, next_nonce, canceled>>,
             pc' \in {"poll", "join", "launch", "keys", "dropping", "stopped"},
             preview' \in BOOLEAN, quit' \in BOOLEAN
      PROVE  KeptInv'
    BY <1>a, <1>1 DEF KeptInv, RestTyped, OneFate
<1>2. ASSUME NEW request \in Requests, NEW outcome, Complete(request, outcome),
             UNCHANGED <<preview, quit>>,
             pc' \in {"poll", "join", "launch", "keys", "dropping", "stopped"}
      PROVE  KeptInv'
    BY <1>a, <1>2, CompleteKeepsFate DEF KeptInv, RestTyped
<1>3. CASE TickPoll
    BY <1>1, <1>2, <1>3, <1>a, <1>b DEF TickPoll, Receive, requestVars, worldVars
<1>4. CASE TickJoin
    BY <1>1, <1>2, <1>4, <1>a, <1>b DEF TickJoin, Receive, requestVars, worldVars
<1>5. CASE TickLaunch
    BY <1>1, <1>2, <1>5, <1>a, <1>b DEF TickLaunch, requestVars, worldVars
<1>6. CASE Quits \/ Dropped \/ Reload \/ (\E n \in 1 .. MaxRequests : Provider(n))
           \/ \E t \in Tasks : EditTask(t)
    BY <1>1, <1>6, <1>a DEF Quits, Dropped, Reload, Provider, ThreadSends, ThreadPanics,
                            ThreadEnds, EditTask, requestVars, worldVars
<1>7. CASE Key
  <2> USE <1>7 DEF Key
  <2>1. CASE Cancel
    <3>1. active \in Requests /\ active.nonce \in 1 .. next_nonce
      <4>1. active \in Requests /\ active.nonce <= next_nonce /\ next_nonce \in Nat
          BY <2>1 DEF Cancel, IInv, Typed, NoncesGiven
      <4>2. QED
          BY <4>1 DEF Requests
    <3>2. /\ active' = NoRequest /\ canceled' = canceled \cup {active.nonce}
          /\ UNCHANGED <<cache, next_nonce, preview, quit>>
        BY <2>1 DEF Cancel
    <3>3. active # NoRequest
        BY <2>1 DEF Cancel
    <3>4. OneFate'
        BY <1>a, <3>2, <3>3 DEF OneFate
    <3>5. RestTyped'
        BY <1>a, <3>1, <3>2 DEF RestTyped
    <3>6. QED
        BY <3>4, <3>5 DEF KeptInv
  <2>2. CASE ToggleView \/ NoKey
      BY <1>1, <1>a, <2>2 DEF ToggleView, NoKey, requestVars
  <2>3. CASE OtherKey
      BY <1>1, <1>a, <2>3 DEF OtherKey, requestVars
  <2>4. ASSUME NEW regenerate \in BOOLEAN, Start(regenerate) PROVE KeptInv'
    <3>1. UNCHANGED <<cache, canceled, preview, quit>>
        BY <2>4 DEF Start, requestVars
    <3>2. CASE UNCHANGED <<active, next_nonce>>
        BY <1>1, <1>a, <3>1, <3>2
    <3>3. CASE next_nonce' = next_nonce + 1 /\ active'.nonce = next_nonce + 1
      <4>1. next_nonce \in Nat
          BY DEF IInv, Typed
      <4>2. \A i \in DOMAIN cache : cache[i].nonce \in Nat
        <5>1. \A i \in DOMAIN cache : cache[i] \in Requests
            BY <1>a, ElementOfSeq, LenProperties
        <5>2. QED
            BY <5>1 DEF Requests
      <4>3. OneFate'
          BY <1>a, <3>1, <3>3, <4>1, <4>2 DEF OneFate
      <4>4. RestTyped'
          BY <1>a, <3>1, <3>3, <4>1 DEF RestTyped
      <4>5. QED
          BY <4>3, <4>4 DEF KeptInv
    <3>4. UNCHANGED <<active, next_nonce>>
          \/ (next_nonce' = next_nonce + 1 /\ active'.nonce = next_nonce + 1)
        BY <2>4 DEF Start, requestVars
    <3>5. QED
        BY <3>2, <3>3, <3>4
  <2>5. QED
      BY <2>1, <2>2, <2>3, <2>4
<1>8. CASE UNCHANGED vars
    BY <1>1, <1>8, <1>a DEF vars, requestVars, worldVars
<1>9. QED
    BY <1>3, <1>4, <1>5, <1>6, <1>7, <1>8 DEF Next, Frame

(***************************************************************************)
(* The types, and that a cache that is never larger than CacheSize holds   *)
(* one summary of a version at most (cache of app/summary.rs).             *)
(***************************************************************************)
THEOREM TypesAreKept == Spec => []TypeOK
<1>1. IInv /\ KeptInv => TypeOK
    BY DEF IInv, Typed, ViewTyped, KeptInv, RestTyped, OneOfEach, TypeOK
<1>2. QED
    BY Invariance, KeptInit, KeptStep, <1>1, PTL DEF Spec


----------------------------------------------------------------------------
(***************************************************************************)
(* A call of the provider, for prompts, pipes and limits of every size.    *)
(* CallIsClean is not inductive; CleanInv says what the supervisor may     *)
(* rely on at each of its steps.                                           *)
(***************************************************************************)

Rounds == {"setup", "poll", "write", "out", "err", "exited", "return"}
Steps == Rounds \cup {"start", "spawn", "kill", "wait", "cleanup", "returned"}
Answers == {"Ok", "Provider", "Output"}
Errors == {"InputLimit", "Process", "Canceled", "Unavailable", "Timeout", "OutputLimit"}

Sups == [at : Steps, loop : {1, 2}, left : Int, stdin : BOOLEAN,
         got : [Process!Fds -> Nat], done : [Process!Fds -> BOOLEAN],
         exit : {"unknown", "known"}, result : Answers \cup Errors \cup {""}]
SupType == sup \in Sups
Children == [is : {"none", "runs", "blocked", "stalled", "zombie", "reaped"},
             on : {"out", "err", "in", ""}, reads : BOOLEAN]
ChildType == child \in Children
WorldType ==
    /\ other \in {"none", "group", "escaped", "gone"}
    /\ pid \in {"nobody", "child", "stranger", "killed"}
    /\ pipe \in [Process!Fds \cup {"in"} -> Nat] /\ wrote \in [Process!Fds -> Nat]
    /\ scratch \in BOOLEAN /\ cancel \in BOOLEAN /\ late \in BOOLEAN
CallTyped == SupType /\ ChildType /\ WorldType

\* Before the child is started there is nothing; then there is a child.
Started ==
    /\ sup.at \in {"start", "spawn"} =>
          child.is = "none" /\ other = "none" /\ sup.exit = "unknown"
    /\ sup.at = "start" => ~scratch
    /\ sup.at \in Rounds \cup {"kill", "wait"} => child.is # "none"

\* The child is reaped when its exit is known, or at the end, never before
\* its group was killed.
Ended ==
    /\ sup.exit = "known" => child.is = "reaped" /\ other # "group"
    /\ child.is = "reaped" => sup.exit = "known" \/ sup.at \in {"cleanup", "returned"}
    /\ sup.at \in {"kill", "wait"} => sup.exit = "unknown"
    /\ sup.at = "wait" => child.is = "zombie" /\ other # "group"
    /\ sup.at \in {"cleanup", "returned"} => child.is \in {"none", "reaped"} /\ other # "group"
    /\ sup.at = "returned" => ~scratch

\* The child's id is another's only once the child is reaped.
Named == pid # "killed" /\ (pid = "stranger" => child.is = "reaped")

\* A pipe that was seen at its end is empty and stays so: nobody writes to it.
AtEnd ==
    \A fd \in Process!Fds : sup.done[fd] =>
        /\ pipe[fd] = 0
        /\ child.is \in {"zombie", "reaped"} /\ other \notin {"group", "escaped"}

\* What was written is in the answer or in the pipe, while there is no error.
Counted ==
    /\ sup.at \in Rounds \cup {"start", "spawn"} => sup.result = ""
    /\ sup.result \in Answers => \A fd \in Process!Fds : sup.done[fd]
    /\ \A fd \in Process!Fds : sup.got[fd] <= Limit
    /\ sup.result \notin Errors => \A fd \in Process!Fds : wrote[fd] = sup.got[fd] + pipe[fd]

Safe == Started /\ Ended /\ Named /\ AtEnd /\ Counted
CleanInv == CallTyped /\ Safe

LEMMA CleanInit == Process!ProviderConstants /\ Process!Init => CleanInv
<1> SUFFICES ASSUME Process!ProviderConstants, Process!Init PROVE CallTyped /\ Safe
    BY DEF CleanInv
<1>1. Input \in Int /\ Limit \in Nat
    BY DEF Process!ProviderConstants
<1>2. sup \in Sups
    BY <1>1 DEF Process!Init, Sups, Steps, Process!Fds
<1>3. ChildType /\ WorldType
    BY DEF Process!Init, ChildType, Children, WorldType, Process!Fds
<1>4. Started /\ Ended /\ Named /\ AtEnd
    BY DEF Process!Init, Started, Ended, Named, AtEnd, Rounds
<1>5. /\ sup.at = "start" /\ sup.result = ""
      /\ \A fd \in Process!Fds : sup.got[fd] = 0 /\ pipe[fd] = 0 /\ wrote[fd] = 0
    BY DEF Process!Init
<1>6. Counted
  <2>1. sup.result \notin Answers
      BY <1>5 DEF Answers
  <2>2. ASSUME NEW fd \in Process!Fds
        PROVE  sup.got[fd] <= Limit /\ wrote[fd] = sup.got[fd] + pipe[fd]
    <3>1. 0 <= Limit /\ 0 = 0 + 0
        BY <1>1
    <3>2. QED
        BY <1>5, <3>1
  <2>3. QED
      BY <1>5, <2>1, <2>2 DEF Counted
<1>7. QED
    BY <1>2, <1>3, <1>4, <1>6 DEF CallTyped, SupType, Safe

LEMMA CleanAnswers == CleanInv => Process!CallIsClean
<1> SUFFICES ASSUME CallTyped, Safe PROVE Process!CallIsClean
    BY DEF CleanInv
<1>1. Process!NothingLeftRunning /\ Process!KillsOnlyItsOwn
    BY DEF Safe, Ended, Named, Process!NothingLeftRunning, Process!KillsOnlyItsOwn,
           Process!Returned
<1>2. Process!OutputIsWhole
  <2> SUFFICES ASSUME sup.result \in Answers, NEW fd \in Process!Fds
               PROVE sup.got[fd] = wrote[fd] /\ wrote[fd] <= Limit
      BY DEF Process!OutputIsWhole, Answers
  <2>1. sup.done[fd] /\ sup.got[fd] <= Limit /\ wrote[fd] = sup.got[fd] + pipe[fd] /\ pipe[fd] = 0
      BY DEF Safe, AtEnd, Counted, Answers, Errors
  <2>2. sup.got[fd] \in Nat
      BY DEF CallTyped, SupType, Sups
  <2>3. QED
      BY <2>1, <2>2
<1>3. QED
    BY <1>1, <1>2 DEF Process!CallIsClean

----------------------------------------------------------------------------
(* Types *)

LEMMA SupTypes == SupType /\ Process!Supervisor => SupType'
<1> SUFFICES ASSUME sup \in Sups, Process!Supervisor PROVE sup' \in Sups
    BY DEF SupType
<1>at. \A v \in Steps : [sup EXCEPT !.at = v] \in Sups
    BY DEF Sups
<1>fails. ASSUME NEW e \in Errors, Process!Fail(e) PROVE sup' \in Sups
    BY <1>fails DEF Process!Fail, Sups, Steps
<1>loops. [sup EXCEPT !.at = "poll", !.loop = 2, !.stdin = FALSE] \in Sups
    BY DEF Sups, Steps, Rounds
<1>1. CASE Process!Refuse
  <2>1. PICK e \in Errors : sup' = [sup EXCEPT !.at = "returned", !.result = e]
      BY <1>1 DEF Process!Refuse, Errors
  <2>2. QED
      BY <2>1 DEF Sups, Steps
<1>2. CASE Process!MakeScratch \/ Process!Spawn \/ Process!ExitKnown \/ Process!Kill
           \/ Process!Cleanup
    BY <1>2, <1>at DEF Process!MakeScratch, Process!Spawn, Process!ExitKnown, Process!Kill,
                       Process!Cleanup, Process!Go, Steps, Rounds
<1>3. CASE Process!SpawnFails
  <2>1. PICK e \in Errors : sup' = [sup EXCEPT !.at = "cleanup", !.result = e]
      BY <1>3 DEF Process!SpawnFails, Errors
  <2>2. QED
      BY <2>1 DEF Sups, Steps
<1>4. CASE Process!Setup
    BY <1>4, <1>at, <1>fails DEF Process!Setup, Process!Go, Steps, Rounds, Errors
<1>5. CASE Process!Poll
    BY <1>5, <1>at, <1>fails DEF Process!Poll, Process!Go, Steps, Rounds, Errors
<1>6. CASE Process!WriteInput
  <2>1. \A n \in Int :
           /\ [sup EXCEPT !.left = n, !.at = "poll", !.loop = 2, !.stdin = FALSE] \in Sups
           /\ [sup EXCEPT !.left = n, !.at = "out"] \in Sups
      BY DEF Sups, Steps, Rounds
  <2>2. sup.left \in Int
      BY DEF Sups
  <2>3. 0 \in Int /\ sup.left - 1 \in Int
      BY <2>2
  <2>4. QED
      BY <1>6, <1>at, <1>loops, <2>1, <2>3
         DEF Process!WriteInput, Process!Go, Process!SecondLoop, Steps, Rounds
<1>7. ASSUME NEW fd \in Process!Fds, Process!Drain(fd) PROVE sup' \in Sups
  <2>1. Process!After(fd) \in Steps
      BY DEF Process!After, Steps, Rounds
  <2>2. [sup EXCEPT !.got[fd] = sup.got[fd] + 1, !.at = Process!After(fd)] \in Sups
    <3>1. \A g \in [Process!Fds -> Nat] : [sup EXCEPT !.got = g, !.at = Process!After(fd)] \in Sups
        BY <2>1 DEF Sups
    <3>2. sup.got \in [Process!Fds -> Nat]
        BY DEF Sups
    <3>3. [sup.got EXCEPT ![fd] = sup.got[fd] + 1] \in [Process!Fds -> Nat]
        BY <3>2
    <3>4. QED
        BY <3>1, <3>3
  <2>3. \A b \in BOOLEAN : [sup EXCEPT !.done[fd] = b, !.at = Process!After(fd)] \in Sups
      BY <2>1 DEF Sups
  <2>4. QED
      BY <1>7, <1>at, <1>fails, <2>1, <2>2, <2>3 DEF Process!Drain, Process!Go, Errors
<1>8. CASE Process!Exited
    BY <1>8, <1>at, <1>loops, <1>fails
       DEF Process!Exited, Process!Go, Process!SecondLoop, Steps, Rounds, Errors
<1>9. CASE Process!Reap
  <2>1. [sup EXCEPT !.exit = "known", !.at = "return"] \in Sups
      BY DEF Sups, Steps, Rounds
  <2>2. QED
      BY <1>9, <1>at, <2>1 DEF Process!Reap, Steps
<1>10. CASE Process!Return
  <2>1. CASE Process!Go("poll")
      BY <2>1, <1>at DEF Process!Go, Steps, Rounds
  <2>2. ASSUME NEW a \in Answers, sup' = [sup EXCEPT !.at = "cleanup", !.result = a]
        PROVE  sup' \in Sups
      BY <2>2 DEF Sups, Steps
  <2>3. QED
      BY <1>10, <2>1, <2>2 DEF Process!Return, Answers
<1>11. QED
    BY <1>1, <1>2, <1>3, <1>4, <1>5, <1>6, <1>7, <1>8, <1>9, <1>10 DEF Process!Supervisor

LEMMA SupUntouched == Process!Next => Process!Supervisor \/ sup' = sup
BY DEF Process!Next, Process!Child, Process!Block, Process!Read, Process!Put,
       Process!WriteOutput, Process!CloseInput, Process!Fork, Process!Stall, Process!Exit,
       Process!OtherWrites, Process!OtherExits, Process!Reuse, Process!Cancel,
       Process!Deadline, Process!inside

LEMMA ChildTypes == ChildType /\ Process!Next => ChildType'
<1> SUFFICES ASSUME child \in Children, Process!Next PROVE child' \in Children
    BY DEF ChildType
<1>1. \A v \in {"runs", "stalled", "reaped"} : [child EXCEPT !.is = v] \in Children
    BY DEF Children
<1>2. [child EXCEPT !.is = "zombie", !.reads = FALSE] \in Children
    BY DEF Children
<1>3. \A fd \in Process!Fds \cup {"in"} : [child EXCEPT !.is = "blocked", !.on = fd] \in Children
    BY DEF Children, Process!Fds
<1>4. /\ [child EXCEPT !.is = "runs", !.on = ""] \in Children
      /\ \A b \in BOOLEAN : [child EXCEPT !.is = "runs", !.on = "", !.reads = b] \in Children
      /\ [child EXCEPT !.reads = FALSE] \in Children
    BY DEF Children
<1>5. CASE Process!Supervisor
    BY <1>5, <1>1, <1>2
    DEF Process!Supervisor, Process!Refuse, Process!MakeScratch, Process!SpawnFails,
        Process!Spawn, Process!Setup, Process!Poll, Process!WriteInput, Process!Drain,
        Process!Exited, Process!SeesExit, Process!ExitKnown, Process!Kill, Process!KillGroup,
        Process!Reap, Process!Return, Process!Cleanup, Process!outside
<1>6. CASE Process!Child
  <2>1. CASE Process!Read
    <3>1. (pipe["in"] > 0) \in BOOLEAN
        OBVIOUS
    <3>2. QED
        BY <2>1, <3>1, <1>4 DEF Process!Read
  <2>2. CASE Process!WriteOutput
      BY <2>2, <1>4 DEF Process!WriteOutput
  <2>3. CASE Process!CloseInput \/ Process!Exit
             \/ \E fd \in Process!Fds \cup {"in"} : Process!Block(fd)
      BY <2>3, <1>2, <1>3, <1>4 DEF Process!Block, Process!CloseInput, Process!Exit
  <2>4. QED
      BY <1>6, <2>1, <2>2, <2>3 DEF Process!Child
<1>7. CASE Process!Fork \/ Process!Stall \/ Process!OtherWrites \/ Process!OtherExits
           \/ Process!Reuse \/ Process!Cancel \/ Process!Deadline
    BY <1>7, <1>1 DEF Process!Fork, Process!Stall, Process!OtherWrites, Process!OtherExits,
                      Process!Reuse, Process!Cancel, Process!Deadline
<1>8. QED
    BY <1>5, <1>6, <1>7 DEF Process!Next

LEMMA WorldTypes == CallTyped /\ Process!Next => WorldType'
<1> SUFFICES ASSUME sup \in Sups, child \in Children, WorldType, Process!Next PROVE WorldType'
    BY DEF CallTyped, SupType, ChildType
<1> USE DEF WorldType, Process!Fds
<1>1. CASE Process!Supervisor
  <2>1. CASE Process!Refuse \/ Process!MakeScratch \/ Process!SpawnFails \/ Process!Spawn
             \/ Process!Setup \/ Process!Poll \/ Process!ExitKnown \/ Process!Return
             \/ Process!Cleanup
      BY <2>1 DEF Process!Refuse, Process!MakeScratch, Process!SpawnFails, Process!Spawn,
                  Process!Setup, Process!Poll, Process!ExitKnown, Process!Return,
                  Process!Cleanup, Process!outside
  <2>2. CASE Process!WriteInput
      BY <2>2 DEF Process!WriteInput
  <2>3. ASSUME NEW fd \in Process!Fds, Process!Drain(fd) PROVE WorldType'
      BY <2>3 DEF Process!Drain
  <2>4. CASE Process!Exited \/ Process!Kill \/ Process!Reap
      BY <2>4 DEF Process!Exited, Process!SeesExit, Process!Kill, Process!KillGroup,
                  Process!Reap
  <2>5. QED
      BY <1>1, <2>1, <2>2, <2>3, <2>4 DEF Process!Supervisor
<1>2. CASE Process!Child
  <2>1. CASE Process!Read
      BY <2>1 DEF Process!Read, Process!inside
  <2>2. CASE Process!WriteOutput
      BY <2>2 DEF Process!WriteOutput, Process!Put, Process!inside
  <2>3. QED
      BY <1>2, <2>1, <2>2 DEF Process!Child, Process!Block, Process!CloseInput, Process!Exit,
                              Process!inside
<1>3. CASE Process!OtherWrites
    BY <1>3 DEF Process!OtherWrites, Process!Put, Process!inside
<1>4. CASE Process!Fork \/ Process!Stall \/ Process!OtherExits \/ Process!Reuse
           \/ Process!Cancel \/ Process!Deadline
    BY <1>4 DEF Process!Fork, Process!Stall, Process!OtherExits, Process!Reuse, Process!Cancel,
                Process!Deadline, Process!inside
<1>5. QED
    BY <1>1, <1>2, <1>3, <1>4 DEF Process!Next

LEMMA Types == CallTyped /\ Process!Next => CallTyped'
<1>1. SupType /\ sup' = sup => SupType'
    BY DEF SupType
<1>2. QED
    BY <1>1, SupUntouched, SupTypes, ChildTypes, WorldTypes DEF CallTyped

----------------------------------------------------------------------------
(* One step *)

\* What the supervisor does not change when it only goes on, or fails.
Kept == sup'.exit = sup.exit /\ sup'.got = sup.got /\ sup'.done = sup.done

LEMMA Going == ASSUME NEW v, sup \in Sups, Process!Go(v)
               PROVE  sup'.at = v /\ sup'.result = sup.result /\ Kept
BY DEF Process!Go, Sups, Kept

LEMMA Failing == ASSUME NEW e, sup \in Sups, Process!Fail(e)
                 PROVE  /\ sup'.at = IF sup.exit = "known" THEN "cleanup" ELSE "kill"
                        /\ sup'.result = e /\ Kept
BY DEF Process!Fail, Sups, Kept

LEMMA Looping == ASSUME sup \in Sups, Process!SecondLoop
                 PROVE  sup'.at = "poll" /\ sup'.result = sup.result /\ Kept
BY DEF Process!SecondLoop, Sups, Kept

LEMMA NoWriters == Process!Writers = {} <=> ~Process!Alive /\ other \notin {"group", "escaped"}
BY DEF Process!Writers

\* A step of the supervisor that leaves the processes and pipes alone: another
\* round, or the end of it.
LEMMA Aside == ASSUME CleanInv, Kept, sup.at \in Rounds, UNCHANGED <<child, other, wrote, pid, scratch>>,
                      \A fd \in Process!Fds : pipe'[fd] = pipe[fd],
                      \/ sup'.at \in Rounds /\ sup'.result = sup.result
                      \/ /\ sup'.result \in Errors \cup {sup.result}
                         /\ sup'.at = IF sup.exit = "known" THEN "cleanup" ELSE "kill"
               PROVE  Safe'
<1> USE DEF CleanInv, Safe
<1>1. Started' /\ Named'
    BY DEF Started, Named, Kept, Rounds
<1>2. sup.exit \in {"known", "unknown"}
    BY DEF CallTyped, SupType, Sups
<1>3. Ended'
    BY <1>2 DEF Ended, Started, Kept, Rounds
<1>4. AtEnd' /\ Counted'
    BY DEF AtEnd, Counted, Kept, Rounds, Answers, Errors
<1>5. QED
    BY <1>1, <1>3, <1>4

\* Only a process that is there writes.
Written ==
    \A fd \in Process!Fds :
        \/ pipe'[fd] = pipe[fd] /\ wrote'[fd] = wrote[fd]
        \/ /\ Process!Alive \/ other \in {"group", "escaped"}
           /\ pipe'[fd] = pipe[fd] + 1 /\ wrote'[fd] = wrote[fd] + 1

LEMMA NothingWritten == (\A fd \in Process!Fds : pipe'[fd] = pipe[fd]) /\ wrote' = wrote => Written
BY DEF Written

\* A step of the child, of another process, of the kernel or of the user.
ByOthers ==
    /\ UNCHANGED <<sup, scratch>>
    /\ child'.is = child.is \/ (Process!Alive /\ child'.is \in {"runs", "blocked", "stalled", "zombie"})
    /\ \/ other' = other
       \/ other \in {"group", "escaped"} /\ other' = "gone"
       \/ child.is = "runs" /\ other' \in {"group", "escaped"}
    /\ pid' = pid \/ (pid' = "stranger" /\ child.is = "reaped")
    /\ Written

LEMMA OthersAreSafe == CleanInv /\ ByOthers => Safe'
<1> SUFFICES ASSUME CleanInv, ByOthers PROVE Safe'
    OBVIOUS
<1> USE DEF CleanInv, Safe, Process!Alive, ByOthers
<1>1. Started' /\ Named'
    BY DEF Started, Named, Rounds
<1>2. Ended'
    BY DEF Ended
<1>3. AtEnd'
    BY DEF AtEnd, Written
<1>4. ASSUME NEW fd \in Process!Fds, wrote[fd] = sup.got[fd] + pipe[fd]
      PROVE  wrote'[fd] = sup.got[fd] + pipe'[fd]
  <2>1. sup.got[fd] \in Nat /\ pipe[fd] \in Nat /\ wrote[fd] \in Nat
      BY DEF CallTyped, SupType, Sups, WorldType
  <2>2. QED
      BY <1>4, <2>1 DEF Written
<1>5. Counted'
    BY <1>4 DEF Counted
<1>6. QED
    BY <1>1, <1>2, <1>3, <1>5

LEMMA SafeStep == Process!ProviderConstants /\ CleanInv /\ Process!Next => Safe'
<1> SUFFICES ASSUME Process!ProviderConstants, CleanInv, Process!Next PROVE Safe'
    OBVIOUS
<1>a. sup \in Sups /\ child \in Children /\ WorldType /\ Started /\ Ended /\ Named /\ AtEnd /\ Counted
    BY DEF CleanInv, CallTyped, SupType, ChildType, Safe
<1>b. Process!Fds = {"out", "err"}
    BY DEF Process!Fds
<1>1. CASE Process!Refuse
  <2>1. /\ sup.at = "start" /\ sup'.at = "returned" /\ sup'.result \in Errors /\ Kept
        /\ UNCHANGED <<child, other, pipe, wrote, pid, scratch>>
    <3>1. PICK e \in Errors : sup' = [sup EXCEPT !.at = "returned", !.result = e]
        BY <1>1 DEF Process!Refuse, Errors
    <3>2. QED
        BY <1>a, <1>1, <3>1 DEF Process!Refuse, Process!At, Process!outside, Sups, Kept
  <2>2. Started' /\ Ended' /\ Named'
      BY <1>a, <2>1 DEF Started, Ended, Named, Kept, Rounds
  <2>3. AtEnd' /\ Counted'
      BY <1>a, <2>1 DEF AtEnd, Counted, Kept, Rounds, Answers, Errors
  <2>4. QED
      BY <2>2, <2>3 DEF Safe
<1>2. CASE Process!MakeScratch
  <2>1. /\ sup.at = "start" /\ sup'.at = "spawn" /\ sup'.result = sup.result /\ Kept
        /\ UNCHANGED <<child, other, pipe, wrote, pid>>
      BY <1>a, <1>2, Going DEF Process!MakeScratch, Process!At, Process!outside
  <2>2. Started' /\ Ended' /\ Named'
      BY <1>a, <2>1 DEF Started, Ended, Named, Kept, Rounds
  <2>3. AtEnd' /\ Counted'
      BY <1>a, <2>1 DEF AtEnd, Counted, Kept, Rounds, Answers, Errors
  <2>4. QED
      BY <2>2, <2>3 DEF Safe
<1>3. CASE Process!SpawnFails
  <2>1. /\ sup.at = "spawn" /\ sup'.at = "cleanup" /\ sup'.result \in Errors /\ Kept
        /\ UNCHANGED <<child, other, pipe, wrote, pid, scratch>>
    <3>1. PICK e \in Errors : sup' = [sup EXCEPT !.at = "cleanup", !.result = e]
        BY <1>3 DEF Process!SpawnFails, Errors
    <3>2. QED
        BY <1>a, <1>3, <3>1 DEF Process!SpawnFails, Process!At, Process!outside, Sups, Kept
  <2>2. Started' /\ Ended' /\ Named'
      BY <1>a, <2>1 DEF Started, Ended, Named, Kept, Rounds
  <2>3. AtEnd' /\ Counted'
      BY <1>a, <2>1 DEF AtEnd, Counted, Kept, Rounds, Answers, Errors
  <2>4. QED
      BY <2>2, <2>3 DEF Safe
<1>4. CASE Process!Spawn
  <2>1. /\ sup.at = "spawn" /\ sup'.at = "setup" /\ sup'.result = sup.result /\ Kept
        /\ child'.is = "runs" /\ pid' = "child" /\ UNCHANGED <<other, pipe, wrote, scratch>>
    <3>1. child'.is = "runs"
        BY <1>a, <1>4 DEF Process!Spawn, Children
    <3>2. QED
        BY <1>a, <1>4, <3>1, Going DEF Process!Spawn, Process!At
  <2>2. Started' /\ Ended' /\ Named'
      BY <1>a, <2>1 DEF Started, Ended, Named, Kept, Rounds
  <2>3. AtEnd' /\ Counted'
      BY <1>a, <2>1 DEF Started, AtEnd, Counted, Kept, Rounds, Answers, Errors
  <2>4. QED
      BY <2>2, <2>3 DEF Safe
<1>5. CASE Process!Setup \/ Process!Poll \/ Process!ExitKnown
  <2>1. sup.at \in Rounds /\ UNCHANGED <<child, other, pipe, wrote, pid, scratch>>
      BY <1>5 DEF Process!Setup, Process!Poll, Process!ExitKnown, Process!At, Process!outside,
                  Rounds
  <2>2. ASSUME NEW v \in Rounds, Process!Go(v) PROVE Safe'
      BY <1>a, <2>1, <2>2, Going, Aside
  <2>3. ASSUME NEW e \in Errors, Process!Fail(e) PROVE Safe'
      BY <1>a, <2>1, <2>3, Failing, Aside
  <2>4. QED
      BY <1>5, <2>2, <2>3 DEF Process!Setup, Process!Poll, Process!ExitKnown, Rounds, Errors
<1>6. CASE Process!WriteInput
  <2>1. /\ sup.at \in Rounds /\ sup'.at \in Rounds /\ sup'.result = sup.result /\ Kept
        /\ UNCHANGED <<child, other, wrote, pid, scratch>>
    <3>1. CASE Process!SecondLoop
        BY <1>6, <1>a, <3>1, Looping DEF Process!WriteInput, Process!At, Rounds
    <3>2. CASE Process!Go("out")
        BY <1>6, <1>a, <3>2, Going DEF Process!WriteInput, Process!At, Rounds
    <3>3. CASE sup' = [sup EXCEPT !.left = 0, !.at = "poll", !.loop = 2, !.stdin = FALSE]
        BY <1>6, <1>a, <3>3 DEF Process!WriteInput, Process!At, Rounds, Sups, Kept
    <3>4. CASE sup' = [sup EXCEPT !.left = @ - 1, !.at = "out"]
        BY <1>6, <1>a, <3>4 DEF Process!WriteInput, Process!At, Rounds, Sups, Kept
    <3>5. QED
        BY <1>6, <3>1, <3>2, <3>3, <3>4 DEF Process!WriteInput
  <2>2. \A fd \in Process!Fds : pipe'[fd] = pipe[fd]
      BY <1>6, <1>a, <1>b DEF Process!WriteInput, WorldType
  <2>3. QED
      BY <2>1, <2>2, Aside
<1>7. ASSUME NEW fd \in Process!Fds, Process!Drain(fd) PROVE Safe'
  <2>0. /\ fd \in Rounds /\ sup.at \in Rounds /\ sup.at = fd /\ Process!After(fd) \in Rounds
        /\ UNCHANGED <<child, other, wrote, pid, scratch>>
      BY <1>b, <1>7 DEF Process!Drain, Process!At, Process!After, Rounds
  <2>1. CASE sup.done[fd] /\ Process!Go(Process!After(fd)) /\ UNCHANGED pipe
      BY <1>a, <2>0, <2>1, Going, Aside
  <2>2. CASE /\ ~sup.done[fd] /\ pipe[fd] > 0
             /\ pipe' = [pipe EXCEPT ![fd] = @ - 1]
             /\ sup.got[fd] = Limit /\ Process!Fail("OutputLimit")
    <3>1. /\ sup'.at = IF sup.exit = "known" THEN "cleanup" ELSE "kill"
          /\ sup'.result = "OutputLimit" /\ Kept
        BY <1>a, <2>2, Failing
    <3>2. \A g \in Process!Fds : g # fd => pipe'[g] = pipe[g]
        BY <1>a, <2>2 DEF WorldType
    <3>3. sup.exit \in {"known", "unknown"}
        BY <1>a DEF Sups
    <3>4. Started' /\ Ended' /\ Named'
        BY <1>a, <2>0, <3>1, <3>3 DEF Started, Ended, Named, Kept, Rounds
    <3>5. AtEnd' /\ Counted'
        BY <1>a, <2>0, <2>2, <3>1, <3>2 DEF AtEnd, Counted, Kept, Rounds, Answers, Errors
    <3>6. QED
        BY <3>4, <3>5 DEF Safe
  <2>3. CASE /\ ~sup.done[fd] /\ pipe[fd] > 0
             /\ pipe' = [pipe EXCEPT ![fd] = @ - 1]
             /\ sup.got[fd] # Limit
             /\ sup' = [sup EXCEPT !.got[fd] = @ + 1, !.at = Process!After(fd)]
    <3>1. /\ sup'.at = Process!After(fd) /\ sup'.result = sup.result /\ sup'.exit = sup.exit
          /\ sup'.done = sup.done
          /\ sup'.got[fd] = sup.got[fd] + 1
          /\ \A g \in Process!Fds : g # fd => sup'.got[g] = sup.got[g]
        BY <1>a, <2>3 DEF Sups
    <3>2. /\ pipe'[fd] = pipe[fd] - 1
          /\ \A g \in Process!Fds : g # fd => pipe'[g] = pipe[g]
        BY <1>a, <2>3 DEF WorldType
    <3>3. Started' /\ Ended' /\ Named'
        BY <1>a, <2>0, <3>1 DEF Started, Ended, Named, Rounds
    <3>4. AtEnd'
        BY <1>a, <2>0, <2>3, <3>1, <3>2 DEF AtEnd
    <3>5. sup'.got[fd] <= Limit /\ wrote[fd] = sup'.got[fd] + pipe'[fd]
      <4>1. sup.got[fd] \in Nat /\ pipe[fd] \in Nat /\ wrote[fd] \in Nat
          BY <1>a DEF Sups, WorldType
      <4>2. sup.got[fd] <= Limit /\ wrote[fd] = sup.got[fd] + pipe[fd]
          BY <1>a, <2>0 DEF Counted, Errors
      <4>3. Limit \in Nat
          BY DEF Process!ProviderConstants
      <4>4. QED
          BY <2>3, <3>1, <3>2, <4>1, <4>2, <4>3
    <3>6. Counted'
        BY <1>a, <2>0, <3>1, <3>2, <3>5 DEF Counted, Answers, Errors
    <3>7. QED
        BY <3>3, <3>4, <3>6 DEF Safe
  <2>4. CASE /\ ~sup.done[fd] /\ pipe[fd] = 0
             /\ sup' = [sup EXCEPT !.done[fd] = (Process!Writers = {}), !.at = Process!After(fd)]
             /\ UNCHANGED pipe
    <3>1. /\ sup'.at = Process!After(fd) /\ sup'.result = sup.result /\ sup'.exit = sup.exit
          /\ sup'.got = sup.got
          /\ sup'.done[fd] = (Process!Writers = {})
          /\ \A g \in Process!Fds : g # fd => sup'.done[g] = sup.done[g]
        BY <1>a, <2>4 DEF Sups
    <3>2. Started' /\ Ended' /\ Named'
        BY <1>a, <2>0, <3>1 DEF Started, Ended, Named, Rounds
    <3>3. Process!Writers = {} => child.is \in {"zombie", "reaped"} /\ other \notin {"group", "escaped"}
        BY <1>a, <2>0, NoWriters DEF Started, Children, Process!Alive
    <3>4. AtEnd'
        BY <1>a, <2>0, <2>4, <3>1, <3>3 DEF AtEnd
    <3>5. Counted'
        BY <1>a, <2>0, <2>4, <3>1 DEF Counted, Answers, Errors
    <3>6. QED
        BY <3>2, <3>4, <3>5 DEF Safe
  <2>5. QED
      BY <1>7, <2>1, <2>2, <2>3, <2>4 DEF Process!Drain
<1>8. CASE Process!Exited
  <2>1. sup.at \in Rounds /\ sup.exit = "unknown" /\ UNCHANGED <<child, other, pipe, wrote, pid, scratch>>
      BY <1>8 DEF Process!Exited, Process!SeesExit, Process!At, Rounds
  <2>2. CASE Process!SecondLoop
      BY <1>a, <2>1, <2>2, Looping, Aside DEF Rounds
  <2>3. CASE Process!Go("kill") \/ Process!Go("return")
      BY <1>a, <2>1, <2>3, Going, Aside DEF Rounds
  <2>4. CASE Process!Fail("Process")
      BY <1>a, <2>1, <2>4, Failing, Aside DEF Errors
  <2>5. QED
      BY <1>8, <2>2, <2>3, <2>4 DEF Process!Exited
<1>9. CASE Process!Kill
  <2>1. /\ sup.at = "kill" /\ sup'.at = "wait" /\ sup'.result = sup.result /\ Kept
        /\ UNCHANGED <<pipe, wrote, scratch>>
      BY <1>a, <1>9, Going DEF Process!Kill, Process!At
  <2>2. Process!Killable /\ child.is # "reaped"
      BY <1>a, <2>1 DEF Started, Ended, Process!Killable, Process!Alive, Children
  <2>3. child'.is = "zombie" /\ other' # "group" /\ (other' = other \/ other' = "gone") /\ pid' = pid
      BY <1>a, <1>9, <2>2 DEF Process!Kill, Process!KillGroup, Children, Named
  <2>4. Started' /\ Ended' /\ Named'
      BY <1>a, <2>1, <2>2, <2>3 DEF Started, Ended, Named, Kept, Rounds
  <2>5. AtEnd' /\ Counted'
      BY <1>a, <2>1, <2>3 DEF AtEnd, Counted, Kept, Rounds, Answers, Errors
  <2>6. QED
      BY <2>4, <2>5 DEF Safe
<1>10. CASE Process!Reap
  <2>1. /\ sup.at = "wait" /\ sup'.result = sup.result
        /\ sup'.got = sup.got /\ sup'.done = sup.done
        /\ \/ sup.result = "" /\ sup'.exit = "known" /\ sup'.at = "return"
           \/ sup.result # "" /\ sup'.exit = sup.exit /\ sup'.at = "cleanup"
      BY <1>a, <1>10 DEF Process!Reap, Process!At, Sups
  <2>2. /\ child'.is = "reaped" /\ pid' \in {pid, "nobody"}
        /\ UNCHANGED <<other, pipe, wrote, scratch>>
      BY <1>a, <1>10 DEF Process!Reap, Children
  <2>3. Started' /\ Ended' /\ Named'
      BY <1>a, <2>1, <2>2 DEF Started, Ended, Named, Rounds
  <2>4. AtEnd' /\ Counted'
      BY <1>a, <2>1, <2>2 DEF AtEnd, Counted, Rounds, Answers, Errors
  <2>5. QED
      BY <2>3, <2>4 DEF Safe
<1>11. CASE Process!Return
  <2>1. sup.at \in Rounds /\ UNCHANGED <<child, other, pipe, wrote, pid, scratch>>
      BY <1>11 DEF Process!Return, Process!At, Process!outside, Rounds
  <2>2. CASE Process!Go("poll")
      BY <1>a, <2>1, <2>2, Going, Aside DEF Rounds
  <2>3. ASSUME NEW a \in Answers, Process!Complete,
               sup' = [sup EXCEPT !.at = "cleanup", !.result = a]
        PROVE  Safe'
    <3>1. sup'.at = "cleanup" /\ sup'.result = a /\ Kept
        BY <1>a, <2>3 DEF Sups, Kept
    <3>2. Started' /\ Ended' /\ Named'
        BY <1>a, <2>1, <2>3, <3>1 DEF Started, Ended, Named, Kept, Rounds, Process!Complete
    <3>3. AtEnd' /\ Counted'
        BY <1>a, <2>1, <2>3, <3>1 DEF AtEnd, Counted, Kept, Rounds, Answers, Errors,
                                      Process!Complete
    <3>4. QED
        BY <3>2, <3>3 DEF Safe
  <2>4. QED
      BY <1>11, <2>2, <2>3 DEF Process!Return, Answers
<1>12. CASE Process!Cleanup
  <2>1. /\ sup.at = "cleanup" /\ sup'.at = "returned" /\ sup'.result = sup.result /\ Kept
        /\ ~scratch' /\ UNCHANGED <<child, other, pipe, wrote, pid>>
      BY <1>a, <1>12, Going DEF Process!Cleanup, Process!At, Process!outside
  <2>2. Started' /\ Ended' /\ Named'
      BY <1>a, <2>1 DEF Started, Ended, Named, Kept, Rounds
  <2>3. AtEnd' /\ Counted'
      BY <1>a, <2>1 DEF AtEnd, Counted, Kept, Rounds, Answers, Errors
  <2>4. QED
      BY <2>2, <2>3 DEF Safe
<1>13. CASE Process!Child
  <2>1. CASE Process!Read
    <3>1. /\ UNCHANGED <<sup, scratch, other, wrote, pid>> /\ child.is = "blocked"
          /\ child'.is = "runs"
        BY <1>a, <2>1 DEF Process!Read, Process!inside, Children
    <3>2. \A fd \in Process!Fds : pipe'[fd] = pipe[fd]
        BY <1>a, <1>b, <2>1 DEF Process!Read, WorldType
    <3>3. Written
        BY <3>1, <3>2, NothingWritten
    <3>4. ByOthers
        BY <3>1, <3>3 DEF ByOthers, Process!Alive
    <3>5. QED
        BY <3>4, OthersAreSafe
  <2>2. CASE Process!WriteOutput
    <3>1. /\ UNCHANGED <<sup, scratch, other, pid>> /\ child.is = "blocked" /\ child.on \in Process!Fds
          /\ child'.is = "runs"
        BY <1>a, <2>2 DEF Process!WriteOutput, Process!inside, Children
    <3>2. ASSUME NEW fd \in Process!Fds
          PROVE  \/ pipe'[fd] = pipe[fd] /\ wrote'[fd] = wrote[fd]
                 \/ pipe'[fd] = pipe[fd] + 1 /\ wrote'[fd] = wrote[fd] + 1
        BY <1>a, <2>2 DEF Process!WriteOutput, Process!Put, WorldType
    <3>3. Written
        BY <3>1, <3>2 DEF Written, Process!Alive
    <3>4. ByOthers
        BY <3>1, <3>3 DEF ByOthers, Process!Alive
    <3>5. QED
        BY <3>4, OthersAreSafe
  <2>3. CASE Process!CloseInput \/ Process!Exit
             \/ \E fd \in Process!Fds \cup {"in"} : Process!Block(fd)
    <3>1. /\ UNCHANGED <<sup, scratch, other, pid, pipe, wrote>> /\ child.is = "runs"
          /\ child'.is \in {"runs", "zombie", "blocked"}
        BY <1>a, <2>3 DEF Process!CloseInput, Process!Exit, Process!Block, Process!Busy,
                          Process!inside, Children
    <3>2. Written
        BY <3>1, NothingWritten
    <3>3. ByOthers
        BY <3>1, <3>2 DEF ByOthers, Process!Alive
    <3>4. QED
        BY <3>3, OthersAreSafe
  <2>4. QED
      BY <1>13, <2>1, <2>2, <2>3 DEF Process!Child
<1>14. CASE Process!Fork \/ Process!OtherExits \/ Process!Reuse
  <2>1. UNCHANGED <<sup, scratch, child, pipe, wrote>>
      BY <1>14 DEF Process!Fork, Process!OtherExits, Process!Reuse, Process!inside
  <2>2. Written
      BY <2>1, NothingWritten
  <2>3. ByOthers
      BY <1>14, <2>1, <2>2 DEF ByOthers, Process!Fork, Process!OtherExits, Process!Reuse,
                               Process!Busy
  <2>4. QED
      BY <2>3, OthersAreSafe
<1>15. CASE Process!OtherWrites
  <2>1. /\ UNCHANGED <<sup, scratch, child, other, pid>> /\ other \in {"group", "escaped"}
      BY <1>15 DEF Process!OtherWrites, Process!inside
  <2>2. ASSUME NEW fd \in Process!Fds
        PROVE  \/ pipe'[fd] = pipe[fd] /\ wrote'[fd] = wrote[fd]
               \/ pipe'[fd] = pipe[fd] + 1 /\ wrote'[fd] = wrote[fd] + 1
      BY <1>a, <1>15 DEF Process!OtherWrites, Process!Put, WorldType
  <2>3. Written
      BY <2>1, <2>2 DEF Written
  <2>4. ByOthers
      BY <2>1, <2>3 DEF ByOthers
  <2>5. QED
      BY <2>4, OthersAreSafe
<1>16. CASE Process!Stall
  <2>1. /\ UNCHANGED <<sup, scratch, other, pid, pipe, wrote>> /\ child.is = "runs"
        /\ child'.is = "stalled"
      BY <1>a, <1>16 DEF Process!Stall, Process!Busy, Process!inside, Children
  <2>2. Written
      BY <2>1, NothingWritten
  <2>3. ByOthers
      BY <2>1, <2>2 DEF ByOthers, Process!Alive
  <2>4. QED
      BY <2>3, OthersAreSafe
<1>17. CASE Process!Cancel \/ Process!Deadline
  <2>1. UNCHANGED <<sup, scratch, child, other, pid, pipe, wrote>>
      BY <1>17 DEF Process!Cancel, Process!Deadline
  <2>2. Written
      BY <2>1, NothingWritten
  <2>3. ByOthers
      BY <2>1, <2>2 DEF ByOthers
  <2>4. QED
      BY <2>3, OthersAreSafe
<1>18. QED
    BY <1>1, <1>2, <1>3, <1>4, <1>5, <1>6, <1>7, <1>8, <1>9, <1>10, <1>11, <1>12, <1>13, <1>14, <1>15,
       <1>16, <1>17 DEF Process!Next, Process!Supervisor

----------------------------------------------------------------------------

LEMMA CallStep ==
    Process!ProviderConstants /\ CleanInv /\ [Process!Next]_(Process!vars) => CleanInv'
<1> SUFFICES ASSUME Process!ProviderConstants, CleanInv, [Process!Next]_(Process!vars)
             PROVE  CleanInv'
    OBVIOUS
<1>1. CASE Process!Next
    BY <1>1, Types, SafeStep DEF CleanInv
<1>2. CASE UNCHANGED Process!vars
  <2>1. UNCHANGED <<sup, child, other, pipe, wrote, scratch, pid, cancel, late>>
      BY <1>2 DEF Process!vars
  <2>2. CallTyped'
      BY <2>1 DEF CleanInv, CallTyped, SupType, ChildType, WorldType
  <2>3. Started' /\ Ended' /\ Named'
      BY <2>1 DEF CleanInv, Safe, Started, Ended, Named
  <2>4. AtEnd'
      BY <2>1 DEF CleanInv, Safe, AtEnd
  <2>5. Counted'
      BY <2>1 DEF CleanInv, Safe, Counted
  <2>6. QED
      BY <2>2, <2>3, <2>4, <2>5 DEF CleanInv, Safe
<1>3. QED
    BY <1>1, <1>2

\* A call of the provider is clean, whatever the sizes of prompt, pipes and
\* limits: nothing is left running and no scratch directory, no signal went to a
\* stranger, and an answer is complete (core summary/process.rs, summary.rs).
THEOREM CallsAreClean == Process!Spec => []Process!CallIsClean
<1>1. Process!Init => CleanInv
    BY CleanInit, MCProviderConstants
<1>2. CleanInv /\ [Process!Next]_(Process!vars) => CleanInv'
    BY CallStep, MCProviderConstants
<1>3. CleanInv => Process!CallIsClean
    BY CleanAnswers
<1>4. QED
    BY <1>1, <1>2, <1>3, PTL DEF Process!Spec

----------------------------------------------------------------------------
(***************************************************************************)
(* What the application asks for and what a call of the provider does,     *)
(* beside each other: no summary is kept that was given up, and every call *)
(* is clean (complete and cancel of app/summary.rs, process.rs).           *)
(***************************************************************************)
THEOREM AnswersStaySound == MCSpec => []AnswersAreSound
<1> DEFINE Inv == IInv /\ KeptInv /\ CleanInv
<1>1. MCInit => Inv
    BY InitHolds, KeptInit, CleanInit, MCProviderConstants DEF MCInit
<1>2. Inv /\ [MCNext]_bothVars => Inv'
  <2> SUFFICES ASSUME Inv, [MCNext]_bothVars PROVE Inv'
      OBVIOUS
  <2>1. [Next]_vars /\ [Process!Next]_(Process!vars)
      BY DEF MCNext, RequestStep, ProcessStep, OnlyRequests, OnlyProcess, bothVars, processVars,
             Process!vars
  <2>2. IInv' /\ KeptInv'
      BY <2>1, StepKeeps, KeptStep
  <2>3. CleanInv'
      BY <2>1, CallStep, MCProviderConstants
  <2>4. QED
      BY <2>2, <2>3
<1>3. Inv => AnswersAreSound
    BY CleanAnswers DEF KeptInv, OneFate, CanceledNotKept, AnswersAreSound
<1> HIDE DEF Inv
<1>4. QED
    BY <1>1, <1>2, <1>3, PTL DEF MCSpec
=============================================================================
