------------------------------- MODULE Watcher -------------------------------
(***************************************************************************)
(* WorkflowWatcher: the notify backend sends raw events, a debounce thread *)
(* coalesces the relevant ones into RefreshSignals, and the main thread    *)
(* takes the signals and, by dropping the watcher, asks the thread to stop *)
(* and joins it.                                                           *)
(*                                                                         *)
(* "file" events are always relevant, "room" events only while their path  *)
(* is registered as a dependency, "noise" never.  Time is `left`, the      *)
(* ticks until the debounce deadline.                                      *)
(***************************************************************************)
EXTENDS Integers, Sequences, SequencesExt

CONSTANTS
    Debounces,      \* lengths the debounce window can have, in ticks
    MaxEvents       \* bound: raw events, the open burst and untaken signals

ASSUME WatcherConstants == Debounces \subseteq Nat /\ MaxEvents \in Nat

VARIABLES
    debounce,       \* WatcherConfig: the debounce window; it never changes
    raw,            \* the channel from the backend
    backend,        \* the backend holds its end of the channel
    thread,         \* the debounce thread: "wait", "burst" or "gone"
    left,           \* ticks until the deadline of the burst
    signals,        \* signals not yet taken
    dependencies,   \* the paths of "room" events are registered
    shutdown,       \* a shutdown message has been sent
    main            \* "open", "joining" or "closed"

watcherVars == <<debounce, raw, backend, thread, left, signals, dependencies, shutdown, main>>

Kinds == {"file", "room", "noise"}

\* relevant_with_dependencies
Relevant(event) == event = "file" \/ (event = "room" /\ dependencies)

----------------------------------------------------------------------------
(* The backend *)

BackendEvent(event) ==
    /\ backend
    /\ Len(raw) + signals + (IF thread = "burst" THEN 1 ELSE 0) < MaxEvents
    /\ raw' = Append(raw, event)
    /\ UNCHANGED <<debounce, backend, thread, left, signals, dependencies, shutdown, main>>

BackendDies ==
    /\ backend /\ main = "open"
    /\ backend' = FALSE
    /\ UNCHANGED <<debounce, raw, thread, left, signals, dependencies, shutdown, main>>

----------------------------------------------------------------------------
(* The debounce thread *)

Signal == signals' = signals + 1

WaitTakes ==
    /\ thread = "wait"
    /\ raw # <<>>
    /\ raw' = Tail(raw)
    /\ \/ /\ shutdown
          /\ thread' = "gone"
          /\ UNCHANGED <<left, signals>>
       \/ /\ ~shutdown /\ ~Relevant(Head(raw))
          /\ UNCHANGED <<thread, left, signals>>
       \/ /\ ~shutdown /\ Relevant(Head(raw)) /\ debounce = 0
          /\ Signal
          /\ UNCHANGED <<thread, left>>
       \/ /\ ~shutdown /\ Relevant(Head(raw)) /\ debounce > 0
          /\ thread' = "burst"
          /\ left' = debounce
          /\ UNCHANGED signals
    /\ UNCHANGED <<debounce, backend, dependencies, shutdown, main>>

\* Mutated form: a plain `recv` waits for an event, whatever main asks.
WaitEndsBlocking ==
    /\ thread = "wait"
    /\ raw = <<>>
    /\ ~backend
    /\ thread' = "gone"
    /\ UNCHANGED <<debounce, raw, backend, left, signals, dependencies, shutdown, main>>

\* The bounded wait wakes up to look for a shutdown, or finds no backend.
WaitEnds ==
    /\ thread = "wait"
    /\ raw = <<>>
    /\ shutdown \/ ~backend
    /\ thread' = "gone"
    /\ UNCHANGED <<debounce, raw, backend, left, signals, dependencies, shutdown, main>>

\* Another relevant event extends the window.
BurstTakes ==
    /\ thread = "burst"
    /\ raw # <<>>
    /\ raw' = Tail(raw)
    /\ left' = IF Relevant(Head(raw)) THEN debounce ELSE left
    /\ thread' = IF shutdown THEN "gone" ELSE "burst"
    /\ UNCHANGED <<debounce, backend, signals, dependencies, shutdown, main>>

BurstTimesOut ==
    /\ thread = "burst"
    /\ raw = <<>>
    /\ left = 0
    /\ Signal
    /\ thread' = "wait"
    /\ UNCHANGED <<debounce, raw, backend, left, dependencies, shutdown, main>>

\* Mutated form: the burst is given up with the backend.
BurstDisconnectedSilently ==
    /\ thread = "burst"
    /\ raw = <<>>
    /\ ~backend
    /\ thread' = "gone"
    /\ UNCHANGED <<debounce, raw, backend, left, signals, dependencies, shutdown, main>>

BurstDisconnected ==
    /\ thread = "burst"
    /\ raw = <<>>
    /\ ~backend
    /\ Signal
    /\ thread' = "gone"
    /\ UNCHANGED <<debounce, raw, backend, left, dependencies, shutdown, main>>

Tick ==
    /\ thread = "burst"
    /\ left > 0
    /\ left' = left - 1
    /\ UNCHANGED <<debounce, raw, backend, thread, signals, dependencies, shutdown, main>>

----------------------------------------------------------------------------
(* The main thread *)

TakeSignal ==
    /\ main = "open"
    /\ signals > 0
    /\ signals' = signals - 1
    /\ UNCHANGED <<debounce, raw, backend, thread, left, dependencies, shutdown, main>>

SetDependencies ==
    /\ main = "open"
    /\ dependencies' \in BOOLEAN
    /\ UNCHANGED <<debounce, raw, backend, thread, left, signals, shutdown, main>>

Drop ==
    /\ main = "open"
    /\ shutdown' = TRUE
    /\ main' = "joining"
    /\ UNCHANGED <<debounce, raw, backend, thread, left, signals, dependencies>>

\* The backend is dropped only after the join, then the receiver.
Joined ==
    /\ main = "joining"
    /\ thread = "gone"
    /\ main' = "closed"
    /\ backend' = FALSE
    /\ raw' = <<>>
    /\ signals' = 0
    /\ UNCHANGED <<debounce, thread, left, dependencies, shutdown>>

----------------------------------------------------------------------------

WatcherInit ==
    /\ debounce \in Debounces
    /\ raw = <<>>
    /\ backend = TRUE
    /\ thread = "wait"
    /\ left = 0
    /\ signals = 0
    /\ dependencies = FALSE
    /\ shutdown = FALSE
    /\ main = "open"

Thread == WaitTakes \/ WaitEnds \/ BurstTakes \/ BurstTimesOut \/ BurstDisconnected

WatcherNext ==
    \/ \E event \in Kinds : BackendEvent(event)
    \/ BackendDies
    \/ Thread \/ Tick
    \/ TakeSignal \/ SetDependencies \/ Drop \/ Joined

\* The thread runs, the clock ticks, main drains its signals; and the thread
\* gets to see an empty channel at its deadline if it does so again and again.
Fairness ==
    /\ WF_watcherVars(Thread) /\ WF_watcherVars(Tick) /\ WF_watcherVars(Joined) /\ WF_watcherVars(TakeSignal)
    /\ SF_watcherVars(BurstTimesOut)

WatcherSpec == WatcherInit /\ [][WatcherNext]_watcherVars /\ Fairness

----------------------------------------------------------------------------
(* Properties *)

TypeOK ==
    /\ debounce \in Debounces
    /\ raw \in Seq(Kinds) /\ Len(raw) <= MaxEvents
    /\ backend \in BOOLEAN
    /\ thread \in {"wait", "burst", "gone"}
    /\ left \in 0 .. debounce
    /\ signals \in 0 .. MaxEvents
    /\ dependencies \in BOOLEAN
    /\ shutdown \in BOOLEAN
    /\ main \in {"open", "joining", "closed"}

\* A relevant change that the thread has, or will certainly get, to signal.
Owed == thread # "gone" /\ (thread = "burst" \/ "file" \in ToSet(raw))

Power == IF main = "closed" THEN "off"
         ELSE IF main = "joining" THEN "closing"
         ELSE IF thread = "gone" THEN "dead"
         ELSE "on"

(***************************************************************************)
(* The debouncing implements the abstract source of refresh signals: no    *)
(* relevant change is ever dropped without a signal, except by a shutdown. *)
(***************************************************************************)
Source == INSTANCE RefreshSource WITH MaxSignals <- MaxEvents, power <- Power, dirty <- Owed

ImplementsSource == Source!SourceSpec

JoinEnds == main = "joining" ~> main = "closed"

RelevantTaken == raw # <<>> /\ raw' = Tail(raw) /\ Relevant(Head(raw))
QuietBringsSignal ==
    (Owed ~> ~Owed) \/ []<><<RelevantTaken>>_watcherVars \/ <>[](raw # <<>>)

(***************************************************************************)
(* The debounce thread answers: dropping the watcher joins it, and that    *)
(* join returns, on a quiet tree as well as under a stream of events; and  *)
(* a relevant change is signalled unless the thread takes relevant changes *)
(* for ever, or never finds its channel empty: `recv_timeout(0)` prefers a *)
(* queued event, so a flood, even of noise, does hold the signal back.     *)
(***************************************************************************)
ThreadAnswers == JoinEnds /\ QuietBringsSignal
=============================================================================
