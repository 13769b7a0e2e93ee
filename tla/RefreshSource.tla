---------------------------- MODULE RefreshSource ----------------------------
(***************************************************************************)
(* What a filesystem watcher promises to the event loop: a relevant change *)
(* is followed by a RefreshSignal, whatever the debouncing in between, and *)
(* only closing the watcher may forget one.                                *)
(***************************************************************************)
EXTENDS Naturals

CONSTANT MaxSignals     \* bound: signals waiting in the channel

VARIABLES
    power,      \* "on", "dead" (the backend is gone), "closing" (Drop is
                \* joining the thread) or "off"
    dirty,      \* a relevant change has been noticed and not yet signalled
    signals     \* RefreshSignals in the channel

sourceVars == <<power, dirty, signals>>

SourceTypeOK ==
    /\ power \in {"on", "dead", "closing", "off"}
    /\ dirty \in BOOLEAN
    /\ signals \in 0 .. MaxSignals

Started == power = "on" /\ dirty = FALSE /\ signals = 0
Absent == power = "off" /\ dirty = FALSE /\ signals = 0

Notice ==
    /\ power \in {"on", "closing"}
    /\ dirty' = TRUE
    /\ UNCHANGED <<power, signals>>

\* A signal answers what was noticed before it, or only part of it; and a
\* change that is nobody's business here may be signalled too.
Emit ==
    /\ power \in {"on", "closing"}
    /\ signals < MaxSignals
    /\ signals' = signals + 1
    /\ dirty' \in {dirty, FALSE}
    /\ UNCHANGED power

Take ==
    /\ power \in {"on", "dead"}
    /\ signals > 0
    /\ signals' = signals - 1
    /\ UNCHANGED <<power, dirty>>

\* The backend goes away: what it had delivered is still signalled.
Die ==
    /\ power = "on"
    /\ dirty => signals < MaxSignals
    /\ power' = "dead"
    /\ signals' = IF dirty THEN signals + 1 ELSE signals
    /\ dirty' = FALSE

Close ==
    /\ power \in {"on", "dead"}
    /\ power' = "closing"
    /\ UNCHANGED <<dirty, signals>>

\* Only while it is being closed may a watcher forget a change.
Forget ==
    /\ power = "closing"
    /\ dirty' = FALSE
    /\ UNCHANGED <<power, signals>>

Stop ==
    /\ power = "closing"
    /\ power' = "off"
    /\ dirty' = FALSE
    /\ signals' = 0

SourceNext == Notice \/ Emit \/ Take \/ Die \/ Close \/ Forget \/ Stop

SourceSpec == Started /\ [][SourceNext]_sourceVars
=============================================================================
