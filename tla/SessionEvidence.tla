-------------------------- MODULE SessionEvidence --------------------------
(***************************************************************************)
(* What the scan of session logs promises: whatever is read, in however    *)
(* many pieces, while agents write, is as if all logs had been read whole  *)
(* at one instant.  Facts once seen are kept; a log that could not be read *)
(* is named.                                                               *)
(***************************************************************************)
EXTENDS Naturals, Sequences

CONSTANTS Logs, Absent

VARIABLES
    disk,           \* the logs: their complete lines, what is torn, a time
    recorded,       \* <<log, position, line>> of every fact ever published
    errors          \* logs the last published scan could not read

vars == <<disk, recorded, errors>>

Facts(d, f) == IF d[f] = Absent THEN {}
               ELSE {<<f, i, d[f].lines[i]>> : i \in DOMAIN d[f].lines}

FactsOf(d, F) == UNION {Facts(d, f) : f \in F}

Init == recorded = {} /\ errors = {}

\* Agents write, rotate and remove their logs as they like.
Write == disk' # disk /\ UNCHANGED <<recorded, errors>>

\* Of a log that could not be read to the end, some facts may get in.
Publish(unread) ==
    LET whole == recorded \cup FactsOf(disk, Logs \ unread) IN
    /\ whole \subseteq recorded'
    /\ recorded' \subseteq whole \cup FactsOf(disk, unread)
    /\ errors' = unread
    /\ UNCHANGED disk

Next == Write \/ \E unread \in SUBSET Logs : Publish(unread)

Spec == Init /\ [][Next]_vars
=============================================================================
