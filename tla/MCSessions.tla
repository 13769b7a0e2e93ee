----------------------------- MODULE MCSessions -----------------------------
(* The reading of session logs, with one log that is appended to and one    *)
(* metadata file; and what is made of a reading, with one first officer,    *)
(* two entities and two agents.                                             *)
(*                                                                         *)
(* SessionEvidence is what the first promises the second: all records of    *)
(* one instant.  So a behaviour is of one of the two, and the other stays   *)
(* at its start.                                                            *)
EXTENDS SessionLogs

CONSTANTS Entities, Workers, MaxRecords, MaxClaudeRecords

VARIABLES
    level,          \* "logs" or "agents"
    runtime, log, fo, worker

Work == INSTANCE Activity

ASSUME MCActivityConstants == Work!ActivityConstants

MCLogs == {1, 2}
MCWhole == {2}
MCWorkers == {1, 2}

workVars == <<runtime, log, fo, worker>>
bothVars == <<level, vars, workVars>>

\* The logs are read alike for either runtime.
MCInit ==
    /\ level \in {"logs", "agents"} /\ Init /\ Work!Init
    /\ level = "logs" => runtime = "codex"

OnlyLogs == level = "logs" /\ UNCHANGED <<level, workVars>>
OnlyAgents == level = "agents" /\ UNCHANGED <<level, vars>>

LogStep == Next /\ OnlyLogs
\* Claude agents need fewer records to do all they can.
AgentStep ==
    /\ runtime = "claude" => Len(log) < MaxClaudeRecords
    /\ Work!Next /\ OnlyAgents
MCNext == LogStep \/ AgentStep

MCSpec == MCInit /\ [][MCNext]_bothVars /\ WF_bothVars(Scanner /\ OnlyLogs)

NeverPhantom == Work!NeverPhantom
WorkIsShown == Work!WorkIsShown
=============================================================================
