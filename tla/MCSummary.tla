------------------------------ MODULE MCSummary ------------------------------
(* Two tasks, one edit of each, two requests and room for one summary; and *)
(* one call of the provider, with two chunks of input, pipes of one and one *)
(* chunk of output kept.                                                    *)
(*                                                                         *)
(* A thread of Summary is only its beginning and its answer, and what it    *)
(* does in between is ProviderProcess.  A behaviour is of one of the two,   *)
(* the other stays at its start.                                            *)
EXTENDS Summary

CONSTANTS Input, Room, Limit, MaxWrites

VARIABLES
    level,          \* "requests" or "process"
    sup, child, other, pipe, wrote, scratch, pid, cancel, late

Process == INSTANCE ProviderProcess

ASSUME MCProviderConstants == Process!ProviderConstants

processVars == <<sup, child, other, pipe, wrote, scratch, pid, cancel, late>>
bothVars == <<level, vars, processVars>>

MCInit ==
    /\ level \in {"requests", "process"} /\ Init /\ Process!Init
    /\ level = "process" => selected = CHOOSE t \in Tasks : TRUE

OnlyRequests == level = "requests" /\ UNCHANGED <<level, processVars>>
OnlyProcess == level = "process" /\ UNCHANGED <<level, vars>>

RequestStep == Next /\ OnlyRequests
ProcessStep == Process!Next /\ OnlyProcess
MCNext == RequestStep \/ ProcessStep

MCSpec ==
    /\ MCInit /\ [][MCNext]_bothVars
    /\ WF_bothVars(Frame /\ OnlyRequests)
    /\ \A n \in 1 .. MaxRequests : WF_bothVars(Provider(n) /\ OnlyRequests)
    /\ WF_bothVars(Process!Supervisor /\ OnlyProcess)
    /\ WF_bothVars(Process!Child /\ OnlyProcess)
    /\ WF_bothVars(/\ child.is = "stalled" \/ other = "escaped"
                   /\ Process!Deadline /\ OnlyProcess)

\* An answer is what was asked for, whole, and nothing of the asking is left: no
\* summary is kept that the user gave up, and a call of the provider leaves no
\* process and no file behind and takes no truncated output.
AnswersAreSound == CanceledNotKept /\ Process!CallIsClean

Returns == level = "process" => Process!Returns

\* Nothing that was started goes on for ever: the user's wait ends, quitting
\* ends, and the call of the provider returns, although supervisor and child
\* use each other's pipes and an escaped process may keep them open.
AllEnds == WaitEnds /\ QuitEnds /\ Returns
=============================================================================
