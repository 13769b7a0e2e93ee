-------------------------- MODULE MCWorkflowSync --------------------------
(* A definition checkout, a state directory inside it, and a second        *)
(* directory outside it that the state path can be linked to.              *)
EXTENDS WorkflowSync
CONSTANTS D, S, X, agreed, other
MCCheckouts == {D, S, X}
MCPaths == {S}
MCInside == {D, S}
MCBranches == {agreed, other}

\* The second directory starts on the agreed branch; it takes one act of
\* another process to find it on the other.
MCInit == Init /\ head[X] = agreed
MCSpec == MCInit /\ [][Next]_vars /\ WF_vars(pc # "idle" /\ SyncStep)
=============================================================================
