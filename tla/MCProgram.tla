----------------------------- MODULE MCProgram -----------------------------
(* Two workflows with an active task and two archived ones each.           *)
EXTENDS Program
MCTasks == [scope \in Scopes |-> IF scope = "active" THEN <<1>> ELSE <<2, 3>>]
=============================================================================
