----------------------------- MODULE MCOverview -----------------------------
(* Two tasks, which ask for attention, change stage, go to the archive, or *)
(* stop parsing, in the entity directory or in a worktree.                 *)
EXTENDS Overview
File(place, stage, asks, broken) ==
    [place |-> place, stage |-> stage, asks |-> asks, broken |-> broken]
MCTasks == 1 .. 2
MCStages == {1, 2}
MCContents ==
    {File("active", 1, TRUE, "none"), File("active", 2, FALSE, "none"),
     File("active", 2, FALSE, "file"), File("active", 1, FALSE, "worktree"),
     File("archived", 2, FALSE, "none")}
MCGiven ==
    {File("active", 1, TRUE, "none"), File("active", 1, FALSE, "worktree"),
     File("archived", 2, FALSE, "none")}
=============================================================================
