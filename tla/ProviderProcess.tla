-------------------------- MODULE ProviderProcess --------------------------
(***************************************************************************)
(* One call of `summary::generate`: the scratch directory, the provider's  *)
(* command in a process group of its own, and the two polling loops of     *)
(* `process::run` that feed it, read it and end it, next to the child, a   *)
(* process the child may leave behind, the clock and the user's Cancel.    *)
(* Input and output are counted in chunks, a read or a write moves one.    *)
(***************************************************************************)
EXTENDS Naturals

CONSTANTS
    Input,          \* chunks of the prompt
    Room,           \* chunks a pipe holds
    Limit,          \* chunks of output, and of errors, that are kept
    MaxWrites       \* bound: chunks written to either pipe

\* Assumed by the module that composes this one.
ProviderConstants ==
    /\ {Input, Room} \subseteq Nat \ {0} /\ {Limit, MaxWrites} \subseteq Nat

Fds == {"out", "err"}

VARIABLES
    sup,            \* the supervising thread
    child,          \* the provider
    other,          \* a process the child started
    pipe,           \* chunks in the three pipes
    wrote,          \* chunks ever written to the output pipes
    scratch,        \* the scratch directory exists
    pid,            \* who has the child's process id
    cancel, late    \* Cancel was asked for; 45 seconds have passed

vars == <<sup, child, other, pipe, wrote, scratch, pid, cancel, late>>
outside == <<child, other, pipe, wrote, pid, cancel, late>>

Alive == child.is \in {"runs", "blocked", "stalled"}
Killable == Alive \/ child.is = "zombie"
Returned == sup.at = "returned"

\* Who can still write to the output pipes.
Writers == (IF Alive THEN {"child"} ELSE {})
           \cup (IF other \in {"group", "escaped"} THEN {"other"} ELSE {})

----------------------------------------------------------------------------
(* The supervisor *)

At(step) == sup.at = step
Go(step) == sup' = [sup EXCEPT !.at = step]

\* `?` and `return Err`: dropping Tracked ends the group and the child, unless
\* that is done already.
Fail(error) ==
    sup' = [sup EXCEPT !.at = IF sup.exit = "known" THEN "cleanup" ELSE "kill",
                       !.result = error]

\* Before there is a child: the prompt is too long, no scratch directory can
\* be made, Cancel came first.
Refuse ==
    /\ At("start")
    /\ \E error \in {"InputLimit", "Process"} \cup (IF cancel THEN {"Canceled"} ELSE {}) :
          sup' = [sup EXCEPT !.at = "returned", !.result = error]
    /\ UNCHANGED <<outside, scratch>>

MakeScratch ==
    /\ At("start") /\ scratch' = TRUE /\ Go("spawn")
    /\ UNCHANGED outside

\* The command is not there, or cannot be started, or Cancel came.
SpawnFails ==
    /\ At("spawn")
    /\ \E error \in {"Unavailable", "Process"} \cup (IF cancel THEN {"Canceled"} ELSE {}) :
          sup' = [sup EXCEPT !.at = "cleanup", !.result = error]
    /\ UNCHANGED <<outside, scratch>>

Spawn ==
    /\ At("spawn") /\ ~cancel
    /\ child' = [child EXCEPT !.is = "runs"] /\ pid' = "child" /\ Go("setup")
    /\ UNCHANGED <<other, pipe, wrote, cancel, late, scratch>>

\* Three fcntl calls, any of which may fail.
Setup ==
    /\ At("setup") /\ (Go("poll") \/ Fail("Process"))
    /\ UNCHANGED <<outside, scratch>>

\* Mutated form: no deadline once the input is written.
OutOfTimeWhileWriting == late /\ sup.loop = 1

OutOfTime == late

\* The head of either loop.
Poll ==
    /\ At("poll")
    /\ \/ cancel /\ Fail("Canceled")
       \/ ~cancel /\ OutOfTime /\ Fail("Timeout")
       \/ ~cancel /\ ~OutOfTime /\ Go(IF sup.loop = 1 THEN "write" ELSE "out")
    /\ UNCHANGED <<outside, scratch>>

\* The input is written or the child does not want it: stdin is dropped.
SecondLoop == sup' = [sup EXCEPT !.at = "poll", !.loop = 2, !.stdin = FALSE]

\* A write to the child: what fits, or an error that ends the input; another
\* process may have inherited the reading end.
WriteInput ==
    /\ At("write")
    /\ \/ /\ child.reads /\ pipe["in"] < Room
          /\ pipe' = [pipe EXCEPT !["in"] = @ + 1]
          /\ IF sup.left = 1
             THEN sup' = [sup EXCEPT !.left = 0, !.at = "poll", !.loop = 2, !.stdin = FALSE]
             ELSE sup' = [sup EXCEPT !.left = @ - 1, !.at = "out"]
       \/ /\ IF child.reads THEN pipe["in"] = Room ELSE "other" \in Writers
          /\ Go("out") /\ UNCHANGED pipe
       \/ /\ ~child.reads
          /\ SecondLoop /\ UNCHANGED pipe
    /\ UNCHANGED <<child, other, wrote, pid, cancel, late, scratch>>

After(fd) == IF fd = "out" THEN "err" ELSE "exited"

\* drain: a chunk, the end of the pipe, nothing yet, or one chunk too many
Drain(fd) ==
    /\ At(fd)
    /\ \/ /\ sup.done[fd] /\ Go(After(fd)) /\ UNCHANGED pipe
       \/ /\ ~sup.done[fd] /\ pipe[fd] > 0
          /\ pipe' = [pipe EXCEPT ![fd] = @ - 1]
          /\ IF sup.got[fd] = Limit THEN Fail("OutputLimit")
             ELSE sup' = [sup EXCEPT !.got[fd] = @ + 1, !.at = After(fd)]
       \/ /\ ~sup.done[fd] /\ pipe[fd] = 0
          /\ sup' = [sup EXCEPT !.done[fd] = (Writers = {}), !.at = After(fd)]
          /\ UNCHANGED pipe
    /\ UNCHANGED <<child, other, wrote, pid, cancel, late, scratch>>

\* Tracked::exited: waitid with NOWAIT leaves the child as it is.
SeesExit == child.is = "zombie" /\ UNCHANGED <<child, pid>>

\* The first loop ends with the child; the second ends the group.
Exited ==
    /\ At("exited") /\ sup.exit = "unknown"
    /\ \/ /\ sup.loop = 1 /\ SeesExit /\ SecondLoop
       \/ /\ sup.loop = 2 /\ SeesExit /\ Go("kill")
       \/ /\ child.is # "zombie" /\ Go("return") /\ UNCHANGED <<child, pid>>
       \/ /\ Fail("Process") /\ UNCHANGED <<child, pid>>    \* waitid fails
    /\ UNCHANGED <<other, pipe, wrote, cancel, late, scratch>>

ExitKnown ==
    /\ At("exited") /\ sup.exit # "unknown" /\ Go("return")
    /\ UNCHANGED <<outside, scratch>>

\* Mutated form: the child alone is killed.
KillChild ==
    /\ child' = IF Killable THEN [child EXCEPT !.is = "zombie", !.reads = FALSE] ELSE child
    /\ pid' = IF pid = "stranger" THEN "killed" ELSE pid
    /\ UNCHANGED other

\* kill_process_group and Child::kill
KillGroup ==
    /\ child' = IF Killable THEN [child EXCEPT !.is = "zombie", !.reads = FALSE] ELSE child
    /\ pid' = IF pid = "stranger" THEN "killed" ELSE pid
    /\ other' = IF other = "group" THEN "gone" ELSE other

\* Tracked::finish, up to the wait
Kill ==
    /\ At("kill") /\ KillGroup /\ Go("wait")
    /\ UNCHANGED <<pipe, wrote, cancel, late, scratch>>

\* The child is dead and is reaped; with a result the call is over.
Reap ==
    /\ At("wait") /\ child.is \in {"zombie", "reaped"}
    /\ child' = [child EXCEPT !.is = "reaped"]
    /\ pid' = IF pid = "child" THEN "nobody" ELSE pid
    /\ sup' = IF sup.result = "" THEN [sup EXCEPT !.exit = "known", !.at = "return"]
              ELSE [sup EXCEPT !.at = "cleanup"]
    /\ UNCHANGED <<other, pipe, wrote, cancel, late, scratch>>

Complete == sup.loop = 2 /\ sup.exit = "known" /\ \A fd \in Fds : sup.done[fd]

\* The end of a round; a failed provider or answer is the caller's error.
Return ==
    /\ At("return")
    /\ \/ /\ Complete
          /\ \E result \in {"Ok", "Provider", "Output"} :
                sup' = [sup EXCEPT !.at = "cleanup", !.result = result]
       \/ ~Complete /\ Go("poll")
    /\ UNCHANGED <<outside, scratch>>

\* Scratch is dropped when `generate` returns.
Cleanup ==
    /\ At("cleanup") /\ scratch' = FALSE /\ Go("returned")
    /\ UNCHANGED outside

Supervisor ==
    \/ Refuse \/ MakeScratch \/ SpawnFails \/ Spawn \/ Setup \/ Poll \/ WriteInput
    \/ \E fd \in Fds : Drain(fd)
    \/ Exited \/ ExitKnown \/ Kill \/ Reap \/ Return \/ Cleanup

----------------------------------------------------------------------------
(* The provider and what it starts *)

inside == <<sup, scratch, cancel, late>>
Busy == child.is = "runs"

\* It blocks in a read of its input, or in a write.
Block(fd) ==
    /\ Busy
    /\ fd = "in" => child.reads
    /\ fd \in Fds => wrote[fd] < MaxWrites
    /\ child' = [child EXCEPT !.is = "blocked", !.on = fd]
    /\ UNCHANGED <<other, pipe, wrote, pid, inside>>

\* The read returns a chunk or the end of the input.
Read ==
    /\ child.is = "blocked" /\ child.on = "in"
    /\ pipe["in"] > 0 \/ ~sup.stdin
    /\ pipe' = [pipe EXCEPT !["in"] = IF @ > 0 THEN @ - 1 ELSE @]
    /\ child' = [child EXCEPT !.is = "runs", !.on = "", !.reads = pipe["in"] > 0]
    /\ UNCHANGED <<other, wrote, pid, inside>>

Put(fd) ==
    /\ pipe[fd] < Room /\ wrote[fd] < MaxWrites
    /\ pipe' = [pipe EXCEPT ![fd] = @ + 1]
    /\ wrote' = [wrote EXCEPT ![fd] = @ + 1]

WriteOutput ==
    /\ child.is = "blocked" /\ child.on \in Fds
    /\ IF wrote[child.on] < MaxWrites THEN Put(child.on) ELSE UNCHANGED <<pipe, wrote>>
    /\ child' = [child EXCEPT !.is = "runs", !.on = ""]
    /\ UNCHANGED <<other, pid, inside>>

CloseInput ==
    /\ Busy /\ child.reads
    /\ child' = [child EXCEPT !.reads = FALSE]
    /\ UNCHANGED <<other, pipe, wrote, pid, inside>>

\* A process of its own, in its group or in a new session.
Fork ==
    /\ Busy /\ other = "none"
    /\ other' \in {"group", "escaped"}
    /\ UNCHANGED <<child, pipe, wrote, pid, inside>>

Stall ==
    /\ Busy /\ child' = [child EXCEPT !.is = "stalled"]
    /\ UNCHANGED <<other, pipe, wrote, pid, inside>>

Exit ==
    /\ Busy /\ child' = [child EXCEPT !.is = "zombie", !.reads = FALSE]
    /\ UNCHANGED <<other, pipe, wrote, pid, inside>>

Child ==
    \/ \E fd \in Fds \cup {"in"} : Block(fd)
    \/ Read \/ WriteOutput \/ CloseInput \/ Exit

OtherWrites ==
    /\ other \in {"group", "escaped"} /\ \E fd \in Fds : Put(fd)
    /\ UNCHANGED <<child, other, pid, inside>>

OtherExits ==
    /\ other \in {"group", "escaped"} /\ other' = "gone"
    /\ UNCHANGED <<child, pipe, wrote, pid, inside>>

\* The kernel gives the id of a reaped leader of an empty group to another.
Reuse ==
    /\ pid = "nobody" /\ child.is = "reaped" /\ other # "group"
    /\ ~Returned
    /\ pid' = "stranger"
    /\ UNCHANGED <<child, other, pipe, wrote, inside>>

Cancel ==
    /\ ~cancel /\ ~Returned /\ cancel' = TRUE
    /\ UNCHANGED <<sup, child, other, pipe, wrote, scratch, pid, late>>

Deadline ==
    /\ ~late /\ ~Returned /\ late' = TRUE
    /\ UNCHANGED <<sup, child, other, pipe, wrote, scratch, pid, cancel>>

Init ==
    /\ sup = [at |-> "start", loop |-> 1, left |-> Input, stdin |-> TRUE,
              got |-> [fd \in Fds |-> 0], done |-> [fd \in Fds |-> FALSE],
              exit |-> "unknown", result |-> ""]
    /\ child = [is |-> "none", on |-> "", reads |-> TRUE]
    /\ other = "none" /\ pid = "nobody"
    /\ pipe = [fd \in Fds \cup {"in"} |-> 0] /\ wrote = [fd \in Fds |-> 0]
    /\ scratch = FALSE /\ cancel = FALSE /\ late = FALSE

Next == Supervisor \/ Child \/ Fork \/ Stall \/ OtherWrites \/ OtherExits
        \/ Reuse \/ Cancel \/ Deadline

\* The supervisor runs, and so does a child that does not stall.  Time is
\* only counted on where the child or what it left behind does nothing more.
Fairness ==
    /\ WF_vars(Supervisor) /\ WF_vars(Child)
    /\ WF_vars((child.is = "stalled" \/ other = "escaped") /\ Deadline)

Spec == Init /\ [][Next]_vars /\ Fairness

----------------------------------------------------------------------------
(* Properties *)

NothingLeftRunning ==
    Returned => /\ child.is \in {"none", "reaped"}
                /\ other # "group"
                /\ ~scratch

KillsOnlyItsOwn == pid # "killed"

OutputIsWhole ==
    Returned /\ sup.result \in {"Ok", "Provider", "Output"} =>
        \A fd \in Fds : sup.got[fd] = wrote[fd] /\ wrote[fd] <= Limit

(***************************************************************************)
(* However the call ends, nothing of it is left: the child is reaped, no   *)
(* process of its group runs, the scratch directory is gone; and no signal *)
(* went to a process that only has the child's old id.  An answer is only  *)
(* taken from complete output: all that was written to either pipe, by the *)
(* child or by what it left behind, within the limits.                     *)
(***************************************************************************)
CallIsClean == NothingLeftRunning /\ KillsOnlyItsOwn /\ OutputIsWhole

(***************************************************************************)
(* The call returns: supervisor and child never wait for each other's      *)
(* pipe, and neither a child that stalls nor an escaped process that keeps *)
(* the pipes open holds it past the deadline.                              *)
(***************************************************************************)
Returns == <>Returned
=============================================================================
