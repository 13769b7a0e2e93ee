----------------------------- MODULE MCEventLoop -----------------------------
(* Two workflows under one scan root, or one of them alone.  A run starts   *)
(* before the first watcher and sees one change on disk, or one thread or   *)
(* backend die; or it starts when the watcher has just noticed a change,    *)
(* and that event is the second one.                                        *)
EXTENDS EventLoop

MCDirs == {1, 2}
MCOne == {1}

\* Workflows are good at the start; later one may be broken.
Start ==
    /\ Init
    /\ disk \in [Dirs -> {"good", "gone"}]
    /\ ~scanRoot => disk[2] = "gone"

AfterAChange ==
    /\ pc = "sync"
    /\ disk = [d \in Dirs |-> IF d = 1 THEN "good" ELSE "broken"]
    /\ mode = "Overview" /\ room = NoRoom /\ overlay = <<>>
    /\ scanRoot = TRUE
    /\ session = FromDiscovery(<<1, 2>>, [LoadedSlot(1) EXCEPT !.behind = "watched"])
    /\ pendingSwitch = "none" /\ pendingOverlay = FALSE /\ pendingSync = FALSE
    /\ power = "on" /\ dirty = TRUE /\ signals = 0 /\ watchError = FALSE
    /\ history = [dir |-> 1, at |-> "running"]
    /\ scan = NoWorker /\ rescan = FALSE /\ scanners = 0
    /\ changes = 0 /\ panics = 0

MCSpec ==
    (Start \/ AfterAChange) /\ [][Next]_vars /\ WF_vars(Main) /\ WF_vars(WatcherSignals)
=============================================================================
