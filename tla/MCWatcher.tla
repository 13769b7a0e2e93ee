------------------------------ MODULE MCWatcher ------------------------------
(* Three events on their way; a window of two ticks, or none.                 *)
EXTENDS Watcher
=============================================================================
