----------------------------- MODULE MCWatcher -----------------------------
(* An instance of Watcher for TLC. *)
EXTENDS Watcher

CONSTANTS a, h

MCPaths == {a, h}
MCHidden == {h}
MCTimers == 1..2
MCNoTimer == 0
=============================================================================
