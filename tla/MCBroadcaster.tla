---------------------------- MODULE MCBroadcaster ----------------------------
(* An instance of Broadcaster for TLC, with two coroutines that change a     *)
(* machine; MCProcesses has one with two dashboards.                         *)
EXTENDS Broadcaster
=============================================================================
