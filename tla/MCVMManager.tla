---------------------------- MODULE MCVMManager ----------------------------
(* The instances of VMManager.tla that TLC checks.                         *)
EXTENDS VMManager

AllFaults == {"error", "lost", "failed"}
=============================================================================
