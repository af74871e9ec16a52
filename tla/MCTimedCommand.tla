---------------------------- MODULE MCTimedCommand ----------------------------
(* Constants for model checking TimedCommand: concurrent calls, of         *)
(* emulators with and without timeout_seconds.                             *)
EXTENDS TimedCommand
=============================================================================
