----------------------------- MODULE MCWatchdog -----------------------------
(* An instance of Watchdog for TLC. *)
EXTENDS Watchdog

MCDelay == {0, 1, 3}
=============================================================================
