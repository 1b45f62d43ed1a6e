------------------------ MODULE MCRealtimeSimulator ------------------------
(* An instance of RealtimeSimulator for TLC. *)
EXTENDS RealtimeSimulator

MCDelay == {0, 2}
=============================================================================
