------------------------- MODULE MCDefaultSimulator -------------------------
(* Instances of DefaultSimulator for TLC.                                   *)
EXTENDS DefaultSimulator, TLC

MCDelay == {0, 1}

\* Events and threads are interchangeable.
Symmetry == Permutations(Event) \cup Permutations(Thread)
=============================================================================
