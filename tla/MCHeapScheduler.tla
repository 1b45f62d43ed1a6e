--------------------------- MODULE MCHeapScheduler --------------------------
(* An instance of HeapScheduler for TLC: eight events are four levels of   *)
(* heap, and some are due at the same time.                                *)
EXTENDS HeapScheduler

MCKey == {[ts |-> 0, uid |-> 5], [ts |-> 0, uid |-> 7], [ts |-> 1, uid |-> 4],
          [ts |-> 2, uid |-> 6], [ts |-> 2, uid |-> 8], [ts |-> 3, uid |-> 9],
          [ts |-> 4, uid |-> 11], [ts |-> 5, uid |-> 10]}
=============================================================================
