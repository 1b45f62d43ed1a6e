--------------------------- MODULE MCSetScheduler ---------------------------
(* An instance of SetScheduler for TLC: enough events for the calendar to   *)
(* grow to its largest number of buckets, also during the move, and to      *)
(* shrink to one, with neighbours, ties, a gap of several years, and ids    *)
(* that do not follow the times.                                            *)
EXTENDS SetScheduler

MCKey == {[ts |-> 0, uid |-> 5], [ts |-> 1, uid |-> 4], [ts |-> 1, uid |-> 6],
          [ts |-> 4, uid |-> 8], [ts |-> 7, uid |-> 10], [ts |-> 7, uid |-> 9],
          [ts |-> 30, uid |-> 12]}
=============================================================================
