--------------------------- MODULE LogicalProcesses --------------------------
(***************************************************************************)
(* A simulation that is distributed over MPI ranks (src/mpi): each rank is *)
(* a logical process that simulates its own nodes; nodes of two ranks are  *)
(* joined by point-to-point links only, whose delay is the look-ahead.     *)
(***************************************************************************)
EXTENDS Integers, FiniteSets

CONSTANTS
    Rank,        \* the processes
    Link,        \* the remote point-to-point channels
    Ends,        \* Ends[l]: the two ranks that l joins
    LinkDelay,   \* LinkDelay[l]: the attribute "Delay" of the channel
    Infinity     \* GetMaximumSimulationTime

ASSUME LinkAssumption ==
    /\ Infinity \in Nat
    /\ Rank # {} /\ IsFiniteSet(Rank)
    /\ \A l \in Link : \E a, b \in Rank : a # b /\ Ends[l] = {a, b}
    /\ LinkDelay \in [Link -> 0..Infinity]

LinksOf(r) == {l \in Link : r \in Ends[l]}

\* The rank at the other end of l.
Remote(l, r) == CHOOSE q \in Ends[l] : q # r

Smallest(S) == CHOOSE x \in S : \A y \in S : x <= y
Largest(S)  == CHOOSE x \in S : \A y \in S : y <= x
=============================================================================
