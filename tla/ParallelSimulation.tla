-------------------------- MODULE ParallelSimulation -------------------------
(***************************************************************************)
(* What both distributed simulators of src/mpi promise: a conservative     *)
(* parallel simulation.  A process executes its events in the order of     *)
(* their times, those that other processes have sent and that it has not   *)
(* received yet included; none is lost or doubled on the way.  So nobody   *)
(* ever has to roll back, whatever the processes know of one another.      *)
(***************************************************************************)
EXTENDS LogicalProcesses, Bags

VARIABLES
    clock,     \* clock[r]: the time of the event that r runs or ran last
    pending    \* pending[r]: a bag of times, of events listed or in flight

Init ==
    /\ clock = [r \in Rank |-> 0]
    /\ \A r \in Rank : IsABag(pending[r])

\* A handler of r adds events to what is left: of its own at any time from
\* now on, of another process no sooner than a link delay from now.
Spawn(r, left) ==
    \A q \in Rank :
        /\ left[q] \sqsubseteq pending'[q]
        /\ \A t \in BagToSet(pending'[q] (-) left[q]) :
              IF q = r
              THEN clock'[r] <= t
              ELSE /\ clock[q] <= t
                   /\ \E l \in LinksOf(r) : Remote(l, r) = q /\ clock'[r] + LinkDelay[l] <= t

\* No event of r is due before time t.
Due(r, t) == \A s \in BagToSet(pending[r]) : t <= s

Execute(r) ==
    \E t \in BagToSet(pending[r]) :
        /\ Due(r, t)
        /\ clock' = [clock EXCEPT ![r] = t]
        /\ Spawn(r, [pending EXCEPT ![r] = @ (-) SetToBag({t})])

\* An event that is only the simulator's own moves the clock.
Advance(r) ==
    /\ Due(r, clock'[r])
    /\ clock[r] <= clock'[r]
    /\ clock' = [clock EXCEPT ![r] = clock'[r]]
    /\ UNCHANGED pending

\* A handler that executes makes another call.
Call(r) ==
    /\ UNCHANGED clock
    /\ Spawn(r, pending)

Next == \E r \in Rank : Execute(r) \/ Advance(r) \/ Call(r)

Spec == Init /\ [][Next]_<<clock, pending>>
=============================================================================
