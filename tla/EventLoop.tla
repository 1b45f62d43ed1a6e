----------------------------- MODULE EventLoop ------------------------------
(***************************************************************************)
(* What the Simulator class promises of its events (the class comment and  *)
(* the comments of Schedule, Cancel, Remove, Run in src/core/model/        *)
(* simulator.h), without ids, flags, threads or locks: an agenda ordered   *)
(* by time, first come first served at equal times; events that other      *)
(* threads have posted wait, in order, until the loop takes them over.     *)
(***************************************************************************)
EXTENDS Naturals, Sequences, SequencesExt

CONSTANTS Event, Delay

VARIABLES
    now,      \* simulation time
    agenda,   \* sequence of [ts, impl]
    waiting,  \* sequence of [delay, impl]: posted, not yet on the agenda
    off,      \* events that were cancelled or removed
    ran,      \* events that have been executed
    over      \* the simulator has been destroyed

vars == <<now, agenda, waiting, off, ran, over>>

Init == /\ now = 0 /\ agenda = <<>> /\ waiting = <<>>
        /\ off = {} /\ ran = {} /\ over = FALSE

\* The place of a new entry: behind everything due at the same time or before.
Place(ts) == 1 + Cardinality({i \in DOMAIN agenda : agenda[i].ts <= ts})

Enter(e, ts) == agenda' = InsertAt(agenda, Place(ts), [ts |-> ts, impl |-> e])

Schedule(e, d) == /\ Enter(e, now + d)
                  /\ UNCHANGED <<now, waiting, off, ran, over>>

Post(e, d) == /\ waiting' = Append(waiting, [delay |-> d, impl |-> e])
              /\ UNCHANGED <<now, agenda, off, ran, over>>

\* The delay of a posted event counts from the moment it is taken over.
Accept == /\ waiting # <<>>
          /\ Enter(Head(waiting).impl, now + Head(waiting).delay)
          /\ waiting' = Tail(waiting)
          /\ UNCHANGED <<now, off, ran, over>>

\* A cancelled entry stays, and time still advances to it.
Cancel(e) == /\ off' = off \cup {e}
             /\ UNCHANGED <<now, agenda, waiting, ran, over>>

\* A removed one does not.
Withdraw(i) == /\ agenda' = RemoveAt(agenda, i)
               /\ agenda[i].impl \notin off
               /\ off' = off \cup {agenda[i].impl}
               /\ UNCHANGED <<now, waiting, ran, over>>

\* The first entry of the agenda: no event runs twice.
Fire == /\ agenda # <<>>
        /\ now' = Head(agenda).ts
        /\ agenda' = Tail(agenda)
        /\ IF Head(agenda).impl \in off
           THEN UNCHANGED ran
           ELSE Head(agenda).impl \notin ran /\ ran' = ran \cup {Head(agenda).impl}
        /\ UNCHANGED <<waiting, off, over>>

\* Destroy drops the agenda.
Drop == /\ ~over /\ over' = TRUE
        /\ agenda' = <<>>
        /\ UNCHANGED <<now, waiting, off, ran>>

Next == \/ \E e \in Event, d \in Delay : Schedule(e, d) \/ Post(e, d)
        \/ \E e \in Event : Cancel(e)
        \/ \E i \in DOMAIN agenda : Withdraw(i)
        \/ Accept \/ Fire \/ Drop

Spec == Init /\ [][Next]_vars
=============================================================================
