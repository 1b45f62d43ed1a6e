------------------------------- MODULE Timer --------------------------------
(***************************************************************************)
(* src/core/model/timer.cc: a Timer and the events that it schedules with  *)
(* the simulator.  Of the simulator only what the timer sees is kept: the  *)
(* clock, and which of the timer's events are still to come (scheduled and *)
(* not cancelled, removed or run), for EventId::IsRunning is exactly that  *)
(* (DefaultSimulator's ExpiredIsExact).  Other events may call the timer   *)
(* at any time, and so may its own function.                               *)
(***************************************************************************)
EXTENDS Integers, FiniteSets

CONSTANTS
    Delay,         \* delays given to Schedule
    MaxTime,       \* bound on the clock
    MaxEvents,     \* bound on the number of events scheduled
    Policy,        \* destroy policies that timers are constructed with
    Suspendable,   \* those with which the user calls Suspend
    Careless,      \* the user calls Schedule on a suspended timer
    NotArmed       \* no time is left to run

DestroyPolicy == {"CANCEL_ON_DESTROY", "REMOVE_ON_DESTROY", "CHECK_ON_DESTROY"}

ASSUME ConstantsAssumption ==
    /\ Delay \subseteq Nat /\ MaxTime \in Nat /\ MaxEvents \in Nat
    /\ Policy \subseteq DestroyPolicy /\ Suspendable \subseteq Policy
    /\ Careless \in BOOLEAN /\ NotArmed \notin Nat

VARIABLES
    now,          \* Simulator::Now
    pending,      \* the timer's events that are to come: set of [ts, id]
    scheduled,    \* number of events scheduled so far, the id of the last
    m_event,      \* id of the event that m_event refers to, 0 if none
    suspended,    \* TIMER_SUSPENDED in m_flags
    m_delayLeft,
    policy,       \* the policy in m_flags
    alive,        \* the destructor has not run
    left          \* what is left to run by the calls made, or NotArmed

simulator == <<now, pending, scheduled>>
members == <<m_event, suspended, m_delayLeft, policy>>
vars == <<simulator, members, alive, left>>

Init == /\ now = 0 /\ pending = {} /\ scheduled = 0
        /\ m_event = 0 /\ suspended = FALSE /\ m_delayLeft = 0
        /\ policy \in Policy
        /\ alive = TRUE
        /\ left = NotArmed

EventOf(id) == {p \in pending : p.id = id}
EventIsRunning == EventOf(m_event) # {}

EventDelayLeft == IF EventIsRunning
                  THEN (CHOOSE p \in EventOf(m_event) : TRUE).ts - now ELSE 0

IsRunning == ~suspended /\ EventIsRunning
IsExpired == ~suspended /\ ~EventIsRunning

GetDelayLeft == IF IsRunning THEN EventDelayLeft
                ELSE IF IsExpired THEN 0 ELSE m_delayLeft

\* m_event = m_impl->Schedule(delay).
ScheduleEvent(delay) ==
    /\ scheduled < MaxEvents
    /\ scheduled' = scheduled + 1
    /\ m_event' = scheduled + 1
    /\ pending' = pending \cup {[ts |-> now + delay, id |-> scheduled + 1]}

\* m_event.Cancel() or m_event.Remove(): nothing if it has expired.
DropEvent == pending' = pending \ EventOf(m_event)

\* NS_FATAL_ERROR ends the program if the event is still running.
Schedule(delay) ==
    /\ alive
    /\ ~EventIsRunning
    /\ suspended => Careless
    /\ ScheduleEvent(delay)
    /\ left' = delay
    /\ UNCHANGED <<now, suspended, m_delayLeft, policy, alive>>

\* Cancel and Remove: a suspended timer stays suspended.
Cancel == /\ alive
          /\ DropEvent
          /\ left' = IF IsRunning THEN NotArmed ELSE left
          /\ UNCHANGED <<now, scheduled, members, alive>>

\* Mutant: the time left is read after the event has been cancelled.
Suspend_cancelFirst ==
    /\ alive
    /\ policy \in Suspendable
    /\ IsRunning
    /\ m_delayLeft' = 0
    /\ DropEvent
    /\ suspended' = TRUE
    /\ UNCHANGED <<now, scheduled, m_event, policy, alive, left>>

\* Mutant: REMOVE_ON_DESTROY is forgotten.
Suspend_cancelOnly ==
    /\ alive
    /\ policy \in Suspendable
    /\ IsRunning
    /\ m_delayLeft' = EventDelayLeft
    /\ IF policy # "CANCEL_ON_DESTROY" THEN UNCHANGED pending ELSE DropEvent
    /\ suspended' = TRUE
    /\ UNCHANGED <<now, scheduled, m_event, policy, alive, left>>

\* Under CHECK_ON_DESTROY the event is left where it is.
Suspend == /\ alive
           /\ policy \in Suspendable
           /\ IsRunning
           /\ m_delayLeft' = EventDelayLeft
           /\ IF policy = "CHECK_ON_DESTROY" THEN UNCHANGED pending ELSE DropEvent
           /\ suspended' = TRUE
           /\ UNCHANGED <<now, scheduled, m_event, policy, alive, left>>

\* Mutant: the timer starts over.
Resume_fullDelay ==
    /\ alive
    /\ suspended
    /\ \E delay \in Delay : ScheduleEvent(delay)
    /\ suspended' = FALSE
    /\ UNCHANGED <<now, m_delayLeft, policy, alive, left>>

Resume == /\ alive
          /\ suspended
          /\ ScheduleEvent(m_delayLeft)
          /\ suspended' = FALSE
          /\ UNCHANGED <<now, m_delayLeft, policy, alive, left>>

\* Mutant: nothing is cancelled.
Destroy_noCancel ==
    /\ alive
    /\ policy = "CHECK_ON_DESTROY" => ~EventIsRunning
    /\ alive' = FALSE
    /\ UNCHANGED <<simulator, members, left>>

\* The destructor; NS_FATAL_ERROR ends the program if the check fails.
Destroy ==
    /\ alive
    /\ policy = "CHECK_ON_DESTROY" => ~EventIsRunning
    /\ DropEvent
    /\ alive' = FALSE
    /\ left' = NotArmed
    /\ UNCHANGED <<now, scheduled, members>>

\* The simulator: it runs what is due, in the order of the ids, and then
\* the clock may move on.
Due == {p \in pending : p.ts = now}

Fire(p) == /\ p \in Due
           /\ \A q \in Due : p.id <= q.id
           /\ pending' = pending \ {p}
           /\ left' = NotArmed
           /\ UNCHANGED <<now, scheduled, members, alive>>

Advance == /\ now < MaxTime
           /\ Due = {}
           /\ now' = now + 1
           /\ left' = IF left # NotArmed /\ ~suspended THEN left - 1 ELSE left
           /\ UNCHANGED <<pending, scheduled, members, alive>>

Next == \/ \E delay \in Delay : Schedule(delay)
        \/ Cancel \/ Suspend \/ Resume \/ Destroy
        \/ \E p \in pending : Fire(p)
        \/ Advance

Spec == Init /\ [][Next]_vars
-----------------------------------------------------------------------------
TypeOK == /\ now \in 0..MaxTime /\ scheduled \in 0..MaxEvents
          /\ pending \subseteq [ts : Nat, id : 1..MaxEvents]
          /\ m_event \in 0..MaxEvents
          /\ suspended \in BOOLEAN /\ alive \in BOOLEAN
          /\ m_delayLeft \in Nat
          /\ policy \in Policy
          /\ left \in Nat \cup {NotArmed}

(***************************************************************************)
(* The function is called when, and only when, the timer has run for the   *)
(* delay it was given: whatever was suspended and resumed in between, on   *)
(* top of one another at the same instant or apart (timer.cc Suspend,      *)
(* Resume, Cancel, Schedule).                                              *)
(***************************************************************************)
FiresAfterItsDelay == [][(\E p \in pending : Fire(p)) => left = 0]_vars

(***************************************************************************)
(* GetDelayLeft, in every state of the timer, is the part of the delay     *)
(* that has not run yet, and zero when there is none (timer.h:167-172).    *)
(***************************************************************************)
DelayLeftIsExact == alive => GetDelayLeft = IF left = NotArmed THEN 0 ELSE left

(***************************************************************************)
(* A timer has one event at most to come, the one m_event refers to: no    *)
(* call forgets an earlier one that would then fire too.  After the        *)
(* destructor it has none (timer.cc Schedule, Suspend, Resume, ~Timer).    *)
(***************************************************************************)
OneEventAtMost == pending = IF alive THEN EventOf(m_event) ELSE {}

(***************************************************************************)
(* timer.h:215-217 says of Suspend "Pause the timer and save the amount of *)
(* time left until it was set to expire": a suspended timer does not fire. *)
(***************************************************************************)
SuspendedIsPaused == [][suspended => ~\E p \in pending : Fire(p)]_vars
=============================================================================
