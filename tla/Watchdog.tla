------------------------------ MODULE Watchdog ------------------------------
(***************************************************************************)
(* src/core/model/watchdog.cc: a Watchdog, the events that it schedules    *)
(* with the simulator, and the pings of its user, which may come at any    *)
(* time, also from the function that the watchdog invokes.                 *)
(***************************************************************************)
EXTENDS Integers, FiniteSets

CONSTANTS
    Delay,      \* delays given to Ping
    MaxTime,    \* bound on the time of a deadline, and so on the clock
    MaxEvents   \* no Ping once so many events have been scheduled

ASSUME ConstantsAssumption ==
    Delay \subseteq Nat /\ MaxTime \in Nat /\ MaxEvents \in Nat

VARIABLES
    now,          \* Simulator::Now
    pending,      \* the watchdog's events that are to come: set of [ts, id]
    scheduled,    \* number of events scheduled so far, the id of the last
    m_event,      \* id of the event that m_event refers to, 0 if none
    m_end,        \* when the watchdog is to expire
    alive,        \* the destructor has not run
    deadlines,    \* now + delay of every Ping
    owed          \* there has been a Ping since the last invocation

vars == <<now, pending, scheduled, m_event, m_end, alive, deadlines, owed>>

Init == /\ now = 0 /\ pending = {} /\ scheduled = 0
        /\ m_event = 0 /\ m_end = 0
        /\ alive = TRUE
        /\ deadlines = {} /\ owed = FALSE

EventOf(id) == {p \in pending : p.id = id}
EventIsRunning == EventOf(m_event) # {}

Later(a, b) == IF a > b THEN a ELSE b

\* m_event = Simulator::Schedule(end - Now(), Expire): at the time end.
ScheduleExpire(others, end) ==
    /\ scheduled' = scheduled + 1
    /\ m_event' = scheduled + 1
    /\ pending' = others \cup {[ts |-> end, id |-> scheduled + 1]}

\* Mutant: the new deadline replaces the old one.
Ping_replaces(delay) ==
    /\ alive
    /\ now + delay <= MaxTime /\ scheduled < MaxEvents
    /\ m_end' = now + delay
    /\ IF EventIsRunning
       THEN UNCHANGED <<pending, scheduled, m_event>>
       ELSE ScheduleExpire(pending, m_end')
    /\ deadlines' = deadlines \cup {now + delay}
    /\ owed' = TRUE
    /\ UNCHANGED <<now, alive>>

\* Mutant: a new event whether or not there is one.
Ping_always(delay) ==
    /\ alive
    /\ now + delay <= MaxTime /\ scheduled < MaxEvents
    /\ m_end' = Later(m_end, now + delay)
    /\ ScheduleExpire(pending, m_end')
    /\ deadlines' = deadlines \cup {now + delay}
    /\ owed' = TRUE
    /\ UNCHANGED <<now, alive>>

Ping(delay) ==
    /\ alive
    /\ now + delay <= MaxTime /\ scheduled < MaxEvents
    /\ m_end' = Later(m_end, now + delay)
    /\ IF EventIsRunning
       THEN UNCHANGED <<pending, scheduled, m_event>>
       ELSE ScheduleExpire(pending, m_end')
    /\ deadlines' = deadlines \cup {now + delay}
    /\ owed' = TRUE
    /\ UNCHANGED <<now, alive>>

Due == {p \in pending : p.ts = now}

\* Expire: the function is invoked, or the watchdog goes on to its end.
Invoke(p) == /\ p \in Due
             /\ m_end = now
             /\ pending' = pending \ {p}
             /\ owed' = FALSE
             /\ UNCHANGED <<now, scheduled, m_event, m_end, alive, deadlines>>

\* Mutant: nothing is scheduled for the rest.
Prolong_never(p) ==
    /\ p \in Due
    /\ m_end # now
    /\ pending' = pending \ {p}
    /\ UNCHANGED <<now, scheduled, m_event, m_end, alive, deadlines, owed>>

Prolong(p) == /\ p \in Due
              /\ m_end # now
              /\ ScheduleExpire(pending \ {p}, m_end)
              /\ UNCHANGED <<now, m_end, alive, deadlines, owed>>

\* The destructor cancels the event, and what was owed stays owed: timer.h:43-45 says
\* that a Watchdog takes no action when it is destroyed, the code does.
Destroy == /\ alive
           /\ pending' = pending \ EventOf(m_event)
           /\ alive' = FALSE
           /\ UNCHANGED <<now, scheduled, m_event, m_end, deadlines, owed>>

\* The simulator: the clock moves on when nothing is due.
Advance == /\ now < MaxTime
           /\ Due = {}
           /\ now' = now + 1
           /\ UNCHANGED <<pending, scheduled, m_event, m_end, alive, deadlines, owed>>

Expire == \E p \in pending : Invoke(p) \/ Prolong(p)

Next == \/ \E delay \in Delay : Ping(delay)
        \/ Expire \/ Destroy \/ Advance

Spec == Init /\ [][Next]_vars

\* The simulator runs: what is due runs, and time passes.
FairSpec == Spec /\ WF_vars(Expire) /\ WF_vars(Advance)
-----------------------------------------------------------------------------
TypeOK == /\ now \in 0..MaxTime /\ scheduled \in Nat
          /\ pending \subseteq [ts : 0..MaxTime, id : 1..scheduled]
          /\ m_event \in 0..scheduled
          /\ m_end \in 0..MaxTime
          /\ alive \in BOOLEAN /\ owed \in BOOLEAN
          /\ deadlines \subseteq 0..MaxTime

(***************************************************************************)
(* watchdog.h:69-70: "the watchdog will not be triggered until the delay   *)
(* specified has been expired".  It is triggered at the deadline of some   *)
(* ping, and no ping asked for a later one: a ping with a shorter delay    *)
(* does not pull the end forward, and an event scheduled for an earlier    *)
(* end only prolongs (watchdog.cc Ping, Expire).                           *)
(***************************************************************************)
InvokedAtLastDeadline ==
    [][(\E p \in pending : Invoke(p)) =>
           now \in deadlines /\ \A d \in deadlines : d <= now]_vars

(***************************************************************************)
(* A ping is answered by one invocation: while the watchdog lives and one  *)
(* is owed there is exactly one event to come, m_event, not later than the *)
(* end, and otherwise none (watchdog.cc Ping, Expire).  Of the time after  *)
(* its destruction it says nothing: there code and doc differ, see Destroy.*)
(***************************************************************************)
OneEventWhileOwed ==
    alive =>
        IF owed
        THEN \E p \in pending : /\ pending = {p} /\ p.id = m_event
                                /\ now <= p.ts /\ p.ts <= m_end
        ELSE pending = {}

(***************************************************************************)
(* watchdog.h:47-49: if the pings stop, the function is invoked, unless    *)
(* the watchdog is destroyed before: a prolonged event is not the last.    *)
(***************************************************************************)
PingIsAnswered == owed ~> (~owed \/ ~alive)
=============================================================================
