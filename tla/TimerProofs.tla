---------------------------- MODULE TimerProofs -----------------------------
(***************************************************************************)
(* Theorems about Timer, for all delays and bounds and every policy, when  *)
(* the user neither suspends a timer that checks on destroy nor schedules  *)
(* a suspended one.                                                        *)
(***************************************************************************)
EXTENDS Timer, TLAPS

UsedAsMeant == ~Careless /\ "CHECK_ON_DESTROY" \notin Suspendable

\* p is the timer's one event, and it is due when what is left has run.
Carries(p) == /\ pending = {p} /\ p.id = m_event
              /\ alive /\ ~suspended
              /\ now <= p.ts /\ left = p.ts - now

\* A running timer has one event, due when what is left has run; a suspended
\* one has saved what is left; any other has neither.
Accounted ==
    \/ \E p \in pending : Carries(p)
    \/ pending = {} /\ left = IF alive /\ suspended THEN m_delayLeft ELSE NotArmed

IInv == TypeOK /\ Accounted

LEMMA EventsAreTyped ==
  ASSUME TypeOK
  PROVE  /\ now \in Nat /\ m_delayLeft \in Nat /\ scheduled \in Nat /\ m_event \in Nat
         /\ \A p \in pending : p.ts \in Nat /\ p.id \in Nat
BY ConstantsAssumption DEF TypeOK

\* What the timer sees of its one event.
LEMMA RunningEvent ==
  ASSUME NEW p \in pending, Carries(p)
  PROVE  /\ EventOf(m_event) = {p} /\ EventIsRunning /\ IsRunning /\ ~IsExpired
         /\ EventDelayLeft = left
<1>1. EventOf(m_event) = {p}
  BY DEF Carries, EventOf
<1>2. EventIsRunning /\ IsRunning /\ ~IsExpired
  BY <1>1 DEF Carries, EventIsRunning, IsRunning, IsExpired
<1>3. (CHOOSE q \in {p} : TRUE) = p
  OBVIOUS
<1>4. QED
  BY <1>1, <1>2, <1>3 DEF EventDelayLeft, Carries

LEMMA NoEvent ==
  ASSUME pending = {}
  PROVE  EventOf(m_event) = {} /\ ~EventIsRunning /\ ~IsRunning
BY DEF EventOf, EventIsRunning, IsRunning

\* An event scheduled for what is left is the one event.
LEMMA ScheduledIsCarried ==
  ASSUME TypeOK, pending = {}, alive, NEW delay \in Nat, ScheduleEvent(delay),
         now' = now, alive' = alive, suspended' = FALSE, left' = delay
  PROVE  /\ scheduled' \in 0..MaxEvents /\ m_event' \in 0..MaxEvents
         /\ pending' \subseteq [ts : Nat, id : 1..MaxEvents]
         /\ \E p \in pending' : Carries(p)'
<1>0. PICK p : p = [ts |-> now + delay, id |-> scheduled + 1]
  OBVIOUS
<1>1. /\ scheduled < MaxEvents /\ scheduled' = scheduled + 1
      /\ m_event' = scheduled + 1 /\ pending' = {p}
      /\ scheduled \in Nat /\ now \in Nat
  BY <1>0, EventsAreTyped DEF ScheduleEvent
<1>2. p \in [ts : Nat, id : 1..MaxEvents] /\ p.ts = now + delay /\ p.id = m_event'
  BY <1>0, <1>1, ConstantsAssumption
<1>3. p \in pending' /\ now' <= p.ts /\ left' = p.ts - now'
  BY <1>1, <1>2
<1>4. Carries(p)'
  BY <1>1, <1>2, <1>3 DEF Carries
<1>5. QED
  BY <1>1, <1>2, <1>3, <1>4, ConstantsAssumption

\* One lemma for each operation.
LEMMA ScheduleKeeps ==
  ASSUME UsedAsMeant, IInv, NEW delay \in Delay, Schedule(delay)
  PROVE  IInv'
<1>1. pending = {} /\ ~suspended
  BY RunningEvent DEF Schedule, UsedAsMeant, IInv, Accounted
<1>2. delay \in Nat /\ alive /\ suspended' = FALSE
  BY <1>1, ConstantsAssumption DEF Schedule, IInv, TypeOK
<1>3. /\ scheduled' \in 0..MaxEvents /\ m_event' \in 0..MaxEvents
      /\ pending' \subseteq [ts : Nat, id : 1..MaxEvents]
      /\ \E p \in pending' : Carries(p)'
  BY <1>1, <1>2, ScheduledIsCarried DEF Schedule, IInv
<1>4. TypeOK'
  BY <1>2, <1>3 DEF Schedule, IInv, TypeOK
<1>5. QED
  BY <1>3, <1>4 DEF IInv, Accounted

LEMMA ResumeKeeps ==
  ASSUME UsedAsMeant, IInv, Resume
  PROVE  IInv'
<1>1. pending = {} /\ left = m_delayLeft /\ alive /\ suspended
  BY DEF Resume, IInv, Accounted, Carries
<1>2. m_delayLeft \in Nat /\ suspended' = FALSE
  BY EventsAreTyped DEF Resume, IInv
<1>3. /\ scheduled' \in 0..MaxEvents /\ m_event' \in 0..MaxEvents
      /\ pending' \subseteq [ts : Nat, id : 1..MaxEvents]
      /\ \E p \in pending' : Carries(p)'
  BY <1>1, <1>2, ScheduledIsCarried DEF Resume, IInv
<1>4. TypeOK'
  BY <1>2, <1>3 DEF Resume, IInv, TypeOK
<1>5. QED
  BY <1>3, <1>4 DEF IInv, Accounted

LEMMA SuspendKeeps ==
  ASSUME UsedAsMeant, IInv, Suspend
  PROVE  IInv'
<1>1. PICK p \in pending : Carries(p)
  BY NoEvent DEF Suspend, IInv, Accounted
<1>2. EventOf(m_event) = {p} /\ EventDelayLeft = left
  BY <1>1, RunningEvent
<1>3. pending' = {}
  BY <1>1, <1>2 DEF Suspend, UsedAsMeant, DropEvent, Carries
<1>4. m_delayLeft' = left /\ left \in Nat /\ suspended' = TRUE
  BY <1>1, <1>2, EventsAreTyped DEF Suspend, Carries, IInv
<1>5. TypeOK'
  BY <1>3, <1>4 DEF Suspend, IInv, TypeOK
<1>6. QED
  BY <1>3, <1>4, <1>5 DEF Suspend, IInv, Accounted

LEMMA CancelKeeps ==
  ASSUME IInv, Cancel
  PROVE  IInv'
<1>1. TypeOK'
  BY DEF Cancel, DropEvent, members, IInv, TypeOK
<1>2. pending' = {}
  BY RunningEvent DEF Cancel, DropEvent, IInv, Accounted, Carries
<1>3. CASE \E p \in pending : Carries(p)
  BY <1>1, <1>2, <1>3, RunningEvent DEF Cancel, members, IInv, Accounted, Carries
<1>4. CASE pending = {}
  BY <1>1, <1>2, <1>4, NoEvent DEF Cancel, members, IInv, Accounted
<1>5. QED
  BY <1>3, <1>4 DEF IInv, Accounted

LEMMA DestroyKeeps ==
  ASSUME IInv, Destroy
  PROVE  IInv'
<1>1. TypeOK'
  BY DEF Destroy, DropEvent, members, IInv, TypeOK
<1>2. pending' = {}
  BY RunningEvent DEF Destroy, DropEvent, IInv, Accounted, Carries
<1>3. QED
  BY <1>1, <1>2 DEF Destroy, IInv, Accounted

\* The event that fires is the one event, and nothing is left to run.
LEMMA FireKeeps ==
  ASSUME IInv, NEW q \in pending, Fire(q)
  PROVE  IInv' /\ left = 0 /\ ~suspended
<1>1. Carries(q)
  BY DEF IInv, Accounted, Carries
<1>2. left = 0 /\ ~suspended
  BY <1>1, EventsAreTyped DEF Carries, Fire, Due, IInv
<1>3. pending' = {} /\ left' = NotArmed /\ UNCHANGED <<now, scheduled, members, alive>>
  BY <1>1 DEF Fire, Carries
<1>4. TypeOK'
  BY <1>3 DEF IInv, TypeOK, members
<1>5. QED
  BY <1>2, <1>3, <1>4 DEF IInv, Accounted, members

LEMMA AdvanceKeeps ==
  ASSUME IInv, Advance
  PROVE  IInv'
<1>1. /\ now \in Nat /\ now' = now + 1 /\ now < MaxTime
      /\ UNCHANGED <<pending, scheduled, members, alive>>
      /\ left' = IF left # NotArmed /\ ~suspended THEN left - 1 ELSE left
  BY EventsAreTyped DEF Advance, IInv
<1>2. CASE \E p \in pending : Carries(p)
  <2>1. PICK p \in pending : Carries(p)
    BY <1>2
  <2>2. p.ts # now /\ p.ts \in Nat
    BY EventsAreTyped DEF Advance, Due, IInv
  <2>3. left \in Nat /\ left = p.ts - now /\ now <= p.ts /\ ~suspended
    BY <2>1, <2>2, <1>1 DEF Carries
  <2>4. left # NotArmed
    BY <2>3, ConstantsAssumption
  <2>5. left' = p.ts - now' /\ left' \in Nat /\ now' <= p.ts
    BY <2>2, <2>3, <2>4, <1>1
  <2>6. Carries(p)'
    BY <2>1, <2>5, <1>1 DEF Carries, members
  <2>7. TypeOK'
    BY <2>5, <1>1, ConstantsAssumption DEF IInv, TypeOK, members
  <2>8. QED
    BY <2>6, <2>7, <1>1 DEF IInv, Accounted
<1>3. CASE pending = {} /\ left = IF alive /\ suspended THEN m_delayLeft ELSE NotArmed
  <2>1. left' = left
    BY <1>1, <1>3
  <2>2. TypeOK'
    BY <2>1, <1>1, ConstantsAssumption DEF IInv, TypeOK, members
  <2>3. QED
    BY <2>1, <2>2, <1>1, <1>3 DEF IInv, Accounted, members
<1>4. QED
  BY <1>2, <1>3 DEF IInv, Accounted

\* The invariant holds throughout.
LEMMA IInvHolds == ASSUME UsedAsMeant PROVE Spec => []IInv
<1>1. Init => IInv
  <2> SUFFICES ASSUME Init PROVE IInv
    OBVIOUS
  <2>1. alive \in BOOLEAN /\ suspended \in BOOLEAN
    BY Zenon DEF Init
  <2>2. TypeOK
    BY <2>1, ConstantsAssumption DEF Init, TypeOK
  <2>3. QED
    BY <2>2 DEF Init, IInv, Accounted
<1>2. IInv /\ [Next]_vars => IInv'
  <2> SUFFICES ASSUME IInv, [Next]_vars PROVE IInv'
    OBVIOUS
  <2>1. CASE UNCHANGED vars
    BY <2>1 DEF vars, simulator, members, IInv, TypeOK, Accounted, Carries
  <2>2. QED
    BY <2>1, UsedAsMeant, ScheduleKeeps, CancelKeeps, SuspendKeeps, ResumeKeeps,
       DestroyKeeps, FireKeeps, AdvanceKeeps DEF Next
<1>3. QED
  BY <1>1, <1>2, PTL DEF Spec

\* For all delays, and any sequence of calls, the function is called when the
\* timer has run for its delay (timer.cc Schedule, Suspend, Resume, Cancel).
THEOREM FiresOnTime == ASSUME UsedAsMeant PROVE Spec => FiresAfterItsDelay
<1> DEFINE OnTime == (\E p \in pending : Fire(p)) => left = 0
<1>1. IInv /\ [Next]_vars => [OnTime]_vars
  BY FireKeeps
<1>2. QED
  BY <1>1, IInvHolds, PTL DEF Spec, FiresAfterItsDelay

\* For all delays, a suspended timer does not fire (timer.cc Suspend).
THEOREM SuspendPauses == ASSUME UsedAsMeant PROVE Spec => SuspendedIsPaused
<1> DEFINE Paused == suspended => ~\E p \in pending : Fire(p)
<1>1. IInv /\ [Next]_vars => [Paused]_vars
  BY FireKeeps
<1>2. QED
  BY <1>1, IInvHolds, PTL DEF Spec, SuspendedIsPaused

\* For all delays, the timer has one event at most to come, and none after its
\* destructor (timer.cc Schedule, Suspend, Resume, ~Timer).
THEOREM OneEvent == ASSUME UsedAsMeant PROVE Spec => []OneEventAtMost
<1>1. IInv => OneEventAtMost
  BY RunningEvent, NoEvent DEF IInv, Accounted, OneEventAtMost, Carries
<1>2. QED
  BY <1>1, IInvHolds, PTL

\* For all delays, GetDelayLeft is what has not run yet (timer.cc GetDelayLeft).
THEOREM DelayLeftCorrect == ASSUME UsedAsMeant PROVE Spec => []DelayLeftIsExact
<1>1. IInv => DelayLeftIsExact
  <2> SUFFICES ASSUME IInv, alive
               PROVE  GetDelayLeft = IF left = NotArmed THEN 0 ELSE left
    BY DEF DelayLeftIsExact
  <2>1. CASE \E p \in pending : Carries(p)
    <3>1. PICK p \in pending : Carries(p)
      BY <2>1
    <3>2. IsRunning /\ EventDelayLeft = left
      BY <3>1, RunningEvent
    <3>3. left \in Nat
      BY <3>1, EventsAreTyped DEF Carries, IInv
    <3>4. QED
      BY <3>2, <3>3, ConstantsAssumption DEF GetDelayLeft
  <2>2. CASE pending = {} /\ suspended /\ left = m_delayLeft
    <3>1. m_delayLeft \in Nat
      BY EventsAreTyped DEF IInv
    <3>2. ~IsRunning /\ ~IsExpired
      BY <2>2 DEF IsRunning, IsExpired
    <3>3. QED
      BY <2>2, <3>1, <3>2, ConstantsAssumption DEF GetDelayLeft
  <2>3. CASE pending = {} /\ ~suspended /\ left = NotArmed
    BY <2>3, NoEvent DEF GetDelayLeft, IsExpired
  <2>4. QED
    BY <2>1, <2>2, <2>3 DEF IInv, Accounted
<1>2. QED
  BY <1>1, IInvHolds, PTL
=============================================================================
