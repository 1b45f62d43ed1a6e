--------------------------- MODULE WatchdogProofs ---------------------------
(* Theorems about Watchdog, for all delays and all bounds.                 *)
EXTENDS Watchdog, TLAPS

\* m_end is the latest deadline.
EndIsLatest == IF deadlines = {}
               THEN ~owed
               ELSE m_end \in deadlines /\ \A d \in deadlines : d <= m_end

\* Before the first ping, the end lies at the start.
NoEndBeforePing == deadlines = {} => m_end = 0

\* The one event is there while the watchdog lives and owes an invocation, and
\* its destructor leaves none.
OwedEvent ==
  IF owed /\ alive
  THEN \E p \in pending : pending = {p} /\ p.id = m_event /\ now <= p.ts /\ p.ts <= m_end
  ELSE pending = {}

IInv == TypeOK /\ OwedEvent /\ EndIsLatest /\ NoEndBeforePing

\* While an invocation is owed, its event is m_event; otherwise there is none.
LEMMA RunningMeansOwed ==
  ASSUME IInv
  PROVE  /\ EventIsRunning <=> owed /\ alive
         /\ pending = EventOf(m_event)
         /\ \A p \in pending : pending = {p} /\ owed /\ alive /\ now <= p.ts /\ p.ts <= m_end
BY DEF IInv, OwedEvent, EventIsRunning, EventOf

\* A new event at a time not before now is the one that is owed.
LEMMA ScheduledIsOwed ==
  ASSUME IInv, NEW end \in 0..MaxTime, now <= end, ScheduleExpire({}, end),
         now' = now, m_end' = end, owed' = TRUE, alive' = TRUE
  PROVE  /\ OwedEvent'
         /\ scheduled' \in Nat /\ m_event' \in 0..scheduled'
         /\ pending' \subseteq [ts : 0..MaxTime, id : 1..scheduled']
<1> DEFINE p == [ts |-> end, id |-> scheduled + 1]
<1>1. /\ scheduled \in Nat /\ scheduled' = scheduled + 1 /\ m_event' = scheduled + 1
      /\ pending' = {p} /\ now \in 0..MaxTime
  BY DEF ScheduleExpire, IInv, TypeOK
<1>2. p \in [ts : 0..MaxTime, id : 1..scheduled'] /\ p.ts = end /\ p.id = m_event'
  BY <1>1
<1>3. p \in pending' /\ now' <= p.ts /\ p.ts <= m_end'
  BY <1>1, ConstantsAssumption
<1> HIDE DEF p
<1>4. QED
  BY <1>1, <1>2, <1>3 DEF OwedEvent

\* A ping adds its deadline, and an event if none is to come.
LEMMA PingKeeps ==
  ASSUME IInv, NEW delay \in Delay, Ping(delay)
  PROVE  IInv'
<1>1. /\ delay \in Nat /\ now \in Nat /\ now + delay \in 0..MaxTime
      /\ m_end \in 0..MaxTime /\ MaxTime \in Nat
  BY ConstantsAssumption DEF Ping, IInv, TypeOK
<1>2. /\ m_end' = Later(m_end, now + delay) /\ now' = now /\ owed' = TRUE
      /\ deadlines' = deadlines \cup {now + delay} /\ alive' = alive /\ alive' = TRUE
  BY Zenon DEF Ping, IInv, TypeOK
<1>3. /\ m_end' \in 0..MaxTime /\ m_end <= m_end' /\ now <= m_end'
      /\ now + delay <= m_end' /\ m_end' \in {m_end, now + delay}
  BY <1>1, <1>2 DEF Later
<1>4. EndIsLatest' /\ NoEndBeforePing'
  <2>1. CASE deadlines = {}
    <3>1. m_end' = now + delay
      BY <2>1, <1>1, <1>2 DEF IInv, NoEndBeforePing, Later
    <3>2. QED
      BY <2>1, <3>1, <1>1, <1>2 DEF EndIsLatest, NoEndBeforePing
  <2>2. CASE deadlines # {}
    <3>1. /\ m_end \in deadlines /\ \A d \in deadlines : d <= m_end
          /\ \A d \in deadlines : d \in Nat
      <4>1. deadlines \subseteq 0..MaxTime /\ EndIsLatest
        BY DEF IInv, TypeOK
      <4>2. \A d \in deadlines : d \in Nat
        BY <4>1
      <4>3. QED
        BY <2>2, <4>1, <4>2, Zenon DEF EndIsLatest
    <3>2. QED
      BY <3>1, <1>1, <1>2, <1>3 DEF EndIsLatest, NoEndBeforePing
  <2>3. QED
    BY <2>1, <2>2
<1>5. CASE EventIsRunning
  <2>1. UNCHANGED <<pending, scheduled, m_event>>
    BY <1>5 DEF Ping
  <2>2. OwedEvent'
    <3>1. PICK p \in pending : /\ pending = {p} /\ p.id = m_event
                               /\ now <= p.ts /\ p.ts <= m_end
      BY <1>5, RunningMeansOwed DEF IInv, OwedEvent
    <3>2. p.ts \in Nat
      BY DEF IInv, TypeOK
    <3>3. p.ts <= m_end'
      BY <3>1, <3>2, <1>1, <1>3
    <3>4. QED
      BY <2>1, <3>1, <3>3, <1>2 DEF OwedEvent
  <2>3. TypeOK'
    BY <2>1, <1>1, <1>2, <1>3 DEF IInv, TypeOK
  <2>4. QED
    BY <2>2, <2>3, <1>4 DEF IInv
<1>6. CASE ~EventIsRunning
  <2>1. pending = {}
    BY <1>6, RunningMeansOwed DEF IInv, OwedEvent
  <2>2. ScheduleExpire({}, m_end')
    BY <1>6, <2>1 DEF Ping
  <2>3. /\ OwedEvent'
        /\ scheduled' \in Nat /\ m_event' \in 0..scheduled'
        /\ pending' \subseteq [ts : 0..MaxTime, id : 1..scheduled']
    BY <2>2, <1>2, <1>3, ScheduledIsOwed
  <2>4. TypeOK'
    BY <2>3, <1>1, <1>2, <1>3 DEF IInv, TypeOK
  <2>5. QED
    BY <2>3, <2>4, <1>4 DEF IInv
<1>7. QED
  BY <1>5, <1>6

\* The invocation leaves nothing to come, and comes at the latest deadline.
LEMMA InvokeKeeps ==
  ASSUME IInv, NEW p \in pending, Invoke(p)
  PROVE  IInv' /\ now \in deadlines /\ \A d \in deadlines : d <= now
<1>1. pending = {p} /\ owed
  BY RunningMeansOwed
<1>2. pending' = {} /\ owed' = FALSE /\ m_end = now
  BY <1>1 DEF Invoke
<1>3. IInv'
  BY <1>2 DEF Invoke, IInv, TypeOK, OwedEvent, EndIsLatest, NoEndBeforePing
<1>4. QED
  BY <1>1, <1>2, <1>3 DEF IInv, EndIsLatest

\* The event of an earlier end is replaced by one at the end.
LEMMA ProlongKeeps ==
  ASSUME IInv, NEW p \in pending, Prolong(p)
  PROVE  IInv'
<1>1. pending = {p} /\ owed /\ alive /\ now <= p.ts /\ p.ts <= m_end /\ p.ts = now
  BY RunningMeansOwed DEF Prolong, Due
<1>2. /\ UNCHANGED <<now, m_end, alive, deadlines, owed>>
      /\ m_end \in 0..MaxTime /\ now <= m_end
      /\ ScheduleExpire({}, m_end)
  BY <1>1 DEF Prolong, IInv, TypeOK
<1>3. /\ OwedEvent'
      /\ scheduled' \in Nat /\ m_event' \in 0..scheduled'
      /\ pending' \subseteq [ts : 0..MaxTime, id : 1..scheduled']
  BY <1>1, <1>2, ScheduledIsOwed DEF IInv, TypeOK
<1>4. QED
  BY <1>2, <1>3 DEF IInv, TypeOK, EndIsLatest, NoEndBeforePing

\* The invariant holds throughout.
LEMMA IInvHolds == Spec => []IInv
<1>1. Init => IInv
  <2>1. Init => TypeOK
    <3> SUFFICES ASSUME Init PROVE TypeOK
      OBVIOUS
    <3>1. alive \in BOOLEAN /\ owed \in BOOLEAN
      BY Zenon DEF Init
    <3>2. 0 \in 0..MaxTime /\ 0 \in 0..scheduled /\ scheduled \in Nat
      BY ConstantsAssumption DEF Init
    <3>3. QED
      BY <3>1, <3>2 DEF Init, TypeOK
  <2>2. Init => OwedEvent /\ EndIsLatest /\ NoEndBeforePing
    BY DEF Init, OwedEvent, EndIsLatest, NoEndBeforePing
  <2>3. QED
    BY <2>1, <2>2 DEF IInv
<1>2. IInv /\ [Next]_vars => IInv'
  <2> SUFFICES ASSUME IInv, [Next]_vars PROVE IInv'
    OBVIOUS
  <2>1. ASSUME NEW delay \in Delay, Ping(delay) PROVE IInv'
    BY <2>1, PingKeeps
  <2>2. CASE Expire
    BY <2>2, InvokeKeeps, ProlongKeeps DEF Expire
  <2>3. CASE Destroy
    <3>1. pending' = {}
      BY <2>3, RunningMeansOwed DEF Destroy
    <3>2. QED
      BY <2>3, <3>1 DEF Destroy, IInv, TypeOK, OwedEvent, EndIsLatest,
                        NoEndBeforePing
  <2>4. CASE Advance
    <3>1. \A p \in pending : p.ts # now /\ p.ts \in Nat /\ now \in Nat
      BY <2>4 DEF Advance, Due, IInv, TypeOK
    <3>2. \A p \in pending : now <= p.ts => now + 1 <= p.ts
      BY <3>1
    <3>3. TypeOK'
      BY <2>4, ConstantsAssumption DEF Advance, IInv, TypeOK
    <3>4. OwedEvent'
      BY <2>4, <3>2 DEF Advance, IInv, OwedEvent
    <3>5. QED
      BY <2>4, <3>3, <3>4 DEF Advance, IInv, EndIsLatest, NoEndBeforePing
  <2>5. CASE UNCHANGED vars
    BY <2>5 DEF vars, IInv, TypeOK, OwedEvent, EndIsLatest, NoEndBeforePing
  <2>6. QED
    BY <2>1, <2>2, <2>3, <2>4, <2>5 DEF Next
<1>3. QED
  BY <1>1, <1>2, PTL DEF Spec

\* For all delays, exactly one event is to come while a living watchdog owes an
\* invocation, and none while it owes none (watchdog.cc Ping, Expire).
THEOREM OneEvent == Spec => []OneEventWhileOwed
<1>1. IInv => OneEventWhileOwed
  BY DEF IInv, OwedEvent, OneEventWhileOwed
<1>2. QED
  BY <1>1, IInvHolds, PTL

\* For all delays, no event is left that would call a watchdog which is gone, the
\* destructor having cancelled the only one (watchdog.cc:45, against timer.h:43-45).
THEOREM NoCallAfterDestruction == Spec => [](~alive => pending = {})
<1>1. IInv => (~alive => pending = {})
  BY DEF IInv, OwedEvent
<1>2. QED
  BY <1>1, IInvHolds, PTL

\* For all delays, the watchdog invokes its function at the latest deadline of
\* all pings (watchdog.cc Expire).
THEOREM LastDeadline == Spec => InvokedAtLastDeadline
<1> DEFINE AtLast == (\E p \in pending : Invoke(p)) =>
                         now \in deadlines /\ \A d \in deadlines : d <= now
<1>1. IInv /\ [Next]_vars => [AtLast]_vars
  BY InvokeKeeps
<1>2. QED
  BY <1>1, IInvHolds, PTL DEF Spec, InvokedAtLastDeadline
=============================================================================
