----------------------- MODULE DefaultSimulatorProofs -----------------------
(***************************************************************************)
(* Theorems about DefaultSimulator, for every set of events, threads and   *)
(* delays.  They hold as long as the 32-bit counter of unique ids does not *)
(* wrap: NoWrap says that user code stops scheduling before it would.      *)
(***************************************************************************)
EXTENDS DefaultSimulator, FunctionTheorems, SequenceTheorems, FiniteSetTheorems, TLAPS

NoWrap == UidLimit < UidModulus

\* Below the bound on ids, the next id is the successor.
LEMMA NextUidIsSuccessor ==
  ASSUME NoWrap, m_uid \in Uid, m_uid < UidLimit
  PROVE  NextUid = m_uid + 1 /\ NextUid \in Uid
<1>1. /\ m_uid \in Nat /\ m_uid > 3
      /\ UidModulus \in Nat /\ m_uid + 1 < UidModulus
  BY ConstantsAssumption DEF NoWrap, Uid
<1>2. (m_uid + 1) % UidModulus = m_uid + 1
  BY <1>1, ConstantsAssumption, Z3
<1>3. QED
  BY <1>1, <1>2 DEF NextUid, Uid

\* Every variable keeps its type; no ordinary event has a reserved id.
LEMMA TypeInductive == NoWrap /\ TypeOK /\ [Next]_vars => TypeOK'
<1> SUFFICES ASSUME NoWrap, TypeOK, [Next]_vars PROVE TypeOK'
  OBVIOUS
<1> USE DEF listVars, clockVars, queueVars, mainVars, userVars
<1>d. \A d \in Delay : d \in Nat
  BY ConstantsAssumption
<1>i. ASSUME NEW e \in Event, NEW ts \in Nat, m_uid < UidLimit, Insert(e, ts)
      PROVE  /\ m_events' \subseteq [ts : Nat, uid : Uid, impl : Event]
             /\ m_uid' \in Uid
             /\ m_unscheduledEvents' \in Int
             /\ inserted' \in Seq([ts : Nat, impl : Event])
  BY <1>i, NextUidIsSuccessor DEF Insert, TypeOK
<1>u. ASSUME NEW e, Unref(e)
      PROVE  refs' \in [Event -> Int]
  <2>1. refs \in [Event -> Int]
    BY DEF TypeOK
  <2>2. \A x \in Event : [refs EXCEPT ![e] = @ - 1][x] \in Int
    BY <2>1
  <2>3. QED
    BY <1>u, <2>1, <2>2 DEF Unref
<1>n. ASSUME NEW next \in m_events, TakeNext(next)
      PROVE  /\ next.impl \in Event
             /\ m_events' \subseteq [ts : Nat, uid : Uid, impl : Event]
             /\ m_unscheduledEvents' \in Int
             /\ m_currentTs' \in Nat /\ m_currentUid' \in Nat
  <2>1. next \in [ts : Nat, uid : Uid, impl : Event]
    BY DEF TypeOK
  <2>2. next.ts \in Nat /\ next.uid \in Uid /\ next.impl \in Event
    BY <2>1
  <2>3. next.uid \in Nat
    BY <2>2 DEF Uid
  <2>4. QED
    BY <1>n, <2>2, <2>3 DEF TakeNext, TypeOK
<1>1. ASSUME NEW d \in Delay, NEW e \in Event, Schedule(d, e)
      PROVE  TypeOK'
  <2>1. m_currentTs + d \in Nat
    BY <1>d DEF TypeOK
  <2>2. [ts |-> m_currentTs + d, uid |-> m_uid] \in EventId
    BY <2>1 DEF TypeOK, EventId
  <2>3. QED
    BY <1>1, <1>i, <2>1, <2>2, SMTT(30) DEF Schedule, NewEvent, TypeOK
<1>2. ASSUME NEW d \in Delay, NEW e \in Event, StopAfter(d, e)
      PROVE  TypeOK'
  <2>1. m_currentTs + d \in Nat
    BY <1>d DEF TypeOK
  <2>2. [ts |-> m_currentTs + d, uid |-> m_uid] \in EventId
    BY <2>1 DEF TypeOK, EventId
  <2>3. QED
    BY <1>2, <1>i, <2>1, <2>2, SMTT(30) DEF StopAfter, NewEvent, TypeOK
<1>3. ASSUME NEW d \in Delay, NEW e \in Event, ScheduleWithContext(d, e)
      PROVE  TypeOK'
  BY <1>3, <1>d, <1>i, SMTT(30) DEF ScheduleWithContext, NewEvent, TypeOK
<1>4. ASSUME NEW e \in Event, ScheduleDestroy(e)
      PROVE  TypeOK'
  BY <1>4, NextUidIsSuccessor DEF ScheduleDestroy, NewEvent, TypeOK, EventId
<1>5. ASSUME NEW e \in Event, RemoveDestroyEvent(e)
      PROVE  TypeOK'
  <2>1. PICK i \in 1..Len(m_destroyEvents) :
           m_destroyEvents' = SubSeq(m_destroyEvents, 1, i - 1)
                \o SubSeq(m_destroyEvents, i + 1, Len(m_destroyEvents))
    BY <1>5 DEF RemoveDestroyEvent
  <2>2. m_destroyEvents \in Seq(Event) /\ Len(m_destroyEvents) \in Nat
    BY DEF TypeOK
  <2>3. /\ SubSeq(m_destroyEvents, 1, i - 1) \in Seq(Event)
        /\ SubSeq(m_destroyEvents, i + 1, Len(m_destroyEvents)) \in Seq(Event)
    <3>1. \A a, b \in Int : (\A j \in a..b : m_destroyEvents[j] \in Event)
              => SubSeq(m_destroyEvents, a, b) \in Seq(Event)
      BY SubSeqProperties
    <3>2. /\ \A j \in 1..(i - 1) : m_destroyEvents[j] \in Event
          /\ \A j \in (i + 1)..Len(m_destroyEvents) : m_destroyEvents[j] \in Event
      BY <2>2
    <3>3. i - 1 \in Int /\ i + 1 \in Int /\ Len(m_destroyEvents) \in Int
      BY <2>2
    <3>4. QED
      BY <3>1, <3>2, <3>3
  <2>4. m_destroyEvents' \in Seq(Event)
    BY <2>1, <2>3, ConcatProperties
  <2>5. QED
    BY <1>5, <2>4, SMTT(30) DEF RemoveDestroyEvent, TypeOK
<1>6. ASSUME NEW e \in Event, Remove(e)
      PROVE  TypeOK'
  BY <1>6, <1>u DEF Remove, TypeOK
<1>7. ASSUME NEW e \in Event, Cancel(e)
      PROVE  TypeOK'
  BY <1>7 DEF Cancel, TypeOK
<1>8. CASE Stop
  BY <1>8 DEF Stop, TypeOK
<1>9. CASE ProcessEventsWithContext
  <2>1. CASE DrainSkip
    BY <2>1 DEF DrainSkip, TypeOK
  <2>2. CASE DrainTest
    BY <2>2 DEF DrainTest, TypeOK
  <2>3. CASE DrainLock
    BY <2>3 DEF DrainLock, TypeOK
  <2>4. CASE DrainSwap
    BY <2>4 DEF DrainSwap, TypeOK
  <2>5. CASE DrainUnlock
    BY <2>5 DEF DrainUnlock, TypeOK
  <2>6. CASE DrainInsert
    <3>1. Head(eventsWithContext) \in Post /\ eventsWithContext' \in Seq(Post)
      BY <2>6 DEF DrainInsert, TypeOK
    <3>2. /\ Head(eventsWithContext).impl \in Event
          /\ m_currentTs + Head(eventsWithContext).delay \in Nat
      BY <3>1, <1>d, SMTT(30) DEF TypeOK, Post
    <3>3. QED
      BY <2>6, <3>1, <3>2, <1>i DEF DrainInsert, TypeOK
  <2>7. CASE DrainDone
    BY <2>7 DEF DrainDone, TypeOK
  <2>8. QED
    BY <1>9, <2>1, <2>2, <2>3, <2>4, <2>5, <2>6, <2>7
       DEF ProcessEventsWithContext
<1>10. CASE MainLoop
  <2>1. CASE EnterLoop
    BY <2>1 DEF EnterLoop, TypeOK
  <2>2. ASSUME NEW next \in m_events, InvokeEvent(next)
        PROVE  TypeOK'
    <3>1. TakeNext(next)
      BY <2>2 DEF InvokeEvent
    <3>2. QED
      BY <2>2, <3>1, <1>n, <1>u DEF InvokeEvent, TypeOK
  <2>3. ASSUME NEW next \in m_events, InvokeStop(next)
        PROVE  TypeOK'
    <3>1. TakeNext(next)
      BY <2>3 DEF InvokeStop
    <3>2. QED
      BY <2>3, <3>1, <1>n, <1>u DEF InvokeStop, TypeOK
  <2>4. ASSUME NEW next \in m_events, SkipCancelled(next)
        PROVE  TypeOK'
    <3>1. TakeNext(next)
      BY <2>4 DEF SkipCancelled
    <3>2. QED
      BY <2>4, <3>1, <1>n, <1>u DEF SkipCancelled, TypeOK
  <2>5. CASE HandlerReturn
    BY <2>5, <1>u DEF HandlerReturn, TypeOK
  <2>6. CASE RunReturn
    BY <2>6 DEF RunReturn, TypeOK
  <2>7. QED
    BY <1>10, <2>1, <2>2, <2>3, <2>4, <2>5, <2>6
       DEF MainLoop, ProcessOneEvent
<1>11. CASE Run \/ Destroy
  BY <1>11 DEF Run, Destroy, TypeOK
<1>12. CASE Shutdown
  <2>1. CASE DestroyNext
    BY <2>1 DEF DestroyNext, TypeOK
  <2>2. CASE DestroyHandlerReturn
    BY <2>2 DEF DestroyHandlerReturn, TypeOK
  <2>3. CASE BeginDispose
    BY <2>3 DEF BeginDispose, TypeOK
  <2>4. CASE DoDispose
    BY <2>4 DEF DoDispose, TypeOK
  <2>5. QED
    BY <1>12, <2>1, <2>2, <2>3, <2>4 DEF Shutdown
<1>13. CASE ThreadStep
  <2>1. ASSUME NEW t \in Thread, NEW d \in Delay, NEW e \in Event,
               PostLock(t, d, e)
        PROVE  TypeOK'
    BY <2>1 DEF PostLock, TypeOK, Post
  <2>2. ASSUME NEW t \in Thread, PostPush(t)
        PROVE  TypeOK'
    <3>1. hand[t] \in Post
      BY <2>2 DEF PostPush, TypeOK
    <3>2. m_eventsWithContext' \in Seq(Post) /\ handed' \in Seq(Post)
      BY <2>2, <3>1 DEF PostPush, TypeOK
    <3>3. hand' \in [Thread -> Post \cup {None}]
      BY <2>2 DEF PostPush, TypeOK
    <3>4. QED
      BY <2>2, <3>2, <3>3 DEF PostPush, TypeOK
  <2>3. ASSUME NEW t \in Thread, PostUnlock(t)
        PROVE  TypeOK'
    BY <2>3 DEF PostUnlock, TypeOK
  <2>4. QED
    BY <1>13, <2>1, <2>2, <2>3 DEF ThreadStep
<1>14. CASE UNCHANGED vars
  BY <1>14 DEF vars, TypeOK
<1>15. QED
  BY <1>1, <1>2, <1>3, <1>4, <1>5, <1>6, <1>7, <1>8, <1>9, <1>10, <1>11,
     <1>12, <1>13, <1>14 DEF Next, UserCall, Terminated

\* TypeOK holds in every reachable state.
THEOREM TypeCorrect == NoWrap => (Spec => []TypeOK)
<1> SUFFICES ASSUME NoWrap PROVE Spec => []TypeOK
  OBVIOUS
<1>1. Init => TypeOK
  <2>1. 4 \in Uid
    BY ConstantsAssumption DEF Uid
  <2> SUFFICES ASSUME Init PROVE TypeOK
    OBVIOUS
  <2>2. /\ m_destroyEvents \in Seq(Event)
        /\ m_eventsWithContext \in Seq(Post)
        /\ eventsWithContext \in Seq(Post)
        /\ handed \in Seq(Post)
        /\ inserted \in Seq([ts : Nat, impl : Event])
    BY EmptySeq DEF Init
  <2>3. /\ hand \in [Thread -> Post \cup {None}]
        /\ ids \in [Event -> EventId \cup {None}]
        /\ refs \in [Event -> Int]
    BY DEF Init
  <2>4. /\ m_events \subseteq [ts : Nat, uid : Uid, impl : Event]
        /\ m_currentTs \in Nat /\ m_currentUid \in Nat
        /\ m_uid \in Uid
        /\ m_unscheduledEvents \in Int
    BY <2>1 DEF Init, INVALID, VALID
  <2>5. /\ mutex = None /\ current = None
        /\ pc = "idle" /\ drain = "off"
        /\ cancelled = {} /\ stopEvents = {} /\ made = {} /\ ran = {}
    BY DEF Init
  <2>6. m_stop \in BOOLEAN /\ m_eventsWithContextEmpty \in BOOLEAN
    BY Zenon DEF Init
  <2>7. QED
    BY <2>2, <2>3, <2>4, <2>5, <2>6 DEF TypeOK
<1>2. TypeOK /\ [Next]_vars => TypeOK'
  BY TypeInductive
<1>3. QED
  BY <1>1, <1>2, PTL DEF Spec

-----------------------------------------------------------------------------
(* Events run in key order.  The invariant: whatever is in the event list   *)
(* comes after the event that runs or ran last, and no id is used twice.    *)

CurrentKey == [ts |-> m_currentTs, uid |-> m_currentUid]

KeyInv ==
    /\ m_currentUid < m_uid
    /\ \A ev \in m_events : Less(CurrentKey, ev) /\ ev.uid < m_uid
    /\ \A ev, f \in m_events : ev.uid = f.uid => ev = f

\* A step that inserts an event, not before the current time.
LEMMA InsertKeepsKeyInv ==
  ASSUME NoWrap, TypeOK, KeyInv, m_uid < UidLimit,
         NEW e \in Event, NEW ts \in Nat, ts >= m_currentTs, Insert(e, ts),
         UNCHANGED clockVars
  PROVE  KeyInv'
<1> DEFINE new == [ts |-> ts, uid |-> m_uid, impl |-> e]
<1>1. m_events' = m_events \cup {new} /\ m_uid' = m_uid + 1
  BY NextUidIsSuccessor DEF Insert, TypeOK
<1>2. /\ m_uid \in Nat /\ m_currentUid \in Nat /\ m_currentTs \in Nat
      /\ \A ev \in m_events : ev.ts \in Nat /\ ev.uid \in Nat
  BY DEF TypeOK, Uid
<1>3. CurrentKey' = CurrentKey
  BY DEF CurrentKey, clockVars
<1>4. new.ts = ts /\ new.uid = m_uid /\ Less(CurrentKey, new)
  BY <1>2 DEF Less, CurrentKey, KeyInv
<1>5. ASSUME NEW ev \in m_events'
      PROVE  Less(CurrentKey', ev) /\ ev.uid < m_uid'
  <2>1. CASE ev = new
    BY <2>1, <1>1, <1>2, <1>3, <1>4
  <2>2. CASE ev \in m_events
    BY <2>2, <1>1, <1>2, <1>3 DEF KeyInv
  <2>3. QED
    BY <2>1, <2>2, <1>1
<1>6. ASSUME NEW ev \in m_events', NEW f \in m_events', ev.uid = f.uid
      PROVE  ev = f
  BY <1>1, <1>2, <1>4, <1>6 DEF KeyInv
<1>7. m_currentUid' < m_uid'
  BY <1>1, <1>2 DEF KeyInv, clockVars
<1>8. QED
  BY <1>5, <1>6, <1>7 DEF KeyInv

\* A step that takes the earliest event: its key is above the current one,
\* and below the keys that stay.
LEMMA TakeNextRaisesKey ==
  ASSUME TypeOK, KeyInv, NEW next \in m_events, TakeNext(next),
         m_uid' = m_uid
  PROVE  KeyInv' /\ Less(CurrentKey, CurrentKey')
<1>1. /\ m_uid \in Nat /\ m_currentUid \in Nat /\ m_currentTs \in Nat
      /\ \A ev \in m_events : ev.ts \in Nat /\ ev.uid \in Nat
  BY DEF TypeOK, Uid
<1>2. CurrentKey' = [ts |-> next.ts, uid |-> next.uid]
  BY DEF TakeNext, CurrentKey
<1>3. \A ev \in m_events' : ev \in m_events /\ ev # next
  BY DEF TakeNext
<1>4. \A ev \in m_events' : Less(CurrentKey', ev)
  BY <1>1, <1>2, <1>3 DEF TakeNext, IsEarliest, Less, KeyInv
<1>5. Less(CurrentKey, CurrentKey')
  BY <1>2 DEF KeyInv, Less
<1>6. QED
  BY <1>3, <1>4, <1>5 DEF KeyInv, TakeNext

\* What a step does to the event list, its counter, the clock and the ids user
\* code holds: it inserts an event (whose id user code gets or does not get),
\* takes or removes one, gives an id to a destroy event, drops the list, or
\* leaves them alone.
StepKind ==
    \/ \E e \in Event, ts \in Nat :
          /\ m_uid < UidLimit /\ ts >= m_currentTs
          /\ Insert(e, ts)
          /\ ids' = [ids EXCEPT ![e] = [ts |-> ts, uid |-> m_uid]]
          /\ UNCHANGED <<clockVars, cancelled, pc>>
    \/ \E e \in Event, ts \in Nat :
          /\ m_uid < UidLimit /\ ts >= m_currentTs
          /\ Insert(e, ts)
          /\ UNCHANGED <<ids, clockVars, cancelled, pc>>
    \/ \E next \in m_events : /\ TakeNext(next)
                              /\ UNCHANGED <<m_uid, ids, cancelled>>
    \/ \E e \in Event : Remove(e) \/ ScheduleDestroy(e)
    \/ DoDispose
    \/ /\ UNCHANGED <<m_events, m_unscheduledEvents, m_uid, clockVars, ids>>
       /\ cancelled \subseteq cancelled'
       /\ pc' # "disposed" => pc # "disposed"

LEMMA EveryStepHasAKind ==
  ASSUME TypeOK, [Next]_vars
  PROVE  StepKind
<1> USE DEF mainVars, queueVars, userVars, listVars
<1>d. \A d \in Delay : m_currentTs + d \in Nat /\ m_currentTs + d >= m_currentTs
  BY ConstantsAssumption DEF TypeOK
<1>1. ASSUME NEW d \in Delay, NEW e \in Event,
             Schedule(d, e) \/ StopAfter(d, e) \/ ScheduleWithContext(d, e)
      PROVE  StepKind
  BY <1>1, <1>d DEF Schedule, StopAfter, ScheduleWithContext, NewEvent,
                    StepKind
<1>2. ASSUME NEW e \in Event,
             \/ ScheduleDestroy(e) \/ RemoveDestroyEvent(e)
             \/ Remove(e) \/ Cancel(e)
      PROVE  StepKind
  BY <1>2 DEF RemoveDestroyEvent, Cancel, StepKind
<1>3. CASE Stop \/ Run \/ Destroy
  BY <1>3 DEF Stop, Run, Destroy, StepKind
<1>4. CASE ProcessEventsWithContext
  <2>1. CASE DrainInsert
    <3>1. Head(eventsWithContext) \in Post
      BY <2>1 DEF DrainInsert, TypeOK
    <3>2. /\ Head(eventsWithContext).delay \in Delay
          /\ Head(eventsWithContext).impl \in Event
      BY <3>1 DEF Post
    <3>3. QED
      BY <2>1, <3>2, <1>d DEF DrainInsert, StepKind
  <2>2. CASE ~DrainInsert
    BY <1>4, <2>2 DEF ProcessEventsWithContext, DrainSkip, DrainTest,
       DrainLock, DrainSwap, DrainUnlock, DrainDone, StepKind
  <2>3. QED
    BY <2>1, <2>2
<1>5. CASE MainLoop
  <2>1. CASE ProcessOneEvent
    BY <2>1 DEF ProcessOneEvent, InvokeEvent, InvokeStop, SkipCancelled,
                StepKind
  <2>2. CASE ~ProcessOneEvent
    BY <1>5, <2>2 DEF MainLoop, EnterLoop, HandlerReturn, RunReturn, StepKind
  <2>3. QED
    BY <2>1, <2>2
<1>6. CASE Shutdown
  BY <1>6 DEF Shutdown, DestroyNext, DestroyHandlerReturn, BeginDispose,
              StepKind
<1>7. CASE ThreadStep
  BY <1>7 DEF ThreadStep, PostLock, PostPush, PostUnlock, StepKind
<1>8. CASE UNCHANGED vars
  BY <1>8 DEF vars, StepKind
<1>9. QED
  BY <1>1, <1>2, <1>3, <1>4, <1>5, <1>6, <1>7, <1>8
     DEF Next, UserCall, Terminated

LEMMA KeyInductive ==
  ASSUME NoWrap, TypeOK, KeyInv, [Next]_vars
  PROVE  KeyInv' /\ (CurrentKey' = CurrentKey \/ Less(CurrentKey, CurrentKey'))
<1>1. ASSUME NEW e \in Event, NEW ts \in Nat, m_uid < UidLimit,
             ts >= m_currentTs, Insert(e, ts), UNCHANGED clockVars
      PROVE  KeyInv' /\ CurrentKey' = CurrentKey
  BY <1>1, InsertKeepsKeyInv DEF CurrentKey, clockVars
<1>2. ASSUME NEW next \in m_events, TakeNext(next), m_uid' = m_uid
      PROVE  KeyInv' /\ Less(CurrentKey, CurrentKey')
  BY <1>2, TakeNextRaisesKey
<1>3. ASSUME NEW e \in Event, Remove(e)
      PROVE  KeyInv' /\ CurrentKey' = CurrentKey
  BY <1>3 DEF Remove, clockVars, KeyInv, CurrentKey
<1>4. ASSUME NEW e \in Event, ScheduleDestroy(e)
      PROVE  KeyInv' /\ CurrentKey' = CurrentKey
  <2>1. m_uid' = m_uid + 1
    BY <1>4, NextUidIsSuccessor DEF ScheduleDestroy, NewEvent, TypeOK
  <2>2. /\ m_uid \in Nat /\ m_currentUid \in Nat
        /\ \A ev \in m_events : ev.uid \in Nat
    BY DEF TypeOK, Uid
  <2>3. m_events' = m_events /\ UNCHANGED clockVars
    BY <1>4 DEF ScheduleDestroy
  <2>4. QED
    BY <2>1, <2>2, <2>3 DEF clockVars, KeyInv, CurrentKey
<1>5. CASE DoDispose
  BY <1>5 DEF DoDispose, clockVars, KeyInv, CurrentKey
<1>6. CASE UNCHANGED <<m_events, m_uid, clockVars>>
  BY <1>6 DEF clockVars, KeyInv, CurrentKey
<1>7. QED
  BY EveryStepHasAKind, <1>1, <1>2, <1>3, <1>4, <1>5, <1>6 DEF StepKind

\* The event list holds only events of the future.
THEOREM ListIsAhead == NoWrap => (Spec => []KeyInv)
<1> SUFFICES ASSUME NoWrap PROVE Spec => []KeyInv
  OBVIOUS
<1>1. Init => KeyInv
  BY DEF Init, KeyInv, INVALID, VALID
<1>2. TypeOK /\ KeyInv /\ [Next]_vars => KeyInv'
  BY KeyInductive
<1>3. QED
  BY <1>1, <1>2, TypeCorrect, PTL DEF Spec

\* Events run in the order of their keys: over any number of runs, each event
\* that is taken has a larger key than the one before it, so that the clock
\* never moves back and NS_ASSERT(next.key.m_ts >= m_currentTs) never fails.
THEOREM KeyOrder == NoWrap => (Spec => RunsInKeyOrder)
<1> SUFFICES ASSUME NoWrap PROVE Spec => RunsInKeyOrder
  OBVIOUS
<1>1. TypeOK /\ KeyInv /\ [Next]_vars =>
        [<<m_currentTs, m_currentUid>>' # <<m_currentTs, m_currentUid>>
           => Less([ts |-> m_currentTs,  uid |-> m_currentUid],
                   [ts |-> m_currentTs', uid |-> m_currentUid'])]_vars
  BY KeyInductive DEF CurrentKey
<1>2. QED
  BY <1>1, TypeCorrect, ListIsAhead, PTL DEF Spec, RunsInKeyOrder

-----------------------------------------------------------------------------
(* IsExpired against the event list.  An id user code holds is that of a    *)
(* pending event, or its key has been reached, or its event is cancelled;   *)
(* and no event of the list has the id of another one.                      *)

IdOf(e) == [ts |-> ids[e].ts, uid |-> ids[e].uid, impl |-> e]

Ordinary(e) == ids[e] # None /\ ids[e].uid # DESTROY

IdsInv ==
    \A e \in Event : Ordinary(e) =>
        /\ ids[e].uid < m_uid
        /\ \A ev \in m_events : ev.uid = ids[e].uid => ev = IdOf(e)
        /\ pc # "disposed" =>
             IdOf(e) \in m_events \/ ~Less(CurrentKey, ids[e]) \/ e \in cancelled

LEMMA IdsInductive ==
  ASSUME NoWrap, TypeOK, KeyInv, IdsInv, [Next]_vars
  PROVE  IdsInv'
<1>t. /\ m_uid \in Uid /\ m_uid \in Nat /\ m_uid # DESTROY
      /\ m_currentTs \in Nat /\ m_currentUid \in Nat
      /\ \A ev \in m_events : ev.ts \in Nat /\ ev.uid \in Nat
  BY DEF TypeOK, Uid, DESTROY
<1>i. \A f \in Event : ids[f] # None => ids[f].ts \in Nat /\ ids[f].uid \in Nat
  BY ConstantsAssumption DEF TypeOK, EventId, Uid, DESTROY
<1>1. ASSUME NEW e \in Event, NEW ts \in Nat, m_uid < UidLimit, Insert(e, ts),
             \/ ids' = [ids EXCEPT ![e] = [ts |-> ts, uid |-> m_uid]]
             \/ ids' = ids,
             UNCHANGED <<clockVars, cancelled, pc>>
      PROVE  IdsInv'
  <2> DEFINE new == [ts |-> ts, uid |-> m_uid, impl |-> e]
  <2>1. m_events' = m_events \cup {new} /\ m_uid' = m_uid + 1
    BY <1>1, <1>t, NextUidIsSuccessor DEF Insert
  <2>2. CurrentKey' = CurrentKey /\ cancelled' = cancelled /\ pc' = pc
    BY <1>1 DEF CurrentKey, clockVars
  <2>3. ASSUME NEW f \in Event, Ordinary(f)', ids'[f] = ids[f]
        PROVE  /\ ids'[f].uid < m_uid'
               /\ \A ev \in m_events' : ev.uid = ids'[f].uid => ev = IdOf(f)'
               /\ (pc # "disposed")' =>
                    \/ IdOf(f)' \in m_events' \/ ~Less(CurrentKey', ids'[f])
                    \/ f \in cancelled'
    <3>1. Ordinary(f) /\ IdOf(f)' = IdOf(f) /\ ids[f].uid \in Nat
      BY <2>3, <1>i DEF Ordinary, IdOf
    <3>2. QED
      BY <2>1, <2>2, <2>3, <3>1, <1>t DEF IdsInv
  <2>4. ASSUME ids' = [ids EXCEPT ![e] = [ts |-> ts, uid |-> m_uid]]
        PROVE  /\ ids'[e].uid < m_uid'
               /\ \A ev \in m_events' : ev.uid = ids'[e].uid => ev = IdOf(e)'
               /\ IdOf(e)' \in m_events'
    <3>1. ids'[e] = [ts |-> ts, uid |-> m_uid]
      BY <2>4 DEF TypeOK
    <3>2. IdOf(e)' = new
      BY <3>1 DEF IdOf
    <3>3. QED
      BY <2>1, <3>1, <3>2, <1>t DEF KeyInv
  <2>5. \A f \in Event : ids'[f] = ids[f]
            \/ (f = e /\ ids' = [ids EXCEPT ![e] = [ts |-> ts, uid |-> m_uid]])
    BY <1>1 DEF TypeOK
  <2>6. QED
    BY <2>3, <2>4, <2>5 DEF IdsInv
<1>2. ASSUME NEW next \in m_events, TakeNext(next),
             UNCHANGED <<m_uid, ids, cancelled>>
      PROVE  IdsInv'
  <2>1. Less(CurrentKey, CurrentKey')
    BY <1>2, TakeNextRaisesKey
  <2>2. CurrentKey' = [ts |-> next.ts, uid |-> next.uid]
    BY <1>2 DEF TakeNext, CurrentKey
  <2>3. m_events' = m_events \ {next} /\ pc # "disposed"
    BY <1>2 DEF TakeNext
  <2>4. ASSUME NEW f \in Event, Ordinary(f)
        PROVE  /\ ids[f].uid < m_uid
               /\ \A ev \in m_events' : ev.uid = ids[f].uid => ev = IdOf(f)
               /\ \/ IdOf(f) \in m_events' \/ ~Less(CurrentKey', ids[f])
                  \/ f \in cancelled
    <3>1. ids[f].ts \in Nat /\ ids[f].uid \in Nat
      BY <2>4, <1>i DEF Ordinary
    <3>2. CASE IdOf(f) = next
      BY <3>1, <3>2, <2>2, <2>3, <2>4, <1>t DEF IdOf, Less, IdsInv
    <3>3. CASE ~Less(CurrentKey, ids[f])
      <4>1. ~Less(CurrentKey', ids[f])
        BY <3>1, <3>3, <2>1, <2>2, <1>t DEF Less, CurrentKey
      <4>2. QED
        BY <4>1, <2>3, <2>4 DEF IdsInv
    <3>4. QED
      BY <3>2, <3>3, <2>3, <2>4 DEF IdsInv
  <2>5. QED
    BY <1>2, <2>4 DEF IdsInv, Ordinary, IdOf
<1>3. ASSUME NEW e \in Event, Remove(e)
      PROVE  IdsInv'
  <2>1. /\ m_events' = {ev \in m_events : ~(ev.ts = ids[e].ts
                                            /\ ev.uid = ids[e].uid)}
        /\ cancelled' = cancelled \cup {e} /\ pc' = pc
        /\ UNCHANGED <<m_uid, ids>> /\ CurrentKey' = CurrentKey
        /\ Ordinary(e)
    BY <1>3 DEF Remove, mainVars, clockVars, CurrentKey, Ordinary
  <2>2. ASSUME NEW f \in Event, Ordinary(f), f # e, IdOf(f) \in m_events
        PROVE  IdOf(f) \in m_events'
    <3>1. IdOf(f).uid = ids[f].uid /\ IdOf(f).impl = f /\ IdOf(e).impl = e
      BY DEF IdOf
    <3>2. ids[f].uid # ids[e].uid
      BY <3>1, <2>1, <2>2 DEF IdsInv
    <3>3. QED
      BY <3>1, <3>2, <2>1, <2>2
  <2>3. QED
    BY <2>1, <2>2 DEF IdsInv, Ordinary, IdOf
<1>4. ASSUME NEW e \in Event, ScheduleDestroy(e)
      PROVE  IdsInv'
  <2>1. /\ m_uid' = m_uid + 1
        /\ UNCHANGED <<m_events, cancelled, pc>> /\ CurrentKey' = CurrentKey
        /\ ids' = [ids EXCEPT ![e] = [ts |-> m_currentTs, uid |-> DESTROY]]
    BY <1>4, <1>t, NextUidIsSuccessor
       DEF ScheduleDestroy, NewEvent, mainVars, clockVars, CurrentKey
  <2>2. \A f \in Event : Ordinary(f)' => Ordinary(f) /\ ids'[f] = ids[f]
    BY <2>1 DEF Ordinary, TypeOK
  <2>3. \A f \in Event : Ordinary(f)' => IdOf(f)' = IdOf(f)
    BY <2>2 DEF IdOf
  <2>4. QED
    BY <2>1, <2>2, <2>3, <1>t, <1>i DEF IdsInv, Ordinary
<1>5. CASE DoDispose
  BY <1>5 DEF DoDispose, userVars, IdsInv, Ordinary
<1>6. CASE /\ UNCHANGED <<m_events, m_unscheduledEvents, m_uid, clockVars, ids>>
           /\ cancelled \subseteq cancelled'
           /\ pc' # "disposed" => pc # "disposed"
  <2>1. /\ m_events' = m_events /\ m_uid' = m_uid /\ ids' = ids
        /\ CurrentKey' = CurrentKey
    BY <1>6 DEF clockVars, CurrentKey
  <2>2. \A f \in Event : (Ordinary(f)' <=> Ordinary(f)) /\ IdOf(f)' = IdOf(f)
    BY <2>1 DEF Ordinary, IdOf
  <2>3. QED
    BY <1>6, <2>1, <2>2 DEF IdsInv
<1>7. QED
  BY EveryStepHasAKind, <1>1, <1>2, <1>3, <1>4, <1>5, <1>6 DEF StepKind

\* What IdsInv says of an id is what IsExpired computes.
LEMMA IdsInvGivesExpiredIsExact == TypeOK /\ KeyInv /\ IdsInv => ExpiredIsExact
<1> SUFFICES ASSUME TypeOK, KeyInv, IdsInv, pc # "disposed",
                    NEW e \in Event, Ordinary(e)
             PROVE  ~IsExpired(e) <=> IdOf(e) \in m_events /\ e \notin cancelled
  BY DEF ExpiredIsExact, Ordinary, IdOf
<1>1. /\ ids[e].ts \in Nat /\ ids[e].uid \in Nat
      /\ m_currentTs \in Nat /\ m_currentUid \in Nat
  BY ConstantsAssumption DEF TypeOK, EventId, Uid, DESTROY, Ordinary
<1>2. IsExpired(e) <=> ~Less(CurrentKey, ids[e]) \/ e \in cancelled
  BY <1>1 DEF IsExpired, Ordinary, Less, CurrentKey
<1>3. IdOf(e) \in m_events => Less(CurrentKey, ids[e])
  BY DEF KeyInv, Less, IdOf
<1>4. QED
  BY <1>2, <1>3 DEF IdsInv

\* IsExpired is exact: a pending event is never taken for an expired one, nor
\* an executed or removed one for a pending one.
THEOREM ExpiredExact == NoWrap => (Spec => []ExpiredIsExact)
<1> SUFFICES ASSUME NoWrap PROVE Spec => []ExpiredIsExact
  OBVIOUS
<1>1. Init => IdsInv
  BY DEF Init, IdsInv, Ordinary
<1>2. TypeOK /\ KeyInv /\ IdsInv /\ [Next]_vars => IdsInv'
  BY IdsInductive
<1>3. TypeOK /\ KeyInv /\ IdsInv => ExpiredIsExact
  BY IdsInvGivesExpiredIsExact
<1>4. QED
  BY <1>1, <1>2, <1>3, TypeCorrect, ListIsAhead, PTL DEF Spec

-----------------------------------------------------------------------------
(* The counter m_unscheduledEvents.                                         *)

CountInv == IsFiniteSet(m_events) /\ CountIsExact

LEMMA CountInductive ==
  ASSUME NoWrap, TypeOK, KeyInv, IdsInv, CountInv, [Next]_vars
  PROVE  CountInv'
<1>1. ASSUME NEW e \in Event, NEW ts \in Nat, Insert(e, ts), pc' = pc
      PROVE  CountInv'
  <2> DEFINE new == [ts |-> ts, uid |-> m_uid, impl |-> e]
  <2>1. new \notin m_events
    BY DEF KeyInv, TypeOK, Uid
  <2>2. m_events' = m_events \cup {new}
    BY <1>1 DEF Insert
  <2>3. QED
    BY <1>1, <2>1, <2>2, FS_AddElement DEF Insert, CountInv, CountIsExact
<1>2. ASSUME NEW next \in m_events, TakeNext(next)
      PROVE  CountInv'
  BY <1>2, FS_RemoveElement DEF TakeNext, CountInv, CountIsExact
<1>3. ASSUME NEW e \in Event, Remove(e)
      PROVE  CountInv'
  <2>1. Ordinary(e) /\ ~IsExpired(e) /\ pc # "disposed"
    BY <1>3 DEF Remove, InUserCode, Ordinary
  <2>2. IdOf(e) \in m_events
    BY <2>1, IdsInvGivesExpiredIsExact DEF ExpiredIsExact, Ordinary, IdOf
  <2>3. m_events' = m_events \ {IdOf(e)}
    BY <1>3, <2>1, <2>2 DEF Remove, IdsInv, IdOf
  <2>4. QED
    BY <1>3, <2>1, <2>2, <2>3, FS_RemoveElement
       DEF Remove, CountInv, CountIsExact
<1>4. ASSUME NEW e \in Event, ScheduleDestroy(e)
      PROVE  CountInv'
  BY <1>4 DEF ScheduleDestroy, mainVars, CountInv, CountIsExact
<1>5. CASE DoDispose
  BY <1>5, FS_EmptySet DEF DoDispose, CountInv, CountIsExact
<1>6. CASE /\ UNCHANGED <<m_events, m_unscheduledEvents>>
           /\ pc' # "disposed" => pc # "disposed"
  BY <1>6 DEF CountInv, CountIsExact
<1>7. QED
  BY EveryStepHasAKind, <1>1, <1>2, <1>3, <1>4, <1>5, <1>6 DEF StepKind

\* The counter the code keeps is the number of events in the list: the
\* consistency check at the end of Run never fails.
THEOREM CountExact == NoWrap => (Spec => []CountIsExact)
<1> SUFFICES ASSUME NoWrap PROVE Spec => []CountIsExact
  OBVIOUS
<1>1. Init => IdsInv /\ CountInv
  BY FS_EmptySet DEF Init, IdsInv, Ordinary, CountInv, CountIsExact
<1>2. TypeOK /\ KeyInv /\ IdsInv /\ [Next]_vars => IdsInv'
  BY IdsInductive
<1>3. TypeOK /\ KeyInv /\ IdsInv /\ CountInv /\ [Next]_vars => CountInv'
  BY CountInductive
<1>4. CountInv => CountIsExact
  BY DEF CountInv
<1>5. QED
  BY <1>1, <1>2, <1>3, <1>4, TypeCorrect, ListIsAhead, PTL DEF Spec

-----------------------------------------------------------------------------
(* The hand-over queue and its flag.                                        *)

\* Who holds the mutex, and which of the two queues may have something in it.
DrainInv ==
    /\ drain \in {"swap", "unlock"} <=> mutex = Main
    /\ drain \notin {"unlock", "insert"} => eventsWithContext = <<>>
    /\ drain = "unlock" => m_eventsWithContext = <<>>
    /\ pc \in {"idle", "handler", "destroy", "destroyHandler"} => drain = "off"

LEMMA DrainInductive ==
  ASSUME DrainInv, QueueIsAnnounced, [Next]_vars
  PROVE  DrainInv' /\ QueueIsAnnounced'
<1> USE DEF DrainInv, QueueIsAnnounced
<1>m. Main \notin Thread /\ None \notin Thread /\ Main # None
  BY ConstantsAssumption
<1>1. CASE UNCHANGED <<drain, mutex, eventsWithContext, m_eventsWithContext,
                       m_eventsWithContextEmpty, pc>>
  BY <1>1
<1>2. CASE ProcessEventsWithContext
  <2>1. CASE DrainSkip \/ DrainTest \/ DrainLock
    BY <2>1, <1>m DEF DrainSkip, DrainTest, DrainLock, queueVars
  <2>2. CASE DrainSwap \/ DrainUnlock
    BY <2>2, <1>m DEF DrainSwap, DrainUnlock
  <2>3. CASE DrainInsert \/ DrainDone
    BY <2>3, <1>m DEF DrainInsert, DrainDone, queueVars
  <2>. QED BY <1>2, <2>1, <2>2, <2>3 DEF ProcessEventsWithContext
<1>3. CASE MainLoop \/ Run \/ Destroy \/ Shutdown
  <2>1. UNCHANGED <<mutex, eventsWithContext, m_eventsWithContext, m_eventsWithContextEmpty>>
    BY <1>3 DEF MainLoop, EnterLoop, ProcessOneEvent, InvokeEvent, InvokeStop, SkipCancelled,
          HandlerReturn, RunReturn, Run, Destroy, Shutdown, DestroyNext, DestroyHandlerReturn,
          BeginDispose, DoDispose, queueVars
  <2>2. drain = "off"
    BY <1>3 DEF MainLoop, EnterLoop, ProcessOneEvent, InvokeEvent, InvokeStop, SkipCancelled,
          TakeNext, HandlerReturn, RunReturn, Run, Destroy, Shutdown, DestroyNext,
          DestroyHandlerReturn, BeginDispose, DoDispose
  <2>3. \/ drain' = "off"
        \/ drain' = "test" /\ pc' \in {"loop", "start", "dispose"}
    BY <1>3, <2>2 DEF MainLoop, EnterLoop, ProcessOneEvent, InvokeEvent, InvokeStop,
          SkipCancelled, TakeNext, HandlerReturn, RunReturn, Run, Destroy, Shutdown, DestroyNext,
          DestroyHandlerReturn, BeginDispose, DoDispose
  <2>. QED BY <2>1, <2>2, <2>3
<1>4. CASE ThreadStep
  <2>1. UNCHANGED <<drain, eventsWithContext, pc>>
    BY <1>4 DEF ThreadStep, PostLock, PostPush, PostUnlock, mainVars
  <2>2. ASSUME NEW t \in Thread, NEW d \in Delay, NEW e \in Event, PostLock(t, d, e)
        PROVE  DrainInv' /\ QueueIsAnnounced'
    BY <1>m, <2>1, <2>2 DEF PostLock
  <2>3. ASSUME NEW t \in Thread, PostPush(t)
        PROVE  DrainInv' /\ QueueIsAnnounced'
    BY <1>m, <2>1, <2>3 DEF PostPush
  <2>4. ASSUME NEW t \in Thread, PostUnlock(t)
        PROVE  DrainInv' /\ QueueIsAnnounced'
    BY <1>m, <2>1, <2>4 DEF PostUnlock
  <2>. QED BY <1>4, <2>2, <2>3, <2>4 DEF ThreadStep
<1>5. CASE UserCall
  BY <1>1, <1>5 DEF UserCall, Schedule, StopAfter, ScheduleWithContext, ScheduleDestroy,
        RemoveDestroyEvent, Remove, Cancel, Stop, mainVars, queueVars
<1>6. CASE UNCHANGED vars
  BY <1>1, <1>6 DEF vars, mainVars, queueVars
<1>. QED BY <1>2, <1>3, <1>4, <1>5, <1>6 DEF Next, Terminated

LEMMA DrainInvariant == Spec => [](DrainInv /\ QueueIsAnnounced)
<1>1. Init => DrainInv /\ QueueIsAnnounced
  BY ConstantsAssumption DEF Init, DrainInv, QueueIsAnnounced
<1>2. DrainInv /\ QueueIsAnnounced /\ [Next]_vars => DrainInv' /\ QueueIsAnnounced'
  BY DrainInductive
<1>. QED BY <1>1, <1>2, PTL DEF Spec

\* The flag announces every post, for any number of threads: when the main
\* thread sets it the queue is empty, because the list that it swaps in is.
THEOREM PostsAreAnnounced == Spec => []QueueIsAnnounced
BY DrainInvariant, PTL

-----------------------------------------------------------------------------
(* The references.  An event is in one place at most, which owns its one    *)
(* reference; every place is entered with the reference and left with it.   *)

Held(e)    == \E t \in Thread : hand[t] # None /\ hand[t].impl = e
Queued(e)  == InQueue(m_eventsWithContext, e)
Swapped(e) == InQueue(eventsWithContext, e)
Listed(e)  == \E ev \in m_events : ev.impl = e
Runs(e)    == current = e /\ pc = "handler"

Owned(e) == Held(e) \/ Queued(e) \/ Swapped(e) \/ Listed(e) \/ Runs(e)

OnePlace(e) ==
    /\ Held(e) => ~Queued(e) /\ ~Swapped(e) /\ ~Listed(e) /\ ~Runs(e)
    /\ Queued(e) => ~Swapped(e) /\ ~Listed(e) /\ ~Runs(e)
    /\ Swapped(e) => ~Listed(e) /\ ~Runs(e)
    /\ Listed(e) => ~Runs(e)
    /\ Owned(e) => e \in made

\* No event is in a queue twice.
NoDup(q) == \A i, j \in 1..Len(q) : q[i].impl = q[j].impl => i = j

\* No event is in a place twice.
OnceInPlace ==
    /\ NoDup(m_eventsWithContext) /\ NoDup(eventsWithContext)
    /\ \A ev, f \in m_events : ev.impl = f.impl => ev = f
    /\ \A t \in Thread : hand[t] # None => mutex = t
    /\ pc = "handler" => current \in Event

OwnerInv ==
    /\ OnceInPlace
    /\ \A e \in Event : OnePlace(e) /\ refs[e] = IF Owned(e) THEN 1 ELSE 0

LEMMA InAppend ==
  ASSUME NEW q \in Seq(Post), NEW x \in Post
  PROVE  /\ \A e : InQueue(Append(q, x), e) <=> InQueue(q, e) \/ x.impl = e
         /\ NoDup(q) /\ ~InQueue(q, x.impl) => NoDup(Append(q, x))
<1>1. /\ Append(q, x) \in Seq(Post) /\ Len(q) \in Nat /\ Len(Append(q, x)) = Len(q) + 1
      /\ \A i \in 1..Len(q) : Append(q, x)[i] = q[i]
      /\ Append(q, x)[Len(q) + 1] = x
  OBVIOUS
<1> DEFINE r == Append(q, x)
<1> HIDE DEF r
<1>2. /\ Len(q) \in Nat /\ Len(r) = Len(q) + 1
      /\ \A i \in 1..Len(q) : r[i] = q[i]
      /\ r[Len(q) + 1] = x
  BY <1>1 DEF r
<1>3. ASSUME NEW e PROVE InQueue(r, e) <=> InQueue(q, e) \/ x.impl = e
  <2>1. ASSUME InQueue(r, e) PROVE InQueue(q, e) \/ x.impl = e
    <3>1. PICK i \in 1..Len(r) : r[i].impl = e
      BY <2>1 DEF InQueue
    <3>2. i \in 1..Len(q) \/ i = Len(q) + 1
      BY <1>2
    <3>. QED BY <1>2, <3>1, <3>2 DEF InQueue
  <2>2. ASSUME InQueue(q, e) PROVE InQueue(r, e)
    <3>1. PICK i \in 1..Len(q) : q[i].impl = e
      BY <2>2 DEF InQueue
    <3>2. i \in 1..Len(r)
      BY <1>2
    <3>. QED BY <1>2, <3>1, <3>2 DEF InQueue
  <2>3. ASSUME x.impl = e PROVE InQueue(r, e)
    <3>1. Len(q) + 1 \in 1..Len(r)
      BY <1>2
    <3>. QED BY <1>2, <2>3, <3>1 DEF InQueue
  <2>. QED BY <2>1, <2>2, <2>3
<1>4. ASSUME NoDup(q), ~InQueue(q, x.impl) PROVE NoDup(r)
  <2> SUFFICES ASSUME NEW i \in 1..Len(r), NEW j \in 1..Len(r), r[i].impl = r[j].impl
               PROVE  i = j
    BY DEF NoDup
  <2>1. (i \in 1..Len(q) \/ i = Len(q) + 1) /\ (j \in 1..Len(q) \/ j = Len(q) + 1)
    BY <1>2
  <2>. QED BY <1>2, <1>4, <2>1 DEF NoDup, InQueue
<1>. QED BY <1>3, <1>4 DEF r

LEMMA InTail ==
  ASSUME NEW q \in Seq(Post), q # <<>>
  PROVE  /\ \A e : InQueue(q, e) <=> Head(q).impl = e \/ InQueue(Tail(q), e)
         /\ NoDup(q) => NoDup(Tail(q)) /\ ~InQueue(Tail(q), Head(q).impl)
<1> DEFINE r == Tail(q)
           x == Head(q)
<1>1. /\ Len(q) \in Nat /\ Len(q) > 0 /\ Len(r) = Len(q) - 1
      /\ \A i \in 1..Len(r) : r[i] = q[i + 1]
      /\ q[1] = x
  OBVIOUS
<1> HIDE DEF r, x
<1>2. ASSUME NEW e PROVE InQueue(q, e) <=> x.impl = e \/ InQueue(r, e)
  <2>1. ASSUME InQueue(q, e) PROVE x.impl = e \/ InQueue(r, e)
    <3>1. PICK i \in 1..Len(q) : q[i].impl = e
      BY <2>1 DEF InQueue
    <3>2. CASE i = 1
      BY <1>1, <3>1, <3>2
    <3>3. CASE i # 1
      <4>1. i - 1 \in 1..Len(r) /\ r[i - 1] = q[i]
        BY <1>1, <3>3
      <4>. QED BY <3>1, <4>1 DEF InQueue
    <3>. QED BY <3>2, <3>3
  <2>2. ASSUME InQueue(r, e) PROVE InQueue(q, e)
    <3>1. PICK i \in 1..Len(r) : r[i].impl = e
      BY <2>2 DEF InQueue
    <3>2. i + 1 \in 1..Len(q)
      BY <1>1
    <3>. QED BY <1>1, <3>1, <3>2 DEF InQueue
  <2>3. ASSUME x.impl = e PROVE InQueue(q, e)
    <3>1. 1 \in 1..Len(q)
      BY <1>1
    <3>. QED BY <1>1, <2>3, <3>1 DEF InQueue
  <2>. QED BY <2>1, <2>2, <2>3
<1>3. ASSUME NoDup(q) PROVE NoDup(r) /\ ~InQueue(r, x.impl)
  <2>1. ASSUME NEW i \in 1..Len(r), NEW j \in 1..Len(r), r[i].impl = r[j].impl
        PROVE  i = j
    <3>1. i + 1 \in 1..Len(q) /\ j + 1 \in 1..Len(q)
      BY <1>1
    <3>2. i + 1 = j + 1
      BY <1>1, <1>3, <2>1, <3>1 DEF NoDup
    <3>. QED BY <3>2
  <2>2. ASSUME NEW i \in 1..Len(r), r[i].impl = x.impl PROVE FALSE
    <3>1. i + 1 \in 1..Len(q) /\ 1 \in 1..Len(q) /\ i + 1 # 1
      BY <1>1
    <3>. QED BY <1>1, <1>3, <2>2, <3>1 DEF NoDup
  <2>. QED BY <2>1, <2>2 DEF NoDup, InQueue
<1>. QED BY <1>2, <1>3 DEF r, x

\* A step that moves no event from one place to another.
LEMMA NothingMoves ==
  ASSUME TypeOK, OwnerInv,
         UNCHANGED <<hand, m_eventsWithContext, eventsWithContext, m_events, refs>>,
         made \subseteq made',
         pc' = "handler" <=> pc = "handler",
         pc = "handler" => current' = current,
         \A t \in Thread : hand[t] # None => mutex' = t
  PROVE  OwnerInv'
<1>1. \A e : /\ Held(e)' <=> Held(e)
             /\ Queued(e)' <=> Queued(e)
             /\ Swapped(e)' <=> Swapped(e)
             /\ Listed(e)' <=> Listed(e)
             /\ Runs(e)' <=> Runs(e)
  BY DEF Held, Queued, Swapped, Listed, Runs, InQueue
<1>2. OnceInPlace'
  BY DEF OwnerInv, OnceInPlace, NoDup
<1>3. \A e \in Event : OnePlace(e)' /\ refs'[e] = IF Owned(e)' THEN 1 ELSE 0
  BY <1>1 DEF OwnerInv, OnePlace, Owned
<1>. QED BY <1>2, <1>3 DEF OwnerInv

LEMMA InsertIsListed ==
  ASSUME NEW x, NEW ts, Insert(x, ts)
  PROVE  \A e : Listed(e)' <=> Listed(e) \/ e = x
<1> DEFINE new == [ts |-> ts, uid |-> m_uid, impl |-> x]
<1>1. m_events' = m_events \cup {new} /\ new.impl = x
  BY DEF Insert
<1> HIDE DEF new
<1>2. ASSUME NEW e PROVE Listed(e)' <=> Listed(e) \/ e = x
  BY <1>1 DEF Listed
<1>. QED BY <1>2

\* A new event is inserted into the list by the main thread.
LEMMA NewIsListed ==
  ASSUME TypeOK, OwnerInv, NEW x \in Event, NEW ts, x \notin made,
         Insert(x, ts), made' = made \cup {x}, refs' = [refs EXCEPT ![x] = 1],
         UNCHANGED <<queueVars, mainVars>>
  PROVE  OwnerInv'
<1>1. \A e : /\ Held(e)' <=> Held(e)
             /\ Queued(e)' <=> Queued(e)
             /\ Swapped(e)' <=> Swapped(e)
             /\ Runs(e)' <=> Runs(e)
  BY DEF Held, Queued, Swapped, Runs, InQueue, queueVars, mainVars
<1>0. \A e : Listed(e)' <=> Listed(e) \/ e = x
  BY InsertIsListed
<1>2. ~Owned(x)
  BY DEF OwnerInv, OnePlace
<1>3. OnceInPlace'
  <2>1. \A ev, f \in m_events' : ev.impl = f.impl => ev = f
    BY <1>2 DEF OwnerInv, OnceInPlace, Insert, Owned, Listed
  <2>. QED BY <2>1 DEF OwnerInv, OnceInPlace, NoDup, queueVars, mainVars
<1>4. \A e \in Event : refs'[e] = IF e = x THEN 1 ELSE refs[e]
  BY DEF TypeOK
<1>5. \A e \in Event : OnePlace(e)' /\ refs'[e] = IF Owned(e)' THEN 1 ELSE 0
  BY <1>0, <1>1, <1>2, <1>4 DEF OwnerInv, OnePlace, Owned
<1>. QED BY <1>3, <1>5 DEF OwnerInv

\* An event leaves the list and is dropped.
LEMMA ListedIsDropped ==
  ASSUME TypeOK, OwnerInv, NEW ev \in m_events, m_events' = m_events \ {ev},
         Unref(ev.impl), made' = made, pc' = pc, current' = current,
         UNCHANGED <<queueVars, eventsWithContext>>
  PROVE  OwnerInv'
<1>0. ev.impl \in Event /\ Listed(ev.impl)
  BY DEF TypeOK, Listed
<1>1. \A e : /\ Held(e)' <=> Held(e)
             /\ Queued(e)' <=> Queued(e)
             /\ Swapped(e)' <=> Swapped(e)
             /\ Runs(e)' <=> Runs(e)
  BY DEF Held, Queued, Swapped, Runs, InQueue, queueVars
<1>2. \A e : Listed(e)' <=> Listed(e) /\ e # ev.impl
  BY DEF Listed, OwnerInv, OnceInPlace
<1>3. OnceInPlace'
  BY DEF OwnerInv, OnceInPlace, NoDup, queueVars
<1>4. \A e \in Event : refs'[e] = IF e = ev.impl THEN refs[e] - 1 ELSE refs[e]
  BY DEF TypeOK, Unref
<1>5. \A e \in Event : OnePlace(e)' /\ refs'[e] = IF Owned(e)' THEN 1 ELSE 0
  BY <1>0, <1>1, <1>2, <1>4 DEF OwnerInv, OnePlace, Owned
<1>. QED BY <1>3, <1>5 DEF OwnerInv

LEMMA OwnerInductive ==
  ASSUME NoWrap, TypeOK, KeyInv, IdsInv, DrainInv, OwnerInv, [Next]_vars
  PROVE  OwnerInv'
<1>m. Main \notin Thread /\ None \notin Thread /\ Main # None /\ None \notin Event
  BY ConstantsAssumption
<1>h. \A t \in Thread : hand[t] # None => mutex = t
  BY DEF OwnerInv, OnceInPlace
<1>1. ASSUME NEW d \in Delay, NEW e \in Event,
             Schedule(d, e) \/ StopAfter(d, e) \/ ScheduleWithContext(d, e)
      PROVE  OwnerInv'
  BY <1>1, NewIsListed DEF Schedule, StopAfter, ScheduleWithContext, NewEvent
<1>2. ASSUME NEW e \in Event, Remove(e)
      PROVE  OwnerInv'
  <2>1. Ordinary(e) /\ ~IsExpired(e) /\ pc # "disposed"
    BY <1>2 DEF Remove, InUserCode, Ordinary
  <2>2. IdOf(e) \in m_events
    BY <2>1, IdsInvGivesExpiredIsExact DEF ExpiredIsExact, Ordinary, IdOf
  <2>3. m_events' = m_events \ {IdOf(e)} /\ IdOf(e).impl = e
    BY <1>2, <2>1, <2>2 DEF Remove, IdsInv, IdOf
  <2>4. /\ Unref(e) /\ made' = made /\ pc' = pc /\ current' = current
        /\ UNCHANGED <<queueVars, eventsWithContext>>
    BY <1>2 DEF Remove, mainVars
  <2>. QED BY <2>2, <2>3, <2>4, ListedIsDropped
<1>3. CASE Stop \/ Run \/ Destroy \/ (\E e \in Event : Cancel(e) \/ RemoveDestroyEvent(e))
  <2>1. /\ UNCHANGED <<hand, mutex, m_eventsWithContext, eventsWithContext, m_events, refs,
                       current, made>>
        /\ pc' = "handler" <=> pc = "handler"
    BY <1>3 DEF Stop, Run, Destroy, Cancel, RemoveDestroyEvent, listVars, queueVars, mainVars,
          userVars
  <2>. QED BY <1>h, <2>1, NothingMoves
<1>4. ASSUME NEW e \in Event, ScheduleDestroy(e)
      PROVE  OwnerInv'
  <2>1. /\ UNCHANGED <<hand, mutex, m_eventsWithContext, eventsWithContext, m_events, refs,
                       current, pc>>
        /\ made \subseteq made'
    BY <1>4 DEF ScheduleDestroy, NewEvent, queueVars, mainVars
  <2>. QED BY <1>h, <2>1, NothingMoves
<1>5. CASE DrainSkip \/ DrainTest \/ DrainLock \/ DrainUnlock \/ DrainDone
  <2>1. UNCHANGED <<hand, m_eventsWithContext, eventsWithContext, m_events, refs,
                    current, pc, made>>
    BY <1>5 DEF DrainSkip, DrainTest, DrainLock, DrainUnlock, DrainDone, listVars, queueVars,
          userVars
  <2>2. mutex' = mutex \/ mutex \notin Thread
    BY <1>m, <1>5 DEF DrainSkip, DrainTest, DrainLock, DrainUnlock, DrainDone, queueVars,
          DrainInv
  <2>3. \A t \in Thread : hand[t] # None => mutex' = t
    BY <1>h, <2>2
  <2>. QED BY <2>1, <2>3, NothingMoves
<1>6. CASE DrainSwap
  <2>1. \A e : /\ Held(e)' <=> Held(e)
               /\ Queued(e)' <=> Swapped(e)
               /\ Swapped(e)' <=> Queued(e)
               /\ Listed(e)' <=> Listed(e)
               /\ Runs(e)' <=> Runs(e)
    BY <1>6 DEF DrainSwap, Held, Queued, Swapped, Listed, Runs, InQueue, listVars
  <2>2. OnceInPlace'
    BY <1>6 DEF DrainSwap, OwnerInv, OnceInPlace, NoDup, listVars
  <2>3. refs' = refs /\ made' = made
    BY <1>6 DEF DrainSwap, userVars
  <2>4. \A e \in Event : OnePlace(e)' /\ refs'[e] = IF Owned(e)' THEN 1 ELSE 0
    BY <2>1, <2>3 DEF OwnerInv, OnePlace, Owned
  <2>. QED BY <2>2, <2>4 DEF OwnerInv
<1>7. CASE DrainInsert
  <2>0. PICK x \in Event : x = Head(eventsWithContext).impl
    <3>1. Head(eventsWithContext) \in Post
      BY <1>7 DEF DrainInsert, TypeOK
    <3>. QED BY <3>1 DEF Post
  <2>1. /\ eventsWithContext \in Seq(Post) /\ eventsWithContext # <<>>
        /\ eventsWithContext' = Tail(eventsWithContext)
    BY <1>7 DEF DrainInsert, TypeOK
  <2>2. PICK ts : Insert(x, ts)
    BY <1>7, <2>0 DEF DrainInsert
  <2>3. /\ \A e : Swapped(e) <=> x = e \/ Swapped(e)'
        /\ NoDup(eventsWithContext') /\ ~Swapped(x)'
    BY <2>0, <2>1, InTail DEF Swapped, OwnerInv, OnceInPlace
  <2>4. \A e : Listed(e)' <=> Listed(e) \/ e = x
    BY <2>2, InsertIsListed
  <2>5. \A e : /\ Held(e)' <=> Held(e)
               /\ Queued(e)' <=> Queued(e)
               /\ Runs(e)' <=> Runs(e)
    BY <1>7 DEF DrainInsert, Held, Queued, Runs, InQueue, queueVars
  <2>6. OnceInPlace'
    <3>1. ~Listed(x)
      BY <2>3 DEF OwnerInv, OnePlace
    <3>2. \A ev, f \in m_events' : ev.impl = f.impl => ev = f
      BY <2>2, <3>1 DEF OwnerInv, OnceInPlace, Insert, Listed
    <3>. QED BY <1>7, <2>3, <3>2 DEF DrainInsert, OwnerInv, OnceInPlace, NoDup, queueVars
  <2>7. refs' = refs /\ made' = made
    BY <1>7 DEF DrainInsert, userVars
  <2>8. \A e \in Event : OnePlace(e)' /\ refs'[e] = IF Owned(e)' THEN 1 ELSE 0
    BY <2>3, <2>4, <2>5, <2>7 DEF OwnerInv, OnePlace, Owned
  <2>. QED BY <2>6, <2>8 DEF OwnerInv
<1>8. ASSUME NEW next \in m_events, InvokeEvent(next)
      PROVE  OwnerInv'
  <2>1. /\ pc = "loop" /\ pc' = "handler" /\ current' = next.impl
        /\ m_events' = m_events \ {next}
        /\ UNCHANGED <<queueVars, eventsWithContext, userVars, refs>>
    BY <1>8 DEF InvokeEvent, TakeNext
  <2>2. next.impl \in Event /\ Listed(next.impl)
    BY DEF TypeOK, Listed
  <2>3. \A e : /\ Held(e)' <=> Held(e)
               /\ Queued(e)' <=> Queued(e)
               /\ Swapped(e)' <=> Swapped(e)
               /\ Listed(e)' <=> Listed(e) /\ e # next.impl
               /\ Runs(e)' <=> e = next.impl
               /\ ~Runs(e)
    BY <2>1 DEF Held, Queued, Swapped, Listed, Runs, InQueue, queueVars, OwnerInv, OnceInPlace
  <2>4. OnceInPlace'
    BY <2>1, <2>2 DEF OwnerInv, OnceInPlace, NoDup, queueVars
  <2>5. \A e \in Event : OnePlace(e)' /\ refs'[e] = IF Owned(e)' THEN 1 ELSE 0
    BY <2>1, <2>2, <2>3 DEF OwnerInv, OnePlace, Owned, userVars
  <2>. QED BY <2>4, <2>5 DEF OwnerInv
<1>9. ASSUME NEW next \in m_events, InvokeStop(next) \/ SkipCancelled(next)
      PROVE  OwnerInv'
  <2>1. /\ m_events' = m_events \ {next} /\ Unref(next.impl)
        /\ made' = made /\ pc' = pc /\ current' = current
        /\ UNCHANGED <<queueVars, eventsWithContext>>
    BY <1>9 DEF InvokeStop, SkipCancelled, TakeNext, userVars
  <2>. QED BY <2>1, ListedIsDropped
<1>10. CASE HandlerReturn
  <2>1. /\ pc = "handler" /\ pc' = "loop" /\ Unref(current)
        /\ UNCHANGED <<m_events, queueVars, eventsWithContext, made>>
    BY <1>10 DEF HandlerReturn, listVars, userVars
  <2>2. current \in Event /\ Runs(current)
    BY <2>1 DEF OwnerInv, OnceInPlace, Runs
  <2>3. \A e : /\ Held(e)' <=> Held(e)
               /\ Queued(e)' <=> Queued(e)
               /\ Swapped(e)' <=> Swapped(e)
               /\ Listed(e)' <=> Listed(e)
               /\ ~Runs(e)' /\ (Runs(e) <=> e = current)
    BY <2>1 DEF Held, Queued, Swapped, Listed, Runs, InQueue, queueVars
  <2>4. \A e \in Event : refs'[e] = IF e = current THEN refs[e] - 1 ELSE refs[e]
    BY <2>1 DEF TypeOK, Unref
  <2>5. OnceInPlace'
    BY <2>1 DEF OwnerInv, OnceInPlace, NoDup, queueVars
  <2>6. \A e \in Event : OnePlace(e)' /\ refs'[e] = IF Owned(e)' THEN 1 ELSE 0
    BY <2>1, <2>2, <2>3, <2>4 DEF OwnerInv, OnePlace, Owned
  <2>. QED BY <2>5, <2>6 DEF OwnerInv
<1>11. CASE EnterLoop \/ RunReturn \/ DestroyNext \/ DestroyHandlerReturn \/ BeginDispose
  <2>1. /\ UNCHANGED <<hand, mutex, m_eventsWithContext, eventsWithContext, m_events, refs, made>>
        /\ pc # "handler" /\ pc' # "handler"
    BY <1>11 DEF EnterLoop, RunReturn, DestroyNext, DestroyHandlerReturn, BeginDispose, listVars,
          queueVars, userVars
  <2>. QED BY <1>h, <2>1, NothingMoves
<1>12. CASE DoDispose
  <2>1. /\ m_events' = {} /\ pc = "dispose" /\ pc' = "disposed" /\ made' = made
        /\ UNCHANGED <<queueVars, eventsWithContext>>
    BY <1>12 DEF DoDispose, userVars
  <2>2. \A e \in Event : refs'[e] = IF Listed(e) THEN refs[e] - 1 ELSE refs[e]
    BY <1>12 DEF DoDispose, Listed
  <2>3. \A e : /\ Held(e)' <=> Held(e)
               /\ Queued(e)' <=> Queued(e)
               /\ Swapped(e)' <=> Swapped(e)
               /\ ~Listed(e)' /\ ~Runs(e)' /\ ~Runs(e)
    BY <2>1 DEF Held, Queued, Swapped, Listed, Runs, InQueue, queueVars
  <2>4. OnceInPlace'
    BY <2>1 DEF OwnerInv, OnceInPlace, NoDup, queueVars
  <2>5. \A e \in Event : OnePlace(e)' /\ refs'[e] = IF Owned(e)' THEN 1 ELSE 0
    BY <2>1, <2>2, <2>3 DEF OwnerInv, OnePlace, Owned
  <2>. QED BY <2>4, <2>5 DEF OwnerInv
<1>13. ASSUME NEW t \in Thread, NEW d \in Delay, NEW x \in Event, PostLock(t, d, x)
      PROVE  OwnerInv'
  <2>1. /\ mutex = None /\ mutex' = t /\ x \notin made /\ made' = made \cup {x}
        /\ hand' = [hand EXCEPT ![t] = [delay |-> d, impl |-> x]]
        /\ refs' = [refs EXCEPT ![x] = 1]
        /\ UNCHANGED <<m_events, m_eventsWithContext, eventsWithContext, pc, current>>
    BY <1>13 DEF PostLock, listVars, mainVars
  <2>2. \A u \in Thread : hand[u] = None
    BY <1>h, <1>m, <2>1
  <2>3. [delay |-> d, impl |-> x] # None
    BY ConstantsAssumption
  <2>4. ~Owned(x)
    BY <2>1 DEF OwnerInv, OnePlace
  <2>5. \A e : /\ ~Held(e) /\ (Held(e)' <=> e = x)
               /\ Queued(e)' <=> Queued(e)
               /\ Swapped(e)' <=> Swapped(e)
               /\ Listed(e)' <=> Listed(e)
               /\ Runs(e)' <=> Runs(e)
    BY <2>1, <2>2, <2>3 DEF Held, Queued, Swapped, Listed, Runs, InQueue, TypeOK
  <2>6. OnceInPlace'
    BY <2>1, <2>2 DEF OwnerInv, OnceInPlace, NoDup, TypeOK
  <2>7. \A e \in Event : refs'[e] = IF e = x THEN 1 ELSE refs[e]
    BY <2>1 DEF TypeOK
  <2>8. \A e \in Event : OnePlace(e)' /\ refs'[e] = IF Owned(e)' THEN 1 ELSE 0
    BY <2>1, <2>4, <2>5, <2>7 DEF OwnerInv, OnePlace, Owned
  <2>. QED BY <2>6, <2>8 DEF OwnerInv
<1>14. ASSUME NEW t \in Thread, PostPush(t)
      PROVE  OwnerInv'
  <2> DEFINE x == hand[t].impl
  <2>1. /\ mutex = t /\ mutex' = t /\ hand[t] # None /\ hand' = [hand EXCEPT ![t] = None]
        /\ m_eventsWithContext' = Append(m_eventsWithContext, hand[t])
        /\ UNCHANGED <<m_events, eventsWithContext, pc, current, made, refs>>
    BY <1>14 DEF PostPush, listVars, mainVars, userVars
  <2>2. \A u \in Thread : u # t => hand[u] = None
    BY <1>h, <2>1
  <2>3. hand[t] \in Post /\ x \in Event
    BY <2>1 DEF TypeOK, Post
  <2>4. /\ \A e : Queued(e)' <=> Queued(e) \/ x = e
        /\ ~Queued(x) => NoDup(m_eventsWithContext')
    BY <2>1, <2>3, InAppend DEF Queued, OwnerInv, OnceInPlace, TypeOK
  <2>5. /\ \A e : Held(e) <=> x = e
        /\ \A u \in Thread : hand'[u] = None
    BY <2>1, <2>2 DEF Held, TypeOK
  <2> HIDE DEF x
  <2>6. \A e : /\ ~Held(e)'
               /\ Swapped(e)' <=> Swapped(e)
               /\ Listed(e)' <=> Listed(e)
               /\ Runs(e)' <=> Runs(e)
    BY <2>1, <2>5 DEF Held, Swapped, Listed, Runs, InQueue
  <2>7. ~Queued(x)
    BY <2>3, <2>5 DEF OwnerInv, OnePlace
  <2>8. OnceInPlace'
    BY <2>1, <2>4, <2>5, <2>7 DEF OwnerInv, OnceInPlace, NoDup
  <2>9. \A e \in Event : OnePlace(e)' /\ refs'[e] = IF Owned(e)' THEN 1 ELSE 0
    BY <2>1, <2>4, <2>5, <2>6 DEF OwnerInv, OnePlace, Owned
  <2>. QED BY <2>8, <2>9 DEF OwnerInv
<1>15. ASSUME NEW t \in Thread, PostUnlock(t)
      PROVE  OwnerInv'
  <2>1. /\ mutex = t /\ hand[t] = None
        /\ UNCHANGED <<hand, m_eventsWithContext, eventsWithContext, m_events, refs, current, pc,
                       made>>
    BY <1>15 DEF PostUnlock, listVars, mainVars, userVars
  <2>2. \A u \in Thread : hand[u] = None
    BY <1>h, <2>1
  <2>. QED BY <2>1, <2>2, NothingMoves
<1>16. CASE UNCHANGED vars
  <2>1. UNCHANGED <<hand, mutex, m_eventsWithContext, eventsWithContext, m_events, refs, current,
                    pc, made>>
    BY <1>16 DEF vars, listVars, queueVars, mainVars, userVars
  <2>. QED BY <1>h, <2>1, NothingMoves
<1>. QED BY <1>1, <1>2, <1>3, <1>4, <1>5, <1>6, <1>7, <1>8, <1>9, <1>10, <1>11, <1>12, <1>13,
            <1>14, <1>15, <1>16
     DEF Next, UserCall, ProcessEventsWithContext, MainLoop, ProcessOneEvent, Shutdown, ThreadStep,
         Terminated

\* The manual reference counts are right: the simulator owns one reference of
\* every event in its hands and none of any other, so that none is freed while
\* it is used or twice, and none leaks.
THEOREM OwnershipIsExact == NoWrap => (Spec => []ReferencesExact)
<1> SUFFICES ASSUME NoWrap PROVE Spec => []ReferencesExact
  OBVIOUS
<1>1. Init => IdsInv /\ OwnerInv
  <2>1. Init => IdsInv
    BY DEF Init, IdsInv, Ordinary
  <2>2. Init => OwnerInv
    BY DEF Init, OwnerInv, OnceInPlace, NoDup, OnePlace, Owned, Held, Queued, Swapped, Listed,
           Runs, InQueue
  <2>. QED BY <2>1, <2>2
<1>2. TypeOK /\ KeyInv /\ IdsInv /\ [Next]_vars => IdsInv'
  BY IdsInductive
<1>3. TypeOK /\ KeyInv /\ IdsInv /\ DrainInv /\ OwnerInv /\ [Next]_vars => OwnerInv'
  BY OwnerInductive
<1>4. OwnerInv => ReferencesExact
  BY DEF OwnerInv, ReferencesExact, Owned, Held, Queued, Swapped, Listed, Runs
<1>. QED BY <1>1, <1>2, <1>3, <1>4, TypeCorrect, ListIsAhead, DrainInvariant, PTL DEF Spec

-----------------------------------------------------------------------------
(* Every event goes one way: it is made, waits, is listed, and runs, or is  *)
(* a destroy event and runs as such; nothing goes it twice.                 *)

Waits(e) == Held(e) \/ Queued(e) \/ Swapped(e)

Inserted(e) == \E i \in 1..Len(inserted) : inserted[i].impl = e

\* Nothing has happened to e yet.
Fresh(e) ==
    /\ e \notin ran \cup cancelled /\ ids[e] = None
    /\ ~Inserted(e) /\ ~InDestroyList(e)

OnceRun ==
    /\ \A e \in Event : /\ e \notin made \/ Waits(e) => Fresh(e)
                        /\ Listed(e) => e \notin ran /\ ~InDestroyList(e)
                        /\ InDestroyList(e) => e \notin ran /\ ~Inserted(e)
    /\ \A i, j \in 1..Len(m_destroyEvents) :
          m_destroyEvents[i] = m_destroyEvents[j] => i = j

LEMMA AppendElements ==
  ASSUME NEW S, NEW q \in Seq(S), NEW x \in S
  PROVE  /\ Len(q) \in Nat /\ Len(Append(q, x)) = Len(q) + 1
         /\ \A i \in 1..Len(q) : Append(q, x)[i] = q[i]
         /\ Append(q, x)[Len(q) + 1] = x
OBVIOUS

LEMMA TailElements ==
  ASSUME NEW S, NEW q \in Seq(S), q # <<>>
  PROVE  /\ Len(q) \in Nat \ {0} /\ Len(Tail(q)) = Len(q) - 1
         /\ \A i \in 1..Len(Tail(q)) : Tail(q)[i] = q[i + 1]
         /\ Head(q) = q[1]
OBVIOUS

LEMMA CutElements ==
  ASSUME NEW S, NEW q \in Seq(S), NEW i \in 1..Len(q)
  PROVE  LET r == SubSeq(q, 1, i - 1) \o SubSeq(q, i + 1, Len(q)) IN
         /\ Len(q) \in Nat \ {0} /\ Len(r) = Len(q) - 1
         /\ \A k \in 1..Len(r) : r[k] = IF k < i THEN q[k] ELSE q[k + 1]
<1> DEFINE s1 == SubSeq(q, 1, i - 1)
           s2 == SubSeq(q, i + 1, Len(q))
           r  == s1 \o s2
<1>0. Len(q) \in Nat \ {0} /\ i \in Nat \ {0} /\ i <= Len(q) /\ \A k \in 1..Len(q) : q[k] \in S
  OBVIOUS
<1>1. /\ s1 \in Seq(S) /\ Len(s1) = i - 1
      /\ \A k \in 1..(i - 1) : s1[k] = q[k]
  <2>1. \A k \in 1..(i - 1) : q[k] \in S
    BY <1>0
  <2>. QED BY <1>0, <2>1, SubSeqProperties
<1>2. /\ s2 \in Seq(S) /\ Len(s2) = Len(q) - i
      /\ \A k \in 1..(Len(q) - i) : s2[k] = q[i + k]
  <2>1. \A k \in (i + 1)..Len(q) : q[k] \in S
    BY <1>0
  <2>. QED BY <1>0, <2>1, SubSeqProperties
<1> HIDE DEF s1, s2
<1>3. /\ Len(r) = Len(s1) + Len(s2)
      /\ \A k \in 1..(Len(s1) + Len(s2)) : r[k] = IF k <= Len(s1) THEN s1[k] ELSE s2[k - Len(s1)]
  BY <1>1, <1>2, ConcatProperties
<1> HIDE DEF r
<1>4. Len(r) = Len(q) - 1
  BY <1>0, <1>1, <1>2, <1>3
<1>5. ASSUME NEW k \in 1..Len(r), k < i PROVE r[k] = q[k]
  BY <1>0, <1>1, <1>3, <1>4, <1>5
<1>6. ASSUME NEW k \in 1..Len(r), ~(k < i) PROVE r[k] = q[k + 1]
  <2>1. k - (i - 1) \in 1..(Len(q) - i) /\ i + (k - (i - 1)) = k + 1
    BY <1>0, <1>4, <1>6
  <2>2. r[k] = s2[k - (i - 1)]
    BY <1>0, <1>1, <1>2, <1>3, <1>4, <1>6
  <2>. QED BY <1>2, <2>1, <2>2
<1>7. \A k \in 1..Len(r) : r[k] = IF k < i THEN q[k] ELSE q[k + 1]
  BY <1>5, <1>6
<1>. QED BY <1>0, <1>4, <1>7 DEF r, s1, s2

LEMMA RecordedElements ==
  ASSUME TypeOK, NEW x \in Event, NEW ts \in Nat, Insert(x, ts)
  PROVE  /\ Len(inserted) \in Nat /\ Len(inserted') = Len(inserted) + 1
         /\ \A i \in 1..Len(inserted) : inserted'[i] = inserted[i]
         /\ inserted'[Len(inserted) + 1] = [ts |-> ts, impl |-> x]
<1>1. /\ inserted \in Seq([ts : Nat, impl : Event])
      /\ [ts |-> ts, impl |-> x] \in [ts : Nat, impl : Event]
  BY DEF TypeOK
<1>. QED BY <1>1, AppendElements DEF Insert

LEMMA InsertIsRecorded ==
  ASSUME TypeOK, NEW x \in Event, NEW ts \in Nat, Insert(x, ts)
  PROVE  \A e : Inserted(e)' <=> Inserted(e) \/ e = x
<1>0. inserted'[Len(inserted) + 1] = [ts |-> ts, impl |-> x]
  BY RecordedElements
<1>1. /\ Len(inserted) \in Nat /\ Len(inserted') = Len(inserted) + 1
      /\ \A i \in 1..Len(inserted) : inserted'[i] = inserted[i]
      /\ inserted'[Len(inserted) + 1].impl = x
  <2>1. inserted'[Len(inserted) + 1].impl = x
    BY <1>0
  <2>. QED BY <2>1, RecordedElements
<1>2. ASSUME NEW e, Inserted(e)' PROVE Inserted(e) \/ e = x
  <2>1. PICK i \in 1..Len(inserted') : inserted'[i].impl = e
    BY <1>2 DEF Inserted
  <2>2. i \in 1..Len(inserted) \/ i = Len(inserted) + 1
    BY <1>1
  <2>. QED BY <1>1, <2>1, <2>2 DEF Inserted
<1>3. ASSUME NEW e, Inserted(e) PROVE Inserted(e)'
  <2>1. PICK i \in 1..Len(inserted) : inserted[i].impl = e
    BY <1>3 DEF Inserted
  <2>2. i \in 1..Len(inserted')
    BY <1>1
  <2>. QED BY <1>1, <2>1, <2>2 DEF Inserted
<1>4. Inserted(x)'
  <2>1. Len(inserted) + 1 \in 1..Len(inserted')
    BY <1>1
  <2>. QED BY <1>1, <2>1 DEF Inserted
<1>. QED BY <1>2, <1>3, <1>4

\* An event that is new, or that has waited, is inserted.
LEMMA FreshIsInserted ==
  ASSUME TypeOK, OnceRun, NEW x \in Event, NEW ts \in Nat, Insert(x, ts), Fresh(x),
         x \in made', made' \subseteq made \cup {x}, made \subseteq made',
         \A e \in Event : Waits(e)' => Waits(e) /\ e # x,
         \A e \in Event : e # x => ids'[e] = ids[e],
         UNCHANGED <<ran, cancelled, m_destroyEvents>>
  PROVE  OnceRun'
<1>1. \A e : /\ Inserted(e)' <=> Inserted(e) \/ e = x
             /\ Listed(e)' <=> Listed(e) \/ e = x
             /\ InDestroyList(e)' <=> InDestroyList(e)
  BY InsertIsRecorded, InsertIsListed DEF InDestroyList
<1>2. ASSUME NEW e \in Event
      PROVE  /\ (e \notin made \/ Waits(e) => Fresh(e))'
             /\ (Listed(e) => e \notin ran /\ ~InDestroyList(e))'
             /\ (InDestroyList(e) => e \notin ran /\ ~Inserted(e))'
  <2>1. CASE e = x
    BY <1>1, <2>1 DEF Fresh
  <2>2. CASE e # x
    BY <1>1, <2>2 DEF OnceRun, Fresh
  <2>. QED BY <2>1, <2>2
<1>. QED BY <1>2 DEF OnceRun

\* A step that inserts nothing, cancels only what has an id, and runs nothing.
LEMMA NothingRuns ==
  ASSUME OnceRun,
         UNCHANGED <<inserted, ran, m_destroyEvents, ids>>,
         \A e \in Event : e \notin made' \/ Waits(e)' => e \notin made \/ Waits(e),
         \A e \in Event : Listed(e)' => Listed(e),
         \A e \in cancelled' \ cancelled : ids[e] # None
  PROVE  OnceRun'
<1>1. \A e : /\ Inserted(e)' <=> Inserted(e)
             /\ InDestroyList(e)' <=> InDestroyList(e)
  BY DEF Inserted, InDestroyList
<1>2. ASSUME NEW e \in Event
      PROVE  /\ (e \notin made \/ Waits(e) => Fresh(e))'
             /\ (Listed(e) => e \notin ran /\ ~InDestroyList(e))'
             /\ (InDestroyList(e) => e \notin ran /\ ~Inserted(e))'
  BY <1>1 DEF OnceRun, Fresh
<1>. QED BY <1>2 DEF OnceRun

\* An event runs that is neither waiting nor a destroy event to come.
LEMMA OneRuns ==
  ASSUME OwnerInv, OnceRun, NEW next \in m_events, next.impl \in Event,
         m_events' = m_events \ {next}, ran' \subseteq ran \cup {next.impl},
         UNCHANGED <<inserted, m_destroyEvents, ids, cancelled, made, hand, m_eventsWithContext,
                     eventsWithContext>>
  PROVE  OnceRun'
<1>0. Listed(next.impl)
  BY DEF Listed
<1>1. \A e : /\ Inserted(e)' <=> Inserted(e)
             /\ InDestroyList(e)' <=> InDestroyList(e)
             /\ Waits(e)' <=> Waits(e)
             /\ Listed(e)' <=> Listed(e) /\ e # next.impl
  BY DEF Inserted, InDestroyList, Waits, Held, Queued, Swapped, InQueue, Listed, OwnerInv,
         OnceInPlace
<1>2. next.impl \in made /\ ~Waits(next.impl) /\ ~InDestroyList(next.impl)
  BY <1>0 DEF OwnerInv, OnePlace, Owned, Waits, OnceRun
<1>3. ASSUME NEW e \in Event
      PROVE  /\ (e \notin made \/ Waits(e) => Fresh(e))'
             /\ (Listed(e) => e \notin ran /\ ~InDestroyList(e))'
             /\ (InDestroyList(e) => e \notin ran /\ ~Inserted(e))'
  BY <1>1, <1>2 DEF OnceRun, Fresh
<1>. QED BY <1>3 DEF OnceRun

LEMMA OnceRunInductive ==
  ASSUME NoWrap, TypeOK, DrainInv, OwnerInv, OnceRun, [Next]_vars
  PROVE  OnceRun'
<1>d. \A d \in Delay : m_currentTs + d \in Nat
  BY ConstantsAssumption DEF TypeOK
<1>1. ASSUME NEW d \in Delay, NEW x \in Event,
             Schedule(d, x) \/ StopAfter(d, x) \/ ScheduleWithContext(d, x)
      PROVE  OnceRun'
  <2>1. /\ x \notin made /\ made' = made \cup {x} /\ Insert(x, m_currentTs + d)
        /\ \A e \in Event : e # x => ids'[e] = ids[e]
        /\ UNCHANGED <<ran, cancelled, m_destroyEvents, queueVars, mainVars>>
    BY <1>1 DEF Schedule, StopAfter, ScheduleWithContext, NewEvent, TypeOK
  <2>2. Fresh(x) /\ ~Waits(x)
    BY <2>1 DEF OnceRun, OwnerInv, OnePlace, Owned, Waits
  <2>3. \A e : Waits(e)' <=> Waits(e)
    BY <2>1 DEF Waits, Held, Queued, Swapped, InQueue, queueVars, mainVars
  <2>. QED BY <1>d, <2>1, <2>2, <2>3, FreshIsInserted
<1>2. CASE DrainInsert
  <2>0. PICK p \in Post : p = Head(eventsWithContext)
    BY <1>2 DEF DrainInsert, TypeOK
  <2>1. /\ p.impl \in Event /\ p.delay \in Delay
        /\ eventsWithContext \in Seq(Post) /\ eventsWithContext # <<>>
        /\ eventsWithContext' = Tail(eventsWithContext)
        /\ Insert(p.impl, m_currentTs + p.delay)
        /\ UNCHANGED <<queueVars, userVars, ran>>
    BY <1>2, <2>0 DEF DrainInsert, TypeOK, Post
  <2>2. /\ \A e : Swapped(e) <=> p.impl = e \/ Swapped(e)'
        /\ ~Swapped(p.impl)'
    BY <2>0, <2>1, InTail DEF Swapped, OwnerInv, OnceInPlace
  <2>3. \A e : Held(e)' = Held(e) /\ Queued(e)' = Queued(e)
    BY <2>1 DEF Held, Queued, InQueue, queueVars
  <2>4. \A e \in Event : Waits(e)' => Waits(e) /\ e # p.impl
    BY <2>2, <2>3 DEF Waits, OwnerInv, OnePlace
  <2>5. Fresh(p.impl) /\ p.impl \in made
    BY <2>1, <2>2 DEF OnceRun, OwnerInv, OnePlace, Owned, Waits
  <2>6. /\ UNCHANGED <<ran, cancelled, m_destroyEvents, ids, made>>
        /\ m_currentTs + p.delay \in Nat
    BY <1>d, <2>1 DEF userVars
  <2>. QED BY <2>1, <2>4, <2>5, <2>6, FreshIsInserted
<1>3. ASSUME NEW x \in Event, Remove(x) \/ Cancel(x)
      PROVE  OnceRun'
  <2>1. /\ m_events' \subseteq m_events /\ cancelled' = cancelled \cup {x} /\ ids[x] # None
        /\ UNCHANGED <<inserted, ran, m_destroyEvents, ids, made, queueVars, mainVars>>
    BY <1>3 DEF Remove, Cancel, listVars
  <2>2. \A e : (Waits(e)' <=> Waits(e)) /\ (Listed(e)' => Listed(e))
    BY <2>1 DEF Waits, Held, Queued, Swapped, InQueue, Listed, queueVars, mainVars
  <2>. QED BY <2>1, <2>2, NothingRuns
<1>4. ASSUME NEW x \in Event, ScheduleDestroy(x)
      PROVE  OnceRun'
  <2>1. /\ x \notin made /\ made' = made \cup {x}
        /\ \A e \in Event : e # x => ids'[e] = ids[e]
        /\ m_destroyEvents' = Append(m_destroyEvents, x) /\ m_destroyEvents \in Seq(Event)
        /\ UNCHANGED <<inserted, m_events, ran, cancelled, queueVars, mainVars>>
    BY <1>4 DEF ScheduleDestroy, NewEvent, TypeOK
  <2>2. Fresh(x) /\ ~Waits(x) /\ ~Listed(x)
    BY <2>1 DEF OnceRun, OwnerInv, OnePlace, Owned, Waits
  <2>3. /\ Len(m_destroyEvents) \in Nat /\ Len(m_destroyEvents') = Len(m_destroyEvents) + 1
        /\ \A i \in 1..Len(m_destroyEvents) : m_destroyEvents'[i] = m_destroyEvents[i]
        /\ m_destroyEvents'[Len(m_destroyEvents) + 1] = x
    BY <2>1, AppendElements
  <2>4. \A i \in 1..Len(m_destroyEvents') :
           i \in 1..Len(m_destroyEvents) \/ i = Len(m_destroyEvents) + 1
    BY <2>3
  <2>5. \A e : InDestroyList(e)' => InDestroyList(e) \/ e = x
    BY <2>3, <2>4 DEF InDestroyList
  <2>6. \A e : /\ Waits(e)' <=> Waits(e)
               /\ Listed(e)' <=> Listed(e)
               /\ Inserted(e)' <=> Inserted(e)
    BY <2>1 DEF Waits, Held, Queued, Swapped, InQueue, Listed, Inserted, queueVars, mainVars
  <2>7. \A i, j \in 1..Len(m_destroyEvents') : m_destroyEvents'[i] = m_destroyEvents'[j] => i = j
    BY <2>2, <2>3, <2>4 DEF OnceRun, Fresh, InDestroyList
  <2>8. ASSUME NEW e \in Event
        PROVE  /\ (e \notin made \/ Waits(e) => Fresh(e))'
               /\ (Listed(e) => e \notin ran /\ ~InDestroyList(e))'
               /\ (InDestroyList(e) => e \notin ran /\ ~Inserted(e))'
    <3>1. CASE e = x
      BY <2>1, <2>2, <2>6, <3>1 DEF Fresh
    <3>2. CASE e # x
      BY <2>1, <2>5, <2>6, <3>2 DEF OnceRun, Fresh
    <3>. QED BY <3>1, <3>2
  <2>. QED BY <2>7, <2>8 DEF OnceRun
<1>5. CASE (\E x \in Event : RemoveDestroyEvent(x)) \/ DestroyNext
  <2>0. /\ m_destroyEvents \in Seq(Event)
        /\ UNCHANGED <<inserted, m_events, cancelled, ids, made, queueVars, eventsWithContext>>
    BY <1>5 DEF RemoveDestroyEvent, DestroyNext, TypeOK, listVars, mainVars
  <2>1. \A e : /\ Waits(e)' <=> Waits(e)
               /\ Listed(e)' <=> Listed(e)
               /\ Inserted(e)' <=> Inserted(e)
    BY <2>0 DEF Waits, Held, Queued, Swapped, InQueue, Listed, Inserted, queueVars
  <2>2. PICK i \in 1..Len(m_destroyEvents) :
          /\ Len(m_destroyEvents) \in Nat \ {0}
          /\ Len(m_destroyEvents') = Len(m_destroyEvents) - 1
          /\ \A k \in 1..Len(m_destroyEvents') :
                m_destroyEvents'[k] = IF k < i THEN m_destroyEvents[k] ELSE m_destroyEvents[k + 1]
          /\ ran' \subseteq ran \cup {m_destroyEvents[i]}
    <3>1. CASE \E x \in Event : RemoveDestroyEvent(x)
      <4>1. PICK i \in 1..Len(m_destroyEvents) :
               m_destroyEvents' = SubSeq(m_destroyEvents, 1, i - 1)
                                  \o SubSeq(m_destroyEvents, i + 1, Len(m_destroyEvents))
        BY <3>1 DEF RemoveDestroyEvent
      <4>2. ran' = ran
        BY <3>1 DEF RemoveDestroyEvent
      <4>. QED BY <2>0, <4>1, <4>2, CutElements
    <3>2. CASE DestroyNext
      <4>1. /\ m_destroyEvents # <<>> /\ m_destroyEvents' = Tail(m_destroyEvents)
            /\ ran' \subseteq ran \cup {Head(m_destroyEvents)}
        BY <3>2 DEF DestroyNext
      <4>2. /\ Len(m_destroyEvents) \in Nat \ {0}
            /\ Len(m_destroyEvents') = Len(m_destroyEvents) - 1
            /\ \A k \in 1..Len(m_destroyEvents') : m_destroyEvents'[k] = m_destroyEvents[k + 1]
            /\ Head(m_destroyEvents) = m_destroyEvents[1]
        BY <2>0, <4>1, TailElements
      <4>3. 1 \in 1..Len(m_destroyEvents) /\ \A k \in 1..Len(m_destroyEvents') : ~(k < 1)
        BY <4>2
      <4>. QED BY <4>1, <4>2, <4>3
    <3>. QED BY <1>5, <3>1, <3>2
  <2>3. \A k \in 1..Len(m_destroyEvents') :
           \E j \in 1..Len(m_destroyEvents) :
              j # i /\ m_destroyEvents'[k] = m_destroyEvents[j] /\ j = IF k < i THEN k ELSE k + 1
    BY <2>2
  <2>4. \A k, l \in 1..Len(m_destroyEvents') : m_destroyEvents'[k] = m_destroyEvents'[l] => k = l
    <3> SUFFICES ASSUME NEW k \in 1..Len(m_destroyEvents'), NEW l \in 1..Len(m_destroyEvents'),
                        m_destroyEvents'[k] = m_destroyEvents'[l]
                 PROVE  k = l
      OBVIOUS
    <3>1. PICK a \in 1..Len(m_destroyEvents) :
             m_destroyEvents'[k] = m_destroyEvents[a] /\ a = IF k < i THEN k ELSE k + 1
      BY <2>3
    <3>2. PICK b \in 1..Len(m_destroyEvents) :
             m_destroyEvents'[l] = m_destroyEvents[b] /\ b = IF l < i THEN l ELSE l + 1
      BY <2>3
    <3>3. a = b
      BY <3>1, <3>2 DEF OnceRun
    <3>. QED BY <2>2, <3>1, <3>2, <3>3
  <2>5. \A e : InDestroyList(e)' => InDestroyList(e) /\ e # m_destroyEvents[i]
    BY <2>3 DEF InDestroyList, OnceRun
  <2>6. InDestroyList(m_destroyEvents[i])
    BY DEF InDestroyList
  <2>7. ASSUME NEW e \in Event
        PROVE  /\ (e \notin made \/ Waits(e) => Fresh(e))'
               /\ (Listed(e) => e \notin ran /\ ~InDestroyList(e))'
               /\ (InDestroyList(e) => e \notin ran /\ ~Inserted(e))'
    BY <2>0, <2>1, <2>2, <2>5, <2>6 DEF OnceRun, Fresh
  <2>. QED BY <2>4, <2>7 DEF OnceRun
<1>6. ASSUME NEW next \in m_events, InvokeEvent(next) \/ InvokeStop(next) \/ SkipCancelled(next)
      PROVE  OnceRun'
  <2>1. /\ m_events' = m_events \ {next} /\ ran' \subseteq ran \cup {next.impl}
        /\ next.impl \in Event
        /\ UNCHANGED <<inserted, m_destroyEvents, ids, cancelled, made, hand,
                       m_eventsWithContext, eventsWithContext>>
    BY <1>6 DEF InvokeEvent, InvokeStop, SkipCancelled, TakeNext, TypeOK, userVars, queueVars
  <2>. QED BY <2>1, OneRuns
<1>7. ASSUME NEW t \in Thread, NEW d \in Delay, NEW x \in Event, PostLock(t, d, x)
      PROVE  OnceRun'
  <2>1. /\ x \notin made /\ made' = made \cup {x}
        /\ hand' = [hand EXCEPT ![t] = [delay |-> d, impl |-> x]]
        /\ UNCHANGED <<inserted, m_events, ran, m_destroyEvents, ids, cancelled,
                       m_eventsWithContext, eventsWithContext>>
    BY <1>7 DEF PostLock, listVars, mainVars
  <2>2. \A e : /\ Waits(e)' => Waits(e) \/ e = x
               /\ Listed(e)' <=> Listed(e)
    BY <2>1 DEF Waits, Held, Queued, Swapped, InQueue, Listed, TypeOK
  <2>. QED BY <2>1, <2>2, NothingRuns
<1>8. ASSUME NEW t \in Thread, PostPush(t)
      PROVE  OnceRun'
  <2>1. /\ hand[t] # None /\ hand' = [hand EXCEPT ![t] = None]
        /\ hand[t] \in Post
        /\ m_eventsWithContext \in Seq(Post)
        /\ m_eventsWithContext' = Append(m_eventsWithContext, hand[t])
        /\ UNCHANGED <<inserted, m_events, ran, m_destroyEvents, ids, cancelled, made,
                       eventsWithContext>>
    BY <1>8 DEF PostPush, listVars, mainVars, userVars, TypeOK
  <2>2. \A e : Queued(e)' <=> Queued(e) \/ hand[t].impl = e
    BY <2>1, InAppend DEF Queued
  <2>3. \A e : Waits(e)' => Waits(e)
    BY <2>1, <2>2 DEF Waits, Held, Swapped, InQueue, TypeOK
  <2>4. \A e : Listed(e)' <=> Listed(e)
    BY <2>1 DEF Listed
  <2>. QED BY <2>1, <2>3, <2>4, NothingRuns
<1>9. CASE DrainSwap
  <2>1. /\ eventsWithContext' = m_eventsWithContext /\ m_eventsWithContext' = eventsWithContext
        /\ UNCHANGED <<inserted, m_events, ran, m_destroyEvents, ids, cancelled, made, hand>>
    BY <1>9 DEF DrainSwap, listVars, userVars
  <2>2. \A e : (Waits(e)' <=> Waits(e)) /\ (Listed(e)' <=> Listed(e))
    BY <2>1 DEF Waits, Held, Queued, Swapped, InQueue, Listed
  <2>. QED BY <2>1, <2>2, NothingRuns
<1>10. ASSUME m_events' \subseteq m_events,
              UNCHANGED <<inserted, ran, m_destroyEvents, ids, cancelled, made, hand,
                          m_eventsWithContext, eventsWithContext>>
       PROVE  OnceRun'
  <2>1. \A e : (Waits(e)' <=> Waits(e)) /\ (Listed(e)' => Listed(e))
    BY <1>10 DEF Waits, Held, Queued, Swapped, InQueue, Listed
  <2>. QED BY <1>10, <2>1, NothingRuns
<1>11. CASE Stop \/ Run \/ Destroy \/ DrainSkip \/ DrainTest \/ DrainLock \/ DrainUnlock
            \/ DrainDone
  BY <1>10, <1>11 DEF Stop, Run, Destroy, DrainSkip, DrainTest, DrainLock, DrainUnlock, DrainDone,
        listVars, queueVars, mainVars, userVars
<1>12. CASE EnterLoop \/ HandlerReturn \/ RunReturn \/ DestroyHandlerReturn \/ BeginDispose
            \/ DoDispose \/ UNCHANGED vars \/ (\E t \in Thread : PostUnlock(t))
  BY <1>10, <1>12 DEF EnterLoop, HandlerReturn, RunReturn, DestroyHandlerReturn, BeginDispose,
        DoDispose, PostUnlock, vars, listVars, queueVars, mainVars, userVars
<1>. QED BY <1>1, <1>2, <1>3, <1>4, <1>5, <1>6, <1>7, <1>8, <1>9, <1>11, <1>12
     DEF Next, UserCall, ProcessEventsWithContext, MainLoop, ProcessOneEvent, Shutdown, ThreadStep,
         Terminated

LEMMA StartsOnce ==
  ASSUME TypeOK, OnceRun, [Next]_vars, NEW e \in Event, current' = e, current # e
  PROVE  e \notin ran /\ e \notin cancelled
<1>n. None \notin Event
  BY ConstantsAssumption
<1>1. ASSUME NEW next \in m_events, InvokeEvent(next) PROVE e \notin ran /\ e \notin cancelled
  <2>1. next.impl = e /\ e \notin cancelled
    BY <1>1 DEF InvokeEvent
  <2>2. Listed(e)
    BY <2>1 DEF Listed
  <2>. QED BY <2>1, <2>2 DEF OnceRun
<1>2. CASE DestroyNext
  <2>1. m_destroyEvents # <<>> /\ Head(m_destroyEvents) = e /\ e \notin cancelled
    BY <1>2 DEF DestroyNext
  <2>2. 1 \in 1..Len(m_destroyEvents) /\ m_destroyEvents[1] = e
    BY <2>1, TailElements DEF TypeOK
  <2>3. InDestroyList(e)
    BY <2>2 DEF InDestroyList
  <2>. QED BY <2>1, <2>3 DEF OnceRun
<1>3. CASE UserCall \/ Run \/ Destroy \/ ProcessEventsWithContext \/ ThreadStep \/ UNCHANGED vars
  <2>1. current' = current
    BY <1>3 DEF UserCall, Schedule, StopAfter, ScheduleWithContext, ScheduleDestroy,
       RemoveDestroyEvent, Remove, Cancel, Stop, Run, Destroy, ProcessEventsWithContext, DrainSkip,
       DrainTest, DrainLock, DrainSwap, DrainUnlock, DrainInsert, DrainDone, ThreadStep, PostLock,
       PostPush, PostUnlock, vars, mainVars
  <2>. QED BY <2>1
<1>4. CASE EnterLoop \/ HandlerReturn \/ RunReturn \/ DestroyHandlerReturn \/ BeginDispose
           \/ DoDispose \/ (\E next \in m_events : InvokeStop(next) \/ SkipCancelled(next))
  <2>1. current' = current \/ current' = None
    BY <1>4 DEF EnterLoop, HandlerReturn, RunReturn, DestroyHandlerReturn, BeginDispose,
       DoDispose, InvokeStop, SkipCancelled
  <2>. QED BY <1>n, <2>1
<1>. QED BY <1>1, <1>2, <1>3, <1>4 DEF Next, MainLoop, ProcessOneEvent, Shutdown, Terminated

LEMMA OnceRunInvariant ==
  ASSUME NoWrap
  PROVE  Spec => [](TypeOK /\ KeyInv /\ IdsInv /\ DrainInv /\ OwnerInv /\ OnceRun)
<1>1. Init => IdsInv /\ OwnerInv /\ OnceRun
  <2>1. Init => IdsInv
    BY DEF Init, IdsInv, Ordinary
  <2>2. Init => OwnerInv
    BY DEF Init, OwnerInv, OnceInPlace, NoDup, OnePlace, Owned, Held, Queued, Swapped, Listed,
           Runs, InQueue
  <2>3. Init => OnceRun
    BY DEF Init, OnceRun, Fresh, Waits, Held, Queued, Swapped, Listed, InQueue, InDestroyList,
           Inserted
  <2>. QED BY <2>1, <2>2, <2>3
<1>2. TypeOK /\ KeyInv /\ IdsInv /\ [Next]_vars => IdsInv'
  BY IdsInductive
<1>3. TypeOK /\ KeyInv /\ IdsInv /\ DrainInv /\ OwnerInv /\ [Next]_vars => OwnerInv'
  BY OwnerInductive
<1>4. TypeOK /\ DrainInv /\ OwnerInv /\ OnceRun /\ [Next]_vars => OnceRun'
  BY OnceRunInductive
<1>. QED BY <1>1, <1>2, <1>3, <1>4, TypeCorrect, ListIsAhead, DrainInvariant, PTL DEF Spec

\* A handler starts at most once for an event, and never after Cancel or Remove
\* of it: whatever list or queue the event is in, it has not run yet.
THEOREM RunsOnce == NoWrap => (Spec => NeverRunAgain)
<1> SUFFICES ASSUME NoWrap PROVE Spec => NeverRunAgain
  OBVIOUS
<1>1. TypeOK /\ OnceRun /\ [Next]_vars =>
        [\A e \in Event : e \in ran' /\ current' = e /\ current # e
            => e \notin ran /\ e \notin cancelled]_vars
  BY StartsOnce
<1>. QED BY <1>1, OnceRunInvariant, PTL DEF NeverRunAgain, Spec

-----------------------------------------------------------------------------
(* First in, first out.                                                     *)

FirstInv ==
    /\ \A i \in 1..Len(inserted) :
          /\ \/ inserted[i].impl \in ran \cup cancelled
             \/ Listed(inserted[i].impl)
             \/ pc = "disposed"
          /\ \A ev \in m_events : ev.impl = inserted[i].impl => ev.ts = inserted[i].ts
    /\ \A i, j \in 1..Len(inserted) : i < j =>
          \A ev, f \in m_events :
             ev.impl = inserted[i].impl /\ f.impl = inserted[j].impl => ev.uid < f.uid

\* An event is inserted behind all others of its time.
LEMMA LastIsInserted ==
  ASSUME NoWrap, TypeOK, KeyInv, OnceRun, FirstInv, FirstInsertedRunsFirst,
         NEW x \in Event, NEW ts \in Nat, m_uid < UidLimit, Insert(x, ts), Fresh(x), ~Listed(x),
         UNCHANGED <<ran, cancelled, pc>>
  PROVE  FirstInv' /\ FirstInsertedRunsFirst'
<1> DEFINE n   == Len(inserted)
           new == [ts |-> ts, uid |-> m_uid, impl |-> x]
<1>1. /\ n \in Nat /\ Len(inserted') = n + 1
      /\ \A i \in 1..n : inserted'[i] = inserted[i]
      /\ inserted'[n + 1] = [ts |-> ts, impl |-> x]
  BY RecordedElements
<1>2. /\ inserted'[n + 1].impl = x /\ inserted'[n + 1].ts = ts
      /\ new.impl = x /\ new.ts = ts /\ new.uid = m_uid
  BY <1>1
<1>3. m_events' = m_events \cup {new}
  BY DEF Insert
<1>4. /\ \A i \in 1..n : inserted[i].impl # x
      /\ \A ev \in m_events : ev.impl # x /\ ev.uid < m_uid
  BY DEF Fresh, Inserted, Listed, KeyInv
<1> HIDE DEF n, new
<1>5. \A i \in 1..Len(inserted') : i \in 1..n \/ i = n + 1
  BY <1>1
<1>6. ASSUME NEW i \in 1..Len(inserted')
      PROVE  /\ \/ inserted'[i].impl \in ran' \cup cancelled'
                \/ Listed(inserted[i].impl)'
                \/ pc' = "disposed"
             /\ \A ev \in m_events' : ev.impl = inserted'[i].impl => ev.ts = inserted'[i].ts
  <2>1. CASE i \in 1..n
    <3>1. inserted'[i] = inserted[i] /\ inserted[i].impl # x
      BY <1>1, <1>4, <2>1
    <3>2. \A ev \in m_events' : ev.impl = inserted[i].impl => ev \in m_events
      BY <1>2, <1>3, <3>1
    <3>3. Listed(inserted[i].impl) => Listed(inserted[i].impl)'
      BY <1>3, <3>1 DEF Listed
    <3>. QED BY <2>1, <3>1, <3>2, <3>3 DEF FirstInv, n
  <2>2. CASE i = n + 1
    <3>1. Listed(inserted[i].impl)'
      BY <1>2, <1>3, <2>2 DEF Listed
    <3>. QED BY <1>2, <1>3, <1>4, <2>2, <3>1
  <2>. QED BY <1>5, <2>1, <2>2
<1>7. ASSUME NEW i \in 1..Len(inserted'), NEW j \in 1..Len(inserted'), i < j,
             NEW ev \in m_events', NEW f \in m_events',
             ev.impl = inserted'[i].impl, f.impl = inserted'[j].impl
      PROVE  ev.uid < f.uid
  <2>1. i \in 1..n
    BY <1>1, <1>5, <1>7
  <2>2. ev \in m_events
    BY <1>1, <1>2, <1>3, <1>4, <1>7, <2>1
  <2>3. CASE j \in 1..n
    <3>1. f \in m_events
      BY <1>1, <1>2, <1>3, <1>4, <1>7, <2>3
    <3>. QED BY <1>1, <1>7, <2>1, <2>2, <2>3, <3>1 DEF FirstInv, n
  <2>4. CASE j = n + 1
    BY <1>2, <1>3, <1>4, <1>7, <2>2, <2>4
  <2>. QED BY <1>5, <2>3, <2>4
<1>8. ASSUME NEW i \in 1..Len(inserted'), NEW j \in 1..Len(inserted'), i < j,
             inserted'[i].ts = inserted'[j].ts, inserted'[j].impl \in ran'
      PROVE  inserted'[i].impl \in ran' \cup cancelled'
  <2>1. i \in 1..n
    BY <1>1, <1>5, <1>8
  <2>2. j # n + 1
    BY <1>2, <1>8 DEF Fresh
  <2>. QED BY <1>1, <1>5, <1>8, <2>1, <2>2 DEF FirstInsertedRunsFirst, n
<1>. QED BY <1>6, <1>7, <1>8 DEF FirstInv, FirstInsertedRunsFirst

\* Nothing is inserted, and what leaves the list runs in its turn, or is cancelled.
LEMMA EarliestLeaves ==
  ASSUME TypeOK, FirstInv, FirstInsertedRunsFirst,
         inserted' = inserted, m_events' \subseteq m_events,
         ran \subseteq ran', cancelled \subseteq cancelled', pc = "disposed" => pc' = "disposed",
         \A ev \in m_events \ m_events' : ev.impl \in ran' \cup cancelled' \/ pc' = "disposed",
         \A e \in ran' \ ran :
            \/ ~Inserted(e)
            \/ /\ pc # "disposed"
               /\ \E next \in m_events : next.impl = e /\ IsEarliest(next, m_events)
  PROVE  FirstInv' /\ FirstInsertedRunsFirst'
<1>1. FirstInv'
  BY DEF FirstInv, Listed
<1>2. ASSUME NEW i \in 1..Len(inserted), NEW j \in 1..Len(inserted), i < j,
             inserted[i].ts = inserted[j].ts, inserted[j].impl \in ran',
             inserted[i].impl \notin ran' \cup cancelled'
      PROVE  FALSE
  <2>1. inserted[j].impl \notin ran
    BY <1>2 DEF FirstInsertedRunsFirst
  <2>2. PICK next \in m_events : next.impl = inserted[j].impl /\ IsEarliest(next, m_events)
    BY <1>2, <2>1 DEF Inserted
  <2>3. Listed(inserted[i].impl)
    BY <1>2, <2>1 DEF FirstInv, Inserted
  <2>4. PICK ev \in m_events : ev.impl = inserted[i].impl
    BY <2>3 DEF Listed
  <2>5. ev.uid < next.uid /\ ev.ts = next.ts
    BY <1>2, <2>2, <2>4 DEF FirstInv
  <2>6. ev.uid \in Nat /\ next.uid \in Nat /\ ev.ts \in Nat
    <3>1. ev \in [ts : Nat, uid : Uid, impl : Event] /\ next \in [ts : Nat, uid : Uid, impl : Event]
      BY DEF TypeOK
    <3>. QED BY <3>1 DEF Uid
  <2>. QED BY <2>2, <2>5, <2>6 DEF IsEarliest, Less
<1>. QED BY <1>1, <1>2 DEF FirstInsertedRunsFirst

\* The events that the main thread takes over or schedules were not listed before.
LEMMA InsertedIsFresh ==
  ASSUME TypeOK, OwnerInv, OnceRun,
         \/ \E d \in Delay, x \in Event :
               Schedule(d, x) \/ StopAfter(d, x) \/ ScheduleWithContext(d, x)
         \/ DrainInsert
  PROVE  \E x \in Event, ts \in Nat :
            /\ m_uid < UidLimit /\ Insert(x, ts)
            /\ Fresh(x) /\ ~Listed(x)
            /\ UNCHANGED <<ran, cancelled, pc, m_currentTs>>
<1>d. \A d \in Delay : m_currentTs + d \in Nat
  BY ConstantsAssumption DEF TypeOK
<1>1. ASSUME NEW d \in Delay, NEW x \in Event,
             Schedule(d, x) \/ StopAfter(d, x) \/ ScheduleWithContext(d, x)
      PROVE  /\ m_uid < UidLimit /\ Insert(x, m_currentTs + d)
             /\ Fresh(x) /\ ~Listed(x)
             /\ UNCHANGED <<ran, cancelled, pc, m_currentTs>>
  <2>1. /\ x \notin made /\ m_uid < UidLimit /\ Insert(x, m_currentTs + d)
        /\ UNCHANGED <<ran, cancelled, pc, m_currentTs>>
    BY <1>1 DEF Schedule, StopAfter, ScheduleWithContext, NewEvent, mainVars, clockVars
  <2>2. Fresh(x) /\ ~Listed(x)
    BY <2>1 DEF OnceRun, OwnerInv, OnePlace, Owned
  <2>. QED BY <2>1, <2>2
<1>2. ASSUME DrainInsert
      PROVE  \E x \in Event, ts \in Nat :
                /\ m_uid < UidLimit /\ Insert(x, ts)
                /\ Fresh(x) /\ ~Listed(x)
                /\ UNCHANGED <<ran, cancelled, pc, m_currentTs>>
  <2>0. PICK p \in Post : p = Head(eventsWithContext)
    BY <1>2 DEF DrainInsert, TypeOK
  <2>1. /\ p.impl \in Event /\ p.delay \in Delay
        /\ eventsWithContext \in Seq(Post) /\ eventsWithContext # <<>>
        /\ m_uid < UidLimit /\ Insert(p.impl, m_currentTs + p.delay)
        /\ UNCHANGED <<ran, cancelled, pc, m_currentTs>>
    BY <1>2, <2>0 DEF DrainInsert, TypeOK, Post, userVars, clockVars
  <2>2. Swapped(p.impl)
    BY <2>0, <2>1, InTail DEF Swapped
  <2>3. Fresh(p.impl) /\ ~Listed(p.impl)
    BY <2>1, <2>2 DEF OnceRun, OwnerInv, OnePlace, Waits
  <2>. QED BY <1>d, <2>1, <2>3
<1>. QED BY <1>d, <1>1, <1>2

LEMMA FirstInductive ==
  ASSUME NoWrap, TypeOK, KeyInv, IdsInv, OwnerInv, OnceRun, FirstInv, FirstInsertedRunsFirst,
         [Next]_vars
  PROVE  FirstInv' /\ FirstInsertedRunsFirst'
<1>1. CASE \/ \E d \in Delay, x \in Event :
                 Schedule(d, x) \/ StopAfter(d, x) \/ ScheduleWithContext(d, x)
           \/ DrainInsert
  BY <1>1, InsertedIsFresh, LastIsInserted
<1>2. ASSUME NEW e \in Event, Remove(e)
      PROVE  FirstInv' /\ FirstInsertedRunsFirst'
  <2>1. Ordinary(e)
    BY <1>2 DEF Remove, Ordinary
  <2>2. /\ m_events' \subseteq m_events /\ e \in cancelled' /\ cancelled \subseteq cancelled'
        /\ UNCHANGED <<inserted, ran, pc>>
        /\ \A ev \in m_events \ m_events' : ev.uid = ids[e].uid
    BY <1>2 DEF Remove, mainVars
  <2>3. \A ev \in m_events \ m_events' : ev.impl = e
    <3> SUFFICES ASSUME NEW ev \in m_events, ev \notin m_events' PROVE ev.impl = e
      BY <2>2
    <3>1. ev.uid = ids[e].uid /\ ids[e] # None
      BY <1>2, <2>2 DEF Remove
    <3>2. ev = IdOf(e)
      BY <3>1, <2>1 DEF IdsInv
    <3>. QED BY <3>2 DEF IdOf
  <2>. QED BY <2>2, <2>3, EarliestLeaves
<1>3. ASSUME NEW next \in m_events, InvokeEvent(next) \/ InvokeStop(next) \/ SkipCancelled(next)
      PROVE  FirstInv' /\ FirstInsertedRunsFirst'
  <2>1. /\ IsEarliest(next, m_events) /\ pc = "loop"
        /\ m_events' = m_events \ {next} /\ inserted' = inserted /\ cancelled' = cancelled
        /\ ran \subseteq ran' /\ ran' \subseteq ran \cup {next.impl}
        /\ next.impl \in ran' \cup cancelled'
    BY <1>3 DEF InvokeEvent, InvokeStop, SkipCancelled, TakeNext, userVars
  <2>. QED BY <2>1, EarliestLeaves
<1>4. CASE DestroyNext
  <2>1. /\ m_destroyEvents # <<>> /\ pc = "destroy"
        /\ UNCHANGED <<m_events, inserted, cancelled>>
        /\ ran \subseteq ran' /\ ran' \subseteq ran \cup {Head(m_destroyEvents)}
    BY <1>4 DEF DestroyNext, listVars
  <2>2. 1 \in 1..Len(m_destroyEvents) /\ m_destroyEvents[1] = Head(m_destroyEvents)
    BY <2>1, TailElements DEF TypeOK
  <2>3. InDestroyList(Head(m_destroyEvents)) /\ Head(m_destroyEvents) \in Event
    BY <2>1, <2>2 DEF InDestroyList, TypeOK
  <2>4. ~Inserted(Head(m_destroyEvents))
    BY <2>3 DEF OnceRun
  <2>. QED BY <2>1, <2>4, EarliestLeaves
<1>5. CASE DoDispose
  <2>1. m_events' = {} /\ pc' = "disposed" /\ UNCHANGED <<inserted, ran, cancelled>>
    BY <1>5 DEF DoDispose, userVars
  <2>. QED BY <2>1, EarliestLeaves
<1>6. ASSUME UNCHANGED <<m_events, inserted, ran>>, cancelled \subseteq cancelled',
             pc = "disposed" => pc' = "disposed"
      PROVE  FirstInv' /\ FirstInsertedRunsFirst'
  BY <1>6, EarliestLeaves
<1>7. CASE Stop \/ Run \/ Destroy
           \/ (\E e \in Event : ScheduleDestroy(e) \/ RemoveDestroyEvent(e) \/ Cancel(e))
  BY <1>6, <1>7 DEF Stop, Run, Destroy, ScheduleDestroy, RemoveDestroyEvent, Cancel, listVars,
     mainVars, userVars
<1>8. CASE ProcessEventsWithContext /\ ~DrainInsert
  BY <1>6, <1>8 DEF ProcessEventsWithContext, DrainSkip, DrainTest, DrainLock, DrainSwap,
     DrainUnlock, DrainDone, listVars, userVars
<1>9. CASE EnterLoop \/ HandlerReturn \/ RunReturn \/ DestroyHandlerReturn \/ BeginDispose
  BY <1>6, <1>9 DEF EnterLoop, HandlerReturn, RunReturn, DestroyHandlerReturn, BeginDispose,
     listVars, userVars
<1>10. CASE ThreadStep \/ UNCHANGED vars
  BY <1>6, <1>10 DEF ThreadStep, PostLock, PostPush, PostUnlock, vars, listVars, mainVars, userVars
<1>. QED BY <1>1, <1>2, <1>3, <1>4, <1>5, <1>7, <1>8, <1>9, <1>10
     DEF Next, UserCall, ProcessEventsWithContext, MainLoop, ProcessOneEvent, Shutdown, Terminated

\* "The first event inserted in the scheduling queue is scheduled to expire
\* first" (simulator.h:58-61): ids grow with every insertion, so that they order
\* events of the same time by their insertion.
THEOREM FirstInFirstOut == NoWrap => (Spec => []FirstInsertedRunsFirst)
<1> SUFFICES ASSUME NoWrap PROVE Spec => []FirstInsertedRunsFirst
  OBVIOUS
<1>1. Init => FirstInv /\ FirstInsertedRunsFirst
  BY DEF Init, FirstInv, FirstInsertedRunsFirst
<1>2. /\ TypeOK /\ KeyInv /\ IdsInv /\ OwnerInv /\ OnceRun
      /\ FirstInv /\ FirstInsertedRunsFirst /\ [Next]_vars
      => FirstInv' /\ FirstInsertedRunsFirst'
  BY FirstInductive
<1>. QED BY <1>1, <1>2, OnceRunInvariant, PTL DEF Spec

-----------------------------------------------------------------------------
(* The posts of other threads are inserted in the order they were pushed.    *)

\* The posts of handed the main thread has inserted are its first Taken ones.
Taken == Len(handed) - Len(eventsWithContext) - Len(m_eventsWithContext)

\* Behind them come those it has swapped out, and then those in the queue.
Aligned ==
    /\ Taken \in Nat
    /\ \A i \in 1..Len(eventsWithContext) : handed[Taken + i] = eventsWithContext[i]
    /\ \A i \in 1..Len(m_eventsWithContext) :
          handed[Taken + Len(eventsWithContext) + i] = m_eventsWithContext[i]

\* Taking a post shows in what is swapped out.
LEMMA TakingShows ==
  ASSUME TypeOK, eventsWithContext' = eventsWithContext
  PROVE  ~DrainInsert
<1> SUFFICES ASSUME DrainInsert PROVE FALSE
  OBVIOUS
<1>1. /\ eventsWithContext \in Seq(Post) /\ eventsWithContext # <<>>
      /\ Tail(eventsWithContext) = eventsWithContext
  BY DEF DrainInsert, TypeOK
<1>2. /\ Len(eventsWithContext) \in Nat
      /\ Len(Tail(eventsWithContext)) = Len(eventsWithContext) - 1
  BY <1>1, TailElements
<1>. QED BY <1>1, <1>2

LEMMA AlignedInductive ==
  ASSUME TypeOK, DrainInv, Aligned, [Next]_vars
  PROVE  /\ Aligned'
         /\ ~DrainInsert => Taken' = Taken
         /\ DrainInsert => Taken' = Taken + 1
<1>0. /\ Len(handed) \in Nat /\ Len(eventsWithContext) \in Nat /\ Len(m_eventsWithContext) \in Nat
      /\ handed \in Seq(Post) /\ eventsWithContext \in Seq(Post)
      /\ m_eventsWithContext \in Seq(Post)
  BY DEF TypeOK
<1>1. ASSUME UNCHANGED <<handed, eventsWithContext, m_eventsWithContext>>
      PROVE  Aligned' /\ Taken' = Taken
  BY <1>1 DEF Aligned, Taken
<1>2. CASE DrainInsert
  <2>1. /\ eventsWithContext # <<>> /\ eventsWithContext' = Tail(eventsWithContext)
        /\ handed' = handed /\ m_eventsWithContext' = m_eventsWithContext
    BY <1>2 DEF DrainInsert, queueVars
  <2>2. /\ Len(eventsWithContext) > 0 /\ Len(eventsWithContext') = Len(eventsWithContext) - 1
        /\ \A i \in 1..Len(eventsWithContext') : eventsWithContext'[i] = eventsWithContext[i + 1]
    BY <1>0, <2>1, TailElements
  <2>3. Taken' = Taken + 1
    BY <1>0, <2>1, <2>2 DEF Taken
  <2>4. ASSUME NEW i \in 1..Len(eventsWithContext')
        PROVE  handed'[Taken' + i] = eventsWithContext'[i]
    <3>1. i + 1 \in 1..Len(eventsWithContext) /\ Taken' + i = Taken + (i + 1)
      BY <1>0, <2>2, <2>3 DEF Aligned
    <3>. QED BY <2>1, <2>2, <3>1 DEF Aligned
  <2>5. Taken' + Len(eventsWithContext') = Taken + Len(eventsWithContext)
    BY <1>0, <2>2, <2>3 DEF Aligned
  <2>. QED BY <1>2, <2>1, <2>3, <2>4, <2>5 DEF Aligned
<1>3. CASE DrainSwap
  <2>1. /\ eventsWithContext = <<>>
        /\ eventsWithContext' = m_eventsWithContext /\ m_eventsWithContext' = eventsWithContext
        /\ handed' = handed /\ ~DrainInsert
    BY <1>3 DEF DrainSwap, DrainInv, DrainInsert
  <2>2. Len(eventsWithContext) = 0
    BY <2>1
  <2>3. Taken' = Taken
    BY <1>0, <2>1 DEF Taken
  <2>4. \A i \in Nat : Taken + Len(eventsWithContext) + i = Taken + i
    BY <2>2 DEF Aligned
  <2>. QED BY <1>0, <2>1, <2>2, <2>3, <2>4 DEF Aligned
<1>4. ASSUME NEW t \in Thread, PostPush(t)
      PROVE  Aligned' /\ Taken' = Taken
  <2>1. /\ hand[t] \in Post /\ eventsWithContext' = eventsWithContext
        /\ handed' = Append(handed, hand[t])
        /\ m_eventsWithContext' = Append(m_eventsWithContext, hand[t])
    BY <1>4 DEF PostPush, TypeOK, mainVars
  <2>2. /\ Len(handed') = Len(handed) + 1
        /\ \A i \in 1..Len(handed) : handed'[i] = handed[i]
        /\ handed'[Len(handed) + 1] = hand[t]
    BY <1>0, <2>1, AppendElements
  <2>3. /\ Len(m_eventsWithContext') = Len(m_eventsWithContext) + 1
        /\ \A i \in 1..Len(m_eventsWithContext) : m_eventsWithContext'[i] = m_eventsWithContext[i]
        /\ m_eventsWithContext'[Len(m_eventsWithContext) + 1] = hand[t]
    BY <1>0, <2>1, AppendElements
  <2>4. Taken' = Taken
    BY <1>0, <2>1, <2>2, <2>3 DEF Taken
  <2>5. ASSUME NEW i \in 1..Len(eventsWithContext)
        PROVE  handed'[Taken + i] = eventsWithContext[i]
    <3>1. Taken + i \in 1..Len(handed)
      BY <1>0 DEF Aligned, Taken
    <3>. QED BY <2>2, <3>1 DEF Aligned
  <2>6. ASSUME NEW i \in 1..Len(m_eventsWithContext')
        PROVE  handed'[Taken + Len(eventsWithContext) + i] = m_eventsWithContext'[i]
    <3>1. CASE i \in 1..Len(m_eventsWithContext)
      <4>1. Taken + Len(eventsWithContext) + i \in 1..Len(handed)
        BY <1>0, <3>1 DEF Aligned, Taken
      <4>. QED BY <2>2, <2>3, <3>1, <4>1 DEF Aligned
    <3>2. CASE i = Len(m_eventsWithContext) + 1
      <4>1. Taken + Len(eventsWithContext) + i = Len(handed) + 1
        BY <1>0, <3>2 DEF Taken
      <4>. QED BY <2>2, <2>3, <3>2, <4>1
    <3>. QED BY <1>0, <2>3, <3>1, <3>2
  <2>. QED BY <2>1, <2>4, <2>5, <2>6 DEF Aligned
<1>5. CASE UserCall \/ Run \/ Destroy \/ MainLoop \/ Shutdown \/ UNCHANGED vars
           \/ (ProcessEventsWithContext /\ ~DrainInsert /\ ~DrainSwap)
           \/ (\E t \in Thread : PostUnlock(t) \/ \E d \in Delay, e \in Event : PostLock(t, d, e))
  <2>1. UNCHANGED <<handed, eventsWithContext, m_eventsWithContext>>
    BY <1>5 DEF UserCall, Schedule, StopAfter, ScheduleWithContext, ScheduleDestroy,
       RemoveDestroyEvent, Remove, Cancel, Stop, Run, Destroy, MainLoop, EnterLoop,
       ProcessOneEvent, InvokeEvent, InvokeStop, SkipCancelled, HandlerReturn, RunReturn, Shutdown,
       DestroyNext, DestroyHandlerReturn, BeginDispose, DoDispose, ProcessEventsWithContext,
       DrainSkip, DrainTest, DrainLock, DrainUnlock, DrainDone, PostLock, PostUnlock, vars,
       mainVars, queueVars
  <2>. QED BY <1>1, <2>1, TakingShows
<1>6. ASSUME NEW t \in Thread, PostPush(t) PROVE ~DrainInsert
  BY <1>6, TakingShows DEF PostPush, mainVars
<1>. QED BY <1>2, <1>3, <1>4, <1>5, <1>6 DEF Next, ProcessEventsWithContext, ThreadStep, Terminated

\* What holds of a post the main thread has inserted.
Settled(p) ==
    /\ p.impl \in made \ cancelled /\ ids[p.impl] = None /\ Inserted(p.impl)
    /\ p.impl \in ran \/ Listed(p.impl) \/ pc = "disposed"
    /\ \A ev \in m_events : ev.impl = p.impl => ev.ts <= m_currentTs + p.delay

\* Of two such posts, the earlier is ahead unless it asked for a longer delay.
Ahead(p, q) ==
    p.delay <= q.delay =>
        \A ev, f \in m_events : ev.impl = p.impl /\ f.impl = q.impl => Less(ev, f)

TakenInv ==
    /\ \A i \in 1..Taken : Settled(handed[i])
    /\ \A i, j \in 1..Taken : i < j => Ahead(handed[i], handed[j])

IsTaken(e) == \E i \in 1..Taken : handed[i].impl = e

\* A post that is not taken waits.
LEMMA TakenOrWaits ==
  ASSUME TypeOK, Aligned, NEW i \in 1..Len(handed)
  PROVE  /\ handed[i] \in Post /\ handed[i].impl \in Event /\ handed[i].delay \in Nat
         /\ i \in 1..Taken \/ Waits(handed[i].impl)
         /\ Taken <= Len(handed)
<1>0. /\ Len(handed) \in Nat /\ Len(eventsWithContext) \in Nat /\ Len(m_eventsWithContext) \in Nat
      /\ Taken \in Nat /\ i \in Nat
  BY DEF TypeOK, Aligned
<1>1. handed[i] \in Post /\ handed[i].impl \in Event /\ handed[i].delay \in Nat
  <2>1. handed[i] \in Post
    BY DEF TypeOK
  <2>2. handed[i].impl \in Event /\ handed[i].delay \in Delay
    BY <2>1 DEF Post
  <2>. QED BY <2>1, <2>2, ConstantsAssumption
<1>2. CASE i > Taken /\ i <= Taken + Len(eventsWithContext)
  <2>1. i - Taken \in 1..Len(eventsWithContext) /\ Taken + (i - Taken) = i
    BY <1>0, <1>2
  <2>2. eventsWithContext[i - Taken] = handed[i]
    BY <2>1 DEF Aligned
  <2>. QED BY <1>0, <1>1, <2>1, <2>2 DEF Waits, Swapped, InQueue, Taken
<1>3. CASE i > Taken + Len(eventsWithContext)
  <2> DEFINE k == i - Taken - Len(eventsWithContext)
  <2>1. k \in 1..Len(m_eventsWithContext) /\ Taken + Len(eventsWithContext) + k = i
    BY <1>0, <1>3 DEF Taken
  <2> HIDE DEF k
  <2>2. m_eventsWithContext[k] = handed[i]
    BY <2>1 DEF Aligned
  <2>. QED BY <1>0, <1>1, <2>1, <2>2 DEF Waits, Queued, InQueue, Taken
<1>. QED BY <1>0, <1>1, <1>2, <1>3 DEF Taken

\* Nothing is taken, nothing that was taken is disturbed, and what runs is the
\* earliest in the list or was never inserted.
LEMMA TakenStay ==
  ASSUME TypeOK, Aligned, OwnerInv, OnceRun, TakenInv, PostedRunInOrder, Taken' = Taken,
         \A i \in 1..Len(handed) : handed'[i] = handed[i],
         \A i \in 1..Len(handed') : i \in 1..Len(handed) \/ handed'[i].impl \notin ran',
         \A ev \in m_events' \ m_events : ~IsTaken(ev.impl),
         \A ev \in m_events \ m_events' :
            ev.impl \in ran' \/ pc' = "disposed" \/ ~IsTaken(ev.impl),
         \A e \in Event : IsTaken(e) => ids'[e] = ids[e] /\ (e \in cancelled' => e \in cancelled),
         \A e \in Event : Inserted(e) => Inserted(e)',
         made \subseteq made', ran \subseteq ran',
         m_currentTs' \in Nat, m_currentTs' >= m_currentTs,
         pc = "disposed" => pc' = "disposed",
         \A e \in ran' \ ran :
            \/ ~Inserted(e) /\ ~Waits(e)
            \/ /\ pc # "disposed"
               /\ \E next \in m_events : next.impl = e /\ IsEarliest(next, m_events)
  PROVE  TakenInv' /\ PostedRunInOrder'
<1>0. /\ Taken \in Nat /\ Len(handed) \in Nat /\ Taken <= Len(handed)
      /\ \A ev \in m_events : ev.ts \in Nat /\ ev.uid \in Nat
      /\ m_currentTs \in Nat
  <2>1. Taken \in Nat /\ Len(handed) \in Nat /\ Taken <= Len(handed)
    <3>1. /\ Len(handed) \in Nat /\ Len(eventsWithContext) \in Nat
          /\ Len(m_eventsWithContext) \in Nat
      BY DEF TypeOK
    <3>2. Taken \in Nat
      BY DEF Aligned
    <3>. QED BY <3>1, <3>2 DEF Taken
  <2>2. ASSUME NEW ev \in m_events PROVE ev.ts \in Nat /\ ev.uid \in Nat
    BY DEF TypeOK, Uid
  <2>. QED BY <2>1, <2>2 DEF TypeOK
<1>1. ASSUME NEW i \in 1..Taken
      PROVE  /\ i \in 1..Len(handed) /\ handed'[i] = handed[i]
             /\ handed[i].impl \in Event /\ handed[i].delay \in Nat
             /\ IsTaken(handed[i].impl) /\ Settled(handed[i])
             /\ \A ev \in m_events' : ev.impl = handed[i].impl => ev \in m_events
  <2>1. i \in 1..Len(handed)
    BY <1>0
  <2>2. IsTaken(handed[i].impl) /\ Settled(handed[i])
    BY DEF IsTaken, TakenInv
  <2>. QED BY <2>1, <2>2, TakenOrWaits
<1>2. ASSUME NEW i \in 1..Taken
      PROVE  Settled(handed[i])'
  <2>1. handed[i].impl \in made' \ cancelled' /\ ids'[handed[i].impl] = None
        /\ Inserted(handed[i].impl)'
    BY <1>1 DEF Settled
  <2>2. handed[i].impl \in ran' \/ Listed(handed[i].impl)' \/ pc' = "disposed"
    BY <1>1 DEF Settled, Listed
  <2>3. ASSUME NEW ev \in m_events', ev.impl = handed[i].impl
        PROVE  ev.ts <= m_currentTs' + handed[i].delay
    <3>1. ev \in m_events /\ ev.ts <= m_currentTs + handed[i].delay
      BY <1>1, <2>3 DEF Settled
    <3>. QED BY <1>0, <1>1, <3>1
  <2>4. handed'[i] = handed[i]
    BY <1>1
  <2>. QED BY <2>1, <2>2, <2>3, <2>4 DEF Settled
<1>3. ASSUME NEW i \in 1..Taken, NEW j \in 1..Taken, i < j
      PROVE  Ahead(handed[i], handed[j])'
  <2>1. Ahead(handed[i], handed[j]) /\ handed'[i] = handed[i] /\ handed'[j] = handed[j]
    BY <1>1, <1>3 DEF TakenInv
  <2>. QED BY <1>1, <2>1 DEF Ahead
<1>4. TakenInv'
  BY <1>2, <1>3 DEF TakenInv
<1>5. ASSUME NEW i \in 1..Len(handed'), NEW j \in 1..Len(handed'), i < j,
             handed'[i].delay <= handed'[j].delay, handed'[j].impl \in ran',
             handed'[i].impl \notin ran'
      PROVE  FALSE
  <2>1. j \in 1..Len(handed) /\ i \in 1..Len(handed)
    BY <1>0, <1>5
  <2>2. handed'[i] = handed[i] /\ handed'[j] = handed[j]
    BY <2>1
  <2>3. handed[j].impl \notin ran
    BY <1>5, <2>1, <2>2 DEF PostedRunInOrder
  <2>4. handed[j].impl \in Event
    BY <2>1, TakenOrWaits
  <2>5. \/ ~Inserted(handed[j].impl) /\ ~Waits(handed[j].impl)
        \/ /\ pc # "disposed"
           /\ \E next \in m_events : next.impl = handed[j].impl /\ IsEarliest(next, m_events)
    BY <1>5, <2>2, <2>3
  <2>6. j \in 1..Taken
    <3>1. ASSUME Waits(handed[j].impl) PROVE FALSE
      <4>1. Listed(handed[j].impl)
        BY <2>5, <3>1 DEF Listed
      <4>. QED BY <2>4, <3>1, <4>1 DEF Waits, OwnerInv, OnePlace
    <3>. QED BY <2>1, <3>1, TakenOrWaits
  <2>7. i \in 1..Taken
    BY <1>0, <1>5, <2>1, <2>6
  <2>8. PICK next \in m_events : next.impl = handed[j].impl /\ IsEarliest(next, m_events)
    BY <1>1, <2>5, <2>6 DEF Settled
  <2>9. PICK ev \in m_events : ev.impl = handed[i].impl
    BY <1>1, <1>5, <2>2, <2>5, <2>6, <2>7 DEF Settled, Listed
  <2>10. Less(ev, next)
    BY <1>5, <2>2, <2>6, <2>7, <2>8, <2>9 DEF TakenInv, Ahead
  <2>. QED BY <1>0, <2>8, <2>9, <2>10 DEF IsEarliest, Less
<1>. QED BY <1>4, <1>5 DEF PostedRunInOrder

\* The main thread takes the next post.
LEMMA NextIsTaken ==
  ASSUME TypeOK, KeyInv, OwnerInv, OnceRun, Aligned, TakenInv, PostedRunInOrder,
         DrainInsert, Taken' = Taken + 1
  PROVE  TakenInv' /\ PostedRunInOrder'
<1>0. /\ Taken \in Nat /\ m_currentTs \in Nat /\ m_uid \in Nat
      /\ \A ev \in m_events : ev.ts \in Nat /\ ev.uid \in Nat
  <2>1. ASSUME NEW ev \in m_events PROVE ev.ts \in Nat /\ ev.uid \in Nat
    BY DEF TypeOK, Uid
  <2>. QED BY <2>1 DEF TypeOK, Aligned, Uid
<1>1. /\ eventsWithContext \in Seq(Post) /\ eventsWithContext # <<>>
      /\ handed' = handed
      /\ UNCHANGED <<pc, ran, made, ids, cancelled, m_currentTs>>
  BY DEF DrainInsert, TypeOK, queueVars, userVars, clockVars
<1>2. /\ 1 \in 1..Len(eventsWithContext) /\ Head(eventsWithContext) = eventsWithContext[1]
  BY <1>1, TailElements
<1>3. Taken + 1 \in 1..Len(handed)
  <2>1. Len(handed) \in Nat /\ Len(eventsWithContext) \in Nat /\ Len(m_eventsWithContext) \in Nat
    BY DEF TypeOK
  <2>. QED BY <1>0, <1>2, <2>1 DEF Taken
<1>4. PICK p \in Post : p = handed[Taken + 1] /\ p.impl \in Event /\ p.delay \in Nat
  BY <1>3, TakenOrWaits
<1>5. p = Head(eventsWithContext)
  BY <1>2, <1>4 DEF Aligned
<1>6. Insert(p.impl, m_currentTs + p.delay) /\ Swapped(p.impl)
  BY <1>2, <1>5 DEF DrainInsert, Swapped, InQueue
<1>7. /\ ~Listed(p.impl) /\ p.impl \in made
      /\ p.impl \notin ran /\ p.impl \notin cancelled /\ ids[p.impl] = None /\ ~Inserted(p.impl)
  BY <1>4, <1>6 DEF OnceRun, Waits, Fresh, OwnerInv, OnePlace, Owned
<1>8. \A e : /\ Inserted(e)' <=> Inserted(e) \/ e = p.impl
             /\ Listed(e)' <=> Listed(e) \/ e = p.impl
  <2>1. m_currentTs + p.delay \in Nat
    BY <1>0, <1>4
  <2>. QED BY <1>4, <1>6, <2>1, InsertIsRecorded, InsertIsListed
<1>9. /\ \A ev \in m_events : ev.impl # p.impl /\ ev.uid < m_uid
      /\ \A ev \in m_events' : \/ ev \in m_events
                               \/ /\ ev.impl = p.impl /\ ev.uid = m_uid
                                  /\ ev.ts = m_currentTs + p.delay
  BY <1>6, <1>7 DEF Insert, Listed, KeyInv
<1>10. \A i \in 1..Taken' : i \in 1..Taken \/ i = Taken + 1
  BY <1>0
<1>11. ASSUME NEW i \in 1..Taken
       PROVE  /\ i \in 1..Len(handed) /\ handed[i].delay \in Nat
              /\ Settled(handed[i]) /\ handed[i].impl # p.impl
              /\ \A ev \in m_events' : ev.impl = handed[i].impl => ev \in m_events
  <2>1. i \in 1..Len(handed)
    BY <1>0, <1>3
  <2>2. Settled(handed[i])
    BY DEF TakenInv
  <2>3. handed[i].impl # p.impl
    BY <1>7, <2>2 DEF Settled
  <2>. QED BY <1>9, <2>1, <2>2, <2>3, TakenOrWaits
<1>12. Settled(p)'
  <2>1. \A ev \in m_events' : ev.impl = p.impl => ev.ts = m_currentTs + p.delay
    BY <1>9
  <2>2. \A ev \in m_events' : ev.impl = p.impl => ev.ts <= m_currentTs + p.delay
    BY <1>0, <1>4, <2>1
  <2>. QED BY <1>1, <1>7, <1>8, <2>2 DEF Settled
<1>13. ASSUME NEW i \in 1..Taken' PROVE Settled(handed[i])'
  <2>1. CASE i = Taken + 1
    BY <1>1, <1>4, <1>12, <2>1
  <2>2. CASE i \in 1..Taken
    BY <1>1, <1>8, <1>11, <2>2 DEF Settled
  <2>. QED BY <1>10, <2>1, <2>2
<1>14. ASSUME NEW i \in 1..Taken', NEW j \in 1..Taken', i < j,
              handed[i].delay <= handed[j].delay,
              NEW ev \in m_events', NEW f \in m_events',
              ev.impl = handed[i].impl, f.impl = handed[j].impl
       PROVE  Less(ev, f)
  <2>1. i \in 1..Taken
    BY <1>0, <1>10, <1>14
  <2>2. ev \in m_events /\ ev.ts <= m_currentTs + handed[i].delay
    BY <1>11, <1>14, <2>1 DEF Settled
  <2>3. CASE j \in 1..Taken
    BY <1>11, <1>14, <2>1, <2>2, <2>3 DEF TakenInv, Ahead
  <2>4. CASE j = Taken + 1
    <3>1. f.uid = m_uid /\ f.ts = m_currentTs + p.delay
      BY <1>4, <1>9, <1>14, <2>4
    <3>2. ev.ts <= f.ts /\ ev.uid < f.uid
      BY <1>0, <1>4, <1>9, <1>11, <1>14, <2>1, <2>2, <2>4, <3>1
    <3>. QED BY <1>0, <1>4, <2>2, <3>1, <3>2 DEF Less
  <2>. QED BY <1>10, <2>3, <2>4
<1>15. TakenInv'
  BY <1>1, <1>13, <1>14 DEF TakenInv, Ahead
<1>. QED BY <1>1, <1>15 DEF PostedRunInOrder


LEMMA PostedInductive ==
  ASSUME NoWrap, TypeOK, KeyInv, IdsInv, DrainInv, OwnerInv, OnceRun, Aligned, TakenInv,
         PostedRunInOrder, [Next]_vars
  PROVE  Aligned' /\ TakenInv' /\ PostedRunInOrder'
<1>a. Aligned' /\ (~DrainInsert => Taken' = Taken) /\ (DrainInsert => Taken' = Taken + 1)
  BY AlignedInductive
<1>t. TypeOK'
  BY TypeInductive
<1>k. m_currentTs' >= m_currentTs /\ m_currentTs \in Nat /\ m_currentTs' \in Nat
  <2>1. m_currentTs \in Nat /\ m_currentTs' \in Nat
    BY <1>t DEF TypeOK
  <2>2. CurrentKey' = CurrentKey \/ Less(CurrentKey, CurrentKey')
    BY KeyInductive
  <2>3. CurrentKey.ts = m_currentTs /\ CurrentKey'.ts = m_currentTs'
    BY DEF CurrentKey
  <2>. QED BY <2>1, <2>2, <2>3 DEF Less
\* What is taken, and only that, is out of the reach of its user.
<1>s. \A e \in Event :
         IsTaken(e) => e \in made /\ e \notin cancelled /\ ids[e] = None /\ Inserted(e)
  BY DEF IsTaken, TakenInv, Settled
<1>1. CASE DrainInsert
  BY <1>1, <1>a, NextIsTaken
<1>2. ASSUME ~DrainInsert, handed' = handed, inserted' = inserted, made \subseteq made',
             ran' = ran, m_events' = m_events, pc = "disposed" => pc' = "disposed",
             \A e \in Event : IsTaken(e) => ids'[e] = ids[e] /\ e \notin cancelled'
      PROVE  TakenInv' /\ PostedRunInOrder'
  <2>1. \A e \in Event : Inserted(e) => Inserted(e)'
    BY <1>2 DEF Inserted
  <2>. QED BY <1>2, <1>a, <1>k, <2>1, TakenStay
<1>3. ASSUME NEW d \in Delay, NEW x \in Event,
             Schedule(d, x) \/ StopAfter(d, x) \/ ScheduleWithContext(d, x)
      PROVE  TakenInv' /\ PostedRunInOrder'
  <2>1. /\ x \notin made /\ made' = made \cup {x} /\ Insert(x, m_currentTs + d)
        /\ handed' = handed /\ UNCHANGED <<ran, cancelled, pc>>
        /\ \A e \in Event : e # x => ids'[e] = ids[e]
    BY <1>3 DEF Schedule, StopAfter, ScheduleWithContext, NewEvent, queueVars, mainVars, TypeOK
  <2>2. m_currentTs + d \in Nat
    BY <1>k, ConstantsAssumption
  <2>3. \A e \in Event : Inserted(e) => Inserted(e)'
    BY <2>1, <2>2, InsertIsRecorded
  <2>4. ~IsTaken(x)
    BY <1>s, <2>1
  <2>5. /\ m_events \subseteq m_events'
        /\ \A ev \in m_events' \ m_events : ev.impl = x
    BY <2>1 DEF Insert
  <2>6. ~DrainInsert
    BY <1>3 DEF DrainInsert, DrainInv, Schedule, StopAfter, ScheduleWithContext, NewEvent,
       InUserCode
  <2>. QED BY <1>a, <1>k, <2>1, <2>3, <2>4, <2>5, <2>6, TakenStay
<1>4. ASSUME NEW x \in Event, ScheduleDestroy(x) \/ RemoveDestroyEvent(x) \/ Cancel(x)
      PROVE  TakenInv' /\ PostedRunInOrder'
  <2>1. /\ pc \in {"idle", "handler", "destroyHandler"} /\ made \subseteq made'
        /\ UNCHANGED <<handed, inserted, ran, m_events, pc>>
        /\ x \notin made \/ ids[x] # None
        /\ \A e \in Event : e # x => ids'[e] = ids[e] /\ (e \in cancelled' => e \in cancelled)
    BY <1>4 DEF ScheduleDestroy, RemoveDestroyEvent, Cancel, NewEvent, InUserCode, queueVars,
       mainVars, listVars, TypeOK
  <2>2. ~IsTaken(x)
    BY <1>s, <2>1
  <2>3. ~DrainInsert
    BY <2>1 DEF DrainInsert, DrainInv
  <2>. QED BY <1>2, <1>s, <2>1, <2>2, <2>3
<1>5. ASSUME NEW x \in Event, Remove(x)
      PROVE  TakenInv' /\ PostedRunInOrder'
  <2>1. /\ pc \in {"idle", "handler", "destroyHandler"} /\ m_events' \subseteq m_events
        /\ UNCHANGED <<handed, inserted, ran, pc, made, ids>>
        /\ ids[x] # None /\ cancelled' = cancelled \cup {x} /\ Ordinary(x)
        /\ \A ev \in m_events \ m_events' : ev.uid = ids[x].uid
    BY <1>5 DEF Remove, InUserCode, queueVars, mainVars, Ordinary
  <2>2. ~IsTaken(x)
    BY <1>s, <2>1
  <2>3. ~DrainInsert
    BY <2>1 DEF DrainInsert, DrainInv
  <2>4. ASSUME NEW ev \in m_events \ m_events' PROVE ev.impl = x
    <3>1. ev = IdOf(x)
      BY <2>1 DEF IdsInv
    <3>. QED BY <3>1 DEF IdOf
  <2>5. \A e \in Event : Inserted(e) => Inserted(e)'
    BY <2>1 DEF Inserted
  <2>. QED BY <1>a, <1>k, <1>s, <2>1, <2>2, <2>3, <2>4, <2>5, TakenStay
<1>6. ASSUME NEW next \in m_events, InvokeEvent(next) \/ InvokeStop(next) \/ SkipCancelled(next)
      PROVE  TakenInv' /\ PostedRunInOrder'
  <2>1. /\ IsEarliest(next, m_events) /\ pc = "loop" /\ ~DrainInsert
        /\ m_events' = m_events \ {next}
        /\ UNCHANGED <<inserted, handed, cancelled, ids, made>>
        /\ ran \subseteq ran' /\ ran' \subseteq ran \cup {next.impl}
        /\ next.impl \in ran' \cup cancelled /\ next.impl \in Event
    BY <1>6 DEF InvokeEvent, InvokeStop, SkipCancelled, TakeNext, userVars, queueVars, DrainInsert,
       TypeOK
  <2>2. next.impl \in ran' \/ ~IsTaken(next.impl)
    BY <1>s, <2>1
  <2>3. \A e \in Event : Inserted(e) => Inserted(e)'
    BY <2>1 DEF Inserted
  <2>. QED BY <1>a, <1>k, <2>1, <2>2, <2>3, TakenStay
<1>7. CASE DestroyNext
  <2>1. /\ m_destroyEvents # <<>> /\ pc = "destroy" /\ pc' # "disposed"
        /\ UNCHANGED <<m_events, inserted, handed, cancelled, ids, made>>
        /\ ran \subseteq ran' /\ ran' \subseteq ran \cup {Head(m_destroyEvents)}
    BY <1>7 DEF DestroyNext, listVars, queueVars
  <2>2. 1 \in 1..Len(m_destroyEvents) /\ m_destroyEvents[1] = Head(m_destroyEvents)
    BY <2>1, TailElements DEF TypeOK
  <2>3. InDestroyList(Head(m_destroyEvents)) /\ Head(m_destroyEvents) \in Event
    BY <2>1, <2>2 DEF InDestroyList, TypeOK
  <2>4. ~Inserted(Head(m_destroyEvents)) /\ ~Waits(Head(m_destroyEvents))
    BY <2>3 DEF OnceRun, Fresh
  <2>5. \A e \in Event : Inserted(e) => Inserted(e)'
    BY <2>1 DEF Inserted
  <2>6. ~DrainInsert
    BY <2>1 DEF DrainInsert, DrainInv
  <2>. QED BY <1>a, <1>k, <2>1, <2>4, <2>5, <2>6, TakenStay
<1>8. CASE DoDispose
  <2>1. /\ m_events' = {} /\ pc' = "disposed" /\ ~DrainInsert
        /\ UNCHANGED <<handed, inserted, ran, cancelled, ids, made>>
    BY <1>8 DEF DoDispose, userVars, queueVars, DrainInsert
  <2>2. \A e \in Event : Inserted(e) => Inserted(e)'
    BY <2>1 DEF Inserted
  <2>. QED BY <1>a, <1>k, <2>1, <2>2, TakenStay
<1>9. ASSUME NEW t \in Thread, PostPush(t)
      PROVE  TakenInv' /\ PostedRunInOrder'
  <2>1. /\ hand[t] \in Post /\ hand[t] # None /\ handed' = Append(handed, hand[t])
        /\ eventsWithContext' = eventsWithContext
        /\ UNCHANGED <<m_events, inserted, ran, cancelled, ids, made, pc>>
    BY <1>9 DEF PostPush, TypeOK, listVars, userVars, mainVars
  <2>2. /\ Len(handed) \in Nat /\ Len(handed') = Len(handed) + 1
        /\ \A i \in 1..Len(handed) : handed'[i] = handed[i]
        /\ handed'[Len(handed) + 1] = hand[t]
    BY <2>1, AppendElements DEF TypeOK
  <2>3. hand[t].impl \in Event /\ Held(hand[t].impl)
    BY <2>1 DEF Post, Held
  <2>4. hand[t].impl \notin ran
    BY <2>3 DEF OnceRun, Waits, Fresh
  <2>5. \A i \in 1..Len(handed') : i \in 1..Len(handed) \/ handed'[i].impl \notin ran'
    <3>1. \A i \in 1..Len(handed') : i \in 1..Len(handed) \/ i = Len(handed) + 1
      BY <2>2
    <3>. QED BY <2>1, <2>2, <2>4, <3>1
  <2>6. ~DrainInsert
    BY <2>1, TakingShows
  <2>7. \A e \in Event : Inserted(e) => Inserted(e)'
    BY <2>1 DEF Inserted
  <2>. QED BY <1>a, <1>k, <2>1, <2>2, <2>5, <2>6, <2>7, TakenStay
<1>10. CASE Stop \/ Run \/ Destroy
  <2>1. /\ UNCHANGED <<handed, inserted, ran, m_events, ids, cancelled, made>>
        /\ pc # "disposed" /\ ~DrainInsert
    BY <1>10 DEF Stop, Run, Destroy, InUserCode, queueVars, listVars, userVars, DrainInsert,
       DrainInv
  <2>. QED BY <1>a, <1>2, <1>s, <2>1
<1>11. CASE ProcessEventsWithContext /\ ~DrainInsert
  <2>1. UNCHANGED <<handed, inserted, ran, m_events, ids, cancelled, made, pc>>
    BY <1>11 DEF ProcessEventsWithContext, DrainSkip, DrainTest, DrainLock, DrainSwap, DrainUnlock,
       DrainDone, queueVars, listVars, userVars
  <2>. QED BY <1>a, <1>2, <1>s, <1>11, <2>1
<1>12. CASE EnterLoop \/ HandlerReturn \/ RunReturn \/ DestroyHandlerReturn \/ BeginDispose
  <2>1. /\ UNCHANGED <<handed, inserted, ran, m_events, ids, cancelled, made, eventsWithContext>>
        /\ pc # "disposed"
    BY <1>12 DEF EnterLoop, HandlerReturn, RunReturn, DestroyHandlerReturn, BeginDispose, queueVars,
       listVars, userVars
  <2>2. ~DrainInsert
    BY <2>1, TakingShows
  <2>. QED BY <1>a, <1>2, <1>s, <2>1, <2>2
<1>13. CASE (\E t \in Thread : PostUnlock(t) \/ \E d \in Delay, e \in Event : PostLock(t, d, e))
            \/ UNCHANGED vars
  <2>1. /\ UNCHANGED <<handed, inserted, ran, m_events, ids, cancelled, pc,
                       eventsWithContext>>
        /\ made \subseteq made'
    BY <1>13 DEF PostUnlock, PostLock, vars, queueVars, listVars, userVars, mainVars
  <2>2. ~DrainInsert
    BY <2>1, TakingShows
  <2>. QED BY <1>a, <1>2, <1>s, <2>1, <2>2
<1>. QED BY <1>a, <1>1, <1>3, <1>4, <1>5, <1>6, <1>7, <1>8, <1>9, <1>10, <1>11, <1>12, <1>13
     DEF Next, UserCall, ProcessEventsWithContext, MainLoop, ProcessOneEvent, Shutdown, ThreadStep,
         Terminated

\* The posts of the threads run in the order they were pushed, when a later one
\* did not ask for a shorter delay.
THEOREM PostsRunInOrder == NoWrap => (Spec => []PostedRunInOrder)
<1> SUFFICES ASSUME NoWrap PROVE Spec => []PostedRunInOrder
  OBVIOUS
<1>1. Init => Aligned /\ TakenInv /\ PostedRunInOrder
  BY DEF Init, Aligned, TakenInv, Taken, PostedRunInOrder
<1>2. /\ TypeOK /\ KeyInv /\ IdsInv /\ DrainInv /\ OwnerInv /\ OnceRun
      /\ Aligned /\ TakenInv /\ PostedRunInOrder /\ [Next]_vars
      => Aligned' /\ TakenInv' /\ PostedRunInOrder'
  BY PostedInductive
<1>. QED BY <1>1, <1>2, OnceRunInvariant, PTL DEF Spec

-----------------------------------------------------------------------------
(* The event list as an agenda.  The rank of an event in a finite set of    *)
(* events with distinct ids is a bijection, and an event that enters or     *)
(* leaves moves those behind it by one place.                               *)

Keyed(S) ==
    /\ IsFiniteSet(S)
    /\ \A f \in S : f.ts \in Nat /\ f.uid \in Nat
    /\ \A f, g \in S : f.uid = g.uid => f = g

Below(S, ev) == {f \in S : Less(f, ev)}
Rank(S, ev)  == 1 + Cardinality(Below(S, ev))
Entry(ev)    == [ts |-> ev.ts, impl |-> ev.impl]
AtRank(S, i) == CHOOSE ev \in S : Rank(S, ev) = i
Sorted(S)    == [i \in 1..Cardinality(S) |-> Entry(AtRank(S, i))]

LEMMA AgendaIsSorted == Agenda = Sorted(m_events)
BY DEF Agenda, Position, Sorted, AtRank, Rank, Below, Entry

\* Ranks are places of the agenda, and an earlier key has a lower rank.
LEMMA RankGrows ==
  ASSUME NEW S, Keyed(S), NEW f \in S
  PROVE  /\ Cardinality(S) \in Nat
         /\ Rank(S, f) \in 1..Cardinality(S)
         /\ \A g \in S : Less(f, g) => Rank(S, f) < Rank(S, g)
<1>1. ASSUME NEW g \in S
      PROVE  /\ Below(S, g) \in SUBSET S /\ g \notin Below(S, g)
             /\ IsFiniteSet(Below(S, g)) /\ Cardinality(Below(S, g)) \in Nat
  <2>1. Below(S, g) \in SUBSET S /\ g \notin Below(S, g)
    BY DEF Below, Less, Keyed
  <2>. QED BY <2>1, FS_Subset, FS_CardinalityType DEF Keyed
<1>2. Cardinality(S) \in Nat
  BY FS_CardinalityType DEF Keyed
<1>3. Rank(S, f) \in 1..Cardinality(S)
  <2>1. /\ IsFiniteSet(Below(S, f) \cup {f})
        /\ Cardinality(Below(S, f) \cup {f}) = Cardinality(Below(S, f)) + 1
    BY <1>1, FS_AddElement
  <2>2. Below(S, f) \cup {f} \in SUBSET S
    BY <1>1
  <2>3. Cardinality(Below(S, f) \cup {f}) <= Cardinality(S)
    BY <2>2, FS_Subset DEF Keyed
  <2>. QED BY <1>1, <1>2, <2>1, <2>3 DEF Rank
<1>4. ASSUME NEW g \in S, Less(f, g) PROVE Rank(S, f) < Rank(S, g)
  <2>1. /\ IsFiniteSet(Below(S, f) \cup {f})
        /\ Cardinality(Below(S, f) \cup {f}) = Cardinality(Below(S, f)) + 1
    BY <1>1, FS_AddElement
  <2>2. Below(S, f) \cup {f} \in SUBSET Below(S, g)
    BY <1>4 DEF Below, Less, Keyed
  <2>3. Cardinality(Below(S, f) \cup {f}) <= Cardinality(Below(S, g))
    BY <1>1, <2>2, FS_Subset
  <2>. QED BY <1>1, <2>1, <2>3 DEF Rank
<1>. QED BY <1>2, <1>3, <1>4

\* Every place of the agenda is the rank of one event.
LEMMA RankIsBijective ==
  ASSUME NEW S, Keyed(S)
  PROVE  /\ \A f, g \in S : Rank(S, f) = Rank(S, g) => f = g
         /\ \A i \in 1..Cardinality(S) : \E f \in S : Rank(S, f) = i
<1>1. ASSUME NEW f \in S, NEW g \in S, Rank(S, f) = Rank(S, g) PROVE f = g
  <2>1. Rank(S, f) \in Int /\ Rank(S, g) \in Int
    BY RankGrows
  <2>2. ~Less(f, g) /\ ~Less(g, f)
    BY <1>1, <2>1, RankGrows
  <2>. QED BY <2>2 DEF Less, Keyed
<1>2. \A i \in 1..Cardinality(S) : \E f \in S : Rank(S, f) = i
  <2>1. PICK r : r = [f \in S |-> Rank(S, f)]
    OBVIOUS
  <2>2. Cardinality(S) \in Nat
    BY FS_CardinalityType DEF Keyed
  <2>3. r \in [S -> 1..Cardinality(S)] /\ \A f, g \in S : r[f] = r[g] => f = g
    BY <1>1, <2>1, RankGrows
  <2>4. r \in Injection(S, 1..Cardinality(S))
    BY <2>3, Fun_IsInj
  <2>5. IsFiniteSet(1..Cardinality(S)) /\ Cardinality(1..Cardinality(S)) = Cardinality(S)
    BY <2>2, FS_Interval
  <2>6. r \in Surjection(S, 1..Cardinality(S))
    BY <2>4, <2>5, FS_Injection
  <2>7. \A i \in 1..Cardinality(S) : \E f \in S : r[f] = i
    BY <2>6, Fun_SurjectionProperties
  <2>. QED BY <2>1, <2>7
<1>. QED BY <1>1, <1>2

LEMMA SortedAtRank ==
  ASSUME NEW S, Keyed(S)
  PROVE  /\ Cardinality(S) \in Nat /\ DOMAIN Sorted(S) = 1..Cardinality(S)
         /\ \A f \in S : Sorted(S)[Rank(S, f)] = Entry(f)
         /\ \A i \in 1..Cardinality(S) :
              \E f \in S : Rank(S, f) = i /\ Sorted(S)[i] = Entry(f)
<1>0. Cardinality(S) \in Nat /\ DOMAIN Sorted(S) = 1..Cardinality(S)
  BY FS_CardinalityType DEF Keyed, Sorted
<1>1. ASSUME NEW f \in S PROVE Sorted(S)[Rank(S, f)] = Entry(f)
  <2>1. AtRank(S, Rank(S, f)) \in S /\ Rank(S, AtRank(S, Rank(S, f))) = Rank(S, f)
    BY DEF AtRank
  <2>2. AtRank(S, Rank(S, f)) = f
    BY <2>1, RankIsBijective
  <2>3. Rank(S, f) \in 1..Cardinality(S)
    BY RankGrows
  <2>. QED BY <2>2, <2>3 DEF Sorted
<1>. QED BY <1>0, <1>1, RankIsBijective

\* An event x that joins the set takes the place of its key; the ranks of those
\* behind it grow by one.
LEMMA RankOfJoined ==
  ASSUME NEW S, NEW x, x \notin S, Keyed(S \cup {x})
  PROVE  /\ Keyed(S) /\ Cardinality(S \cup {x}) = Cardinality(S) + 1
         /\ Rank(S \cup {x}, x) = Rank(S, x)
         /\ Rank(S, x) \in 1..(Cardinality(S) + 1)
         /\ \A f \in S :
              /\ Rank(S, f) < Rank(S, x) <=> Less(f, x)
              /\ Rank(S \cup {x}, f) = IF Less(f, x) THEN Rank(S, f) ELSE Rank(S, f) + 1
<1>0. /\ IsFiniteSet(S \cup {x}) /\ S \in SUBSET (S \cup {x})
      /\ x.ts \in Nat /\ x.uid \in Nat
      /\ \A f \in S : f.ts \in Nat /\ f.uid \in Nat /\ f.uid # x.uid
  BY DEF Keyed
<1>1. IsFiniteSet(S) /\ Keyed(S)
  BY <1>0, FS_Subset DEF Keyed
<1>2. Cardinality(S \cup {x}) = Cardinality(S) + 1 /\ Cardinality(S) \in Nat
  BY <1>1, FS_AddElement, FS_CardinalityType
<1>3. Rank(S \cup {x}, x) = Rank(S, x)
  <2>1. Below(S \cup {x}, x) = Below(S, x)
    BY <1>0 DEF Below, Less
  <2>. QED BY <2>1 DEF Rank
<1>4. Rank(S, x) \in 1..(Cardinality(S) + 1)
  <2>1. Below(S, x) \in SUBSET S
    BY DEF Below
  <2>2. Cardinality(Below(S, x)) \in Nat /\ Cardinality(Below(S, x)) <= Cardinality(S)
    BY <1>1, <2>1, FS_Subset, FS_CardinalityType
  <2>. QED BY <1>2, <2>2 DEF Rank
<1>5. ASSUME NEW f \in S
      PROVE  /\ Rank(S, f) < Rank(S, x) <=> Less(f, x)
             /\ Rank(S \cup {x}, f) = IF Less(f, x) THEN Rank(S, f) ELSE Rank(S, f) + 1
  <2>1. Below(S, f) \in SUBSET S /\ f \notin Below(S, f) /\ x \notin Below(S, f)
    BY <1>0 DEF Below, Less
  <2>2. IsFiniteSet(Below(S, f)) /\ Cardinality(Below(S, f)) \in Nat
    BY <1>1, <2>1, FS_Subset, FS_CardinalityType
  <2>3. CASE Less(f, x)
    <3>1. Below(S \cup {x}, f) = Below(S, f)
      BY <1>0, <2>3 DEF Below, Less
    <3>2. Rank(S \cup {x}, f) < Rank(S \cup {x}, x)
      BY <2>3, RankGrows
    <3>. QED BY <1>3, <2>3, <3>1, <3>2 DEF Rank
  <2>4. CASE ~Less(f, x)
    <3>1. Less(x, f)
      BY <1>0, <2>4 DEF Less
    <3>2. Below(S \cup {x}, f) = Below(S, f) \cup {x}
      BY <3>1 DEF Below
    <3>3. Cardinality(Below(S, f) \cup {x}) = Cardinality(Below(S, f)) + 1
      BY <2>1, <2>2, FS_AddElement
    <3>4. Rank(S \cup {x}, f) = Rank(S, f) + 1
      BY <2>2, <3>2, <3>3 DEF Rank
    <3>5. Rank(S \cup {x}, x) < Rank(S \cup {x}, f)
      BY <3>1, RankGrows
    <3>. QED BY <1>3, <1>4, <2>2, <2>4, <3>4, <3>5 DEF Rank
  <2>. QED BY <2>3, <2>4
<1>. QED BY <1>1, <1>2, <1>3, <1>4, <1>5

\* Where the i-th element goes when another one enters at p.
Shift(p, i) == IF i < p THEN i ELSE i + 1

\* Element by element, the agenda of the larger set: x enters at p.
EntersAt(S, x, p) ==
    /\ Cardinality(S) \in Nat /\ p \in 1..(Cardinality(S) + 1)
    /\ DOMAIN Sorted(S) = 1..Cardinality(S)
    /\ DOMAIN Sorted(S \cup {x}) = 1..(Cardinality(S) + 1)
    /\ Sorted(S \cup {x})[p] = Entry(x)
    /\ \A i \in 1..Cardinality(S) : Sorted(S)[i] = Sorted(S \cup {x})[Shift(p, i)]

LEMMA SortedOfJoined ==
  ASSUME NEW S, NEW x, x \notin S, Keyed(S \cup {x})
  PROVE  EntersAt(S, x, Rank(S, x))
<1>1. Keyed(S) /\ Cardinality(S \cup {x}) = Cardinality(S) + 1
      /\ Rank(S \cup {x}, x) = Rank(S, x)
      /\ Rank(S, x) \in 1..(Cardinality(S) + 1)
  BY RankOfJoined
<1>2. /\ Cardinality(S) \in Nat /\ DOMAIN Sorted(S) = 1..Cardinality(S)
      /\ DOMAIN Sorted(S \cup {x}) = 1..(Cardinality(S) + 1)
  BY <1>1, SortedAtRank
<1>3. Sorted(S \cup {x})[Rank(S, x)] = Entry(x)
  <2>1. \A f \in S \cup {x} : Sorted(S \cup {x})[Rank(S \cup {x}, f)] = Entry(f)
    BY SortedAtRank
  <2>. QED BY <1>1, <2>1
<1>4. ASSUME NEW i \in 1..Cardinality(S)
      PROVE  Sorted(S)[i] = Sorted(S \cup {x})[Shift(Rank(S, x), i)]
  <2>1. PICK f \in S : Rank(S, f) = i /\ Sorted(S)[i] = Entry(f)
    BY <1>1, SortedAtRank
  <2>2. /\ i < Rank(S, x) <=> Less(f, x)
        /\ Rank(S \cup {x}, f) = IF Less(f, x) THEN i ELSE i + 1
    BY <2>1, RankOfJoined
  <2>3. Sorted(S \cup {x})[Rank(S \cup {x}, f)] = Entry(f)
    BY SortedAtRank
  <2>. QED BY <2>1, <2>2, <2>3 DEF Shift
<1>. QED BY <1>1, <1>2, <1>3, <1>4 DEF EntersAt

\* r is q with an element x more, at p.
HasAt(q, r, p, x) ==
    /\ Len(r) = Len(q) + 1
    /\ r[p] = x
    /\ \A i \in 1..Len(q) : q[i] = r[Shift(p, i)]

\* A sequence with an element inserted, element by element.
With(q, p, x) == SubSeq(q, 1, p - 1) \o <<x>> \o SubSeq(q, p, Len(q))

LEMMA InsertElements ==
  ASSUME NEW T, NEW q \in Seq(T), NEW p \in 1..(Len(q) + 1), NEW x \in T
  PROVE  With(q, p, x) \in Seq(T) /\ HasAt(q, With(q, p, x), p, x)
<1> DEFINE s1 == SubSeq(q, 1, p - 1)
           s2 == SubSeq(q, p, Len(q))
           s3 == s1 \o <<x>>
           r  == s3 \o s2
<1>0. Len(q) \in Nat /\ p \in Nat \ {0} /\ p <= Len(q) + 1 /\ \A k \in 1..Len(q) : q[k] \in T
  OBVIOUS
<1>1. /\ s1 \in Seq(T) /\ Len(s1) = p - 1
      /\ \A k \in 1..(p - 1) : s1[k] = q[k]
  <2>1. \A k \in 1..(p - 1) : q[k] \in T
    BY <1>0
  <2>. QED BY <1>0, <2>1, SubSeqProperties
<1>2. /\ s2 \in Seq(T) /\ Len(s2) = Len(q) + 1 - p
      /\ \A k \in 1..(Len(q) + 1 - p) : s2[k] = q[p + k - 1]
  <2>1. \A k \in p..Len(q) : q[k] \in T
    BY <1>0
  <2>. QED BY <1>0, <2>1, SubSeqProperties
<1> HIDE DEF s1, s2
<1>3. /\ s3 \in Seq(T) /\ Len(s3) = p /\ s3[p] = x
      /\ \A k \in 1..(p - 1) : s3[k] = s1[k]
  <2>1. s3 = Append(s1, x)
    BY <1>1, AppendIsConcat
  <2>. QED BY <1>0, <1>1, <2>1, AppendProperties
<1> HIDE DEF s3
<1>4. /\ r \in Seq(T) /\ Len(r) = Len(q) + 1
      /\ \A k \in 1..(Len(q) + 1) : r[k] = IF k <= p THEN s3[k] ELSE s2[k - p]
  <2>1. Len(s3) + Len(s2) = Len(q) + 1
    BY <1>0, <1>2, <1>3
  <2>. QED BY <1>2, <1>3, <2>1, ConcatProperties
<1> HIDE DEF r
<1>5. r[p] = x
  BY <1>0, <1>3, <1>4
<1>6. ASSUME NEW i \in 1..Len(q), i < p PROVE q[i] = r[i]
  BY <1>0, <1>1, <1>3, <1>4, <1>6
<1>7. ASSUME NEW i \in 1..Len(q), ~(i < p) PROVE q[i] = r[i + 1]
  <2>1. /\ i + 1 \in 1..(Len(q) + 1) /\ ~(i + 1 <= p) /\ i + 1 - p \in 1..(Len(q) + 1 - p)
        /\ p + (i + 1 - p) - 1 = i
    BY <1>0, <1>7
  <2>2. r[i + 1] = s2[i + 1 - p]
    BY <1>4, <2>1
  <2>3. s2[i + 1 - p] = q[p + (i + 1 - p) - 1]
    BY <1>2, <2>1
  <2>. QED BY <2>1, <2>2, <2>3
<1>8. \A i \in 1..Len(q) : q[i] = r[Shift(p, i)]
  BY <1>6, <1>7 DEF Shift
<1>9. r = With(q, p, x)
  BY DEF r, s3, s1, s2, With
<1>. QED BY <1>4, <1>5, <1>8, <1>9 DEF HasAt

\* There is only one such sequence.
LEMMA SameWithElement ==
  ASSUME NEW T, NEW q \in Seq(T), NEW r \in Seq(T), NEW t \in Seq(T),
         NEW p \in 1..(Len(q) + 1), NEW x, HasAt(q, r, p, x), HasAt(q, t, p, x)
  PROVE  r = t
<1>0. /\ Len(r) = Len(q) + 1 /\ Len(t) = Len(q) + 1 /\ r[p] = t[p]
      /\ \A i \in 1..Len(q) : q[i] = r[Shift(p, i)] /\ q[i] = t[Shift(p, i)]
  BY DEF HasAt
<1>1. ASSUME NEW k \in 1..Len(r) PROVE r[k] = t[k]
  <2>1. CASE k = p
    BY <1>0, <2>1
  <2>2. CASE k < p
    <3>1. k \in 1..Len(q) /\ Shift(p, k) = k
      BY <1>0, <2>2 DEF Shift
    <3>. QED BY <1>0, <3>1
  <2>3. CASE k > p
    <3>1. k - 1 \in 1..Len(q) /\ Shift(p, k - 1) = k
      BY <1>0, <2>3 DEF Shift
    <3>. QED BY <1>0, <3>1
  <2>. QED BY <2>1, <2>2, <2>3
<1>. QED BY <1>0, <1>1, SeqEqual

Slot == [ts : Nat, impl : Event]

LEMMA ListIsKeyed ==
  ASSUME TypeOK, KeyInv, IsFiniteSet(m_events)
  PROVE  Keyed(m_events) /\ \A f \in m_events : Entry(f) \in Slot
<1>1. ASSUME NEW f \in m_events PROVE f.ts \in Nat /\ f.uid \in Nat /\ f.impl \in Event
  BY DEF TypeOK, Uid
<1>. QED BY <1>1 DEF Keyed, KeyInv, Entry, Slot

LEMMA SortedIsSeq ==
  ASSUME NEW S, Keyed(S), \A f \in S : Entry(f) \in Slot
  PROVE  Sorted(S) \in Seq(Slot) /\ Len(Sorted(S)) = Cardinality(S)
<1>1. /\ Cardinality(S) \in Nat
      /\ \A i \in 1..Cardinality(S) : AtRank(S, i) \in S
  BY SortedAtRank DEF AtRank
<1>2. Sorted(S) \in [1..Cardinality(S) -> Slot]
  BY <1>1 DEF Sorted
<1>. QED BY <1>1, <1>2

\* Insertion puts the event behind all others due at its time or before.
LEMMA AgendaEnters ==
  ASSUME NoWrap, TypeOK, KeyInv, IsFiniteSet(m_events), m_uid < UidLimit,
         NEW e \in Event, NEW ts \in Nat, Insert(e, ts)
  PROVE  Promise!Enter(e, ts)
<1>s. PICK S : S = m_events
  OBVIOUS
<1>x. PICK x : x = [ts |-> ts, uid |-> m_uid, impl |-> e]
  OBVIOUS
<1>p. PICK p : p = Rank(S, x)
  OBVIOUS
<1>n. PICK n : n = Cardinality(S)
  OBVIOUS
<1>1. m_events' = S \cup {x}
  BY <1>s, <1>x DEF Insert
<1>2. Keyed(S) /\ \A f \in S : Entry(f) \in Slot /\ f.uid < m_uid /\ f.ts \in Nat
  BY <1>s, ListIsKeyed DEF KeyInv, Keyed
<1>3. m_uid \in Nat /\ x.ts = ts /\ x.uid = m_uid /\ Entry(x) = [ts |-> ts, impl |-> e] /\ Entry(x) \in Slot
  BY <1>x DEF TypeOK, Uid, Entry, Slot
<1>4. x \notin S /\ Keyed(S \cup {x})
  BY <1>2, <1>3, FS_AddElement DEF Keyed
<1>5. \A f \in S : Less(f, x) <=> f.ts <= ts
  BY <1>2, <1>3 DEF Less, Keyed
<1>e. EntersAt(S, x, p)
  BY <1>4, <1>p, SortedOfJoined
<1>6. n \in Nat /\ p \in 1..(n + 1) /\ DOMAIN Sorted(S) = 1..n
  BY <1>e, <1>n DEF EntersAt
<1>7. /\ Sorted(S) \in Seq(Slot) /\ Len(Sorted(S)) = n
      /\ Sorted(S \cup {x}) \in Seq(Slot) /\ Len(Sorted(S \cup {x})) = n + 1
  <2>1. Cardinality(S \cup {x}) = n + 1
    BY <1>4, <1>n, RankOfJoined
  <2>2. \A f \in S \cup {x} : Entry(f) \in Slot
    BY <1>2, <1>3
  <2>. QED BY <1>2, <1>4, <1>n, <2>1, <2>2, SortedIsSeq
<1>8. \A i \in 1..n : i < p <=> Sorted(S)[i].ts <= ts
  <2> TAKE i \in 1..n
  <2>1. PICK f \in S : Rank(S, f) = i /\ Sorted(S)[i] = Entry(f)
    BY <1>2, <1>n, SortedAtRank
  <2>2. i < p <=> Less(f, x)
    BY <1>4, <1>p, <2>1, RankOfJoined
  <2>. QED BY <1>5, <2>1, <2>2 DEF Entry
<1>9. 1 + Cardinality({i \in DOMAIN Sorted(S) : Sorted(S)[i].ts <= ts}) = p
  <2>1. PICK k \in Nat : k = p - 1
    BY <1>6
  <2>2. {i \in DOMAIN Sorted(S) : Sorted(S)[i].ts <= ts} = 1..k
    BY <1>6, <1>8, <2>1
  <2>3. Cardinality(1..k) = k
    BY FS_Interval
  <2>4. Cardinality({i \in DOMAIN Sorted(S) : Sorted(S)[i].ts <= ts}) = k
    BY <2>2, <2>3
  <2>. QED BY <1>6, <2>1, <2>4
<1>10. With(Sorted(S), p, Entry(x)) = Sorted(S \cup {x})
  <2>q. PICK q \in Seq(Slot) : q = Sorted(S) /\ Len(q) = n
    BY <1>7
  <2>t. PICK t \in Seq(Slot) : t = Sorted(S \cup {x}) /\ Len(t) = n + 1
    BY <1>7
  <2>1. p \in 1..(Len(q) + 1) /\ Entry(x) \in Slot
    BY <1>3, <1>6, <2>q
  <2>2. HasAt(q, t, p, Entry(x))
    BY <1>e, <1>n, <2>q, <2>t DEF EntersAt, HasAt
  <2>3. With(q, p, Entry(x)) \in Seq(Slot) /\ HasAt(q, With(q, p, Entry(x)), p, Entry(x))
    BY <2>1, InsertElements
  <2>4. With(q, p, Entry(x)) = t
    BY <2>1, <2>2, <2>3, SameWithElement
  <2>. QED BY <2>q, <2>t, <2>4
<1>11. Agenda = Sorted(S) /\ Agenda' = Sorted(S \cup {x})
  BY <1>s, <1>1, AgendaIsSorted DEF Agenda, Position, Sorted, AtRank, Rank, Below, Entry
<1>12. Promise!Place(ts) = p
  <2>1. \A D : Promise!Cardinality(D) = Cardinality(D)
    BY DEF Promise!Cardinality, Cardinality
  <2>. QED BY <1>9, <1>11, <2>1 DEF Promise!Place
<1>13. Promise!InsertAt(Agenda, p, Entry(x)) = Agenda'
  BY <1>10, <1>11 DEF Promise!InsertAt, With
<1>. QED BY <1>3, <1>12, <1>13 DEF Promise!Enter

\* The event that leaves the list leaves its place of the agenda, the first
\* place if it is the earliest.
LEMMA AgendaLoses ==
  ASSUME TypeOK, KeyInv, IsFiniteSet(m_events), NEW x \in m_events,
         m_events' = m_events \ {x}
  PROVE  /\ \E i \in DOMAIN Agenda : Agenda[i] = Entry(x) /\ Agenda' = Promise!RemoveAt(Agenda, i)
         /\ IsEarliest(x, m_events) =>
              /\ Agenda # <<>> /\ Head(Agenda) = Entry(x)
              /\ Agenda' = Tail(Agenda)
<1>s. PICK S : S = m_events \ {x}
  OBVIOUS
<1>p. PICK p : p = Rank(S, x)
  OBVIOUS
<1>n. PICK n : n = Cardinality(S)
  OBVIOUS
<1>1. m_events = S \cup {x} /\ x \notin S /\ m_events' = S
  BY <1>s
<1>2. /\ Keyed(S \cup {x}) /\ Keyed(S)
      /\ \A f \in S \cup {x} : Entry(f) \in Slot
  BY <1>1, ListIsKeyed, RankOfJoined
<1>3. /\ n \in Nat /\ p \in 1..(n + 1)
      /\ DOMAIN Sorted(S) = 1..n /\ DOMAIN Sorted(S \cup {x}) = 1..(n + 1)
      /\ Sorted(S \cup {x})[p] = Entry(x)
      /\ \A i \in 1..n : Sorted(S)[i] = Sorted(S \cup {x})[Shift(p, i)]
  <2>1. x \notin S /\ Keyed(S \cup {x})
    BY <1>1, <1>2
  <2>2. EntersAt(S, x, p)
    BY <2>1, <1>p, SortedOfJoined
  <2>. QED BY <2>2, <1>n DEF EntersAt
<1>4. /\ Sorted(S) \in Seq(Slot) /\ Len(Sorted(S)) = n
      /\ Sorted(S \cup {x}) \in Seq(Slot) /\ Len(Sorted(S \cup {x})) = n + 1
  <2>1. Cardinality(S \cup {x}) = n + 1
    BY <1>1, <1>2, <1>n, RankOfJoined
  <2>. QED BY <1>1, <1>2, <1>n, <2>1, SortedIsSeq
<1>5. Agenda = Sorted(S \cup {x}) /\ Agenda' = Sorted(S)
  BY <1>1, AgendaIsSorted DEF Agenda, Position, Sorted, AtRank, Rank, Below, Entry
<1>q. PICK q \in Seq(Slot) : q = Sorted(S \cup {x})
  BY <1>4
<1>6. p \in DOMAIN Agenda /\ Agenda[p] = Entry(x)
  BY <1>3, <1>5
<1>7. Agenda' = Promise!RemoveAt(Agenda, p)
  <2>1. PICK r : r = SubSeq(q, 1, p - 1) \o SubSeq(q, p + 1, Len(q))
    OBVIOUS
  <2>2. p \in 1..Len(q) /\ Len(q) = n + 1
    BY <1>3, <1>4, <1>q
  <2>3. Len(r) = n /\ \A k \in 1..n : r[k] = IF k < p THEN q[k] ELSE q[k + 1]
    BY <1>3, <2>1, <2>2, CutElements
  <2>4. \A k \in 1..n : Sorted(S)[k] = r[k]
    BY <1>3, <1>q, <2>3 DEF Shift
  <2>5. r \in Seq(Slot)
    <3>1. \A k \in 1..Len(q) : q[k] \in Slot
      BY <1>q
    <3>2. /\ \A k \in 1..(p - 1) : q[k] \in Slot
          /\ \A k \in (p + 1)..Len(q) : q[k] \in Slot
      BY <1>3, <2>2, <3>1
    <3>3. p \in Int /\ Len(q) \in Int
      BY <1>3, <2>2
    <3>4. SubSeq(q, 1, p - 1) \in Seq(Slot) /\ SubSeq(q, p + 1, Len(q)) \in Seq(Slot)
      BY <3>2, <3>3, SubSeqProperties
    <3>. QED BY <2>1, <3>4, ConcatProperties
  <2>6. Sorted(S) = r
    BY <1>4, <2>3, <2>4, <2>5, SeqEqual
  <2>. QED BY <1>5, <1>q, <2>1, <2>6 DEF Promise!RemoveAt
<1>8. ASSUME IsEarliest(x, m_events)
      PROVE  Agenda # <<>> /\ Head(Agenda) = Entry(x) /\ Agenda' = Tail(Agenda)
  <2>1. Below(S, x) = {}
    BY <1>1, <1>8 DEF IsEarliest, Below
  <2>2. p = 1
    BY <1>p, <2>1, FS_EmptySet DEF Rank
  <2>3. q # <<>> /\ Len(q) = n + 1
    BY <1>3, <1>4, <1>q
  <2>4. Head(q) = q[1] /\ Tail(q) \in Seq(Slot) /\ Len(Tail(q)) = n
        /\ \A i \in 1..n : Tail(q)[i] = q[i + 1]
    BY <1>3, <2>3, HeadTailProperties, TailElements
  <2>5. \A i \in 1..n : Sorted(S)[i] = Tail(q)[i]
    <3>1. \A i \in 1..n : Shift(p, i) = i + 1
      BY <1>3, <2>2 DEF Shift
    <3>2. \A i \in 1..n : Sorted(S)[i] = q[i + 1]
      BY <1>3, <1>q, <3>1
    <3>. QED BY <2>4, <3>2
  <2>6. Sorted(S) = Tail(q)
    BY <1>4, <2>4, <2>5, SeqEqual
  <2>. QED BY <1>3, <1>5, <1>q, <2>2, <2>3, <2>4, <2>6
<1>. QED BY <1>6, <1>7, <1>8

\* The id user code holds of e is that of a destroy event.
Ending(e) == ids[e] # None /\ ids[e].uid = DESTROY

\* The two kinds of events never mix: what is in the list has no id of a destroy
\* event, and what waits for Destroy has one.
EndInv ==
    \A e \in Event : /\ Listed(e) => ~Ending(e)
                     /\ InDestroyList(e) => Ending(e)

LEMMA EndInductive ==
  ASSUME NoWrap, TypeOK, OwnerInv, OnceRun, EndInv, [Next]_vars
  PROVE  EndInv'
<1> USE DEF EndInv, Ending
<1>0. m_uid # DESTROY
  BY DEF TypeOK, Uid, DESTROY
<1>1. ASSUME \A e \in Event : Listed(e)' => Listed(e),
             \A e \in Event : InDestroyList(e)' => InDestroyList(e),
             ids' = ids
      PROVE  EndInv'
  BY <1>1
<1>2. ASSUME NEW d \in Delay, NEW x \in Event,
             Schedule(d, x) \/ StopAfter(d, x) \/ ScheduleWithContext(d, x)
      PROVE  EndInv'
  <2>1. /\ x \notin made /\ Insert(x, m_currentTs + d)
        /\ m_destroyEvents' = m_destroyEvents
        /\ \A e \in Event : e # x => ids'[e] = ids[e]
        /\ ids'[x] = ids[x] \/ ids'[x] = [ts |-> m_currentTs + d, uid |-> m_uid]
    BY <1>2 DEF Schedule, StopAfter, ScheduleWithContext, NewEvent, TypeOK
  <2>2. \A e : Listed(e)' <=> Listed(e) \/ e = x
    BY <2>1, InsertIsListed
  <2>3. Fresh(x)
    BY <2>1 DEF OnceRun
  <2>4. ~(ids'[x] # None /\ ids'[x].uid = DESTROY) /\ ~InDestroyList(x)
    BY <1>0, <2>1, <2>3 DEF Fresh
  <2>5. \A e : InDestroyList(e)' <=> InDestroyList(e)
    BY <2>1 DEF InDestroyList
  <2>. QED BY <2>1, <2>2, <2>4, <2>5
<1>3. ASSUME NEW x \in Event, ScheduleDestroy(x)
      PROVE  EndInv'
  <2>1. /\ x \notin made /\ m_events' = m_events
        /\ m_destroyEvents' = Append(m_destroyEvents, x)
        /\ \A e \in Event : e # x => ids'[e] = ids[e]
        /\ ids'[x] = [ts |-> m_currentTs, uid |-> DESTROY]
    BY <1>3 DEF ScheduleDestroy, NewEvent, TypeOK
  <2>2. ids'[x] # None /\ ids'[x].uid = DESTROY
    <3>1. [ts |-> m_currentTs, uid |-> DESTROY] \in [ts : Nat, uid : Nat]
      BY DEF TypeOK, DESTROY
    <3>2. [ts |-> m_currentTs, uid |-> DESTROY] # None
      BY <3>1, ConstantsAssumption
    <3>. QED BY <2>1, <3>2
  <2>3. ~Listed(x)
    BY <2>1 DEF OwnerInv, OnePlace, Owned
  <2>4. \A e : Listed(e)' <=> Listed(e)
    BY <2>1 DEF Listed
  <2>5. ASSUME NEW e, InDestroyList(e)' PROVE InDestroyList(e) \/ e = x
    <3>1. /\ Len(m_destroyEvents) \in Nat /\ Len(m_destroyEvents') = Len(m_destroyEvents) + 1
          /\ \A i \in 1..Len(m_destroyEvents) : m_destroyEvents'[i] = m_destroyEvents[i]
          /\ m_destroyEvents'[Len(m_destroyEvents) + 1] = x
      BY <2>1, AppendElements DEF TypeOK
    <3>2. PICK i \in 1..Len(m_destroyEvents') : m_destroyEvents'[i] = e
      BY <2>5 DEF InDestroyList
    <3>3. i \in 1..Len(m_destroyEvents) \/ i = Len(m_destroyEvents) + 1
      BY <3>1, <3>2
    <3>. QED BY <3>1, <3>2, <3>3 DEF InDestroyList
  <2>. QED BY <2>1, <2>2, <2>3, <2>4, <2>5
<1>4. ASSUME NEW x \in Event, RemoveDestroyEvent(x)
      PROVE  EndInv'
  <2>1. PICK i \in 1..Len(m_destroyEvents) :
           m_destroyEvents' = SubSeq(m_destroyEvents, 1, i - 1)
                \o SubSeq(m_destroyEvents, i + 1, Len(m_destroyEvents))
    BY <1>4 DEF RemoveDestroyEvent
  <2>2. /\ Len(m_destroyEvents) \in Nat \ {0} /\ Len(m_destroyEvents') = Len(m_destroyEvents) - 1
        /\ \A k \in 1..Len(m_destroyEvents') :
              m_destroyEvents'[k] = IF k < i THEN m_destroyEvents[k] ELSE m_destroyEvents[k + 1]
    BY <2>1, CutElements DEF TypeOK
  <2>3. ASSUME NEW e, InDestroyList(e)' PROVE InDestroyList(e)
    <3>1. PICK k \in 1..Len(m_destroyEvents') : m_destroyEvents'[k] = e
      BY <2>3 DEF InDestroyList
    <3>2. k \in 1..Len(m_destroyEvents) /\ k + 1 \in 1..Len(m_destroyEvents)
      BY <2>2, <3>1
    <3>. QED BY <2>2, <3>1, <3>2 DEF InDestroyList
  <2>4. UNCHANGED <<m_events, ids>>
    BY <1>4 DEF RemoveDestroyEvent, listVars
  <2>. QED BY <1>1, <2>3, <2>4 DEF Listed
<1>5. CASE DrainInsert
  <2>1. PICK p \in Post : p = Head(eventsWithContext) /\ Swapped(p.impl)
    <3>1. eventsWithContext \in Seq(Post) /\ eventsWithContext # <<>>
      BY <1>5 DEF DrainInsert, TypeOK
    <3>2. 1 \in 1..Len(eventsWithContext) /\ Head(eventsWithContext) = eventsWithContext[1]
      BY <3>1, TailElements
    <3>. QED BY <3>1, <3>2 DEF Swapped, InQueue
  <2>2. p.impl \in Event /\ Fresh(p.impl)
    BY <2>1 DEF OnceRun, Waits, Post
  <2>3. Insert(p.impl, m_currentTs + p.delay) /\ UNCHANGED <<ids, m_destroyEvents>>
    BY <1>5, <2>1 DEF DrainInsert, userVars
  <2>4. \A e : Listed(e)' <=> Listed(e) \/ e = p.impl
    BY <2>3, InsertIsListed
  <2>. QED BY <2>2, <2>3, <2>4 DEF Fresh, InDestroyList
<1>6. CASE DestroyNext
  <2>1. /\ m_destroyEvents \in Seq(Event) /\ m_destroyEvents # <<>>
        /\ m_destroyEvents' = Tail(m_destroyEvents)
        /\ UNCHANGED <<m_events, ids>>
    BY <1>6 DEF DestroyNext, listVars, TypeOK
  <2>2. /\ Len(m_destroyEvents) \in Nat \ {0} /\ Len(m_destroyEvents') = Len(m_destroyEvents) - 1
        /\ \A k \in 1..Len(m_destroyEvents') : m_destroyEvents'[k] = m_destroyEvents[k + 1]
    BY <2>1, TailElements
  <2>3. ASSUME NEW e, InDestroyList(e)' PROVE InDestroyList(e)
    <3>1. PICK k \in 1..Len(m_destroyEvents') : m_destroyEvents'[k] = e
      BY <2>3 DEF InDestroyList
    <3>2. k + 1 \in 1..Len(m_destroyEvents)
      BY <2>2, <3>1
    <3>. QED BY <2>2, <3>1, <3>2 DEF InDestroyList
  <2>. QED BY <1>1, <2>1, <2>3 DEF Listed
<1>7. ASSUME m_events' \subseteq m_events, UNCHANGED <<ids, m_destroyEvents>>
      PROVE  EndInv'
  BY <1>1, <1>7 DEF Listed, InDestroyList
<1>8. CASE \E e \in Event : Remove(e) \/ Cancel(e)
  BY <1>7, <1>8 DEF Remove, Cancel, listVars
<1>9. CASE Stop \/ Run \/ Destroy
  BY <1>7, <1>9 DEF Stop, Run, Destroy, listVars, userVars
<1>10. CASE ProcessEventsWithContext /\ ~DrainInsert
  BY <1>7, <1>10 DEF ProcessEventsWithContext, DrainSkip, DrainTest, DrainLock, DrainSwap,
     DrainUnlock, DrainDone, listVars, userVars
<1>11. CASE MainLoop
  BY <1>7, <1>11 DEF MainLoop, EnterLoop, ProcessOneEvent, InvokeEvent, InvokeStop, SkipCancelled,
     TakeNext, HandlerReturn, RunReturn, listVars, userVars
<1>12. CASE DestroyHandlerReturn \/ BeginDispose \/ DoDispose
  BY <1>7, <1>12 DEF DestroyHandlerReturn, BeginDispose, DoDispose, listVars, userVars
<1>13. CASE ThreadStep \/ UNCHANGED vars
  BY <1>7, <1>13 DEF ThreadStep, PostLock, PostPush, PostUnlock, vars, listVars, userVars
<1>. QED BY <1>2, <1>3, <1>4, <1>5, <1>6, <1>8, <1>9, <1>10, <1>11, <1>12, <1>13
     DEF Next, UserCall, ProcessEventsWithContext, Shutdown, Terminated

-----------------------------------------------------------------------------
(* The refinement: each step of the simulator is one of the abstract loop,  *)
(* or is not seen by it.                                                    *)

Waiting == eventsWithContext \o m_eventsWithContext
Started == {e \in ran : ids[e] = None \/ ids[e].uid # DESTROY}

\* Two queues in a row: the head, the tail and the last element.
LEMMA HeadTailOfConcat ==
  ASSUME NEW T, NEW q \in Seq(T), NEW r \in Seq(T)
  PROVE  /\ q \o r \in Seq(T)
         /\ q # <<>> => /\ q \o r # <<>> /\ Head(q \o r) = Head(q)
                        /\ Tail(q \o r) = Tail(q) \o r
         /\ \A x \in T : Append(q \o r, x) = q \o Append(r, x)
<1>1. /\ q \o r \in Seq(T) /\ Len(q \o r) = Len(q) + Len(r)
      /\ \A i \in 1..(Len(q) + Len(r)) :
            (q \o r)[i] = IF i <= Len(q) THEN q[i] ELSE r[i - Len(q)]
  BY ConcatProperties
<1>2. ASSUME q # <<>>
      PROVE  /\ q \o r # <<>> /\ Head(q \o r) = Head(q)
             /\ Tail(q \o r) = Tail(q) \o r
  <2>1. PICK s \in Seq(T) : s = Tail(q) /\ Len(s) = Len(q) - 1
                           /\ \A i \in 1..Len(s) : s[i] = q[i + 1]
    BY <1>2, HeadTailProperties
  <2>2. PICK u \in Seq(T) : u = q \o r
    BY <1>1
  <2>3. Len(q) \in Nat \ {0} /\ Len(r) \in Nat /\ Len(u) = Len(q) + Len(r)
    BY <1>1, <1>2, <2>2, EmptySeq
  <2>4. u # <<>> /\ Head(u) = u[1] /\ Head(q) = q[1] /\ u[1] = q[1]
    BY <1>1, <1>2, <2>2, <2>3, TailElements
  <2>5. /\ Tail(u) \in Seq(T) /\ Len(Tail(u)) = Len(s) + Len(r)
        /\ \A i \in 1..Len(Tail(u)) : Tail(u)[i] = u[i + 1]
    BY <2>1, <2>3, <2>4, HeadTailProperties
  <2>6. /\ s \o r \in Seq(T) /\ Len(s \o r) = Len(s) + Len(r)
        /\ \A i \in 1..(Len(s) + Len(r)) :
              (s \o r)[i] = IF i <= Len(s) THEN s[i] ELSE r[i - Len(s)]
    BY ConcatProperties
  <2>7. ASSUME NEW i \in 1..(Len(s) + Len(r)) PROVE Tail(u)[i] = (s \o r)[i]
    <3>1. i + 1 \in 1..(Len(q) + Len(r)) /\ i \in Nat /\ Len(s) = Len(q) - 1
      BY <2>1, <2>3, <2>7
    <3>2. Tail(u)[i] = IF i + 1 <= Len(q) THEN q[i + 1] ELSE r[i + 1 - Len(q)]
      BY <1>1, <2>2, <2>5, <3>1
    <3>3. CASE i <= Len(s)
      BY <2>1, <2>3, <2>6, <3>1, <3>2, <3>3
    <3>4. CASE ~(i <= Len(s))
      <4>1. i + 1 - Len(q) = i - Len(s) /\ ~(i + 1 <= Len(q))
        BY <2>3, <3>1, <3>4
      <4>. QED BY <2>6, <3>2, <3>4, <4>1
    <3>. QED BY <3>3, <3>4
  <2>8. Tail(u) = s \o r
    BY <2>5, <2>6, <2>7, SeqEqual
  <2>. QED BY <2>1, <2>2, <2>4, <2>8
<1>3. ASSUME NEW x \in T PROVE Append(q \o r, x) = q \o Append(r, x)
  <2>1. <<x>> \in Seq(T) /\ Append(r, x) = r \o <<x>> /\ Append(q \o r, x) = (q \o r) \o <<x>>
    BY <1>1, AppendIsConcat
  <2>. QED BY <2>1, ConcatAssociative
<1>. QED BY <1>1, <1>2, <1>3

LEMMA StartedIsKept ==
  ASSUME ran' = ran, \A e \in ran : ids'[e] = ids[e]
  PROVE  Started' = Started
BY DEF Started

\* A step that the abstract loop does not see.
LEMMA UnseenStep ==
  ASSUME UNCHANGED <<m_events, m_currentTs, cancelled>>,
         Waiting' = Waiting, Started' = Started,
         pc' = "disposed" <=> pc = "disposed"
  PROVE  UNCHANGED Promise!vars
<1>1. Agenda' = Agenda
  BY DEF Agenda, Position
<1>2. (pc' = "disposed") = (pc = "disposed")
  OBVIOUS
<1>. QED BY <1>1, <1>2 DEF Promise!vars, Waiting, Started

\* The calls that enter an event in the list.
LEMMA SchedulingImplements ==
  ASSUME NoWrap, TypeOK, KeyInv, OnceRun, IsFiniteSet(m_events),
         NEW d \in Delay, NEW x \in Event,
         Schedule(d, x) \/ StopAfter(d, x) \/ ScheduleWithContext(d, x)
  PROVE  Promise!Schedule(x, d)
<1>1. /\ x \notin made /\ m_uid < UidLimit /\ Insert(x, m_currentTs + d)
      /\ \A e \in Event : e # x => ids'[e] = ids[e]
      /\ UNCHANGED <<m_currentTs, ran, cancelled, pc, eventsWithContext, m_eventsWithContext>>
  BY DEF Schedule, StopAfter, ScheduleWithContext, NewEvent, TypeOK, clockVars, queueVars, mainVars
<1>2. m_currentTs + d \in Nat
  BY ConstantsAssumption DEF TypeOK
<1>3. Promise!Enter(x, m_currentTs + d)
  BY <1>1, <1>2, AgendaEnters
<1>4. Started' = Started
  <2>1. \A e \in ran : e # x /\ e \in Event
    BY <1>1 DEF OnceRun, Fresh, TypeOK
  <2>. QED BY <1>1, <2>1, StartedIsKept
<1>. QED BY <1>1, <1>3, <1>4 DEF Promise!Schedule, Started

\* The drain takes over the post at the head of what waits.
LEMMA DrainImplements ==
  ASSUME NoWrap, TypeOK, KeyInv, IsFiniteSet(m_events), DrainInsert
  PROVE  Promise!Accept
<1>1. /\ eventsWithContext \in Seq(Post) /\ eventsWithContext # <<>>
      /\ m_eventsWithContext \in Seq(Post)
      /\ eventsWithContext' = Tail(eventsWithContext)
      /\ Insert(Head(eventsWithContext).impl, m_currentTs + Head(eventsWithContext).delay)
      /\ m_uid < UidLimit
      /\ UNCHANGED <<m_currentTs, ids, ran, cancelled, pc, m_eventsWithContext>>
  BY DEF DrainInsert, TypeOK, clockVars, queueVars, userVars
<1>2. /\ Waiting \in Seq(Post) /\ Waiting # <<>>
      /\ Head(Waiting) = Head(eventsWithContext)
      /\ Waiting' = Tail(Waiting)
  BY <1>1, HeadTailOfConcat DEF Waiting
<1>3. PICK p \in Post : p = Head(eventsWithContext)
  BY <1>1, HeadTailProperties
<1>4. p.impl \in Event /\ m_currentTs + p.delay \in Nat
  <2>1. p.impl \in Event /\ p.delay \in Nat
    BY ConstantsAssumption DEF Post
  <2>. QED BY <2>1 DEF TypeOK
<1>5. Promise!Enter(p.impl, m_currentTs + p.delay)
  BY <1>1, <1>3, <1>4, AgendaEnters
<1>6. Started' = Started
  BY <1>1, StartedIsKept
<1>. QED BY <1>1, <1>2, <1>3, <1>5, <1>6 DEF Promise!Accept, Waiting, Started

\* Remove withdraws the entry of an event that is not cancelled.
LEMMA RemoveImplements ==
  ASSUME TypeOK, KeyInv, IdsInv, IsFiniteSet(m_events), NEW x \in Event, Remove(x)
  PROVE  \E i \in DOMAIN Agenda : Promise!Withdraw(i)
<1>1. Ordinary(x) /\ ~IsExpired(x) /\ pc # "disposed"
  BY DEF Remove, InUserCode, Ordinary
<1>2. IdOf(x) \in m_events /\ x \notin cancelled
  BY <1>1, IdsInvGivesExpiredIsExact DEF ExpiredIsExact, Ordinary, IdOf
<1>3. m_events' = m_events \ {IdOf(x)}
  BY <1>1, <1>2 DEF Remove, IdsInv, IdOf
<1>4. /\ cancelled' = cancelled \cup {x}
      /\ UNCHANGED <<m_currentTs, ids, ran, pc, eventsWithContext, m_eventsWithContext>>
  BY DEF Remove, clockVars, queueVars, mainVars
<1>5. PICK i \in DOMAIN Agenda :
         Agenda[i] = Entry(IdOf(x)) /\ Agenda' = Promise!RemoveAt(Agenda, i)
  BY <1>2, <1>3, AgendaLoses
<1>6. Agenda[i].impl = x
  BY <1>5 DEF Entry, IdOf
<1>7. Started' = Started
  BY <1>4, StartedIsKept
<1>8. Promise!Withdraw(i)
  BY <1>2, <1>4, <1>5, <1>6, <1>7 DEF Promise!Withdraw, Started
<1>. QED BY <1>8

\* The loop fires the first entry, and runs it unless it is cancelled.
LEMMA TakingImplements ==
  ASSUME TypeOK, KeyInv, OnceRun, EndInv, IsFiniteSet(m_events), NEW next \in m_events,
         InvokeEvent(next) \/ InvokeStop(next) \/ SkipCancelled(next)
  PROVE  Promise!Fire
<1>1. /\ TakeNext(next) /\ IsEarliest(next, m_events) /\ m_events' = m_events \ {next}
      /\ m_currentTs' = next.ts /\ pc = "loop" /\ pc' # "disposed"
      /\ UNCHANGED <<ids, cancelled, eventsWithContext, m_eventsWithContext>>
      /\ ran' = IF next.impl \in cancelled THEN ran ELSE ran \cup {next.impl}
  BY DEF InvokeEvent, InvokeStop, SkipCancelled, TakeNext, queueVars, userVars
<1>2. Agenda # <<>> /\ Head(Agenda) = Entry(next) /\ Agenda' = Tail(Agenda)
  BY <1>1, AgendaLoses
<1>3. next.impl \in Event /\ ~Ending(next.impl) /\ next.impl \notin ran
  BY DEF TypeOK, EndInv, OnceRun, Listed
<1>4. /\ next.impl \notin Started
      /\ Started' = IF next.impl \in cancelled THEN Started ELSE Started \cup {next.impl}
  BY <1>1, <1>3 DEF Started, Ending
<1>5. Entry(next).ts = next.ts /\ Entry(next).impl = next.impl
  BY DEF Entry
<1>6. (pc' = "disposed") = (pc = "disposed")
  BY <1>1
<1>. QED BY <1>1, <1>2, <1>4, <1>5, <1>6 DEF Promise!Fire, Started

\* Every step of the simulator is a step of the abstract loop, or one that it
\* does not see.
LEMMA StepImplements ==
  ASSUME NoWrap, TypeOK, KeyInv, IdsInv, DrainInv, OwnerInv, OnceRun, EndInv,
         CountInv, [Next]_vars
  PROVE  [Promise!Next]_Promise!vars
<1> USE DEF Promise!Next
<1>0. IsFiniteSet(m_events)
  BY DEF CountInv
<1>1. ASSUME NEW d \in Delay, NEW x \in Event,
             Schedule(d, x) \/ StopAfter(d, x) \/ ScheduleWithContext(d, x)
      PROVE  Promise!Next
  BY <1>0, <1>1, SchedulingImplements
<1>2. CASE DrainInsert
  BY <1>0, <1>2, DrainImplements
<1>3. ASSUME NEW x \in Event, Remove(x)
      PROVE  Promise!Next
  BY <1>0, <1>3, RemoveImplements
<1>4. ASSUME NEW x \in Event, Cancel(x)
      PROVE  Promise!Next
  <2>1. /\ cancelled' = cancelled \cup {x}
        /\ UNCHANGED <<m_events, m_currentTs, ids, ran, pc, eventsWithContext, m_eventsWithContext>>
    BY <1>4 DEF Cancel, listVars, clockVars, queueVars, mainVars
  <2>2. Agenda' = Agenda
    BY <2>1 DEF Agenda, Position
  <2>3. Started' = Started
    BY <2>1, StartedIsKept
  <2>. QED BY <2>1, <2>2, <2>3 DEF Promise!Cancel, Started
<1>5. ASSUME NEW next \in m_events, InvokeEvent(next) \/ InvokeStop(next) \/ SkipCancelled(next)
      PROVE  Promise!Next
  BY <1>0, <1>5, TakingImplements
<1>6. ASSUME NEW t \in Thread, PostPush(t)
      PROVE  Promise!Next
  <2>1. PICK p \in Post : p = hand[t]
    BY <1>6 DEF PostPush, TypeOK
  <2>2. /\ m_eventsWithContext' = Append(m_eventsWithContext, p)
        /\ eventsWithContext \in Seq(Post) /\ m_eventsWithContext \in Seq(Post)
        /\ UNCHANGED <<m_events, m_currentTs, ids, ran, cancelled, pc, eventsWithContext>>
    BY <1>6, <2>1 DEF PostPush, TypeOK, listVars, clockVars, mainVars, userVars
  <2>3. Waiting' = Append(Waiting, p)
    BY <2>2, HeadTailOfConcat DEF Waiting
  <2>4. p.impl \in Event /\ p.delay \in Delay /\ p = [delay |-> p.delay, impl |-> p.impl]
    BY DEF Post
  <2>5. Agenda' = Agenda
    BY <2>2 DEF Agenda, Position
  <2>6. Started' = Started
    BY <2>2, StartedIsKept
  <2>7. Promise!Post(p.impl, p.delay)
    BY <2>2, <2>3, <2>4, <2>5, <2>6 DEF Promise!Post, Waiting, Started
  <2>. QED BY <2>4, <2>7
<1>7. CASE DoDispose
  <2>1. /\ m_events' = {} /\ pc = "dispose" /\ pc' = "disposed"
        /\ UNCHANGED <<m_currentTs, ids, ran, cancelled, eventsWithContext, m_eventsWithContext>>
    BY <1>7 DEF DoDispose, clockVars, queueVars, userVars
  <2>2. Agenda' = <<>>
    <3>1. Cardinality(m_events') = 0
      BY <2>1, FS_EmptySet
    <3>. QED BY <3>1 DEF Agenda
  <2>3. Started' = Started
    BY <2>1, StartedIsKept
  <2>4. (pc' = "disposed") = TRUE /\ ~(pc = "disposed")
    BY <2>1
  <2>. QED BY <2>1, <2>2, <2>3, <2>4 DEF Promise!Drop, Started
\* What follows is not seen.
<1>8. ASSUME UNCHANGED <<m_events, m_currentTs, cancelled, ids, ran, eventsWithContext,
                         m_eventsWithContext>>,
             pc' = "disposed" <=> pc = "disposed"
      PROVE  UNCHANGED Promise!vars
  BY <1>8, StartedIsKept, UnseenStep DEF Waiting
<1>9. ASSUME NEW x \in Event, ScheduleDestroy(x)
      PROVE  UNCHANGED Promise!vars
  <2>1. /\ x \notin made /\ \A e \in Event : e # x => ids'[e] = ids[e]
        /\ UNCHANGED <<m_events, m_currentTs, ran, cancelled, pc, eventsWithContext, m_eventsWithContext>>
    BY <1>9 DEF ScheduleDestroy, NewEvent, TypeOK, clockVars, queueVars, mainVars
  <2>2. \A e \in ran : e # x /\ e \in Event
    BY <2>1 DEF OnceRun, Fresh, TypeOK
  <2>3. Started' = Started
    BY <2>1, <2>2, StartedIsKept
  <2>. QED BY <2>1, <2>3, UnseenStep DEF Waiting
<1>10. CASE DestroyNext
  <2>1. /\ m_destroyEvents \in Seq(Event) /\ m_destroyEvents # <<>>
        /\ ran \subseteq ran' /\ ran' \subseteq ran \cup {Head(m_destroyEvents)}
        /\ pc = "destroy" /\ pc' # "disposed"
        /\ UNCHANGED <<m_events, m_currentTs, ids, cancelled, eventsWithContext, m_eventsWithContext>>
    BY <1>10 DEF DestroyNext, TypeOK, listVars, clockVars, queueVars
  <2>2. 1 \in 1..Len(m_destroyEvents) /\ m_destroyEvents[1] = Head(m_destroyEvents)
    BY <2>1, TailElements
  <2>3. Head(m_destroyEvents) \in Event /\ InDestroyList(Head(m_destroyEvents))
    BY <2>1, <2>2 DEF InDestroyList
  <2>4. Ending(Head(m_destroyEvents))
    BY <2>3 DEF EndInv
  <2>5. Started' = Started
    BY <2>1, <2>4 DEF Started, Ending
  <2>. QED BY <2>1, <2>5, UnseenStep DEF Waiting
<1>11. CASE DrainSwap
  <2>1. /\ eventsWithContext = <<>> /\ m_eventsWithContext \in Seq(Post)
        /\ eventsWithContext' = m_eventsWithContext /\ m_eventsWithContext' = <<>>
        /\ UNCHANGED <<m_events, m_currentTs, ids, ran, cancelled, pc>>
    BY <1>11 DEF DrainSwap, DrainInv, TypeOK, listVars, clockVars, userVars
  <2>2. Waiting' = Waiting
    BY <2>1, ConcatEmptySeq DEF Waiting
  <2>3. Started' = Started
    BY <2>1, StartedIsKept
  <2>. QED BY <2>1, <2>2, <2>3, UnseenStep
<1>12. CASE \/ DrainSkip \/ DrainTest \/ DrainLock \/ DrainUnlock \/ DrainDone
  BY <1>8, <1>12 DEF DrainSkip, DrainTest, DrainLock, DrainUnlock, DrainDone, listVars, clockVars,
     queueVars, userVars
<1>13. CASE Stop \/ Run \/ Destroy \/ \E e \in Event : RemoveDestroyEvent(e)
  BY <1>8, <1>13 DEF Stop, Run, Destroy, RemoveDestroyEvent, listVars, clockVars, queueVars,
     mainVars, userVars
<1>14. CASE EnterLoop \/ HandlerReturn \/ RunReturn \/ DestroyHandlerReturn \/ BeginDispose
  BY <1>8, <1>14 DEF EnterLoop, HandlerReturn, RunReturn, DestroyHandlerReturn, BeginDispose,
     listVars, clockVars, queueVars, userVars
<1>15. CASE \/ \E t \in Thread : PostUnlock(t) \/ \E d \in Delay, e \in Event : PostLock(t, d, e)
            \/ UNCHANGED vars
  BY <1>8, <1>15 DEF PostUnlock, PostLock, vars, listVars, clockVars, queueVars, mainVars, userVars
<1>. QED BY <1>1, <1>2, <1>3, <1>4, <1>5, <1>6, <1>7, <1>9, <1>10, <1>11, <1>12, <1>13, <1>14,
            <1>15 DEF Next, UserCall, ProcessEventsWithContext, MainLoop, ProcessOneEvent,
            Shutdown, ThreadStep, Terminated

\* DefaultSimulatorImpl implements the promise of simulator.h, over any number of
\* runs, threads and events: time order, first come first served at equal times,
\* posts in the order of the hand-over, no event twice, none after its removal.
THEOREM LoopKeepsItsPromise == NoWrap => (Spec => ImplementsEventLoop)
<1> SUFFICES ASSUME NoWrap PROVE Spec => ImplementsEventLoop
  OBVIOUS
<1>1. Init => IdsInv /\ EndInv /\ CountInv /\ Promise!Init
  <2> SUFFICES ASSUME Init PROVE IdsInv /\ EndInv /\ CountInv /\ Promise!Init
    OBVIOUS
  <2>1. IdsInv /\ EndInv /\ CountInv
    BY FS_EmptySet DEF Init, IdsInv, Ordinary, CountInv, CountIsExact, EndInv, Listed, InDestroyList
  <2>2. Agenda = <<>>
    BY FS_EmptySet DEF Init, Agenda
  <2>3. eventsWithContext \o m_eventsWithContext = <<>>
    BY EmptySeq, ConcatEmptySeq DEF Init
  <2>. QED BY <2>1, <2>2, <2>3 DEF Init, Promise!Init
<1>2. TypeOK /\ KeyInv /\ IdsInv /\ CountInv /\ [Next]_vars => CountInv'
  BY CountInductive
<1>3. TypeOK /\ OwnerInv /\ OnceRun /\ EndInv /\ [Next]_vars => EndInv'
  BY EndInductive
<1>4. /\ TypeOK /\ KeyInv /\ IdsInv /\ DrainInv /\ OwnerInv /\ OnceRun /\ EndInv /\ CountInv
      /\ [Next]_vars
      => [Promise!Next]_Promise!vars
  BY StepImplements
<1>. QED BY <1>1, <1>2, <1>3, <1>4, OnceRunInvariant, PTL DEF Spec, ImplementsEventLoop, Promise!Spec
=============================================================================
