----------------------- MODULE RealtimeSimulatorProofs -----------------------
(***************************************************************************)
(* Safety of the realtime simulator for any number of threads and any      *)
(* delays, when Run is called once and threads post only after SetOrigin   *)
(* (Careful).                                                              *)
(*                                                                         *)
(* The argument: a wait for an event ends only when real time has reached  *)
(* its target or the loop looks again; during the wait and after it the    *)
(* awaited event stays in the list, as only the main thread removes one.   *)
(* What another thread inserts carries a time that it took under the mutex *)
(* from a clock that is not behind the simulation, and the simulation      *)
(* moves on only under the mutex.                                          *)
(***************************************************************************)
EXTENDS RealtimeSimulator, TLAPS

\* The wall clock runs from Epoch, and nothing happens before SetOrigin.
Origin ==
  /\ Epoch <= wall
  /\ m_realtimeOriginNano = 0 => m_currentTs = 0 /\ pc \in {"idle", "origin"}
  /\ m_realtimeOriginNano # 0 => pc # "origin" /\ m_realtimeOriginNano <= wall

\* A thread that is about to insert an event holds the mutex.
Locked == \A t \in Thread : stamp[t] # None => m_mutex = t

Waiting == pc \in {"synchronize", "sleep", "spin"} /\ waitFor = "event"

\* The awaited event is in the list, and at the end of the wait it is due.
Awaited ==
  /\ Waiting => \E e \in m_events : e.ts <= Target
  /\ pc = "execute" => \E e \in m_events : e.ts <= Realtime

\* Nobody is between an insertion and its signal.
NothingInserted == m_mutex = None \/ stamp[m_mutex] # None

\* What is earlier than the awaited event comes with a signal.
Signalled ==
  Waiting /\ ~m_condition /\ NothingInserted
  => \A e \in m_events : Target <= e.ts \/ Target = tsNow

IInv == TypeOK /\ Origin /\ Locked /\ NeverEarly /\ NothingInThePast /\ Awaited /\ Signalled

LEMMA InitInvariant == Init => IInv
<1> SUFFICES ASSUME Init PROVE IInv
  OBVIOUS
<1>1. TypeOK
  BY RealtimeAssumption DEF Init, TypeOK, VALID
<1>2. Origin /\ Locked /\ NeverEarly /\ NothingInThePast
  BY RealtimeAssumption DEF Init, Origin, Locked, NeverEarly, NothingInThePast
<1>3. Awaited /\ Signalled
  BY DEF Init, Awaited, Signalled, Waiting
<1>. QED BY <1>1, <1>2, <1>3 DEF IInv

\* Real time is a natural number once the origin is set.
LEMMA RealtimeIsTime ==
  ASSUME TypeOK, Origin, m_realtimeOriginNano # 0
  PROVE  Realtime \in Nat
BY DEF TypeOK, Origin, Realtime

\* The time that a thread takes is not behind the simulation.
LEMMA BaseIsAhead ==
  ASSUME TypeOK, Origin, NeverEarly, m_realtimeOriginNano # 0, NEW call \in Call
  PROVE  Base(call) \in Nat /\ m_currentTs <= Base(call)
<1>1. Realtime \in Nat /\ m_currentTs <= Realtime /\ m_currentTs \in Nat
  BY RealtimeIsTime DEF NeverEarly, TypeOK
<1>2. call = "Schedule" \/ call = "ScheduleRealtimeWithContext" \/ call = "ScheduleWithContext"
  BY DEF Call
<1>. QED BY <1>1, <1>2 DEF Base

\* The steps of the main thread between Look and Execute.
Wait == Synchronize \/ SleepSignalled \/ SleepTimeout \/ SpinTimeout \/ SpinInterrupted

\* Wherever it ends, a wait that is over has reached its target.
LEMMA WaitEnds ==
  ASSUME TypeOK, Origin, Wait
  PROVE  /\ pc \in {"synchronize", "sleep", "spin"}
         /\ \/ /\ pc' \in {"sleep", "spin"}
               /\ waitFor' = waitFor /\ tsNow' = tsNow /\ tsDelay' = tsDelay
            \/ /\ pc' \in {"loop", "look"}
               /\ waitFor' = "idle" /\ tsNow' = 0 /\ tsDelay' = 0
            \/ /\ pc' = "execute" /\ waitFor = "event" /\ Realtime >= Target
               /\ waitFor' = "idle" /\ tsNow' = 0 /\ tsDelay' = 0
         /\ sleepUntil' \in Nat
         /\ UNCHANGED <<m_events, m_uid, m_currentTs, m_currentUid, m_stop, m_running,
                        m_realtimeOriginNano, m_synchronizationMode, m_mutex, stamp, ids,
                        cancelled, m_condition, wall>>
<1>a. /\ wall \in Nat /\ tsNow \in Nat /\ tsDelay \in Nat /\ sleepUntil \in Nat
      /\ SpinMargin \in Nat /\ m_realtimeOriginNano \in Nat /\ waitFor \in {"event", "idle"}
  BY RealtimeAssumption DEF TypeOK
<1>1. UNCHANGED <<m_events, m_uid, m_currentTs, m_currentUid, m_stop, m_running,
                  m_realtimeOriginNano, m_synchronizationMode, m_mutex, stamp, ids,
                  cancelled, m_condition, wall>>
  BY DEF Wait, Synchronize, SleepSignalled, SleepTimeout, SpinTimeout, SpinInterrupted,
         listVars, clockVars, flagVars, threadVars, userVars
<1>2. pc \in {"synchronize", "sleep", "spin"}
  BY DEF Wait, Synchronize, SleepSignalled, SleepTimeout, SpinTimeout, SpinInterrupted
<1>3. /\ Target \in Nat /\ Realtime \in Int
      /\ DriftCorrect > SpinMargin => wall + DriftCorrect - SpinMargin \in Nat
  BY <1>a DEF Target, Realtime, DriftCorrect
<1>4. \/ /\ pc' = "sleep" /\ sleepUntil' \in Nat
         /\ waitFor' = waitFor /\ tsNow' = tsNow /\ tsDelay' = tsDelay
      \/ pc' = "spin" /\ UNCHANGED waitVars
      \/ Synchronized(TRUE) /\ Realtime >= Target
      \/ Synchronized(FALSE)
  BY <1>3 DEF Wait, Synchronize, SleepSignalled, SleepTimeout, SpinTimeout, SpinInterrupted,
         SpinOrReturn
<1>. QED BY <1>a, <1>1, <1>2, <1>4 DEF Synchronized, waitVars

LEMMA NextTypeOK ==
  ASSUME Careful, IInv, Next
  PROVE  TypeOK'
<1>a. TypeOK /\ Origin /\ NeverEarly
  BY DEF IInv
<1> USE DEF TypeOK
<1>1. ASSUME NEW d \in Delay, Schedule(d) PROVE TypeOK'
  BY <1>a, <1>1, RealtimeAssumption
     DEF Schedule, Signal, clockVars, flagVars, waitVars, threadVars
<1>2. ASSUME NEW id \in ids, Remove(id) \/ Cancel(id) PROVE TypeOK'
  <2>1. /\ m_events' \subseteq m_events /\ cancelled' = cancelled \cup {id.uid}
        /\ UNCHANGED <<m_uid, m_currentTs, m_currentUid, m_stop, m_running,
                       m_realtimeOriginNano, m_synchronizationMode, waitFor, tsNow, tsDelay,
                       sleepUntil, m_mutex, stamp, ids, m_condition, wall, pc>>
    BY <1>2 DEF Remove, Cancel, listVars, clockVars, flagVars, waitVars, threadVars
  <2>2. id.uid \in Nat
    BY <1>a
  <2>. QED BY <1>a, <2>1, <2>2
<1>3. CASE Stop \/ LoopTest \/ CheckEvents \/ HandlerReturn \/ RunBegin \/ SetOrigin \/ Tick
  <2>1. UNCHANGED <<m_events, m_uid, m_currentTs, m_currentUid, m_synchronizationMode, m_mutex,
                    stamp, ids, cancelled, m_condition, waitFor, tsNow, tsDelay, sleepUntil>>
    BY <1>3 DEF Stop, LoopTest, CheckEvents, HandlerReturn, RunBegin, SetOrigin, Tick,
          listVars, clockVars, flagVars, waitVars, threadVars, userVars
  <2>2. /\ m_stop' \in BOOLEAN /\ m_running' \in BOOLEAN
        /\ pc' \in {pc, "idle", "origin", "loop", "check", "look"}
    BY <1>a, <1>3 DEF Stop, LoopTest, CheckEvents, HandlerReturn, RunBegin, SetOrigin, Tick,
          flagVars
  <2>3. m_realtimeOriginNano' \in Nat /\ wall' \in Nat
    BY <1>a, <1>3 DEF Stop, LoopTest, CheckEvents, HandlerReturn, RunBegin, SetOrigin, Tick,
          flagVars
  <2>. QED BY <1>a, <2>1, <2>2, <2>3
<1>4. ASSUME NEW t \in Thread, NEW call \in Call, NEW d \in Delay, PostLock(t, call, d)
      PROVE  TypeOK'
  <2>1. Base(call) + d \in Nat
    BY <1>a, <1>4, BaseIsAhead, RealtimeAssumption DEF PostLock
  <2>. QED BY <1>a, <1>4, <2>1
       DEF PostLock, listVars, clockVars, flagVars, waitVars, userVars
<1>5. ASSUME NEW t \in Thread, PostInsert(t) PROVE TypeOK'
  BY <1>a, <1>5 DEF PostInsert, clockVars, flagVars, waitVars, userVars
<1>6. ASSUME NEW t \in Thread, PostSignal(t) PROVE TypeOK'
  BY <1>a, <1>6 DEF PostSignal, Signal, listVars, clockVars, flagVars, waitVars, userVars
<1>7. CASE CheckEmpty
  <2>1. Realtime \in Nat
    BY <1>a, <1>7, RealtimeIsTime DEF CheckEmpty, Origin
  <2>. QED BY <1>a, <1>7, <2>1, RealtimeAssumption
       DEF CheckEmpty, listVars, clockVars, flagVars, threadVars, userVars
<1>8. CASE Look
  <2>1. Realtime \in Nat
    BY <1>a, <1>8, RealtimeIsTime DEF Look, Origin
  <2>2. tsDelay' \in Nat
    BY <1>a, <1>8, <2>1 DEF Look, IsNext, IsEarliest
  <2>. QED BY <1>a, <1>8, <2>1, <2>2
       DEF Look, listVars, clockVars, flagVars, threadVars, userVars
<1>9. CASE Wait
  <2>1. /\ UNCHANGED <<m_events, m_uid, m_currentTs, m_currentUid, m_stop, m_running,
                       m_realtimeOriginNano, m_synchronizationMode, m_mutex, stamp, ids,
                       cancelled, m_condition, wall>>
        /\ sleepUntil' \in Nat
        /\ waitFor' \in {waitFor, "idle"} /\ tsNow' \in {tsNow, 0} /\ tsDelay' \in {tsDelay, 0}
    BY <1>a, <1>9, WaitEnds
  <2>2. pc' \in {"sleep", "spin", "loop", "look", "execute"}
    BY <1>a, <1>9, WaitEnds
  <2>. QED BY <1>a, <2>1, <2>2
<1>10. CASE Execute
  <2>1. /\ m_events' \subseteq m_events /\ m_currentTs' \in Nat /\ m_currentUid' \in Nat
        /\ pc' \in {"fatal", "loop", "handler"}
    BY <1>a, <1>10 DEF Execute, IsNext, IsEarliest
  <2>2. UNCHANGED <<m_uid, m_stop, m_running, m_realtimeOriginNano, m_synchronizationMode,
                    waitVars, m_mutex, stamp, ids, cancelled, m_condition, wall>>
    BY <1>10 DEF Execute, flagVars, threadVars, userVars
  <2>. QED BY <1>a, <2>1, <2>2 DEF waitVars
<1>. QED BY <1>1, <1>2, <1>3, <1>4, <1>5, <1>6, <1>7, <1>8, <1>9, <1>10
     DEF Next, UserCall, Run, Post, ProcessOneEvent, Wait

LEMMA NextOrigin ==
  ASSUME Careful, IInv, Next
  PROVE  Origin'
<1>a. TypeOK /\ Origin
  BY DEF IInv
<1>b. /\ wall \in Nat /\ Epoch \in Nat \ {0} /\ m_realtimeOriginNano \in Nat
      /\ Delay \subseteq Nat
  BY <1>a, RealtimeAssumption DEF TypeOK
<1>1. CASE RunBegin
  BY <1>a, <1>1 DEF RunBegin, Origin, clockVars
<1>2. CASE SetOrigin
  <2>1. m_realtimeOriginNano' = wall /\ wall' = wall /\ pc' = "loop"
    BY <1>2 DEF SetOrigin
  <2>. QED BY <1>a, <1>b, <2>1 DEF Origin
<1>3. CASE Tick
  <2>1. wall' = wall + 1 /\ UNCHANGED <<m_realtimeOriginNano, m_currentTs, pc>>
    BY <1>3 DEF Tick, clockVars, flagVars
  <2>. QED BY <1>a, <1>b, <2>1 DEF Origin
<1>4. CASE /\ UNCHANGED <<wall, m_realtimeOriginNano>> /\ pc' # "origin"
           /\ pc \notin {"idle", "origin"}
  BY <1>a, <1>4 DEF Origin
<1>5. CASE UNCHANGED <<wall, m_realtimeOriginNano, m_currentTs, pc>>
  BY <1>a, <1>5 DEF Origin
<1>6. CASE Wait
  BY <1>a, <1>4, <1>6, WaitEnds
<1>7. ASSUME NEW t \in Thread, Post(t)
      PROVE  UNCHANGED <<wall, m_realtimeOriginNano, m_currentTs, pc>>
  BY <1>7 DEF Post, PostLock, PostInsert, PostSignal, clockVars, flagVars
<1>8. CASE UserCall
  BY <1>5, <1>8 DEF UserCall, Schedule, Remove, Cancel, Stop, clockVars, flagVars
<1>9. CASE LoopTest \/ CheckEvents \/ CheckEmpty \/ Look \/ Execute \/ HandlerReturn
  <2>1. /\ UNCHANGED <<wall, m_realtimeOriginNano>> /\ pc \notin {"idle", "origin"}
        /\ pc' # "origin"
    BY <1>9 DEF LoopTest, CheckEvents, CheckEmpty, Look, Execute, HandlerReturn, flagVars
  <2>. QED BY <1>4, <2>1
<1>. QED BY <1>1, <1>2, <1>3, <1>5, <1>6, <1>7, <1>8, <1>9 DEF Next, Run, ProcessOneEvent, Wait

\* The mutex protects what is about to be inserted.
LEMMA NextLocked ==
  ASSUME Careful, IInv, Next
  PROVE  Locked'
<1>a. Locked /\ stamp \in [Thread -> Nat \cup {None}] /\ None \notin Thread
  BY RealtimeAssumption DEF IInv, TypeOK
<1>1. CASE UNCHANGED <<stamp, m_mutex>>
  BY <1>a, <1>1 DEF Locked
<1>2. ASSUME NEW t \in Thread, NEW call \in Call, NEW d \in Delay, PostLock(t, call, d)
      PROVE  Locked'
  BY <1>a, <1>2 DEF PostLock, Locked
<1>3. ASSUME NEW t \in Thread, PostInsert(t) \/ PostSignal(t)
      PROVE  Locked'
  BY <1>a, <1>3 DEF PostInsert, PostSignal, Locked
<1>4. CASE UserCall \/ Run \/ Tick
  <2>1. CASE Wait
    BY <1>1, <2>1, WaitEnds DEF IInv
  <2>2. CASE UserCall
    BY <1>1, <2>2 DEF UserCall, Schedule, Remove, Cancel, Stop, threadVars
  <2>3. CASE RunBegin \/ SetOrigin \/ LoopTest \/ CheckEvents \/ CheckEmpty \/ Look \/ Execute
             \/ HandlerReturn \/ Tick
    BY <1>1, <2>3 DEF RunBegin, SetOrigin, LoopTest, CheckEvents, CheckEmpty, Look, Execute,
          HandlerReturn, Tick, threadVars
  <2>. QED BY <1>4, <2>1, <2>2, <2>3 DEF Run, ProcessOneEvent, Wait
<1>. QED BY <1>2, <1>3, <1>4 DEF Next, Post

LEMMA NextNeverEarly ==
  ASSUME Careful, IInv, Next
  PROVE  NeverEarly'
<1>a. TypeOK /\ Origin /\ NeverEarly /\ Awaited
  BY DEF IInv
<1>b. wall \in Nat /\ m_realtimeOriginNano \in Nat /\ m_currentTs \in Nat
  BY <1>a DEF TypeOK
<1>1. CASE UNCHANGED <<wall, m_realtimeOriginNano, m_currentTs>>
  BY <1>a, <1>1 DEF NeverEarly, Realtime
<1>2. CASE SetOrigin
  <2>1. m_realtimeOriginNano' = wall /\ wall' = wall /\ m_currentTs' = 0
    BY <1>a, <1>2 DEF SetOrigin, Origin, clockVars
  <2>. QED BY <1>b, <2>1 DEF NeverEarly, Realtime
<1>3. CASE Tick
  <2>1. wall' = wall + 1 /\ UNCHANGED <<m_realtimeOriginNano, m_currentTs>>
    BY <1>3 DEF Tick, clockVars, flagVars
  <2>. QED BY <1>a, <1>b, <2>1 DEF NeverEarly, Realtime
<1>4. CASE Execute
  <2>1. PICK next \in m_events : IsNext(next) /\ m_currentTs' = next.ts
    BY <1>4 DEF Execute
  <2>2. PICK e \in m_events : e.ts <= Realtime
    BY <1>a, <1>4 DEF Execute, Awaited
  <2>3. next.ts <= e.ts /\ next.ts \in Nat /\ e.ts \in Nat
    BY <1>a, <2>1, <2>2 DEF IsNext, IsEarliest, Less, TypeOK
  <2>4. Realtime' = Realtime /\ Realtime \in Int
    BY <1>b, <1>4 DEF Execute, Realtime, flagVars
  <2>. QED BY <2>1, <2>2, <2>3, <2>4 DEF NeverEarly
<1>5. CASE Wait
  BY <1>a, <1>1, <1>5, WaitEnds
<1>6. ASSUME NEW t \in Thread, Post(t) PROVE NeverEarly'
  BY <1>1, <1>6 DEF Post, PostLock, PostInsert, PostSignal, clockVars, flagVars
<1>7. CASE UserCall
  BY <1>1, <1>7 DEF UserCall, Schedule, Remove, Cancel, Stop, clockVars, flagVars
<1>8. CASE RunBegin \/ LoopTest \/ CheckEvents \/ CheckEmpty \/ Look \/ HandlerReturn
  BY <1>1, <1>8 DEF RunBegin, LoopTest, CheckEvents, CheckEmpty, Look, HandlerReturn,
        clockVars, flagVars
<1>. QED BY <1>2, <1>3, <1>4, <1>5, <1>6, <1>7, <1>8 DEF Next, Run, ProcessOneEvent, Wait

LEMMA NextNothingInThePast ==
  ASSUME Careful, IInv, Next
  PROVE  NothingInThePast'
<1>a. TypeOK /\ Origin /\ NeverEarly /\ Locked /\ NothingInThePast
  BY DEF IInv
<1>b. m_currentTs \in Nat /\ Delay \subseteq Nat /\ None \notin Thread /\ None \notin Nat
  BY <1>a, RealtimeAssumption DEF TypeOK
<1>1. CASE UNCHANGED <<m_currentTs, stamp>> /\ m_events' \subseteq m_events
  BY <1>a, <1>1 DEF NothingInThePast
<1>2. ASSUME NEW d \in Delay, Schedule(d) PROVE NothingInThePast'
  <2>1. \A e \in m_events' : e \in m_events \/ e.ts = m_currentTs + d
    BY <1>2 DEF Schedule
  <2>2. UNCHANGED <<m_currentTs, stamp>> /\ m_currentTs <= m_currentTs + d
    BY <1>b, <1>2 DEF Schedule, clockVars, threadVars
  <2>. QED BY <1>a, <2>1, <2>2 DEF NothingInThePast
<1>3. ASSUME NEW t \in Thread, NEW call \in Call, NEW d \in Delay, PostLock(t, call, d)
      PROVE  NothingInThePast'
  <2>1. Base(call) \in Nat /\ m_currentTs <= Base(call) /\ d \in Nat
    BY <1>a, <1>b, <1>3, BaseIsAhead DEF PostLock
  <2>2. m_currentTs <= Base(call) + d
    BY <1>b, <2>1
  <2>3. /\ stamp' = [stamp EXCEPT ![t] = Base(call) + d]
        /\ UNCHANGED <<m_events, m_currentTs>>
    BY <1>3 DEF PostLock, listVars, clockVars
  <2>. QED BY <1>a, <2>2, <2>3 DEF NothingInThePast, TypeOK
<1>4. ASSUME NEW t \in Thread, PostInsert(t)
      PROVE  NothingInThePast'
  <2>1. /\ \A e \in m_events' : e \in m_events \/ e.ts = stamp[t]
        /\ stamp[t] # None /\ m_currentTs' = m_currentTs
        /\ stamp' = [stamp EXCEPT ![t] = None]
    BY <1>4 DEF PostInsert, clockVars
  <2>2. \A u \in Thread : stamp'[u] # None => stamp'[u] = stamp[u]
    BY <1>a, <2>1 DEF TypeOK
  <2>. QED BY <1>a, <2>1, <2>2 DEF NothingInThePast
<1>5. CASE Execute
  <2>1. PICK next \in m_events : /\ IsNext(next) /\ m_events' = m_events \ {next}
                                 /\ m_currentTs' = next.ts
    BY <1>5 DEF Execute
  <2>2. \A e \in m_events : next.ts <= e.ts
    BY <1>a, <2>1 DEF IsNext, IsEarliest, Less, TypeOK
  <2>3. \A t \in Thread : stamp'[t] = None
    BY <1>a, <1>b, <1>5 DEF Execute, Locked, threadVars
  <2>. QED BY <2>1, <2>2, <2>3 DEF NothingInThePast
<1>6. CASE Wait
  BY <1>a, <1>1, <1>6, WaitEnds
<1>7. ASSUME NEW t \in Thread, PostSignal(t) PROVE NothingInThePast'
  BY <1>1, <1>7 DEF PostSignal, listVars, clockVars
<1>8. CASE (\E id \in ids : Remove(id) \/ Cancel(id)) \/ Stop
  BY <1>1, <1>8 DEF Remove, Cancel, Stop, listVars, clockVars, threadVars
<1>9. CASE RunBegin \/ SetOrigin \/ LoopTest \/ CheckEvents \/ CheckEmpty \/ Look
           \/ HandlerReturn \/ Tick
  BY <1>1, <1>9 DEF RunBegin, SetOrigin, LoopTest, CheckEvents, CheckEmpty, Look,
        HandlerReturn, Tick, listVars, clockVars, threadVars
<1>. QED BY <1>2, <1>3, <1>4, <1>5, <1>6, <1>7, <1>8, <1>9
     DEF Next, UserCall, Post, Run, ProcessOneEvent, Wait

\* Look begins a wait for the earliest event, with the condition reset.
LEMMA LookAwaits ==
  ASSUME TypeOK, Origin, Look
  PROVE  /\ (\E e \in m_events : e.ts <= Target)'
         /\ (\A e \in m_events : Target <= e.ts \/ Target = tsNow)'
         /\ pc' = "synchronize"
<1>1. PICK next \in m_events :
          /\ IsNext(next)
          /\ tsDelay' = IF next.ts <= Realtime THEN 0 ELSE next.ts - Realtime
  BY DEF Look
<1>2. tsNow' = Realtime /\ m_events' = m_events /\ pc' = "synchronize"
  BY DEF Look, listVars
<1>3. Realtime \in Nat
  BY RealtimeIsTime DEF Look, Origin
<1>4. \A e \in m_events : e.ts \in Nat /\ next.ts <= e.ts
  BY <1>1 DEF IsNext, IsEarliest, Less, TypeOK
<1>5. Target' = IF next.ts <= Realtime THEN Realtime ELSE next.ts
  BY <1>1, <1>2, <1>3, <1>4 DEF Target
<1>. QED BY <1>1, <1>2, <1>3, <1>4, <1>5

LEMMA NextAwaited ==
  ASSUME Careful, IInv, Next
  PROVE  Awaited'
<1>a. TypeOK /\ Origin /\ Awaited
  BY DEF IInv
<1>b. /\ wall \in Nat /\ m_realtimeOriginNano \in Nat /\ tsNow \in Nat /\ tsDelay \in Nat
      /\ \A e \in m_events : e.ts \in Nat
  BY <1>a DEF TypeOK
<1>1. CASE pc' \notin {"synchronize", "sleep", "spin", "execute"}
  BY <1>1 DEF Awaited, Waiting
<1>2. CASE CheckEmpty
  BY <1>2 DEF CheckEmpty, Awaited, Waiting
<1>3. CASE Look
  BY <1>a, <1>3, LookAwaits DEF Awaited
<1>4. CASE Wait
  <2>1. UNCHANGED <<m_events, m_realtimeOriginNano, wall>>
    BY <1>a, <1>4, WaitEnds
  <2>2. \/ /\ pc \in {"synchronize", "sleep", "spin"} /\ pc' \in {"sleep", "spin"}
           /\ waitFor' = waitFor /\ tsNow' = tsNow /\ tsDelay' = tsDelay
        \/ pc' \in {"loop", "look"}
        \/ pc' = "execute" /\ Waiting /\ Realtime >= Target
    BY <1>a, <1>4, WaitEnds DEF Waiting
  <2>3. CASE /\ pc \in {"synchronize", "sleep", "spin"} /\ pc' \in {"sleep", "spin"}
             /\ waitFor' = waitFor /\ tsNow' = tsNow /\ tsDelay' = tsDelay
    BY <1>a, <2>1, <2>3 DEF Awaited, Waiting, Target
  <2>4. CASE pc' = "execute" /\ Waiting /\ Realtime >= Target
    <3>1. PICK e \in m_events : e.ts <= Target
      BY <1>a, <2>4 DEF Awaited
    <3>2. e.ts <= Realtime
      BY <1>b, <2>4, <3>1 DEF Target, Realtime
    <3>3. Realtime' = Realtime /\ m_events' = m_events
      BY <2>1 DEF Realtime
    <3>. QED BY <2>4, <3>2, <3>3 DEF Awaited, Waiting
  <2>. QED BY <1>1, <2>2, <2>3, <2>4
<1>5. CASE UserCall
  BY <1>1, <1>5 DEF UserCall, Schedule, Remove, Cancel, Stop, InUserCode
<1>6. ASSUME NEW t \in Thread, Post(t) PROVE Awaited'
  <2>1. /\ m_events \subseteq m_events'
        /\ UNCHANGED <<pc, waitFor, tsNow, tsDelay, wall, m_realtimeOriginNano>>
    BY <1>6 DEF Post, PostLock, PostInsert, PostSignal, listVars, flagVars, waitVars
  <2>. QED BY <1>a, <2>1 DEF Awaited, Waiting, Target, Realtime
<1>7. CASE Tick
  <2>1. wall' = wall + 1 /\ UNCHANGED <<pc, waitFor, tsNow, tsDelay, m_realtimeOriginNano, m_events>>
    BY <1>7 DEF Tick, listVars, flagVars, waitVars
  <2>2. Target' = Target
    BY <2>1 DEF Target
  <2>3. Realtime' = Realtime + 1 /\ Realtime \in Int
    BY <1>b, <2>1 DEF Realtime
  <2>. QED BY <1>a, <1>b, <2>1, <2>2, <2>3 DEF Awaited, Waiting
<1>8. CASE RunBegin \/ SetOrigin \/ LoopTest \/ CheckEvents \/ Execute \/ HandlerReturn
  <2>1. pc' \in {"origin", "loop", "idle", "check", "look", "fatal", "handler"}
    BY <1>8 DEF RunBegin, SetOrigin, LoopTest, CheckEvents, Execute, HandlerReturn
  <2>. QED BY <1>1, <2>1
<1>. QED BY <1>2, <1>3, <1>4, <1>5, <1>6, <1>7, <1>8 DEF Next, Run, ProcessOneEvent, Wait

LEMMA NextSignalled ==
  ASSUME Careful, IInv, Next
  PROVE  Signalled'
<1>a. TypeOK /\ Origin /\ Signalled /\ Locked
  BY DEF IInv
<1>b. None \notin Thread /\ None \notin Nat
  BY RealtimeAssumption
<1>1. CASE pc' \notin {"synchronize", "sleep", "spin"}
  BY <1>1 DEF Signalled, Waiting
<1>2. CASE CheckEmpty
  BY <1>2 DEF CheckEmpty, Signalled, Waiting
<1>3. CASE Look
  BY <1>a, <1>3, LookAwaits DEF Signalled
<1>4. CASE Wait
  <2>1. UNCHANGED <<m_events, m_mutex, stamp, m_condition>>
    BY <1>a, <1>4, WaitEnds
  <2>2. \/ /\ pc \in {"synchronize", "sleep", "spin"}
           /\ waitFor' = waitFor /\ tsNow' = tsNow /\ tsDelay' = tsDelay
        \/ pc' \notin {"synchronize", "sleep", "spin"}
    BY <1>a, <1>4, WaitEnds
  <2>. QED BY <1>a, <1>1, <2>1, <2>2 DEF Signalled, Waiting, Target, NothingInserted
<1>5. CASE UserCall
  BY <1>1, <1>5 DEF UserCall, Schedule, Remove, Cancel, Stop, InUserCode
<1>6. ASSUME NEW t \in Thread, NEW call \in Call, NEW d \in Delay, PostLock(t, call, d)
      PROVE  Signalled'
  <2>1. m_mutex = None /\ UNCHANGED <<m_events, pc, waitFor, tsNow, tsDelay, m_condition>>
    BY <1>6 DEF PostLock, listVars, waitVars
  <2>. QED BY <1>a, <2>1 DEF Signalled, Waiting, Target, NothingInserted
<1>7. ASSUME NEW t \in Thread, PostInsert(t)
      PROVE  Signalled'
  <2>1. m_mutex' = t /\ stamp'[t] = None
    BY <1>a, <1>7 DEF PostInsert, TypeOK
  <2>. QED BY <1>b, <2>1 DEF Signalled, NothingInserted
<1>8. ASSUME NEW t \in Thread, PostSignal(t)
      PROVE  Signalled'
  BY <1>8 DEF PostSignal, Signal, Signalled
<1>9. CASE Tick
  <2>1. UNCHANGED <<pc, waitFor, tsNow, tsDelay, m_events, m_mutex, stamp, m_condition>>
    BY <1>9 DEF Tick, listVars, waitVars, threadVars
  <2>. QED BY <1>a, <2>1 DEF Signalled, Waiting, Target, NothingInserted
<1>10. CASE RunBegin \/ SetOrigin \/ LoopTest \/ CheckEvents \/ Execute \/ HandlerReturn
  <2>1. pc' \in {"origin", "loop", "idle", "check", "look", "fatal", "handler"}
    BY <1>10 DEF RunBegin, SetOrigin, LoopTest, CheckEvents, Execute, HandlerReturn
  <2>. QED BY <1>1, <2>1
<1>. QED BY <1>2, <1>3, <1>4, <1>5, <1>6, <1>7, <1>8, <1>9, <1>10
     DEF Next, Post, Run, ProcessOneEvent, Wait

LEMMA InvariantHolds == ASSUME Careful PROVE Spec => []IInv
<1>1. ASSUME IInv, [Next]_vars PROVE IInv'
  <2>1. CASE Next
    BY <1>1, <2>1, NextTypeOK, NextOrigin, NextLocked, NextNeverEarly, NextNothingInThePast,
       NextAwaited, NextSignalled DEF IInv
  <2>2. CASE UNCHANGED vars
    <3>1. UNCHANGED <<m_events, m_uid, m_currentTs, m_currentUid, m_stop, m_running,
                      m_realtimeOriginNano, m_synchronizationMode, waitFor, tsNow, tsDelay,
                      sleepUntil, m_mutex, stamp, ids, cancelled, m_condition, wall, pc>>
      BY <2>2 DEF vars, listVars, clockVars, flagVars, waitVars, threadVars, userVars
    <3>2. TypeOK' /\ Origin' /\ Locked' /\ NeverEarly' /\ NothingInThePast'
      BY <1>1, <3>1 DEF IInv, TypeOK, Origin, Locked, NeverEarly, NothingInThePast, Realtime
    <3>3. Awaited' /\ Signalled'
      BY <1>1, <3>1 DEF IInv, Awaited, Signalled, Waiting, Target, Realtime, NothingInserted
    <3>. QED BY <3>2, <3>3 DEF IInv
  <2>. QED BY <1>1, <2>1, <2>2
<1>. QED BY <1>1, InitInvariant, PTL DEF Spec

-----------------------------------------------------------------------------
(***************************************************************************)
(* Real time is consumed before an event is executed: however threads      *)
(* interrupt the waits, the simulation is not ahead of the wall clock.     *)
(***************************************************************************)
THEOREM SimulationIsNeverEarly == ASSUME Careful PROVE Spec => []NeverEarly
BY InvariantHolds, PTL DEF IInv

(***************************************************************************)
(* The assertions of Schedule and ProcessOneEvent: neither the list nor a  *)
(* thread that is about to insert has an event before the current time.    *)
(***************************************************************************)
THEOREM SimulationNeverGoesBack == ASSUME Careful PROVE Spec => []NothingInThePast
BY InvariantHolds, PTL DEF IInv

(***************************************************************************)
(* An event inserted before the awaited one comes with the condition that  *)
(* ends the wait.                                                          *)
(***************************************************************************)
THEOREM SignalsArriveInTime == ASSUME Careful PROVE Spec => []NoSignalIsLost
<1>1. IInv => NoSignalIsLost
  BY DEF IInv, Signalled, Waiting, NothingInserted, NoSignalIsLost
<1>. QED BY <1>1, InvariantHolds, PTL
=============================================================================
