-------------------------- MODULE RealtimeSimulator --------------------------
(***************************************************************************)
(* RealtimeSimulatorImpl with its WallClockSynchronizer                    *)
(* (src/core/model/realtime-simulator-impl.cc, wall-clock-synchronizer.cc, *)
(* synchronizer.cc): the main thread waits for the wall clock before it    *)
(* executes an event, outside the mutex, while other threads insert events *)
(* under the mutex and signal the waiting loop.                            *)
(*                                                                         *)
(* Times are counted in jiffies, which are nanoseconds (the constructor of *)
(* the synchronizer computes the period of the system clock).  The event   *)
(* list is a set of keys, see module Scheduler.  Events in the list are    *)
(* identified by their uid.                                                *)
(***************************************************************************)
EXTENDS EventKey, Integers

CONSTANTS
    Thread,      \* threads other than the main thread
    Delay,       \* delays that user code and threads ask for
    Epoch,       \* the wall clock at the beginning: 1970 is long ago
    SpinMargin,  \* what is left of a wait to busy-waiting, 3 in the code
    IdleDelay,   \* how long Run waits when there is no event: 1 second
    m_hardLimit, \* the lateness that SYNC_HARD_LIMIT tolerates
    Careful,     \* Run is called once, and threads post only after SetOrigin
    MaxUid,      \* bound on m_uid
    MaxTime,     \* bound on the times of events and on the wall clock
    None         \* no thread, no time

ASSUME RealtimeAssumption ==
    /\ Delay \subseteq Nat
    /\ Epoch \in Nat \ {0}
    /\ SpinMargin \in Nat /\ IdleDelay \in Nat /\ m_hardLimit \in Nat
    /\ MaxUid \in Nat /\ MaxTime \in Nat
    /\ None \notin Thread /\ None \notin Nat
    /\ "main" \notin Thread
    /\ Careful \in BOOLEAN

VARIABLES
    m_events,                  \* the event list: a set of [ts, uid]
    m_currentTs, m_currentUid, \* key of the event that runs or ran last
    m_uid,                     \* next unique id
    m_stop, m_running,
    m_mutex,                   \* the thread that holds it, or None
    m_condition,               \* of the synchronizer: the wait shall end
    m_realtimeOriginNano,      \* of the synchronizer: 0 until SetOrigin
    m_synchronizationMode,     \* "BestEffort" or "HardLimit"
    wall,                      \* std::chrono::system_clock
    pc,                        \* where the main thread is
    waitFor,                   \* "event" in ProcessOneEvent, "idle" in Run
    tsNow, tsDelay,            \* arguments of Synchronize
    sleepUntil,                \* when SleepWait times out
    stamp,                     \* the time a thread is about to insert
    ids,                       \* keys for which user code holds an EventId
    cancelled                  \* uids of events with EventImpl::m_cancel

listVars   == <<m_events, m_uid>>
clockVars  == <<m_currentTs, m_currentUid>>
flagVars   == <<m_stop, m_running, m_realtimeOriginNano, m_synchronizationMode>>
waitVars   == <<waitFor, tsNow, tsDelay, sleepUntil>>
threadVars == <<m_mutex, stamp>>
userVars   == <<ids, cancelled>>
vars == <<listVars, clockVars, flagVars, waitVars, threadVars, userVars,
          m_condition, wall, pc>>

VALID == 4    \* EventId::UID::VALID

Init ==
    /\ m_events = {} /\ m_uid = VALID
    /\ m_currentTs = 0 /\ m_currentUid = 0
    /\ m_stop = FALSE /\ m_running = FALSE
    /\ m_mutex = None
    /\ m_condition \in BOOLEAN      \* the constructor does not write it
    /\ m_realtimeOriginNano = 0
    /\ m_synchronizationMode \in {"BestEffort", "HardLimit"}
    /\ wall = Epoch
    /\ pc = "idle"
    /\ waitFor = "idle" /\ tsNow = 0 /\ tsDelay = 0 /\ sleepUntil = 0
    /\ stamp = [t \in Thread |-> None]
    /\ ids = {} /\ cancelled = {}

\* Synchronizer::GetCurrentRealtime
Realtime == wall - m_realtimeOriginNano

IsNext(e) == IsEarliest(e, m_events)

-----------------------------------------------------------------------------
(* Calls of user code on the main thread, before Run or from a handler.  A  *)
(* critical section in which nothing else happens is one step, possible     *)
(* while the mutex is free.                                                 *)

InUserCode == pc \in {"idle", "handler"}

\* m_synchronizer->Signal(): DoSignal writes and notifies.
Signal == m_condition' = TRUE

Schedule(d) ==
    /\ InUserCode /\ m_mutex = None
    /\ m_uid < MaxUid /\ m_currentTs + d <= MaxTime
    /\ LET ev == [ts |-> m_currentTs + d, uid |-> m_uid]
       IN  m_events' = m_events \cup {ev} /\ ids' = ids \cup {ev}
    /\ m_uid' = m_uid + 1
    /\ Signal
    /\ UNCHANGED <<clockVars, flagVars, waitVars, threadVars, cancelled, wall, pc>>

IsExpired(id) ==
    \/ id.ts < m_currentTs
    \/ id.ts = m_currentTs /\ id.uid <= m_currentUid
    \/ id.uid \in cancelled

\* An event is removed without a Signal: the main thread is not waiting.
Remove(id) ==
    /\ InUserCode /\ m_mutex = None
    /\ ~IsExpired(id)
    /\ m_events' = m_events \ {id}
    /\ cancelled' = cancelled \cup {id.uid}
    /\ UNCHANGED <<m_uid, clockVars, flagVars, waitVars, threadVars, ids,
                   m_condition, wall, pc>>

Cancel(id) ==
    /\ InUserCode
    /\ ~IsExpired(id)
    /\ cancelled' = cancelled \cup {id.uid}
    /\ UNCHANGED <<listVars, clockVars, flagVars, waitVars, threadVars, ids,
                   m_condition, wall, pc>>

Stop ==
    /\ InUserCode
    /\ m_stop' = TRUE
    /\ UNCHANGED <<listVars, clockVars, m_running, m_realtimeOriginNano,
                   m_synchronizationMode, waitVars, threadVars, userVars,
                   m_condition, wall, pc>>

-----------------------------------------------------------------------------
(* Another thread inserts an event.                                         *)

\* From what time the delay counts: Schedule counts from the simulation's,
\* ScheduleRealtimeWithContext from the wall clock, ScheduleWithContext and
\* ScheduleRealtimeNowWithContext from the wall clock while Run is active.
Base(call) ==
    CASE call = "Schedule" -> m_currentTs
      [] call = "ScheduleRealtimeWithContext" -> Realtime
      [] call = "ScheduleWithContext" ->
            IF m_running THEN Realtime ELSE m_currentTs

Call == {"Schedule", "ScheduleRealtimeWithContext", "ScheduleWithContext"}

\* Mutant: the time is read before the mutex is held.
PostLock_early(t, call, d) ==
    /\ stamp[t] = None /\ m_mutex # t
    /\ Careful => m_realtimeOriginNano # 0
    /\ m_uid < MaxUid /\ Base(call) + d <= MaxTime
    /\ stamp' = [stamp EXCEPT ![t] = Base(call) + d]
    /\ m_mutex' = t
    /\ UNCHANGED <<listVars, clockVars, flagVars, waitVars, userVars,
                   m_condition, wall, pc>>

PostLock(t, call, d) ==
    /\ m_mutex = None
    /\ Careful => m_realtimeOriginNano # 0
    /\ m_uid < MaxUid /\ Base(call) + d <= MaxTime
    /\ m_mutex' = t
    /\ stamp' = [stamp EXCEPT ![t] = Base(call) + d]
    /\ UNCHANGED <<listVars, clockVars, flagVars, waitVars, userVars,
                   m_condition, wall, pc>>

PostInsert(t) ==
    /\ m_mutex = t /\ stamp[t] # None
    /\ m_events' = m_events \cup {[ts |-> stamp[t], uid |-> m_uid]}
    /\ m_uid' = m_uid + 1
    /\ stamp' = [stamp EXCEPT ![t] = None]
    /\ UNCHANGED <<clockVars, flagVars, waitVars, userVars, m_mutex,
                   m_condition, wall, pc>>

\* Mutant: the waiting loop is not told.
PostSignal_forgotten(t) ==
    /\ m_mutex = t /\ stamp[t] = None
    /\ m_mutex' = None
    /\ UNCHANGED <<listVars, clockVars, flagVars, waitVars, userVars, stamp,
                   m_condition, wall, pc>>

PostSignal(t) ==
    /\ m_mutex = t /\ stamp[t] = None
    /\ Signal
    /\ m_mutex' = None
    /\ UNCHANGED <<listVars, clockVars, flagVars, waitVars, userVars, stamp,
                   wall, pc>>

-----------------------------------------------------------------------------
(* Run.                                                                     *)

\* m_running is set before the origin is, without the mutex.
RunBegin ==
    /\ pc = "idle"
    /\ Careful => m_realtimeOriginNano = 0
    /\ m_stop' = FALSE /\ m_running' = TRUE
    /\ pc' = "origin"
    /\ UNCHANGED <<listVars, clockVars, m_realtimeOriginNano,
                   m_synchronizationMode, waitVars, threadVars, userVars,
                   m_condition, wall>>

\* DoSetOrigin leaves its argument, the current simulation time, unused.
SetOrigin ==
    /\ pc = "origin"
    /\ m_realtimeOriginNano' = wall
    /\ pc' = "loop"
    /\ UNCHANGED <<listVars, clockVars, m_stop, m_running,
                   m_synchronizationMode, waitVars, threadVars, userVars,
                   m_condition, wall>>

LoopTest ==
    /\ pc = "loop"
    /\ IF m_stop THEN pc' = "idle" /\ m_running' = FALSE
                 ELSE pc' = "check" /\ UNCHANGED m_running
    /\ UNCHANGED <<listVars, clockVars, m_stop, m_realtimeOriginNano,
                   m_synchronizationMode, waitVars, threadVars, userVars,
                   m_condition, wall>>

CheckEvents ==
    /\ pc = "check" /\ m_mutex = None
    /\ m_events # {}
    /\ pc' = "look"
    /\ UNCHANGED <<listVars, clockVars, flagVars, waitVars, threadVars,
                   userVars, m_condition, wall>>

\* m_condition keeps whatever value it has.
CheckEmpty ==
    /\ pc = "check" /\ m_mutex = None
    /\ m_events = {}
    /\ waitFor' = "idle" /\ tsNow' = Realtime /\ tsDelay' = IdleDelay
    /\ pc' = "synchronize"
    /\ UNCHANGED <<listVars, clockVars, flagVars, sleepUntil, threadVars,
                   userVars, m_condition, wall>>

\* The first critical section of ProcessOneEvent.
Look ==
    /\ pc = "look" /\ m_mutex = None
    /\ waitFor' = "event"
    /\ tsNow' = Realtime
    /\ \E next \in m_events :
          /\ IsNext(next)
          /\ tsDelay' = IF next.ts <= Realtime THEN 0 ELSE next.ts - Realtime
    /\ m_condition' = FALSE     \* SetCondition
    /\ pc' = "synchronize"
    /\ UNCHANGED <<listVars, clockVars, flagVars, sleepUntil, threadVars,
                   userVars, wall>>

-----------------------------------------------------------------------------
(* Synchronizer::Synchronize, without the mutex.                            *)

Target == tsNow + tsDelay

\* Synchronize returns, and with it go its arguments.  What it returns is
\* looked at in ProcessOneEvent only.
Synchronized(done) ==
    /\ pc' = IF waitFor = "idle" THEN "loop" ELSE IF done THEN "execute" ELSE "look"
    /\ waitFor' = "idle" /\ tsNow' = 0 /\ tsDelay' = 0 /\ sleepUntil' = 0

\* The end of DoSynchronize: too late already, or SpinWait.
SpinOrReturn ==
    IF Realtime >= Target
    THEN Synchronized(TRUE)
    ELSE pc' = "spin" /\ UNCHANGED waitVars

DriftCorrect ==
    IF Realtime < tsNow THEN tsDelay
    ELSE IF Realtime <= Target THEN Target - Realtime ELSE 0

\* Mutant: the condition is reset here, after the mutex has been released.
Synchronize_resets ==
    /\ pc = "synchronize"
    /\ m_condition' = FALSE
    /\ IF DriftCorrect > SpinMargin
       THEN /\ sleepUntil' = wall + DriftCorrect - SpinMargin
            /\ pc' = "sleep"
            /\ UNCHANGED <<waitFor, tsNow, tsDelay>>
       ELSE SpinOrReturn
    /\ UNCHANGED <<listVars, clockVars, flagVars, threadVars, userVars, wall>>

Synchronize ==
    /\ pc = "synchronize"
    /\ IF DriftCorrect > SpinMargin
       THEN /\ sleepUntil' = wall + DriftCorrect - SpinMargin
            /\ pc' = "sleep"
            /\ UNCHANGED <<waitFor, tsNow, tsDelay>>
       ELSE SpinOrReturn
    /\ UNCHANGED <<listVars, clockVars, flagVars, threadVars, userVars, m_condition, wall>>

\* wait_for returns the predicate: TRUE when signalled.  DoSynchronize takes
\* that for a sleep that went to its end, and SpinWait finds the condition.
SleepSignalled ==
    /\ pc = "sleep"
    /\ m_condition
    /\ SpinOrReturn
    /\ UNCHANGED <<listVars, clockVars, flagVars, threadVars,
                   userVars, m_condition, wall>>

\* ... and FALSE at the timeout, taken for an interruption: look again.
SleepTimeout ==
    /\ pc = "sleep"
    /\ ~m_condition /\ wall >= sleepUntil
    /\ Synchronized(FALSE)
    /\ UNCHANGED <<listVars, clockVars, flagVars, threadVars,
                   userVars, m_condition, wall>>

SpinTimeout ==
    /\ pc = "spin"
    /\ Realtime >= Target
    /\ Synchronized(TRUE)
    /\ UNCHANGED <<listVars, clockVars, flagVars, threadVars,
                   userVars, m_condition, wall>>

\* Mutant: an interrupted wait counts as one that is over.
SpinInterrupted_done ==
    /\ pc = "spin"
    /\ m_condition
    /\ Synchronized(TRUE)
    /\ UNCHANGED <<listVars, clockVars, flagVars, threadVars,
                   userVars, m_condition, wall>>

\* m_condition is read without a mutex: the spin may miss it for a while.
SpinInterrupted ==
    /\ pc = "spin"
    /\ m_condition
    /\ Synchronized(FALSE)
    /\ UNCHANGED <<listVars, clockVars, flagVars, threadVars,
                   userVars, m_condition, wall>>

-----------------------------------------------------------------------------
(* The second critical section of ProcessOneEvent, and the handler.         *)

Jitter(ts) == IF Realtime >= ts THEN Realtime - ts ELSE ts - Realtime

Execute ==
    /\ pc = "execute" /\ m_mutex = None
    /\ \E next \in m_events :
          /\ IsNext(next)
          /\ m_events' = m_events \ {next}
          /\ m_currentTs' = next.ts /\ m_currentUid' = next.uid
          /\ pc' = IF /\ m_synchronizationMode = "HardLimit"
                      /\ Jitter(next.ts) > m_hardLimit
                   THEN "fatal"
                   ELSE IF next.uid \in cancelled THEN "loop" ELSE "handler"
    /\ UNCHANGED <<m_uid, flagVars, waitVars, threadVars, userVars,
                   m_condition, wall>>

HandlerReturn ==
    /\ pc = "handler"
    /\ pc' = "loop"
    /\ UNCHANGED <<listVars, clockVars, flagVars, waitVars, threadVars,
                   userVars, m_condition, wall>>

\* Before SetOrigin it does not matter how much time passes.
Tick ==
    /\ IF m_realtimeOriginNano = 0 THEN wall = Epoch ELSE Realtime <= MaxTime
    /\ wall' = wall + 1
    /\ UNCHANGED <<listVars, clockVars, flagVars, waitVars, threadVars,
                   userVars, m_condition, pc>>

UserCall ==
    \/ \E d \in Delay : Schedule(d)
    \/ \E id \in ids : Remove(id) \/ Cancel(id)
    \/ Stop

Post(t) ==
    \/ \E call \in Call, d \in Delay : PostLock(t, call, d)
    \/ PostInsert(t)
    \/ PostSignal(t)

ProcessOneEvent ==
    \/ Look \/ Synchronize \/ SleepSignalled \/ SleepTimeout
    \/ SpinTimeout \/ SpinInterrupted
    \/ Execute \/ HandlerReturn

Run == RunBegin \/ SetOrigin \/ LoopTest \/ CheckEvents \/ CheckEmpty \/ ProcessOneEvent

\* NS_FATAL_ERROR ends the program, with all its threads.
Next ==
    /\ pc # "fatal"
    /\ UserCall \/ Run \/ Tick \/ (\E t \in Thread : Post(t))

Spec == Init /\ [][Next]_vars

(***************************************************************************)
(* The main thread gets on inside Run, handlers return, a thread leaves    *)
(* its critical section, and time passes.  Whether user code calls Run and *)
(* what it or a thread posts is left open.                                 *)
(***************************************************************************)
Fairness ==
    /\ WF_vars(SetOrigin) /\ WF_vars(LoopTest)
    /\ WF_vars(CheckEvents) /\ WF_vars(CheckEmpty)
    /\ WF_vars(ProcessOneEvent)
    /\ \A t \in Thread : WF_vars(PostInsert(t) \/ PostSignal(t))
    /\ WF_vars(Tick)

FairSpec == Spec /\ Fairness
-----------------------------------------------------------------------------
TypeOK ==
    /\ m_events \subseteq [ts : Nat, uid : Nat]
    /\ m_currentTs \in Nat /\ m_currentUid \in Nat /\ m_uid \in Nat
    /\ m_stop \in BOOLEAN /\ m_running \in BOOLEAN
    /\ m_mutex \in Thread \cup {None}
    /\ m_condition \in BOOLEAN
    /\ m_realtimeOriginNano \in Nat /\ wall \in Nat
    /\ m_synchronizationMode \in {"BestEffort", "HardLimit"}
    /\ pc \in {"idle", "origin", "loop", "check", "look", "synchronize",
               "sleep", "spin", "execute", "handler", "fatal"}
    /\ waitFor \in {"event", "idle"}
    /\ tsNow \in Nat /\ tsDelay \in Nat /\ sleepUntil \in Nat
    /\ stamp \in [Thread -> Nat \cup {None}]
    /\ ids \subseteq [ts : Nat, uid : Nat]
    /\ cancelled \subseteq Nat

(***************************************************************************)
(* Real time is consumed before an event is executed: however the waits    *)
(* are interrupted, and whatever is at the head of the list when they are  *)
(* over, the simulation is never ahead of the wall clock                   *)
(* (realtime-simulator-impl.cc:306-313, ProcessOneEvent).                  *)
(***************************************************************************)
NeverEarly ==
    m_realtimeOriginNano # 0 => m_currentTs <= Realtime

(***************************************************************************)
(* The assertions "schedule for time < m_currentTs" and "list order error" *)
(* (realtime-simulator-impl.cc:562, 339): no event is inserted before the  *)
(* one that runs or ran last, nor is a thread about to insert one, though  *)
(* threads take their time from another clock than the main thread.        *)
(***************************************************************************)
NothingInThePast ==
    /\ \A e \in m_events : m_currentTs <= e.ts
    /\ \A t \in Thread : stamp[t] # None => m_currentTs <= stamp[t]

(***************************************************************************)
(* No signal is lost (realtime-simulator-impl.cc:258-264): while the loop  *)
(* waits for an event and no thread is in the middle of an insertion, an   *)
(* event earlier than the awaited one comes with the condition that ends   *)
(* the wait.                                                               *)
(***************************************************************************)
NoSignalIsLost ==
    /\ pc \in {"synchronize", "sleep", "spin"} /\ waitFor = "event"
    /\ m_mutex = None /\ ~m_condition
    => \A e \in m_events : Target <= e.ts \/ Target = tsNow

(***************************************************************************)
(* An event in the list of a running simulator leaves it, executed or      *)
(* removed, or the run ends: whoever inserted it and whatever the loop was *)
(* waiting for (realtime-simulator-impl.cc:462 "Sleep until signalled").   *)
(***************************************************************************)
InsertedEventLeaves ==
    \A u \in VALID..(MaxUid - 1) :
        (m_running /\ \E e \in m_events : e.uid = u)
            ~> (~m_running \/ pc = "fatal" \/ \A e \in m_events : e.uid # u)
=============================================================================
