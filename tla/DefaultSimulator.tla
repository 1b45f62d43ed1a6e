-------------------------- MODULE DefaultSimulator --------------------------
(***************************************************************************)
(* DefaultSimulatorImpl (src/core/model/default-simulator-impl.cc): the    *)
(* event loop of ns-3, the calls user code makes on it between two runs    *)
(* and from inside event handlers, and the queue through which other       *)
(* threads hand it events (ScheduleWithContext).                           *)
(*                                                                         *)
(* One thread, the main thread, calls Run, executes the handlers and       *)
(* drains the hand-over queue; it is the only one that may call Schedule,  *)
(* Cancel, Remove... (the code asserts it).  The threads of Thread only    *)
(* call ScheduleWithContext.  The event list m_events is the set of its    *)
(* events: what every Scheduler subclass promises is module Scheduler.     *)
(***************************************************************************)
EXTENDS EventKey, Integers, Sequences, FiniteSets

CONSTANTS
    Event,       \* the EventImpl objects, each given to the simulator once
    Thread,      \* threads other than the main thread
    Delay,       \* the delays user code asks for
    UidModulus,  \* m_uid is unsigned: 2^32 in the code
    UidLimit,    \* bound: user code schedules only while m_uid < UidLimit
    Main,        \* the main thread, as a holder of the mutex
    None         \* no event, no id, no thread

ASSUME ConstantsAssumption ==
    /\ Delay \subseteq Nat
    /\ UidModulus \in Nat /\ UidModulus > 4
    /\ UidLimit \in Nat /\ UidLimit <= UidModulus
    /\ Main \notin Thread /\ None \notin Thread \cup {Main}
    /\ None \notin Event /\ None \notin [delay : Delay, impl : Event]
    /\ None \notin [ts : Nat, uid : Nat]

VARIABLES
    m_events,                  \* the event list: a set of [ts, uid, impl]
    m_destroyEvents,           \* events to run at Destroy, in order
    m_currentTs, m_currentUid, \* key of the event that runs or ran last
    m_uid,                     \* next unique id
    m_stop,                    \* Stop was called in this run
    m_unscheduledEvents,       \* the code's own count of m_events
    m_eventsWithContext,       \* hand-over queue: sequence of [delay, impl]
    m_eventsWithContextEmpty,  \* flag read without the mutex
    mutex,                     \* holder of m_eventsWithContextMutex
    eventsWithContext,         \* the list the main thread has swapped out
    pc,                        \* where the main thread is
    drain,                     \* where it is in ProcessEventsWithContext
    current,                   \* the event whose handler runs
    hand,                      \* what a thread is about to push
    ids,                       \* the EventId user code holds of an event
    cancelled,                 \* EventImpl::m_cancel
    stopEvents,                \* events made by Stop(delay)
    made,                      \* events handed to the simulator so far
    refs,                      \* references the simulator owns by raw pointer
    handed,                    \* history: pushes of threads, in order
    inserted,                  \* history: insertions in the list, [ts, impl]
    ran                        \* history: events whose Notify was called

listVars  == <<m_events, m_unscheduledEvents, m_uid, inserted>>
clockVars == <<m_currentTs, m_currentUid>>
queueVars == <<m_eventsWithContext, m_eventsWithContextEmpty, mutex, hand,
               handed>>
mainVars  == <<pc, drain, current, eventsWithContext, m_stop>>
userVars  == <<ids, cancelled, stopEvents, made, m_destroyEvents>>
vars == <<listVars, clockVars, queueVars, mainVars, userVars, refs, ran>>

INVALID == 0
DESTROY == 2
\* Mutant: ordinary events start at the first id.
VALID_zero == 0
VALID   == 4

\* EventId::UID reserves INVALID, NOW, DESTROY and RESERVED.
Uid     == (0..(UidModulus - 1)) \ (0..3)
EventId == [ts : Nat, uid : Uid \cup {DESTROY}]
Post    == [delay : Delay, impl : Event]

\* No ordinary event ever has a reserved id, and m_uid does not wrap.
TypeOK ==
    /\ m_events \subseteq [ts : Nat, uid : Uid, impl : Event]
    /\ m_destroyEvents \in Seq(Event)
    /\ m_currentTs \in Nat /\ m_currentUid \in Nat
    /\ m_uid \in Uid
    /\ m_stop \in BOOLEAN
    /\ m_unscheduledEvents \in Int
    /\ m_eventsWithContext \in Seq(Post)
    /\ m_eventsWithContextEmpty \in BOOLEAN
    /\ mutex \in Thread \cup {Main, None}
    /\ eventsWithContext \in Seq(Post)
    /\ pc \in {"idle", "start", "loop", "handler", "destroy",
               "destroyHandler", "dispose", "disposed"}
    /\ drain \in {"off", "test", "lock", "swap", "unlock", "insert"}
    /\ current \in Event \cup {None}
    /\ hand \in [Thread -> Post \cup {None}]
    /\ ids \in [Event -> EventId \cup {None}]
    /\ cancelled \subseteq Event
    /\ stopEvents \subseteq Event
    /\ made \subseteq Event
    /\ refs \in [Event -> Int]
    /\ handed \in Seq(Post)
    /\ inserted \in Seq([ts : Nat, impl : Event])
    /\ ran \subseteq Event

Init ==
    /\ m_events = {} /\ m_destroyEvents = <<>>
    /\ m_currentTs = 0 /\ m_currentUid = INVALID
    /\ m_uid = VALID
    /\ m_stop = FALSE
    /\ m_unscheduledEvents = 0
    /\ m_eventsWithContext = <<>> /\ m_eventsWithContextEmpty = TRUE
    /\ mutex = None
    /\ eventsWithContext = <<>>
    /\ pc = "idle" /\ drain = "off"
    /\ current = None
    /\ hand = [t \in Thread |-> None]
    /\ ids = [e \in Event |-> None]
    /\ cancelled = {} /\ stopEvents = {} /\ made = {}
    /\ refs = [e \in Event |-> 0]
    /\ handed = <<>> /\ inserted = <<>> /\ ran = {}

-----------------------------------------------------------------------------
(* Shared pieces. *)

NextUid == (m_uid + 1) % UidModulus

\* m_events->Insert of a new event: the block Schedule, ScheduleWithContext
\* and ProcessEventsWithContext have in common.
Insert(e, ts) ==
    /\ m_events' = m_events \cup {[ts |-> ts, uid |-> m_uid, impl |-> e]}
    /\ m_uid' = NextUid
    /\ m_unscheduledEvents' = m_unscheduledEvents + 1
    /\ inserted' = Append(inserted, [ts |-> ts, impl |-> e])

InDestroyList(e) ==
    \E i \in 1..Len(m_destroyEvents) : m_destroyEvents[i] = e

\* Mutant: the event that runs now is taken for a pending one.
IsExpired_runningIsPending(e) ==
    IF ids[e].uid = DESTROY
    THEN e \in cancelled \/ ~InDestroyList(e)
    ELSE \/ ids[e].ts < m_currentTs
         \/ ids[e].ts = m_currentTs /\ ids[e].uid < m_currentUid
         \/ e \in cancelled

IsExpired(e) ==
    IF ids[e].uid = DESTROY
    THEN e \in cancelled \/ ~InDestroyList(e)
    ELSE \/ ids[e].ts < m_currentTs
         \/ ids[e].ts = m_currentTs /\ ids[e].uid <= m_currentUid
         \/ e \in cancelled

Unref(e) == refs' = [refs EXCEPT ![e] = @ - 1]

-----------------------------------------------------------------------------
(* Calls of user code: between two runs, or from a handler. *)

InUserCode == pc \in {"idle", "handler", "destroyHandler"}

\* A new EventImpl e is given to the simulator, which owns its reference.
NewEvent(e) ==
    /\ InUserCode
    /\ e \notin made
    /\ m_uid < UidLimit
    /\ made' = made \cup {e}

Schedule(d, e) ==
    /\ NewEvent(e)
    /\ Insert(e, m_currentTs + d)
    /\ ids' = [ids EXCEPT ![e] = [ts |-> m_currentTs + d, uid |-> m_uid]]
    /\ refs' = [refs EXCEPT ![e] = 1]
    /\ UNCHANGED <<clockVars, queueVars, mainVars, cancelled, stopEvents,
                   m_destroyEvents, ran>>

\* Stop(delay): the event calls Simulator::Stop.
StopAfter(d, e) ==
    /\ NewEvent(e)
    /\ Insert(e, m_currentTs + d)
    /\ ids' = [ids EXCEPT ![e] = [ts |-> m_currentTs + d, uid |-> m_uid]]
    /\ refs' = [refs EXCEPT ![e] = 1]
    /\ stopEvents' = stopEvents \cup {e}
    /\ UNCHANGED <<clockVars, queueVars, mainVars, cancelled, m_destroyEvents,
                   ran>>

\* ScheduleWithContext called by the main thread returns no id.
ScheduleWithContext(d, e) ==
    /\ NewEvent(e)
    /\ Insert(e, m_currentTs + d)
    /\ refs' = [refs EXCEPT ![e] = 1]
    /\ UNCHANGED <<clockVars, queueVars, mainVars, ids, cancelled, stopEvents,
                   m_destroyEvents, ran>>

\* The reference of a destroy event is owned by the EventId in the list.
ScheduleDestroy(e) ==
    /\ NewEvent(e)
    /\ ids' = [ids EXCEPT ![e] = [ts |-> m_currentTs, uid |-> DESTROY]]
    /\ m_destroyEvents' = Append(m_destroyEvents, e)
    /\ m_uid' = NextUid
    /\ UNCHANGED <<m_events, m_unscheduledEvents, inserted, clockVars,
                   queueVars, mainVars, cancelled, stopEvents, refs, ran>>

RemoveDestroyEvent(e) ==
    /\ InUserCode
    /\ ids[e] # None /\ ids[e].uid = DESTROY
    /\ \E i \in 1..Len(m_destroyEvents) :
          /\ m_destroyEvents[i] = e
          /\ m_destroyEvents' = SubSeq(m_destroyEvents, 1, i - 1)
                \o SubSeq(m_destroyEvents, i + 1, Len(m_destroyEvents))
    /\ UNCHANGED <<listVars, clockVars, queueVars, mainVars, ids, cancelled,
                   stopEvents, made, refs, ran>>

\* Mutant: the test for expired events is forgotten.
Remove_expiredToo(e) ==
    /\ InUserCode
    /\ ids[e] # None /\ ids[e].uid # DESTROY
    /\ m_events' = {ev \in m_events : ~(ev.ts = ids[e].ts
                                        /\ ev.uid = ids[e].uid)}
    /\ cancelled' = cancelled \cup {e}
    /\ Unref(e)
    /\ m_unscheduledEvents' = m_unscheduledEvents - 1
    /\ UNCHANGED <<m_uid, inserted, clockVars, queueVars, mainVars, ids,
                   stopEvents, made, m_destroyEvents, ran>>

\* Mutant: the counter is left alone, as Cancel leaves it.
Remove_notCounted(e) ==
    /\ InUserCode
    /\ ids[e] # None /\ ids[e].uid # DESTROY
    /\ ~IsExpired(e)
    /\ m_events' = {ev \in m_events : ~(ev.ts = ids[e].ts
                                        /\ ev.uid = ids[e].uid)}
    /\ cancelled' = cancelled \cup {e}
    /\ Unref(e)
    /\ UNCHANGED <<m_unscheduledEvents, m_uid, inserted, clockVars, queueVars,
                   mainVars, ids, stopEvents, made, m_destroyEvents, ran>>

\* Nothing happens when the event has expired.
Remove(e) ==
    /\ InUserCode
    /\ ids[e] # None /\ ids[e].uid # DESTROY
    /\ ~IsExpired(e)
    /\ m_events' = {ev \in m_events : ~(ev.ts = ids[e].ts
                                        /\ ev.uid = ids[e].uid)}
    /\ cancelled' = cancelled \cup {e}
    /\ Unref(e)
    /\ m_unscheduledEvents' = m_unscheduledEvents - 1
    /\ UNCHANGED <<m_uid, inserted, clockVars, queueVars, mainVars, ids,
                   stopEvents, made, m_destroyEvents, ran>>

Cancel(e) ==
    /\ InUserCode
    /\ ids[e] # None
    /\ ~IsExpired(e)
    /\ cancelled' = cancelled \cup {e}
    /\ UNCHANGED <<listVars, clockVars, queueVars, mainVars, ids, stopEvents,
                   made, m_destroyEvents, refs, ran>>

Stop ==
    /\ InUserCode
    /\ m_stop' = TRUE
    /\ UNCHANGED <<listVars, clockVars, queueVars, pc, drain, current,
                   eventsWithContext, userVars, refs, ran>>

-----------------------------------------------------------------------------
(* ProcessEventsWithContext, on the main thread.  The flag is a plain bool  *)
(* written by the threads under the mutex and read here without it: the     *)
(* read may return an old TRUE (DrainSkip needs no guard on the flag), and  *)
(* never an old FALSE, since the main thread itself wrote the last TRUE.    *)

DrainSkip ==
    /\ drain = "test"
    /\ drain' = "off"
    /\ UNCHANGED <<listVars, clockVars, queueVars, pc, current,
                   eventsWithContext, m_stop, userVars, refs, ran>>

DrainTest ==
    /\ drain = "test"
    /\ ~m_eventsWithContextEmpty
    /\ drain' = "lock"
    /\ UNCHANGED <<listVars, clockVars, queueVars, pc, current,
                   eventsWithContext, m_stop, userVars, refs, ran>>

\* Mutant: the queues are swapped without the mutex.
DrainLock_notTaken ==
    /\ drain = "lock"
    /\ drain' = "swap"
    /\ UNCHANGED <<listVars, clockVars, queueVars, pc, current,
                   eventsWithContext, m_stop, userVars, refs, ran>>

DrainLock ==
    /\ drain = "lock"
    /\ mutex = None
    /\ mutex' = Main
    /\ drain' = "swap"
    /\ UNCHANGED <<listVars, clockVars, m_eventsWithContext,
                   m_eventsWithContextEmpty, hand, handed, pc, current,
                   eventsWithContext, m_stop, userVars, refs, ran>>

DrainSwap ==
    /\ drain = "swap"
    /\ eventsWithContext' = m_eventsWithContext
    /\ m_eventsWithContext' = eventsWithContext
    /\ drain' = "unlock"
    /\ UNCHANGED <<listVars, clockVars, m_eventsWithContextEmpty, mutex, hand,
                   handed, pc, current, m_stop, userVars, refs, ran>>

DrainUnlock ==
    /\ drain = "unlock"
    /\ m_eventsWithContextEmpty' = TRUE
    /\ mutex' = None
    /\ drain' = "insert"
    /\ UNCHANGED <<listVars, clockVars, m_eventsWithContext, hand, handed, pc,
                   current, eventsWithContext, m_stop, userVars, refs, ran>>

\* Mutant: the delay is taken for an absolute time.
DrainInsert_absolute ==
    /\ drain = "insert"
    /\ eventsWithContext # <<>>
    /\ m_uid < UidLimit
    /\ LET event == Head(eventsWithContext)
       IN  Insert(event.impl, event.delay)
    /\ eventsWithContext' = Tail(eventsWithContext)
    /\ UNCHANGED <<clockVars, queueVars, pc, drain, current, m_stop, userVars,
                   refs, ran>>

DrainInsert ==
    /\ drain = "insert"
    /\ eventsWithContext # <<>>
    /\ m_uid < UidLimit
    /\ LET event == Head(eventsWithContext)
       IN  Insert(event.impl, m_currentTs + event.delay)
    /\ eventsWithContext' = Tail(eventsWithContext)
    /\ UNCHANGED <<clockVars, queueVars, pc, drain, current, m_stop, userVars,
                   refs, ran>>

DrainDone ==
    /\ drain = "insert"
    /\ eventsWithContext = <<>>
    /\ drain' = "off"
    /\ UNCHANGED <<listVars, clockVars, queueVars, pc, current,
                   eventsWithContext, m_stop, userVars, refs, ran>>

-----------------------------------------------------------------------------
(* Run and the events it processes. *)

Run ==
    /\ pc = "idle"
    /\ pc' = "start" /\ drain' = "test"
    /\ UNCHANGED <<listVars, clockVars, queueVars, current, eventsWithContext,
                   m_stop, userVars, refs, ran>>

\* A Stop called before Run is forgotten here.
EnterLoop ==
    /\ pc = "start" /\ drain = "off"
    /\ m_stop' = FALSE
    /\ pc' = "loop"
    /\ UNCHANGED <<listVars, clockVars, queueVars, drain, current,
                   eventsWithContext, userVars, refs, ran>>

\* The part of ProcessOneEvent before Invoke.
TakeNext(next) ==
    /\ pc = "loop" /\ drain = "off"
    /\ ~m_stop
    /\ IsEarliest(next, m_events)
    /\ m_events' = m_events \ {next}
    /\ m_unscheduledEvents' = m_unscheduledEvents - 1
    /\ m_currentTs' = next.ts
    /\ m_currentUid' = next.uid

\* Mutant: Invoke does not look at m_cancel.
InvokeEvent_cancelledToo(next) ==
    /\ TakeNext(next)
    /\ next.impl \notin stopEvents
    /\ current' = next.impl
    /\ ran' = ran \cup {next.impl}
    /\ pc' = "handler"
    /\ UNCHANGED <<m_uid, inserted, queueVars, drain, eventsWithContext,
                   m_stop, userVars, refs>>

\* Invoke calls Notify: the user's handler starts.
InvokeEvent(next) ==
    /\ TakeNext(next)
    /\ next.impl \notin cancelled \cup stopEvents
    /\ current' = next.impl
    /\ ran' = ran \cup {next.impl}
    /\ pc' = "handler"
    /\ UNCHANGED <<m_uid, inserted, queueVars, drain, eventsWithContext,
                   m_stop, userVars, refs>>

\* The handler of an event made by Stop(delay) is Simulator::Stop.
InvokeStop(next) ==
    /\ TakeNext(next)
    /\ next.impl \in stopEvents \ cancelled
    /\ ran' = ran \cup {next.impl}
    /\ m_stop' = TRUE
    /\ Unref(next.impl)
    /\ drain' = "test"
    /\ UNCHANGED <<m_uid, inserted, queueVars, pc, current, eventsWithContext,
                   userVars>>

\* Invoke does nothing for a cancelled event; the clock has moved anyway.
SkipCancelled(next) ==
    /\ TakeNext(next)
    /\ next.impl \in cancelled
    /\ Unref(next.impl)
    /\ drain' = "test"
    /\ UNCHANGED <<m_uid, inserted, queueVars, pc, current, eventsWithContext,
                   m_stop, userVars, ran>>

\* The handler returns to ProcessOneEvent, which drops the event.
HandlerReturn ==
    /\ pc = "handler"
    /\ Unref(current)
    /\ current' = None
    /\ pc' = "loop" /\ drain' = "test"
    /\ UNCHANGED <<listVars, clockVars, queueVars, eventsWithContext, m_stop,
                   userVars, ran>>

\* Mutant: Run waits for the list to be empty.
RunReturn_onlyWhenEmpty ==
    /\ pc = "loop" /\ drain = "off"
    /\ m_events = {}
    /\ pc' = "idle"
    /\ UNCHANGED <<listVars, clockVars, queueVars, drain, current,
                   eventsWithContext, m_stop, userVars, refs, ran>>

RunReturn ==
    /\ pc = "loop" /\ drain = "off"
    /\ m_events = {} \/ m_stop
    /\ pc' = "idle"
    /\ UNCHANGED <<listVars, clockVars, queueVars, drain, current,
                   eventsWithContext, m_stop, userVars, refs, ran>>

-----------------------------------------------------------------------------
(* Simulator::Destroy: the destroy events, then the disposal. *)

Destroy ==
    /\ pc = "idle"
    /\ pc' = "destroy"
    /\ UNCHANGED <<listVars, clockVars, queueVars, drain, current,
                   eventsWithContext, m_stop, userVars, refs, ran>>

DestroyNext ==
    /\ pc = "destroy"
    /\ m_destroyEvents # <<>>
    /\ m_destroyEvents' = Tail(m_destroyEvents)
    /\ LET ev == Head(m_destroyEvents)
       IN  IF ev \in cancelled
           THEN UNCHANGED <<pc, current, ran>>
           ELSE /\ current' = ev
                /\ ran' = ran \cup {ev}
                /\ pc' = "destroyHandler"
    /\ UNCHANGED <<listVars, clockVars, queueVars, drain, eventsWithContext,
                   m_stop, ids, cancelled, stopEvents, made, refs>>

DestroyHandlerReturn ==
    /\ pc = "destroyHandler"
    /\ current' = None
    /\ pc' = "destroy"
    /\ UNCHANGED <<listVars, clockVars, queueVars, drain, eventsWithContext,
                   m_stop, userVars, refs, ran>>

\* The last destroy event is done: the simulator is disposed, and drains the
\* hand-over queue one last time.
BeginDispose ==
    /\ pc = "destroy"
    /\ m_destroyEvents = <<>>
    /\ pc' = "dispose" /\ drain' = "test"
    /\ UNCHANGED <<listVars, clockVars, queueVars, current, eventsWithContext,
                   m_stop, userVars, refs, ran>>

\* Whatever is still in the event list is dropped without running.
DoDispose ==
    /\ pc = "dispose" /\ drain = "off"
    /\ refs' = [e \in Event |-> IF \E ev \in m_events : ev.impl = e
                                THEN refs[e] - 1 ELSE refs[e]]
    /\ m_events' = {}
    /\ pc' = "disposed"
    /\ UNCHANGED <<m_uid, inserted, m_unscheduledEvents, clockVars, queueVars,
                   drain, current, eventsWithContext, m_stop, userVars, ran>>

-----------------------------------------------------------------------------
(* ScheduleWithContext called by another thread. *)

PostLock(t, d, e) ==
    /\ pc # "disposed"
    /\ mutex = None
    /\ e \notin made
    /\ mutex' = t
    /\ hand' = [hand EXCEPT ![t] = [delay |-> d, impl |-> e]]
    /\ made' = made \cup {e}
    /\ refs' = [refs EXCEPT ![e] = 1]
    /\ UNCHANGED <<listVars, clockVars, m_eventsWithContext,
                   m_eventsWithContextEmpty, handed, mainVars, ids, cancelled,
                   stopEvents, m_destroyEvents, ran>>

\* Mutant: the queue is used as a stack.
PostPush_front(t) ==
    /\ mutex = t
    /\ hand[t] # None
    /\ m_eventsWithContext' = <<hand[t]>> \o m_eventsWithContext
    /\ handed' = Append(handed, hand[t])
    /\ hand' = [hand EXCEPT ![t] = None]
    /\ UNCHANGED <<listVars, clockVars, m_eventsWithContextEmpty, mutex,
                   mainVars, userVars, refs, ran>>

PostPush(t) ==
    /\ mutex = t
    /\ hand[t] # None
    /\ m_eventsWithContext' = Append(m_eventsWithContext, hand[t])
    /\ handed' = Append(handed, hand[t])
    /\ hand' = [hand EXCEPT ![t] = None]
    /\ UNCHANGED <<listVars, clockVars, m_eventsWithContextEmpty, mutex,
                   mainVars, userVars, refs, ran>>

\* Mutant: the flag is not cleared.
PostUnlock_silent(t) ==
    /\ mutex = t
    /\ hand[t] = None
    /\ mutex' = None
    /\ UNCHANGED <<listVars, clockVars, m_eventsWithContext,
                   m_eventsWithContextEmpty, hand, handed, mainVars, userVars,
                   refs, ran>>

PostUnlock(t) ==
    /\ mutex = t
    /\ hand[t] = None
    /\ m_eventsWithContextEmpty' = FALSE
    /\ mutex' = None
    /\ UNCHANGED <<listVars, clockVars, m_eventsWithContext, hand, handed,
                   mainVars, userVars, refs, ran>>

-----------------------------------------------------------------------------
UserCall ==
    \/ \E d \in Delay, e \in Event : \/ Schedule(d, e)
                                     \/ StopAfter(d, e)
                                     \/ ScheduleWithContext(d, e)
    \/ \E e \in Event : \/ ScheduleDestroy(e)
                        \/ RemoveDestroyEvent(e)
                        \/ Remove(e)
                        \/ Cancel(e)
    \/ Stop

ProcessEventsWithContext ==
    \/ DrainSkip \/ DrainTest \/ DrainLock \/ DrainSwap \/ DrainUnlock
    \/ DrainInsert \/ DrainDone

ProcessOneEvent ==
    \E next \in m_events : \/ InvokeEvent(next)
                           \/ InvokeStop(next)
                           \/ SkipCancelled(next)

MainLoop == EnterLoop \/ ProcessOneEvent \/ HandlerReturn \/ RunReturn

Shutdown == \/ DestroyNext \/ DestroyHandlerReturn
            \/ BeginDispose \/ DoDispose

ThreadStep ==
    \E t \in Thread : \/ \E d \in Delay, e \in Event : PostLock(t, d, e)
                     \/ PostPush(t)
                     \/ PostUnlock(t)

\* The program has ended.
Terminated == pc = "disposed" /\ mutex = None /\ UNCHANGED vars

Next == \/ UserCall \/ Run \/ Destroy
        \/ ProcessEventsWithContext \/ MainLoop \/ Shutdown
        \/ ThreadStep \/ Terminated

Spec == Init /\ [][Next]_vars

(* Fairness.  The main thread keeps executing: a callback returns, and the *)
(* drain and the loop go on.  A thread that holds the mutex releases it.   *)
(* std::mutex promises no order among waiters, but the finitely many posts *)
(* of a run cannot keep the main thread waiting for ever.                  *)
Fairness ==
    /\ WF_vars(ProcessEventsWithContext)
    /\ WF_vars(MainLoop)
    /\ WF_vars(Shutdown)
    /\ \A t \in Thread : WF_vars(PostPush(t)) /\ WF_vars(PostUnlock(t))

FairSpec == Spec /\ Fairness

\* A program that calls Run again and again, on a machine where a thread's
\* write to the flag is seen at the latest when it is read infinitely often.
RunningSpec == FairSpec /\ WF_vars(Run) /\ SF_vars(DrainTest)

-----------------------------------------------------------------------------
(* Properties. *)

\* Events run in the order of their keys, over any number of runs: each event
\* taken from the list has a later time than the one before it, or the same
\* time and a later id.  In particular the clock never moves back (the
\* NS_ASSERT of ProcessOneEvent).
RunsInKeyOrder ==
    [][<<m_currentTs, m_currentUid>>' # <<m_currentTs, m_currentUid>>
        => Less([ts |-> m_currentTs,  uid |-> m_currentUid],
                [ts |-> m_currentTs', uid |-> m_currentUid'])]_vars

\* IsExpired is computed from two numbers and a flag, never from the event
\* list; still it says exactly whether the event is in the list and not
\* cancelled.  Remove and Cancel rely on it: Remove of an event that is not in
\* the list would drop a reference twice.
ExpiredIsExact ==
    pc # "disposed" =>
      \A e \in Event : ids[e] # None /\ ids[e].uid # DESTROY =>
        (~IsExpired(e) <=>
           /\ [ts |-> ids[e].ts, uid |-> ids[e].uid, impl |-> e] \in m_events
           /\ e \notin cancelled)

\* The counter that Run asserts to be zero when the list is empty is the
\* number of events in the list, through every Remove, Cancel, hand-over and
\* Stop.
CountIsExact ==
    pc # "disposed" => m_unscheduledEvents = Cardinality(m_events)

\* The events a thread has pushed and the loop has not yet taken over.
InQueue(q, e) == \E i \in 1..Len(q) : q[i].impl = e

\* Manual memory management: the simulator owns one reference of an event as
\* long as the event is in its hands (in a thread's hand, in a queue, in the
\* list or running), and none afterwards.
ReferencesExact ==
    \A e \in Event :
      LET owned == \/ \E t \in Thread : hand[t] # None /\ hand[t].impl = e
                   \/ InQueue(m_eventsWithContext, e)
                   \/ InQueue(eventsWithContext, e)
                   \/ \E ev \in m_events : ev.impl = e
                   \/ current = e /\ pc = "handler"
      IN  refs[e] = IF owned THEN 1 ELSE 0

\* An event waiting in the hand-over queue is announced by the flag, unless a
\* thread is still inside the critical section that pushed it: no sequence of
\* posts and drains leaves one behind that later drains do not look for.
QueueIsAnnounced ==
    m_eventsWithContext # <<>> =>
        \/ ~m_eventsWithContextEmpty
        \/ mutex \in Thread

\* Events posted by threads run in the order of their pushes when a later one
\* did not ask for a shorter delay; none is overtaken while it waits.
PostedRunInOrder ==
    \A i, j \in 1..Len(handed) :
        (/\ i < j
         /\ handed[i].delay <= handed[j].delay
         /\ handed[j].impl \in ran) => handed[i].impl \in ran

\* "The first event inserted in the scheduling queue is scheduled to expire
\* first" (simulator.h:58-61): at equal times, an event runs only after those
\* inserted before it have run or have been cancelled.
FirstInsertedRunsFirst ==
    \A i, j \in 1..Len(inserted) :
        (/\ i < j
         /\ inserted[i].ts = inserted[j].ts
         /\ inserted[j].impl \in ran)
            => inserted[i].impl \in ran \cup cancelled

\* A handler starts at most once for an event, and never after Cancel or
\* Remove of it succeeded.
NeverRunAgain ==
    [][\A e \in Event : e \in ran' /\ current' = e /\ current # e
            => e \notin ran /\ e \notin cancelled]_vars

\* Every Run returns when handlers do and only finitely many events are made.
RunReturns == pc = "start" ~> pc = "idle"

\* An event posted by a thread is not lost: a later Run executes it even if
\* the one it raced with returned without seeing it.
PostedEventRuns ==
    \A e \in Event :
        InQueue(m_eventsWithContext, e)
            ~> (e \in ran \/ pc \in {"destroy", "dispose", "disposed"})

\* The agenda is the event list in key order; what a thread has pushed and the
\* drain has not inserted yet is waiting.
Position(ev) == 1 + Cardinality({f \in m_events : Less(f, ev)})

Agenda ==
    [i \in 1..Cardinality(m_events) |->
        LET ev == CHOOSE ev \in m_events : Position(ev) = i
        IN  [ts |-> ev.ts, impl |-> ev.impl]]

Promise == INSTANCE EventLoop WITH
    now     <- m_currentTs,
    agenda  <- Agenda,
    waiting <- eventsWithContext \o m_eventsWithContext,
    off     <- cancelled,
    ran     <- {e \in ran : ids[e] = None \/ ids[e].uid # DESTROY},
    over    <- pc = "disposed"

\* Through ids, flags, locks and swapped queues, DefaultSimulatorImpl keeps the
\* promise of simulator.h: execution in time order, first come first served at
\* equal times (lines 58-61), handed-over events in the order of the hand-over.
ImplementsEventLoop == Promise!Spec
=============================================================================
