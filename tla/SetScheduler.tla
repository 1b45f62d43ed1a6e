---------------------------- MODULE SetScheduler ----------------------------
(***************************************************************************)
(* A simulator with its event list: a ListScheduler or a CalendarScheduler *)
(* from the beginning, or the one exchanged for the other in the middle of *)
(* a simulation, when DefaultSimulatorImpl::SetScheduler moves the events  *)
(* from the list to a calendar that has just been created.                 *)
(***************************************************************************)
EXTENDS ListScheduler    \* events and call are those of the list

CONSTANT MaxBuckets    \* 32768 in the code

ASSUME MaxBucketsAssumption == MaxBuckets \in {2, 4, 8, 16, 32, 64, 128, 256, 512, 1024,
                                            2048, 4096, 8192, 16384, 32768}

VARIABLES
    cal, calCall,       \* the calendar
    m_events,           \* which one is in use: "list", "moving", "calendar"
    m_currentTs,
    userCall            \* {} or {the last call of the simulator's user}

listVars == <<events, call>>
calVars  == <<cal, calCall>>
setVars  == <<listVars, calVars, m_events, m_currentTs, userCall>>

Calendar == INSTANCE CalendarScheduler WITH call <- calCall

SetInit == /\ Init /\ Calendar!Init
           /\ m_events \in {"list", "calendar"}
           /\ m_currentTs = 0 /\ userCall = {}

UseList     == m_events = "list" /\ userCall' = call' /\ UNCHANGED calVars
UseCalendar == m_events = "calendar" /\ userCall' = calCall' /\ UNCHANGED listVars

\* The calls of the simulator on the event list in use.
ScheduleEvent(ev) ==
    /\ ev.ts >= m_currentTs
    /\ (Insert(ev) /\ UseList) \/ (Calendar!Insert(ev) /\ UseCalendar)
    /\ UNCHANGED <<m_events, m_currentTs>>

RemoveEvent(ev) ==
    /\ (Remove(ev) /\ UseList) \/ (Calendar!Remove(ev) /\ UseCalendar)
    /\ UNCHANGED <<m_events, m_currentTs>>

ProcessOneEvent ==
    /\ (RemoveNext /\ UseList) \/ (Calendar!RemoveNext /\ UseCalendar)
    /\ \E taken \in userCall' : m_currentTs' = taken[2].ts
    /\ UNCHANGED m_events

Start == /\ m_events = "list"
         /\ m_events' = "moving"
         /\ UNCHANGED <<listVars, calVars, m_currentTs, userCall>>

\* Mutant: an event is taken out and not put in.
Move_drop == /\ m_events = "moving"
             /\ RemoveNext
             /\ UNCHANGED <<calVars, m_events, m_currentTs, userCall>>

Move == /\ m_events = "moving"
        /\ RemoveNext
        /\ Calendar!Insert(PeekNext)
        /\ UNCHANGED <<m_events, m_currentTs, userCall>>

Finish == /\ m_events = "moving"
          /\ IsEmpty
          /\ m_events' = "calendar"
          /\ UNCHANGED <<listVars, calVars, m_currentTs, userCall>>

SetNext == \/ \E ev \in Key : ScheduleEvent(ev) \/ RemoveEvent(ev)
           \/ ProcessOneEvent
           \/ Start \/ Move \/ Finish

SetSpec == SetInit /\ [][SetNext]_setVars
-----------------------------------------------------------------------------
\* The calendar's own invariants, see module CalendarScheduler: through resizes,
\* skipped years, removals and the transfer from the list.
QSizeIsExact           == Calendar!QSizeIsExact
InItsBucket            == Calendar!InItsBucket
FollowsLoad            == Calendar!FollowsLoad
CalendarPeekIsEarliest == Calendar!PeekIsEarliest

Whole == INSTANCE Scheduler WITH
    events <- Held \cup Calendar!Held,
    call   <- userCall

(***************************************************************************)
(* The simulator does not notice which event list it has, nor the change:  *)
(* before, during and after it the two together are one event list in the  *)
(* sense of scheduler.h (default-simulator-impl.cc SetScheduler), though   *)
(* the new calendar has seen none of the times that have passed, and       *)
(* through every resize of the calendar.                                   *)
(***************************************************************************)
SimulatorImplementsScheduler == Whole!Spec
=============================================================================
