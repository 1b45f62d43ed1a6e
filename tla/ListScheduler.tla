--------------------------- MODULE ListScheduler ----------------------------
(***************************************************************************)
(* src/core/model/list-scheduler.cc: the events in a std::list that Insert *)
(* keeps sorted.                                                           *)
(***************************************************************************)
EXTENDS Keys, Sequences

VARIABLES
    events,     \* m_events
    call        \* {} or {<<the last operation called, its event>>}

vars == <<events, call>>

Held == {events[i] : i \in 1..Len(events)}

Init == events = <<>> /\ call = {}

IsEmpty == events = <<>>

PeekNext == Head(events)

\* ev goes to place k.
Placed(ev, k) == SubSeq(events, 1, k - 1) \o <<ev>> \o SubSeq(events, k, Len(events))

\* k is the place of the first event that is later than ev, or the end.
InsertionPoint(ev, k) ==
    /\ \A i \in 1..(k - 1) : ~Less(ev, events[i])
    /\ k <= Len(events) => Less(ev, events[k])

\* Mutant: among events due at the same time the new one goes first.
Insert_latestFirst(ev) ==
    /\ ev \notin Held
    /\ \E k \in 1..(Len(events) + 1) :
           /\ \A i \in 1..(k - 1) : events[i].ts < ev.ts
           /\ k <= Len(events) => ev.ts <= events[k].ts
           /\ events' = Placed(ev, k)
    /\ call' = {<<"Insert", ev>>}

Insert(ev) == /\ ev \notin Held
              /\ \E k \in 1..(Len(events) + 1) :
                     InsertionPoint(ev, k) /\ events' = Placed(ev, k)
              /\ call' = {<<"Insert", ev>>}

RemoveNext == /\ ~IsEmpty
              /\ events' = Tail(events)
              /\ call' = {<<"RemoveNext", Head(events)>>}

\* The list without its k-th event.
Without(k) == SubSeq(events, 1, k - 1) \o SubSeq(events, k + 1, Len(events))

\* Mutant: Remove compares time stamps.
Remove_byTime(ev) ==
    /\ ev \in Held
    /\ \E k \in 1..Len(events) :
           /\ events[k].ts = ev.ts
           /\ \A i \in 1..(k - 1) : events[i].ts # ev.ts
           /\ events' = Without(k)
    /\ call' = {<<"Remove", ev>>}

\* The first event with the id of ev.
Remove(ev) == /\ ev \in Held
              /\ \E k \in 1..Len(events) :
                     /\ events[k].uid = ev.uid
                     /\ \A i \in 1..(k - 1) : events[i].uid # ev.uid
                     /\ events' = Without(k)
              /\ call' = {<<"Remove", ev>>}

Next == RemoveNext \/ \E ev \in Key : Insert(ev) \/ Remove(ev)

Spec == Init /\ [][Next]_vars
-----------------------------------------------------------------------------
TypeOK == events \in Seq(Key) /\ call \subseteq Operation \X Key

(***************************************************************************)
(* What PeekNext shows is the earliest event held: nothing the list holds, *)
(* wherever Insert put it and whatever Remove took out around it, is due   *)
(* before it (list-scheduler.cc Insert, Remove, PeekNext).                 *)
(***************************************************************************)
PeekIsEarliest == ~IsEmpty => IsEarliest(PeekNext, Held)

Abstract == INSTANCE Scheduler WITH events <- Held

(***************************************************************************)
(* The sorted list is an event list in the sense of scheduler.h: Insert    *)
(* adds exactly its event, RemoveNext returns the earliest, Remove takes   *)
(* out exactly the event named.                                            *)
(***************************************************************************)
ImplementsScheduler == Abstract!Spec
=============================================================================
