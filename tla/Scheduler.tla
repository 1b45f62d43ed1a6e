----------------------------- MODULE Scheduler ------------------------------
(***************************************************************************)
(* The event list of src/core/model/scheduler.h as its comments promise    *)
(* it, and as MapScheduler (std::map keyed by EventKey) and                *)
(* PriorityQueueScheduler (std::priority_queue) provide it directly: a set *)
(* of events of which PeekNext and RemoveNext give the earliest.  The      *)
(* calls are visible in the variable call: to implement this module, a     *)
(* scheduler has to do what it was asked for, and nothing unasked.         *)
(***************************************************************************)
EXTENDS EventKey

CONSTANT Key   \* the events, each by its key [ts, uid]

VARIABLES
    events,     \* the events in the list
    call        \* {} or {<<the last operation called, its event>>}

vars == <<events, call>>

Init == events = {} /\ call = {}

IsEmpty == events = {}

Insert(ev) == /\ ev \notin events
              /\ events' = events \cup {ev}
              /\ call' = {<<"Insert", ev>>}

RemoveNext == \E ev \in events :
                  /\ IsEarliest(ev, events)
                  /\ events' = events \ {ev}
                  /\ call' = {<<"RemoveNext", ev>>}

Remove(ev) == /\ ev \in events
              /\ events' = events \ {ev}
              /\ call' = {<<"Remove", ev>>}

Next == RemoveNext \/ \E ev \in Key : Insert(ev) \/ Remove(ev)

Spec == Init /\ [][Next]_vars
=============================================================================
