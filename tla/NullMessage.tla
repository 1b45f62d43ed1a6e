----------------------------- MODULE NullMessage -----------------------------
(***************************************************************************)
(* NullMessageSimulatorImpl with NullMessageMpiInterface and               *)
(* RemoteChannelBundle (src/mpi), the algorithm of Chandy, Misra and       *)
(* Bryant: with every message a rank promises its neighbour a time before  *)
(* which nothing more will arrive from it; a rank executes what is due     *)
(* before the smallest promise it holds, and otherwise waits for a         *)
(* message.  Events of the simulator itself send promises without a        *)
(* packet: null messages.                                                  *)
(*                                                                         *)
(* Ranks share nothing but messages, in order between any two (there is    *)
(* one receive posted per neighbour).  All variables are indexed by rank.  *)
(***************************************************************************)
EXTENDS LogicalProcesses, EventKey, Sequences

CONSTANTS
    Delay,           \* delays that user code asks for
    Source,          \* ranks on which it does so before Run
    TxTime,          \* TxTime[l]: times to put a packet on link l, by its size and the rate
    InterframeGap,   \* InterframeGap[l]: how long the device then waits before the next
    StopTime,        \* argument of Stop, the same on every rank
    m_schedulerTune, \* attribute "SchedulerTune", in per cent
    MaxCalls,        \* bound on the calls that handlers make, of all ranks
    None

ASSUME NullMessageAssumption ==
    /\ Rank \subseteq Nat
    /\ \A r \in Rank : LinksOf(r) # {}
    /\ Delay \subseteq 0..Infinity /\ Source \subseteq Rank
    /\ TxTime \in [Link -> SUBSET Nat] /\ InterframeGap \in [Link -> Nat]
    /\ StopTime \in Nat /\ MaxCalls \in Nat
    /\ m_schedulerTune \in 1..100

VARIABLES
    m_events,        \* a set of [ts, uid, kind, of]
    m_uid, m_currentTs, m_stop,
    m_safeTime,      \* events up to it may be executed
    m_guaranteeTime, \* [r][q]: of the bundle of r to q, what q has promised
    m_nullEventId,   \* [r][q]: uid of the event that sends the next null message
    busy,            \* links on which the device of r is transmitting
    channel,         \* [r][q]: messages from r to q, [rxTime, guarantee]
    calls,           \* calls made by handlers, for the bound
    pc               \* "idle", "run", "handler", "arrive" or "done"

eventVars   == <<m_events, m_uid>>
promiseVars == <<m_safeTime, m_guaranteeTime>>
sendVars    == <<m_nullEventId, channel>>
vars == <<eventVars, promiseVars, sendVars, m_currentTs, m_stop, busy, calls, pc>>

VALID == 4    \* EventId::UID::VALID

Neighbours(r) == {Remote(l, r) : l \in LinksOf(r)}

\* RemoteChannelBundle: all links between two ranks, with the smallest delay.
BundleDelay(r, q) == Smallest({LinkDelay[l] : l \in {k \in LinksOf(r) : Remote(k, r) = q}})

Go(r, place) == pc' = [pc EXCEPT ![r] = place]

Event(ts, uid, kind, of) == [ts |-> ts, uid |-> uid, kind |-> kind, of |-> of]

Insert(r, new) ==
    /\ m_events' = [m_events EXCEPT ![r] = @ \cup new]
    /\ m_uid' = [m_uid EXCEPT ![r] = @ + Cardinality(new)]

\* Before Run, user code has called Stop(StopTime) and scheduled some events.
Init ==
    /\ m_events = [r \in Rank |->
            {Event(StopTime, VALID, "stop", None)}
            \cup {Event(d, VALID + 1 + d, "user", None) : d \in IF r \in Source THEN Delay ELSE {}}]
    /\ m_uid = [r \in Rank |-> VALID + 2 + Largest({0} \cup Delay)]
    /\ m_currentTs = [r \in Rank |-> 0]
    /\ m_stop = [r \in Rank |-> FALSE]
    /\ m_safeTime = [r \in Rank |-> 0]
    /\ m_guaranteeTime = [r \in Rank |-> [q \in Neighbours(r) |-> 0]]
    /\ m_nullEventId = [r \in Rank |-> [q \in Neighbours(r) |-> 0]]
    /\ busy = [r \in Rank |-> {}]
    /\ channel = [r \in Rank |-> [q \in Neighbours(r) |-> <<>>]]
    /\ calls = 0
    /\ pc = [r \in Rank |-> "idle"]

Next(events) == Smallest({e.ts : e \in events})

\* GetSafeTime of the bundle manager.
SafeTime(guarantees) == Smallest({Infinity} \cup {guarantees[q] : q \in DOMAIN guarantees})

NullTime(r, q, now) == now + (m_schedulerTune * BundleDelay(r, q) + 50) \div 100

\* Mutant: what the rank has in its list is promised, safe or not.
CalculateGuaranteeTime_unsafe(r, q, events) == Next(events) + BundleDelay(r, q)

CalculateGuaranteeTime(r, q, events) ==
    Smallest({Next(events), m_safeTime[r]}) + BundleDelay(r, q)

\* rxTime 0 stands for a null message.
Send(r, q, rxTime, guarantee) ==
    channel' = [channel EXCEPT ![r][q] = Append(@, [rxTime |-> rxTime, guarantee |-> guarantee])]

-----------------------------------------------------------------------------
\* Run begins: CalculateLookAhead and InitializeNullMessageEvents, in the order
\* of the ranks.
RunBegin(r) ==
    LET NullId(q) == m_uid[r] + Cardinality({p \in Neighbours(r) : p < q})
    IN  /\ pc[r] = "idle"
        /\ Insert(r, {Event(NullTime(r, q, m_currentTs[r]), NullId(q), "null", q)
                        : q \in Neighbours(r)})
        /\ m_nullEventId' = [m_nullEventId EXCEPT ![r] = [q \in Neighbours(r) |-> NullId(q)]]
        /\ channel' = [channel EXCEPT ![r] = [q \in Neighbours(r) |->
                Append(channel[r][q], [rxTime |-> 0, guarantee |-> BundleDelay(r, q)])]]
        /\ m_safeTime' = [m_safeTime EXCEPT ![r] = 0]
        /\ m_stop' = [m_stop EXCEPT ![r] = FALSE]
        /\ Go(r, "run")
        /\ UNCHANGED <<m_guaranteeTime, m_currentTs, busy, calls>>

IsFinished(r) == m_events[r] = {} \/ m_stop[r]

RunReturn(r) ==
    /\ pc[r] = "run" /\ IsFinished(r)
    /\ Go(r, "done")
    /\ UNCHANGED <<eventVars, promiseVars, sendVars, m_currentTs, m_stop, busy, calls>>

-----------------------------------------------------------------------------
(* Handlers.                                                                *)

\* Mutant: an event that is not safe is executed.
Take_unsafe(r, next) ==
    /\ pc[r] = "run" /\ ~IsFinished(r)
    /\ IsEarliest(next, m_events[r])
    /\ m_currentTs' = [m_currentTs EXCEPT ![r] = next.ts]

\* ProcessOneEvent takes next off the list.
Take(r, next) ==
    /\ pc[r] = "run" /\ ~IsFinished(r)
    /\ IsEarliest(next, m_events[r])
    /\ next.ts <= m_safeTime[r]
    /\ m_currentTs' = [m_currentTs EXCEPT ![r] = next.ts]

Remove(r, next) ==
    /\ m_events' = [m_events EXCEPT ![r] = @ \ {next}]
    /\ UNCHANGED m_uid

UserEvent(r, next) ==
    /\ next.kind = "user"
    /\ Take(r, next) /\ Remove(r, next)
    /\ Go(r, "handler")
    /\ UNCHANGED <<promiseVars, sendVars, m_stop, busy, calls>>

\* The device is ready again; it may start with the next packet of its queue.
TransmitComplete(r, next) ==
    /\ next.kind = "complete"
    /\ Take(r, next) /\ Remove(r, next)
    /\ busy' = [busy EXCEPT ![r] = @ \ {next.of}]
    /\ Go(r, "handler")
    /\ UNCHANGED <<promiseVars, sendVars, m_stop, calls>>

StopEvent(r, next) ==
    /\ next.kind = "stop"
    /\ Take(r, next) /\ Remove(r, next)
    /\ m_stop' = [m_stop EXCEPT ![r] = TRUE]
    /\ Go(r, "arrive")
    /\ UNCHANGED <<promiseVars, sendVars, busy, calls>>

\* Mutant: no further null message is scheduled.
NullMessageEventHandler_once(r, next) ==
    /\ next.kind = "null" /\ next.uid = m_nullEventId[r][next.of]
    /\ Take(r, next) /\ Remove(r, next)
    /\ Send(r, next.of, 0, CalculateGuaranteeTime(r, next.of, m_events[r] \ {next}))
    /\ Go(r, "arrive")
    /\ UNCHANGED <<m_nullEventId, promiseVars, m_stop, busy, calls>>

NullMessageEventHandler(r, next) ==
    /\ next.kind = "null" /\ next.uid = m_nullEventId[r][next.of]
    /\ Take(r, next)
    /\ Send(r, next.of, 0, CalculateGuaranteeTime(r, next.of, m_events[r] \ {next}))
    /\ m_events' = [m_events EXCEPT ![r] = (@ \ {next}) \cup
            {Event(NullTime(r, next.of, next.ts), m_uid[r], "null", next.of)}]
    /\ m_nullEventId' = [m_nullEventId EXCEPT ![r][next.of] = m_uid[r]]
    /\ m_uid' = [m_uid EXCEPT ![r] = @ + 1]
    /\ Go(r, "arrive")
    /\ UNCHANGED <<promiseVars, m_stop, busy, calls>>

\* A null event that was cancelled has lost its id to its successor.
CancelledEvent(r, next) ==
    /\ next.kind = "null" /\ next.uid # m_nullEventId[r][next.of]
    /\ Take(r, next) /\ Remove(r, next)
    /\ Go(r, "arrive")
    /\ UNCHANGED <<promiseVars, sendVars, m_stop, busy, calls>>

MayCall(r) ==
    /\ pc[r] = "handler" /\ calls < MaxCalls
    /\ calls' = calls + 1

Schedule(r, d) ==
    /\ MayCall(r)
    /\ Insert(r, {Event(m_currentTs[r] + d, m_uid[r], "user", None)})
    /\ UNCHANGED <<promiseVars, sendVars, m_currentTs, m_stop, busy, pc>>

\* The device reserves itself; the packet has arrived a link delay after it is on the link.
Complete(r, l, tx) == Event(m_currentTs[r] + tx + InterframeGap[l], m_uid[r], "complete", l)
Arrival(r, l, tx)  == m_currentTs[r] + tx + LinkDelay[l]

TransmitStart(r, l, tx) ==
    LET q      == Remote(l, r)
        nullId == m_uid[r] + 1
    IN  /\ l \in LinksOf(r) \ busy[r]
        /\ MayCall(r)
        /\ busy' = [busy EXCEPT ![r] = @ \cup {l}]
        /\ Send(r, q, Arrival(r, l, tx),
                CalculateGuaranteeTime(r, q, m_events[r] \cup {Complete(r, l, tx)}))
        /\ Insert(r, {Complete(r, l, tx), Event(NullTime(r, q, m_currentTs[r]), nullId, "null", q)})
        /\ m_nullEventId' = [m_nullEventId EXCEPT ![r][q] = nullId]
        /\ UNCHANGED <<promiseVars, m_currentTs, m_stop, pc>>

HandlerReturn(r) ==
    /\ pc[r] = "handler"
    /\ Go(r, "arrive")
    /\ UNCHANGED <<eventVars, promiseVars, sendVars, m_currentTs, m_stop, busy, calls>>

-----------------------------------------------------------------------------
(* ReceiveMessages.                                                         *)

\* The first message from q: a packet is scheduled, and q's promise renewed.
Receive(r, q) ==
    LET m == Head(channel[q][r])
    IN  /\ q \in Neighbours(r) /\ channel[q][r] # <<>>
        /\ channel' = [channel EXCEPT ![q][r] = Tail(@)]
        /\ Insert(r, IF m.rxTime > 0
                     THEN {Event(m.rxTime, m_uid[r], "user", None)} ELSE {})
        /\ m_guaranteeTime' = [m_guaranteeTime EXCEPT ![r][q] = m.guarantee]

\* After an event, whatever has arrived is received ...
HandleArrivingMessagesNonBlocking(r, q) ==
    /\ pc[r] = "arrive"
    /\ Receive(r, q)
    /\ UNCHANGED <<m_safeTime, m_nullEventId, m_currentTs, m_stop, busy, calls, pc>>

\* ... until nothing more has arrived, though messages may be on their way.
CalculateSafeTime(r) ==
    /\ pc[r] = "arrive"
    /\ m_safeTime' = [m_safeTime EXCEPT ![r] = SafeTime(m_guaranteeTime[r])]
    /\ Go(r, "run")
    /\ UNCHANGED <<eventVars, m_guaranteeTime, sendVars, m_currentTs, m_stop, busy, calls>>

\* Mutant: the first message that arrives gives the safe time.
HandleArrivingMessagesBlocking_last(r, q) ==
    /\ pc[r] = "run" /\ ~IsFinished(r) /\ Next(m_events[r]) > m_safeTime[r]
    /\ Receive(r, q)
    /\ m_safeTime' = [m_safeTime EXCEPT ![r] = m_guaranteeTime'[r][q]]
    /\ UNCHANGED <<m_nullEventId, m_currentTs, m_stop, busy, calls, pc>>

\* With nothing safe to do, exactly one message is waited for.
HandleArrivingMessagesBlocking(r, q) ==
    /\ pc[r] = "run" /\ ~IsFinished(r) /\ Next(m_events[r]) > m_safeTime[r]
    /\ Receive(r, q)
    /\ m_safeTime' = [m_safeTime EXCEPT ![r] = SafeTime(m_guaranteeTime'[r])]
    /\ UNCHANGED <<m_nullEventId, m_currentTs, m_stop, busy, calls, pc>>

ProcessOneEvent(r, next) ==
    \/ UserEvent(r, next) \/ TransmitComplete(r, next) \/ StopEvent(r, next)
    \/ NullMessageEventHandler(r, next) \/ CancelledEvent(r, next)

Handler(r) ==
    \/ \E d \in Delay : Schedule(r, d)
    \/ \E l \in Link : \E tx \in TxTime[l] : TransmitStart(r, l, tx)

Loop(r) ==
    \/ RunBegin(r) \/ RunReturn(r)
    \/ \E next \in m_events[r] : ProcessOneEvent(r, next)
    \/ HandlerReturn(r) \/ CalculateSafeTime(r)
    \/ \E q \in Rank : HandleArrivingMessagesBlocking(r, q)

NextStep == \E r \in Rank :
    Handler(r) \/ Loop(r) \/ \E q \in Rank : HandleArrivingMessagesNonBlocking(r, q)

Spec == Init /\ [][NextStep]_vars

\* Every rank that can go on does, its handlers return, and a message that is
\* waited for is delivered.
FairSpec == Spec /\ \A r \in Rank : WF_vars(Loop(r))
-----------------------------------------------------------------------------
(***************************************************************************)
(* "No message should arrive from task nodeSysId with a receive time less  *)
(* than the guarantee time" (null-message-simulator-impl.h:168-170),       *)
(* neither the guarantee held nor one that arrives before it.              *)
(***************************************************************************)
GuaranteeKept ==
    \A r \in Rank : \A q \in Neighbours(r) : \A i \in DOMAIN channel[q][r] :
        LET m == channel[q][r][i]
        IN  m.rxTime > 0 =>
              /\ m_guaranteeTime[r][q] <= m.rxTime
              /\ \A j \in 1..(i - 1) : channel[q][r][j].guarantee <= m.rxTime

(***************************************************************************)
(* The assertions of SetGuaranteeTime and CalculateSafeTime                *)
(* (remote-channel-bundle.cc:83, null-message-simulator-impl.cc:362): a    *)
(* promise that is held or on its way never lies before the receiver's     *)
(* time, whatever the receiver has executed meanwhile.                     *)
(***************************************************************************)
PromisesAhead ==
    \A r \in Rank : \A q \in Neighbours(r) :
        /\ m_currentTs[r] <= m_guaranteeTime[r][q]
        /\ \A i \in DOMAIN channel[q][r] : m_currentTs[r] <= channel[q][r][i].guarantee

(***************************************************************************)
(* What a rank executes next is its earliest event of all, with those that *)
(* are still on their way (ParallelSimulation).                            *)
(***************************************************************************)
Listed(r) == {e \in m_events[r] : e.kind # "null"}

Coming(r) == UNION {{<<q, i>> : i \in {j \in DOMAIN channel[q][r] : channel[q][r][j].rxTime > 0}}
                      : q \in Neighbours(r)}

RxTime(r, m) == channel[m[1]][r][m[2]].rxTime

Times(r) == {e.ts : e \in Listed(r)} \cup {RxTime(r, m) : m \in Coming(r)}

Pending == [r \in Rank |-> [t \in Times(r) |->
                Cardinality({e \in Listed(r) : e.ts = t})
                + Cardinality({m \in Coming(r) : RxTime(r, m) = t})]]

Parallel == INSTANCE ParallelSimulation WITH clock <- m_currentTs, pending <- Pending

ImplementsParallel == Parallel!Spec

(***************************************************************************)
(* The ranks do not wait for one another for ever: null messages bring     *)
(* every rank to the time at which all stop, also when a rank that has     *)
(* stopped sends no more (null-message-simulator-impl.cc:313-327).         *)
(***************************************************************************)
EverybodyFinishes == <>(\A r \in Rank : pc[r] = "done")
=============================================================================
