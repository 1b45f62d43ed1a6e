-------------------------- MODULE GrantedTimeWindow --------------------------
(***************************************************************************)
(* DistributedSimulatorImpl and GrantedTimeWindowMpiInterface (src/mpi):   *)
(* every rank executes its events up to a granted time; then all ranks     *)
(* gather their next event times and their counts of messages, and if no   *)
(* message is in flight they grant themselves a new window.                *)
(*                                                                         *)
(* The ranks share nothing but messages and collective operations.  All    *)
(* variables are indexed by rank but the network.                          *)
(***************************************************************************)
EXTENDS LogicalProcesses, EventKey

CONSTANTS
    Delay,      \* delays that user code asks for
    TxTime,     \* times that a packet takes to be put on a link
    Bound,      \* arguments of BoundLookAhead, Infinity where it is not called
    MaxUid,     \* bound on m_uid: no new event once it is reached
    MaxTx       \* bound on the packets that a rank sends

ASSUME WindowAssumption ==
    /\ Delay \subseteq 0..Infinity /\ TxTime \subseteq Nat
    /\ Bound \subseteq 1..Infinity
    /\ MaxUid \in Nat /\ MaxTx \in Nat

VARIABLES
    m_events,       \* the event list: a set of [ts, uid]
    m_uid,
    m_currentTs,
    m_stop,
    m_lookAhead,    \* as CalculateLookAhead leaves it
    m_grantedTime,
    g_txCount, g_rxCount,
    network,        \* messages sent and not received: a set of [from, no, to, rxTime]
    pc              \* "idle", "run", "handler", "receive", "gather" or "done"

listVars  == <<m_events, m_uid>>
countVars == <<g_txCount, g_rxCount, network>>
vars == <<listVars, countVars, m_currentTs, m_stop, m_lookAhead, m_grantedTime, pc>>

VALID == 4    \* EventId::UID::VALID

Go(r, place) == pc' = [pc EXCEPT ![r] = place]

\* Mutant: the largest delay of a rank's links.
LocalLookAhead_largest(r, bound) ==
    IF Rank = {r} THEN 0
    ELSE IF LinksOf(r) = {} THEN bound
    ELSE Smallest({bound, Largest({LinkDelay[l] : l \in LinksOf(r)})})

\* What a rank finds at its own links, or is told by BoundLookAhead.
LocalLookAhead(r, bound) ==
    IF Rank = {r} THEN 0
    ELSE Smallest({bound} \cup {LinkDelay[l] : l \in LinksOf(r)})

\* After MPI_Allreduce, a rank without a look-ahead takes the largest of others.
LookAhead(bound) ==
    LET own(r)   == LocalLookAhead(r, bound[r])
        recvbuf  == Largest({0} \cup {own(r) : r \in {q \in Rank : own(q) # Infinity}})
    IN  [r \in Rank |-> IF own(r) = Infinity /\ recvbuf # 0 THEN recvbuf ELSE own(r)]

\* Before Run, user code has scheduled some events and removed others.
Init ==
    /\ m_events \in [Rank -> SUBSET {[ts |-> d, uid |-> VALID + d] : d \in Delay}]
    /\ m_uid = [r \in Rank |-> VALID + 1 + Largest({0} \cup Delay)]
    /\ m_currentTs = [r \in Rank |-> 0]
    /\ m_stop = [r \in Rank |-> FALSE]
    /\ \E bound \in [Rank -> Bound] : m_lookAhead = LookAhead(bound)
    /\ m_grantedTime = [r \in Rank |-> 0]
    /\ g_txCount = [r \in Rank |-> 0] /\ g_rxCount = [r \in Rank |-> 0]
    /\ network = {}
    /\ pc = [r \in Rank |-> "idle"]

IsLocalFinished(r) == m_events[r] = {} \/ m_stop[r]

NextTs(r) == IF IsLocalFinished(r) THEN Infinity
             ELSE Smallest({e.ts : e \in m_events[r]})

Insert(r, ts) ==
    /\ m_events' = [m_events EXCEPT ![r] = @ \cup {[ts |-> ts, uid |-> m_uid[r]]}]
    /\ m_uid' = [m_uid EXCEPT ![r] = @ + 1]

-----------------------------------------------------------------------------
(* Handlers.                                                                *)

Schedule(r, d) ==
    /\ pc[r] = "handler"
    /\ m_uid[r] < MaxUid
    /\ Insert(r, m_currentTs[r] + d)
    /\ UNCHANGED <<countVars, m_currentTs, m_stop, m_lookAhead, m_grantedTime, pc>>

Stop(r) ==
    /\ pc[r] = "handler"
    /\ m_stop' = [m_stop EXCEPT ![r] = TRUE]
    /\ UNCHANGED <<listVars, countVars, m_currentTs, m_lookAhead, m_grantedTime, pc>>

\* When a packet that r sends now has arrived at the other end of l.
RxTime(r, l, tx) == m_currentTs[r] + tx + LinkDelay[l]

SendPacket(r, l, tx) ==
    /\ pc[r] = "handler" /\ l \in LinksOf(r)
    /\ g_txCount[r] < MaxTx
    /\ g_txCount' = [g_txCount EXCEPT ![r] = @ + 1]
    /\ network' = network \cup {[from |-> r, no |-> g_txCount[r], to |-> Remote(l, r),
                                 rxTime |-> RxTime(r, l, tx)]}
    /\ UNCHANGED <<listVars, g_rxCount, m_currentTs, m_stop, m_lookAhead, m_grantedTime, pc>>

HandlerReturn(r) ==
    /\ pc[r] = "handler"
    /\ Go(r, "run")
    /\ UNCHANGED <<listVars, countVars, m_currentTs, m_stop, m_lookAhead, m_grantedTime>>

-----------------------------------------------------------------------------
(* Run.                                                                     *)

\* CalculateLookAhead ends in a collective operation: nobody passes it alone.
RunBegin ==
    /\ \A r \in Rank : pc[r] = "idle"
    /\ m_grantedTime' = m_lookAhead
    /\ m_stop' = [r \in Rank |-> FALSE]
    /\ pc' = [r \in Rank |-> "run"]
    /\ UNCHANGED <<listVars, countVars, m_currentTs, m_lookAhead>>

Granted(r) == ~IsLocalFinished(r) /\ NextTs(r) <= m_grantedTime[r]

ProcessOneEvent(r) ==
    /\ pc[r] = "run" /\ Granted(r)
    /\ \E next \in m_events[r] :
          /\ IsEarliest(next, m_events[r])
          /\ m_events' = [m_events EXCEPT ![r] = @ \ {next}]
          /\ m_currentTs' = [m_currentTs EXCEPT ![r] = next.ts]
    /\ Go(r, "handler")
    /\ UNCHANGED <<m_uid, countVars, m_stop, m_lookAhead, m_grantedTime>>

EndOfWindow(r) ==
    /\ pc[r] = "run" /\ ~Granted(r)
    /\ Go(r, "receive")
    /\ UNCHANGED <<listVars, countVars, m_currentTs, m_stop, m_lookAhead, m_grantedTime>>

\* Mutant: the receive is not counted.
ReceiveMessage_uncounted(r) ==
    /\ pc[r] = "receive"
    /\ \E m \in network :
          /\ m.to = r
          /\ network' = network \ {m}
          /\ Insert(r, m.rxTime)
    /\ UNCHANGED <<g_txCount, g_rxCount, m_currentTs, m_stop, m_lookAhead, m_grantedTime, pc>>

\* One turn of the loop of ReceiveMessages: MPI_Testany reports a message, one
\* of those that have arrived, in any order.
ReceiveMessage(r) ==
    /\ pc[r] = "receive"
    /\ \E m \in network :
          /\ m.to = r
          /\ network' = network \ {m}
          /\ Insert(r, m_currentTs[r] + (m.rxTime - m_currentTs[r]))
    /\ g_rxCount' = [g_rxCount EXCEPT ![r] = @ + 1]
    /\ UNCHANGED <<g_txCount, m_currentTs, m_stop, m_lookAhead, m_grantedTime, pc>>

\* No more messages have arrived, though some may be in flight.
Contribute(r) ==
    /\ pc[r] = "receive"
    /\ Go(r, "gather")
    /\ UNCHANGED <<listVars, countVars, m_currentTs, m_stop, m_lookAhead, m_grantedTime>>

\* The sum of a counter over all ranks: totRx, totTx.
Counted(count) == UNION {{r} \X (1..count[r]) : r \in Rank}
Total(count)   == Cardinality(Counted(count))

NoTransients == Total(g_rxCount) = Total(g_txCount)

\* Mutant: a new window is granted in any case.
Allgather_hasty ==
    /\ \A r \in Rank : pc[r] = "gather"
    /\ m_grantedTime' = [r \in Rank |->
             IF m_lookAhead[r] = Infinity THEN Infinity
             ELSE Smallest({NextTs(q) : q \in Rank}) + m_lookAhead[r]]
    /\ pc' = [r \in Rank |->
             IF NoTransients /\ \A q \in Rank : IsLocalFinished(q) THEN "done" ELSE "run"]
    /\ UNCHANGED <<listVars, countVars, m_currentTs, m_stop, m_lookAhead>>

\* Mutant: finished when every rank says so, whatever is in flight.
Allgather_leaves ==
    /\ \A r \in Rank : pc[r] = "gather"
    /\ m_grantedTime' = [r \in Rank |->
             IF ~NoTransients THEN m_grantedTime[r]
             ELSE IF m_lookAhead[r] = Infinity THEN Infinity
             ELSE Smallest({NextTs(q) : q \in Rank}) + m_lookAhead[r]]
    /\ pc' = [r \in Rank |->
             IF \A q \in Rank : IsLocalFinished(q) THEN "done" ELSE "run"]
    /\ UNCHANGED <<listVars, countVars, m_currentTs, m_stop, m_lookAhead>>

\* MPI_Allgather and what every rank makes of it.  A rank does nothing between
\* its contribution and the result: all see the state of all.
Allgather ==
    /\ \A r \in Rank : pc[r] = "gather"
    /\ m_grantedTime' = [r \in Rank |->
             IF ~NoTransients THEN m_grantedTime[r]
             ELSE IF m_lookAhead[r] = Infinity THEN Infinity
             ELSE Smallest({NextTs(q) : q \in Rank}) + m_lookAhead[r]]
    /\ pc' = [r \in Rank |->
             IF NoTransients /\ \A q \in Rank : IsLocalFinished(q) THEN "done" ELSE "run"]
    /\ UNCHANGED <<listVars, countVars, m_currentTs, m_stop, m_lookAhead>>

Handler(r) ==
    \/ \E d \in Delay : Schedule(r, d)
    \/ \E l \in Link, tx \in TxTime : SendPacket(r, l, tx)
    \/ Stop(r)
    \/ HandlerReturn(r)

Run(r) == ProcessOneEvent(r) \/ EndOfWindow(r) \/ ReceiveMessage(r) \/ Contribute(r)

Next == RunBegin \/ Allgather \/ \E r \in Rank : Handler(r) \/ Run(r)

Spec == Init /\ [][Next]_vars

(***************************************************************************)
(* While some rank can go on, one does, and handlers return; MPI delivers  *)
(* in the end to ranks that ask for messages again and again.              *)
(***************************************************************************)
Progress ==
    \/ Allgather
    \/ \E r \in Rank : \/ HandlerReturn(r) \/ ProcessOneEvent(r)
                       \/ EndOfWindow(r) \/ Contribute(r)

Fairness == WF_vars(Progress) /\ SF_vars(\E r \in Rank : ReceiveMessage(r))

FairSpec == Spec /\ Fairness
-----------------------------------------------------------------------------
TypeOK ==
    /\ m_events \in [Rank -> SUBSET [ts : Nat, uid : Nat]]
    /\ m_uid \in [Rank -> Nat] /\ m_currentTs \in [Rank -> Nat]
    /\ m_stop \in [Rank -> BOOLEAN]
    /\ m_lookAhead \in [Rank -> Nat] /\ m_grantedTime \in [Rank -> Nat]
    /\ g_txCount \in [Rank -> Nat] /\ g_rxCount \in [Rank -> Nat]
    /\ network \subseteq [from : Rank, no : Nat, to : Rank, rxTime : Nat]
    /\ pc \in [Rank -> {"idle", "run", "handler", "receive", "gather", "done"}]

(***************************************************************************)
(* The assertion of ProcessOneEvent (distributed-simulator-impl.cc:314):   *)
(* no rank is ever ahead of an event it still has to execute, in its list  *)
(* or on the way to it from another rank.                                  *)
(***************************************************************************)
NothingInThePast ==
    /\ \A r \in Rank : \A e \in m_events[r] : m_currentTs[r] <= e.ts
    /\ \A m \in network : m_currentTs[m.to] <= m.rxTime

(***************************************************************************)
(* "Global halting condition is all nodes have empty queue's and no        *)
(* messages are in-flight" (distributed-simulator-impl.cc:419-421): no     *)
(* rank leaves Run while another still has work, or will have.             *)
(***************************************************************************)
NobodyLeavesEarly ==
    \A r \in Rank : pc[r] = "done" =>
        /\ network = {}
        /\ \A q \in Rank : pc[q] = "done" /\ IsLocalFinished(q)

(***************************************************************************)
(* What a rank executes next is its earliest event of all, with those that *)
(* are still on their way (ParallelSimulation).                            *)
(***************************************************************************)
Times(r) == {e.ts : e \in m_events[r]} \cup {m.rxTime : m \in {n \in network : n.to = r}}

Pending == [r \in Rank |-> [t \in Times(r) |->
                Cardinality({e \in m_events[r] : e.ts = t})
                + Cardinality({m \in network : m.to = r /\ m.rxTime = t})]]

Parallel == INSTANCE ParallelSimulation WITH clock <- m_currentTs, pending <- Pending

ImplementsParallel == Parallel!Spec

(***************************************************************************)
(* The ranks do not wait for one another for ever: when handlers stop      *)
(* making events, every Run returns (IsFinished,                           *)
(* distributed-simulator-impl.cc:368-446).                                 *)
(***************************************************************************)
RunEnds == (\E r \in Rank : pc[r] = "run") ~> (\A r \in Rank : pc[r] = "done")
=============================================================================
