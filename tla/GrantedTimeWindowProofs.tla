----------------------- MODULE GrantedTimeWindowProofs -----------------------
(***************************************************************************)
(* Safety of the granted time window, for any number of ranks, any links   *)
(* and any delays of messages.                                             *)
(*                                                                         *)
(* The argument: there is a time, the base of the window, which every      *)
(* event still to be executed and every message in flight has reached, and *)
(* no rank is further ahead of it than its look-ahead, which is not more   *)
(* than the delay of any link to it.  The base moves only when nothing is  *)
(* in flight, which the counters show because they count each message      *)
(* exactly twice.                                                          *)
(*                                                                         *)
(* It follows that the window implements ParallelSimulation: bags of times *)
(* are compared by the counts of the events and messages for each time.    *)
(***************************************************************************)
EXTENDS GrantedTimeWindow, FiniteSetTheorems, WellFoundedInduction, TLAPS

\* A set of numbers has a smallest element.
LEMMA SmallestIsLeast ==
  ASSUME NEW S, S \subseteq Nat, S # {}
  PROVE  Smallest(S) \in S /\ \A y \in S : Smallest(S) <= y
<1>1. PICK n \in S : \A m \in S : ~(<<m, n>> \in OpToRel(<, Nat))
  BY NatLessThanWellFounded, WFMin
<1>2. \A m \in S : ~(m < n)
  BY <1>1 DEF OpToRel
<1>3. \A m \in S : n <= m
  BY <1>2
<1>. QED BY <1>3 DEF Smallest

\* A bounded one has a largest.
LEMMA LargestIsGreatest ==
  ASSUME NEW N \in Nat, NEW S, S \subseteq 0..N, S # {}
  PROVE  Largest(S) \in S /\ \A y \in S : y <= Largest(S)
<1> DEFINE T == {N - x : x \in S}
<1>1. T \subseteq Nat /\ T # {}
  <2>1. \A x \in S : N - x \in Nat
    OBVIOUS
  <2>. QED BY <2>1
<1>2. Smallest(T) \in T /\ \A y \in T : Smallest(T) <= y
  BY <1>1, SmallestIsLeast
<1>3. PICK x \in S : Smallest(T) = N - x
  BY <1>2
<1>4. \A y \in S : y <= x
  <2> SUFFICES ASSUME NEW y \in S PROVE y <= x
    OBVIOUS
  <2>1. N - x <= N - y
    BY <1>2, <1>3
  <2>. QED BY <2>1
<1>. QED BY <1>4 DEF Largest

-----------------------------------------------------------------------------
(* Links and look-ahead.                                                    *)

LEMMA RemoteIsOther ==
  ASSUME NEW r \in Rank, NEW l \in LinksOf(r)
  PROVE  Remote(l, r) \in Rank /\ Remote(l, r) # r /\ l \in LinksOf(Remote(l, r))
<1>1. l \in Link /\ r \in Ends[l]
  BY DEF LinksOf
<1>2. PICK a \in Rank, b \in Rank : a # b /\ Ends[l] = {a, b}
  BY <1>1, LinkAssumption
<1>3. Remote(l, r) \in Ends[l] /\ Remote(l, r) # r
  BY <1>1, <1>2 DEF Remote
<1>. QED BY <1>1, <1>2, <1>3 DEF LinksOf

LEMMA LocalLookAheadBounds ==
  ASSUME NEW r \in Rank, NEW bound \in Bound
  PROVE  /\ LocalLookAhead(r, bound) \in 0..Infinity
         /\ \A l \in LinksOf(r) : LocalLookAhead(r, bound) <= LinkDelay[l]
<1>1. CASE Rank = {r}
  <2>1. LinksOf(r) = {}
    BY <1>1, RemoteIsOther
  <2>. QED BY <1>1, <2>1, LinkAssumption DEF LocalLookAhead
<1>2. CASE Rank # {r}
  <2> DEFINE S == {bound} \cup {LinkDelay[l] : l \in LinksOf(r)}
  <2>1. S \subseteq 0..Infinity /\ S \subseteq Nat /\ S # {}
    BY LinkAssumption, WindowAssumption DEF LinksOf
  <2>2. Smallest(S) \in S /\ \A y \in S : Smallest(S) <= y
    BY <2>1, SmallestIsLeast
  <2>3. LocalLookAhead(r, bound) = Smallest(S)
    BY <1>2 DEF LocalLookAhead
  <2>. QED BY <2>1, <2>2, <2>3
<1>. QED BY <1>1, <1>2

\* No rank looks further ahead than the shortest of its links.
LookAheadIsSafe ==
  \A r \in Rank : \A l \in LinksOf(r) : m_lookAhead[r] <= LinkDelay[l]

LEMMA LookAheadBounds ==
  ASSUME NEW bound \in [Rank -> Bound]
  PROVE  /\ LookAhead(bound) \in [Rank -> 0..Infinity]
         /\ \A r \in Rank : \A l \in LinksOf(r) : LookAhead(bound)[r] <= LinkDelay[l]
<1> DEFINE own(r) == LocalLookAhead(r, bound[r])
           S == {0} \cup {own(r) : r \in {q \in Rank : own(q) # Infinity}}
<1>1. \A r \in Rank : /\ own(r) \in 0..Infinity
                      /\ \A l \in LinksOf(r) : own(r) <= LinkDelay[l]
  BY LocalLookAheadBounds
<1>2. S \subseteq 0..Infinity /\ S # {} /\ Infinity \in Nat
  BY <1>1, LinkAssumption
<1>3. Largest(S) \in 0..Infinity
  BY <1>2, LargestIsGreatest
<1>4. LookAhead(bound) =
        [r \in Rank |-> IF own(r) = Infinity /\ Largest(S) # 0 THEN Largest(S) ELSE own(r)]
  BY DEF LookAhead
<1> HIDE DEF own, S
<1>5. \A r \in Rank : LookAhead(bound)[r] <= own(r) /\ LookAhead(bound)[r] \in 0..Infinity
  BY <1>1, <1>2, <1>3, <1>4
<1>6. \A r \in Rank : \A l \in LinksOf(r) : LinkDelay[l] \in Nat
  BY LinkAssumption DEF LinksOf
<1>7. ASSUME NEW r \in Rank, NEW l \in LinksOf(r)
      PROVE  LookAhead(bound)[r] <= LinkDelay[l]
  <2>1. own(r) <= LinkDelay[l] /\ own(r) \in 0..Infinity /\ LookAhead(bound)[r] <= own(r)
        /\ LookAhead(bound)[r] \in 0..Infinity /\ LinkDelay[l] \in Nat
    BY <1>1, <1>5, <1>6
  <2>. QED BY <2>1, <1>2
<1>. QED BY <1>4, <1>5, <1>7

-----------------------------------------------------------------------------
(* The counters.                                                            *)

LEMMA InCounted ==
  ASSUME NEW count \in [Rank -> Nat], NEW x
  PROVE  x \in Counted(count) <=> \E q \in Rank : \E i \in 1..count[q] : x = <<q, i>>
BY DEF Counted

LEMMA CountedNext ==
  ASSUME NEW count \in [Rank -> Nat], NEW r \in Rank, IsFiniteSet(Counted(count)),
         NEW next, next = [count EXCEPT ![r] = @ + 1]
  PROVE  /\ IsFiniteSet(Counted(next))
         /\ Cardinality(Counted(next)) = Cardinality(Counted(count)) + 1
<1> DEFINE new == <<r, count[r] + 1>>
<1>1. next \in [Rank -> Nat]
  OBVIOUS
<1>2. new \notin Counted(count)
  BY InCounted
<1>3. ASSUME NEW x
      PROVE  x \in Counted(next) <=> x \in Counted(count) \cup {new}
  <2>1. ASSUME x \in Counted(next) PROVE x \in Counted(count) \cup {new}
    <3>0. PICK q \in Rank : \E i \in 1..next[q] : x = <<q, i>>
      BY <1>1, <2>1, InCounted
    <3>1. PICK i \in 1..next[q] : x = <<q, i>>
      BY <3>0
    <3>2. (q = r /\ i = count[r] + 1) \/ i \in 1..count[q]
      BY <3>1
    <3>. QED BY <3>1, <3>2, InCounted
  <2>2. ASSUME x \in Counted(count) PROVE x \in Counted(next)
    <3>0. PICK q \in Rank : \E i \in 1..count[q] : x = <<q, i>>
      BY <2>2, InCounted
    <3>1. PICK i \in 1..count[q] : x = <<q, i>>
      BY <3>0
    <3>2. i \in 1..next[q]
      BY <3>1
    <3>. QED BY <1>1, <3>1, <3>2, InCounted
  <2>3. new \in Counted(next)
    <3>1. count[r] + 1 \in 1..next[r]
      OBVIOUS
    <3>. QED BY <1>1, <3>1, InCounted
  <2>. QED BY <2>1, <2>2, <2>3
<1>4. Counted(next) = Counted(count) \cup {new}
  BY <1>3
<1> HIDE DEF new
<1>5. /\ IsFiniteSet(Counted(count) \cup {new})
      /\ Cardinality(Counted(count) \cup {new}) = Cardinality(Counted(count)) + 1
  BY <1>2, FS_AddElement
<1>. QED BY <1>4, <1>5

Message == [from : Rank, no : Nat, to : Rank, rxTime : Nat]

\* Every message is counted when sent and, unless still in flight, when received.
Counts ==
  /\ IsFiniteSet(network)
  /\ IsFiniteSet(Counted(g_txCount)) /\ IsFiniteSet(Counted(g_rxCount))
  /\ Total(g_txCount) = Total(g_rxCount) + Cardinality(network)
  /\ \A m \in network : m.no < g_txCount[m.from]

Typing ==
  /\ DOMAIN m_events = Rank
  /\ \A r \in Rank : \A e \in m_events[r] : e.ts \in Nat
  /\ m_currentTs \in [Rank -> Nat]
  /\ m_stop \in [Rank -> BOOLEAN]
  /\ m_lookAhead \in [Rank -> 0..Infinity] /\ m_grantedTime \in [Rank -> Nat]
  /\ g_txCount \in [Rank -> Nat] /\ g_rxCount \in [Rank -> Nat]
  /\ network \subseteq Message
  /\ pc \in [Rank -> {"idle", "run", "handler", "receive", "gather", "done"}]

\* When all counts agree nothing is in flight.
LEMMA NothingInFlight ==
  ASSUME Counts, Typing, NoTransients
  PROVE  network = {}
<1>1. /\ Cardinality(network) \in Nat
      /\ Total(g_txCount) \in Nat /\ Total(g_rxCount) \in Nat
  BY FS_CardinalityType DEF Counts, Total
<1>2. Cardinality(network) = 0
  BY <1>1 DEF Counts, NoTransients
<1>. QED BY <1>2, FS_EmptySet DEF Counts

-----------------------------------------------------------------------------
(* The invariant.                                                           *)

\* The ranks begin and end a run together.
Together ==
  \/ /\ \A r \in Rank : /\ pc[r] = "idle"
                        /\ m_currentTs[r] = 0 /\ m_grantedTime[r] = 0
     /\ network = {}
  \/ \A r \in Rank : pc[r] \in {"run", "handler", "receive", "gather"}
  \/ /\ \A r \in Rank : pc[r] = "done" /\ IsLocalFinished(r)
     /\ network = {}

\* What no rank passes while base is the base of the window.
Horizon(r, base) == IF m_lookAhead[r] = Infinity THEN Infinity ELSE base + m_lookAhead[r]

Window(base) ==
  /\ \A r \in Rank : /\ m_grantedTime[r] <= Horizon(r, base)
                     /\ m_currentTs[r] <= Horizon(r, base)
                     /\ ~m_stop[r] => \A e \in m_events[r] : base <= e.ts
                     /\ pc[r] = "handler" => base <= m_currentTs[r]
  /\ \A m \in network : base <= m.rxTime /\ Horizon(m.to, base) <= m.rxTime

ListAhead == \A r \in Rank : \A e \in m_events[r] : m_currentTs[r] <= e.ts

IInv ==
  /\ Typing /\ Counts /\ LookAheadIsSafe /\ Together /\ ListAhead
  /\ \E base \in Nat : Window(base)

LEMMA InitInvariant == Init => IInv
<1> SUFFICES ASSUME Init PROVE IInv
  OBVIOUS
<1>1. PICK bound \in [Rank -> Bound] : m_lookAhead = LookAhead(bound)
  BY DEF Init
<1>2. m_lookAhead \in [Rank -> 0..Infinity] /\ LookAheadIsSafe
  BY <1>1, LookAheadBounds DEF LookAheadIsSafe
<1>3. Typing
  <2>1. \A r \in Rank : \A e \in m_events[r] : e.ts \in Nat
    BY WindowAssumption DEF Init
  <2>. QED BY <1>2, <2>1 DEF Init, Typing
<1>4. Counts
  <2>1. Counted(g_txCount) = {} /\ Counted(g_rxCount) = {}
    BY DEF Init, Counted
  <2>2. network = {}
    BY DEF Init
  <2>. QED BY <2>1, <2>2, FS_EmptySet DEF Counts, Total
<1>5. Together
  BY DEF Init, Together
<1>6. ListAhead /\ Window(0)
  <2>1. \A r \in Rank : m_lookAhead[r] \in Nat /\ Infinity \in Nat
    BY <1>2, LinkAssumption
  <2>. QED BY <1>3, <2>1 DEF Init, ListAhead, Window, Horizon, Typing
<1>. QED BY <1>2, <1>3, <1>4, <1>5, <1>6 DEF IInv

\* Every rank has a next event time.
LEMMA NextTsBounds ==
  ASSUME Typing, NEW q \in Rank
  PROVE  /\ NextTs(q) \in Nat
         /\ ~IsLocalFinished(q) => \A e \in m_events[q] : NextTs(q) <= e.ts
<1>1. CASE IsLocalFinished(q)
  BY <1>1, LinkAssumption DEF NextTs
<1>2. CASE ~IsLocalFinished(q)
  <2> DEFINE T == {e.ts : e \in m_events[q]}
  <2>1. T \subseteq Nat /\ T # {}
    BY <1>2 DEF IsLocalFinished, Typing
  <2>2. Smallest(T) \in T /\ \A y \in T : Smallest(T) <= y
    BY <2>1, SmallestIsLeast
  <2>3. NextTs(q) = Smallest(T)
    BY <1>2 DEF NextTs
  <2>. QED BY <2>1, <2>2, <2>3
<1>. QED BY <1>1, <1>2

\* The base that Allgather finds is no later than the next event of any rank.
LEMMA NewBaseBounds ==
  ASSUME Typing
  PROVE  LET base == Smallest({NextTs(q) : q \in Rank})
         IN  base \in Nat /\ \A q \in Rank : base <= NextTs(q)
<1> DEFINE N == {NextTs(q) : q \in Rank}
<1>1. N \subseteq Nat /\ N # {}
  BY NextTsBounds, LinkAssumption
<1>2. Smallest(N) \in N /\ \A y \in N : Smallest(N) <= y
  BY <1>1, SmallestIsLeast
<1>. QED BY <1>1, <1>2

LEMMA NextTyping ==
  ASSUME IInv, Next
  PROVE  Typing'
<1> USE DEF Typing
<1>a. IInv => Typing
  BY DEF IInv
<1>1. CASE RunBegin
  BY <1>a, <1>1, LinkAssumption DEF RunBegin, listVars, countVars
<1>2. CASE Allgather
  <2> DEFINE N == {NextTs(q) : q \in Rank}
  <2>2. Smallest(N) \in Nat
    BY <1>a, NewBaseBounds
  <2> HIDE DEF N
  <2>3. m_grantedTime' \in [Rank -> Nat]
    BY <1>a, <1>2, <2>2, LinkAssumption DEF Allgather, N
  <2>4. pc' \in [Rank -> {"idle", "run", "handler", "receive", "gather", "done"}]
    BY <1>2 DEF Allgather
  <2>. QED BY <1>a, <1>2, <2>3, <2>4 DEF Allgather, listVars, countVars
<1>3. ASSUME NEW r \in Rank, NEW d \in Delay, Schedule(r, d)
      PROVE  Typing'
  BY <1>a, <1>3, WindowAssumption DEF Schedule, Insert, countVars
<1>4. ASSUME NEW r \in Rank, NEW l \in Link, NEW tx \in TxTime, SendPacket(r, l, tx)
      PROVE  Typing'
  <2>1. l \in LinksOf(r) /\ Remote(l, r) \in Rank
    BY <1>4, RemoteIsOther DEF SendPacket
  <2>2. RxTime(r, l, tx) \in Nat
    BY <1>a, WindowAssumption, LinkAssumption DEF RxTime
  <2>3. network' \subseteq Message
    BY <1>a, <1>4, <2>1, <2>2 DEF SendPacket, Message
  <2>. QED BY <1>a, <1>4, <2>3 DEF SendPacket, listVars
<1>5. ASSUME NEW r \in Rank, Stop(r) \/ HandlerReturn(r) \/ EndOfWindow(r) \/ Contribute(r)
      PROVE  Typing'
  BY <1>a, <1>5 DEF Stop, HandlerReturn, EndOfWindow, Contribute, Go, listVars, countVars
<1>6. ASSUME NEW r \in Rank, ProcessOneEvent(r)
      PROVE  Typing'
  BY <1>a, <1>6 DEF ProcessOneEvent, IsEarliest, Go, countVars
<1>7. ASSUME NEW r \in Rank, ReceiveMessage(r)
      PROVE  Typing'
  <2>1. PICK m \in network : /\ m.to = r /\ network' = network \ {m}
                             /\ Insert(r, m_currentTs[r] + (m.rxTime - m_currentTs[r]))
    BY <1>7 DEF ReceiveMessage
  <2>2. m.rxTime \in Nat /\ m_currentTs[r] + (m.rxTime - m_currentTs[r]) = m.rxTime
    BY <1>a DEF Message
  <2>. QED BY <1>a, <1>7, <2>1, <2>2 DEF ReceiveMessage, Insert
<1>. QED BY <1>a, <1>1, <1>2, <1>3, <1>4, <1>5, <1>6, <1>7 DEF Next, Handler, Run, IInv

LEMMA NextCounts ==
  ASSUME IInv, Next
  PROVE  Counts'
<1>a. Counts /\ Typing
  BY DEF IInv
<1>b. /\ Cardinality(network) \in Nat
      /\ Total(g_txCount) \in Nat /\ Total(g_rxCount) \in Nat
  BY <1>a, FS_CardinalityType DEF Counts, Total
<1>1. CASE UNCHANGED countVars
  BY <1>1, <1>a DEF Counts, Total, Counted, countVars
<1>2. ASSUME NEW r \in Rank, NEW l \in Link, NEW tx \in TxTime, SendPacket(r, l, tx)
      PROVE  Counts'
  <2> DEFINE m == [from |-> r, no |-> g_txCount[r], to |-> Remote(l, r),
                   rxTime |-> RxTime(r, l, tx)]
  <2>1. /\ g_txCount' = [g_txCount EXCEPT ![r] = @ + 1]
        /\ g_rxCount' = g_rxCount /\ network' = network \cup {m}
    BY <1>2 DEF SendPacket
  <2>2. m.from = r /\ m.no = g_txCount[r]
    OBVIOUS
  <2> HIDE DEF m
  <2>3. m \notin network
    BY <1>a, <2>2 DEF Counts, Typing
  <2>4. IsFiniteSet(network') /\ Cardinality(network') = Cardinality(network) + 1
    BY <1>a, <2>1, <2>3, FS_AddElement DEF Counts
  <2>5. /\ IsFiniteSet(Counted(g_txCount'))
        /\ Cardinality(Counted(g_txCount')) = Cardinality(Counted(g_txCount)) + 1
    BY <1>a, <2>1, CountedNext DEF Counts, Typing
  <2>6. \A n \in network' : n.no < g_txCount'[n.from]
    <3> SUFFICES ASSUME NEW n \in network' PROVE n.no < g_txCount'[n.from]
      OBVIOUS
    <3>1. CASE n \in network
      <4>1. n.no < g_txCount[n.from] /\ n.no \in Nat /\ n.from \in Rank
        BY <1>a, <3>1 DEF Counts, Typing, Message
      <4>. QED BY <1>a, <2>1, <4>1 DEF Typing
    <3>2. CASE n = m
      BY <1>a, <2>1, <2>2, <3>2 DEF Typing
    <3>. QED BY <2>1, <3>1, <3>2
  <2>7. Total(g_txCount') = Total(g_rxCount') + Cardinality(network')
    BY <1>a, <1>b, <2>1, <2>4, <2>5 DEF Counts, Total
  <2>. QED BY <1>a, <2>1, <2>4, <2>5, <2>6, <2>7 DEF Counts, Total, Counted
<1>3. ASSUME NEW r \in Rank, ReceiveMessage(r)
      PROVE  Counts'
  <2>1. PICK m \in network : network' = network \ {m}
    BY <1>3 DEF ReceiveMessage
  <2>2. g_rxCount' = [g_rxCount EXCEPT ![r] = @ + 1] /\ g_txCount' = g_txCount
    BY <1>3 DEF ReceiveMessage
  <2>3. IsFiniteSet(network') /\ Cardinality(network') = Cardinality(network) - 1
    BY <1>a, <2>1, FS_RemoveElement DEF Counts
  <2>4. /\ IsFiniteSet(Counted(g_rxCount'))
        /\ Cardinality(Counted(g_rxCount')) = Cardinality(Counted(g_rxCount)) + 1
    BY <1>a, <2>2, CountedNext DEF Counts, Typing
  <2>5. Total(g_txCount') = Total(g_rxCount') + Cardinality(network')
    BY <1>a, <1>b, <2>2, <2>3, <2>4 DEF Counts, Total
  <2>. QED BY <1>a, <2>1, <2>2, <2>3, <2>4, <2>5 DEF Counts, Total, Counted
<1>4. \/ UNCHANGED countVars
      \/ \E r \in Rank : \E l \in Link, tx \in TxTime : SendPacket(r, l, tx)
      \/ \E r \in Rank : ReceiveMessage(r)
  BY DEF Next, Handler, Run, RunBegin, Allgather, Schedule, Stop, HandlerReturn,
         ProcessOneEvent, EndOfWindow, Contribute
<1>. QED BY <1>1, <1>2, <1>3, <1>4

LEMMA NextLookAhead ==
  ASSUME IInv, Next
  PROVE  m_lookAhead' = m_lookAhead /\ LookAheadIsSafe'
<1>1. m_lookAhead' = m_lookAhead
  BY DEF Next, Handler, Run, RunBegin, Allgather, Schedule, SendPacket, Stop, HandlerReturn,
         ProcessOneEvent, EndOfWindow, ReceiveMessage, Contribute
<1>. QED BY <1>1 DEF IInv, LookAheadIsSafe

\* Only RunBegin and Allgather take all ranks from one part of a run to the next.
LEMMA NextTogether ==
  ASSUME IInv, Next
  PROVE  Together'
<1> DEFINE Inside == {"run", "handler", "receive", "gather"}
<1>a. Typing /\ Counts /\ Together
  BY DEF IInv
<1>1. CASE RunBegin
  BY <1>1, <1>a DEF RunBegin, Together
<1>2. CASE Allgather
  <2>1. CASE NoTransients /\ \A q \in Rank : IsLocalFinished(q)
    <3>1. network = {}
      BY <1>a, <2>1, NothingInFlight
    <3>2. \A r \in Rank : pc'[r] = "done"
      BY <1>2, <2>1 DEF Allgather
    <3>3. \A r \in Rank : IsLocalFinished(r)'
      BY <1>2, <2>1 DEF Allgather, IsLocalFinished, listVars
    <3>. QED BY <1>2, <3>1, <3>2, <3>3 DEF Allgather, Together, countVars
  <2>2. CASE ~(NoTransients /\ \A q \in Rank : IsLocalFinished(q))
    BY <1>2, <2>2 DEF Allgather, Together
  <2>. QED BY <2>1, <2>2
<1>3. ASSUME NEW r \in Rank, Handler(r) \/ Run(r)
      PROVE  Together'
  <2>1. pc[r] \in Inside /\ \E place \in Inside : pc' = [pc EXCEPT ![r] = place]
    <3>1. pc[r] \in Inside
      BY <1>3 DEF Handler, Run, Schedule, SendPacket, Stop, HandlerReturn, ProcessOneEvent,
                  EndOfWindow, ReceiveMessage, Contribute
    <3>2. pc' = pc \/ \E place \in Inside : pc' = [pc EXCEPT ![r] = place]
      BY <1>3 DEF Handler, Run, Schedule, SendPacket, Stop, HandlerReturn, ProcessOneEvent,
                  EndOfWindow, ReceiveMessage, Contribute, Go
    <3>3. pc = [pc EXCEPT ![r] = pc[r]]
      BY <1>a DEF Typing
    <3>. QED BY <3>1, <3>2, <3>3
  <2>2. \A q \in Rank : pc[q] \in Inside
    BY <1>a, <2>1 DEF Together
  <2>3. \A q \in Rank : pc'[q] \in Inside
    BY <1>a, <2>1, <2>2 DEF Typing
  <2>. QED BY <2>3 DEF Together
<1>. QED BY <1>1, <1>2, <1>3 DEF Next

\* The horizon of a rank is a time, and follows the base.
LEMMA HorizonBounds ==
  ASSUME Typing, NEW r \in Rank, NEW base \in Nat, NEW later \in Nat, base <= later
  PROVE  /\ Horizon(r, base) \in Nat /\ Horizon(r, base) <= Horizon(r, later)
         /\ m_lookAhead[r] # Infinity => Horizon(r, base) = base + m_lookAhead[r]
BY LinkAssumption DEF Horizon, Typing

LEMMA NextWindow ==
  ASSUME IInv, Next, NEW base \in Nat, Window(base)
  PROVE  \E b \in Nat : Window(b)'
<1>a. Typing /\ Counts /\ Together /\ LookAheadIsSafe /\ ListAhead
  BY DEF IInv
<1>b. m_lookAhead' = m_lookAhead
  BY NextLookAhead
<1>c. \A r \in Rank, b \in Nat : Horizon(r, b)' = Horizon(r, b)
  BY <1>b DEF Horizon
<1>d. \A r \in Rank, b \in Nat : Horizon(r, b) \in Nat
  BY <1>a, HorizonBounds
<1>e. \A n \in network : n.to \in Rank
  BY <1>a DEF Typing, Message
<1>1. CASE RunBegin
  <2>1. \A r \in Rank : m_currentTs[r] = 0 /\ network = {}
    BY <1>1, <1>a DEF RunBegin, Together
  <2>2. \A r \in Rank : m_lookAhead[r] <= Horizon(r, 0) /\ 0 <= Horizon(r, 0)
    BY <1>a, LinkAssumption DEF Horizon, Typing
  <2>3. Window(0)'
    <3>1. \A r \in Rank : \A e \in m_events[r] : 0 <= e.ts
      BY <1>a DEF Typing
    <3>2. \A r \in Rank : Horizon(r, 0)' = Horizon(r, 0)
      BY <1>c
    <3>3. network' = {} /\ \A r \in Rank : m_currentTs'[r] = 0 /\ m_events'[r] = m_events[r]
      BY <1>1, <2>1, LinkAssumption DEF RunBegin, listVars, countVars
    <3>4. \A r \in Rank : m_grantedTime'[r] = m_lookAhead[r] /\ pc'[r] # "handler"
      BY <1>1 DEF RunBegin
    <3>. QED BY <2>2, <3>1, <3>2, <3>3, <3>4 DEF Window
  <2>. QED BY <2>3
<1>2. CASE Allgather
  <2>0. PICK found \in Nat : /\ found = Smallest({NextTs(q) : q \in Rank})
                             /\ \A q \in Rank : found <= NextTs(q)
    BY <1>a, NewBaseBounds
  <2>1. CASE ~NoTransients
    <3>1. m_grantedTime' = m_grantedTime
      BY <1>2, <1>a, <2>1 DEF Allgather, Typing
    <3>2. \A r \in Rank : pc'[r] # "handler"
      BY <1>2 DEF Allgather
    <3>3. UNCHANGED <<m_events, m_currentTs, m_stop, network>>
      BY <1>2 DEF Allgather, listVars, countVars
    <3>. QED BY <1>c, <1>e, <3>1, <3>2, <3>3 DEF Window
  <2>2. CASE NoTransients
    <3>1. network = {}
      BY <1>a, <2>2, NothingInFlight
    <3>2. \A r \in Rank : m_grantedTime'[r] =
              IF m_lookAhead[r] = Infinity THEN Infinity ELSE found + m_lookAhead[r]
      BY <1>2, <2>0, <2>2 DEF Allgather
    <3>3. PICK later \in Nat : /\ base <= later /\ found <= later
                               /\ later = base \/ later = found
      <4>1. CASE base <= found
        BY <4>1
      <4>2. CASE found <= base
        BY <4>2
      <4>. QED BY <4>1, <4>2
    <3>4. \A r \in Rank : m_grantedTime'[r] <= Horizon(r, later)
      <4> SUFFICES ASSUME NEW r \in Rank PROVE m_grantedTime'[r] <= Horizon(r, later)
        OBVIOUS
      <4>1. m_grantedTime'[r] = Horizon(r, found)
        BY <3>2 DEF Horizon
      <4>. QED BY <1>a, <2>0, <3>3, <4>1, HorizonBounds
    <3>5. \A r \in Rank : m_currentTs[r] <= Horizon(r, later)
      <4> SUFFICES ASSUME NEW r \in Rank PROVE m_currentTs[r] <= Horizon(r, later)
        OBVIOUS
      <4>1. m_currentTs[r] <= Horizon(r, base) /\ m_currentTs[r] \in Nat
        BY <1>a DEF Window, Typing
      <4>2. /\ Horizon(r, base) \in Nat /\ Horizon(r, later) \in Nat
        BY <1>d
      <4>3. Horizon(r, base) <= Horizon(r, later)
        BY <1>a, <3>3, HorizonBounds
      <4>. QED BY <4>1, <4>2, <4>3
    <3>6. \A r \in Rank : ~m_stop[r] => \A e \in m_events[r] : later <= e.ts
      <4> SUFFICES ASSUME NEW r \in Rank, ~m_stop[r], NEW e \in m_events[r]
                   PROVE  later <= e.ts
        OBVIOUS
      <4>1. base <= e.ts /\ e.ts \in Nat
        BY <1>a DEF Window, Typing
      <4>2. ~IsLocalFinished(r)
        BY DEF IsLocalFinished
      <4>3. found <= NextTs(r) /\ NextTs(r) <= e.ts /\ NextTs(r) \in Nat
        BY <1>a, <2>0, <4>2, NextTsBounds
      <4>. QED BY <3>3, <4>1, <4>3
    <3>7. \A r \in Rank : pc'[r] # "handler"
      BY <1>2 DEF Allgather
    <3>8. network' = {} /\ UNCHANGED <<m_events, m_currentTs, m_stop>>
      BY <1>2, <3>1 DEF Allgather, listVars, countVars
    <3>9. Window(later)'
      BY <1>c, <3>4, <3>5, <3>6, <3>7, <3>8 DEF Window
    <3>. QED BY <3>9
  <2>. QED BY <2>1, <2>2
<1>3. ASSUME NEW r \in Rank, NEW d \in Delay, Schedule(r, d)
      PROVE  Window(base)'
  <2>1. m_currentTs[r] + d >= base
    BY <1>a, <1>3, WindowAssumption DEF Schedule, Window, Typing
  <2>2. \A q \in Rank : \A e \in m_events'[q] : e \in m_events[q] \/ e.ts >= base
    BY <1>a, <1>3, <2>1 DEF Schedule, Insert, Typing
  <2>3. UNCHANGED <<m_currentTs, m_stop, m_grantedTime, network, pc>>
    BY <1>3 DEF Schedule, countVars
  <2>. QED BY <1>c, <1>e, <2>2, <2>3 DEF Window
<1>4. ASSUME NEW r \in Rank, NEW l \in Link, NEW tx \in TxTime, SendPacket(r, l, tx)
      PROVE  Window(base)'
  <2> DEFINE to == Remote(l, r)
             m == [from |-> r, no |-> g_txCount[r], to |-> to, rxTime |-> RxTime(r, l, tx)]
  <2>1. to \in Rank /\ m_lookAhead[to] <= LinkDelay[l]
    BY <1>a, <1>4, RemoteIsOther DEF SendPacket, LookAheadIsSafe
  <2>2. /\ base <= m_currentTs[r] /\ m_currentTs[r] \in Nat /\ tx \in Nat
        /\ LinkDelay[l] \in Nat /\ m_lookAhead[to] \in Nat /\ Infinity \in Nat
    BY <1>a, <1>4, <2>1, WindowAssumption, LinkAssumption DEF SendPacket, Window, Typing
  <2>3. base <= RxTime(r, l, tx)
    BY <2>2 DEF RxTime
  <2>4. Horizon(to, base) <= RxTime(r, l, tx)
    BY <2>1, <2>2 DEF RxTime, Horizon
  <2>5. network' = network \cup {m} /\ m.to = to /\ m.rxTime = RxTime(r, l, tx)
    BY <1>4 DEF SendPacket
  <2> HIDE DEF m, to
  <2>6. \A n \in network' : base <= n.rxTime /\ Horizon(n.to, base) <= n.rxTime
    BY <2>3, <2>4, <2>5 DEF Window
  <2>7. \A n \in network' : n.to \in Rank
    BY <1>a, <2>1, <2>5 DEF Typing, Message
  <2>8. \A n \in network' : base <= n.rxTime /\ Horizon(n.to, base)' <= n.rxTime
    BY <1>c, <2>6, <2>7
  <2>. QED BY <1>4, <1>c, <2>8 DEF SendPacket, Window, listVars
<1>5. ASSUME NEW r \in Rank, Stop(r) \/ HandlerReturn(r) \/ EndOfWindow(r) \/ Contribute(r)
      PROVE  Window(base)'
  <2>1. \A q \in Rank : (pc'[q] = "handler" => pc[q] = "handler") /\ (~m_stop'[q] => ~m_stop[q])
    BY <1>a, <1>5 DEF Stop, HandlerReturn, EndOfWindow, Contribute, Go, Typing
  <2>2. UNCHANGED <<m_events, m_currentTs, m_grantedTime, network>>
    BY <1>5 DEF Stop, HandlerReturn, EndOfWindow, Contribute, listVars, countVars
  <2>. QED BY <1>c, <1>e, <2>1, <2>2 DEF Window
<1>6. ASSUME NEW r \in Rank, ProcessOneEvent(r)
      PROVE  Window(base)'
  <2>1. PICK next \in m_events[r] : /\ IsEarliest(next, m_events[r])
                                    /\ m_events' = [m_events EXCEPT ![r] = @ \ {next}]
                                    /\ m_currentTs' = [m_currentTs EXCEPT ![r] = next.ts]
    BY <1>6 DEF ProcessOneEvent
  <2>2. ~IsLocalFinished(r) /\ NextTs(r) <= m_grantedTime[r]
    BY <1>6 DEF ProcessOneEvent, Granted
  <2>3. next.ts = NextTs(r)
    <3> DEFINE T == {e.ts : e \in m_events[r]}
    <3>1. T \subseteq Nat /\ T # {}
      BY <1>a, <2>1 DEF Typing
    <3>2. Smallest(T) \in T /\ \A y \in T : Smallest(T) <= y
      BY <3>1, SmallestIsLeast
    <3>3. \A f \in m_events[r] : next.ts <= f.ts
      BY <1>a, <2>1 DEF IsEarliest, Less, Typing
    <3>4. NextTs(r) = Smallest(T)
      BY <2>2 DEF NextTs
    <3>5. PICK f \in m_events[r] : Smallest(T) = f.ts
      BY <3>2
    <3>6. next.ts \in T /\ next.ts \in Nat /\ f.ts \in Nat
      BY <3>1
    <3> HIDE DEF T
    <3>7. next.ts <= Smallest(T) /\ Smallest(T) <= next.ts /\ Smallest(T) \in Nat
      BY <3>2, <3>3, <3>5, <3>6
    <3>. QED BY <3>4, <3>6, <3>7
  <2>4. base <= next.ts
    BY <2>2 DEF Window, IsLocalFinished
  <2>5. next.ts <= Horizon(r, base)
    <3>1. next.ts <= m_grantedTime[r] /\ m_grantedTime[r] <= Horizon(r, base)
      BY <2>2, <2>3 DEF Window
    <3>. QED BY <1>a, <1>d, <3>1 DEF Typing
  <2>6. \A q \in Rank : m_currentTs'[q] = IF q = r THEN next.ts ELSE m_currentTs[q]
    BY <1>a, <2>1 DEF Typing
  <2>7. \A q \in Rank : m_events'[q] \subseteq m_events[q]
    BY <1>a, <2>1 DEF Typing
  <2>8. \A q \in Rank : pc'[q] = "handler" => q = r \/ pc[q] = "handler"
    BY <1>a, <1>6 DEF ProcessOneEvent, Go, Typing
  <2>9. UNCHANGED <<m_stop, m_grantedTime, network>>
    BY <1>6 DEF ProcessOneEvent, countVars
  <2>10. \A q \in Rank : /\ m_grantedTime'[q] <= Horizon(q, base)'
                         /\ m_currentTs'[q] <= Horizon(q, base)'
    BY <1>c, <2>5, <2>6, <2>9 DEF Window
  <2>11. \A q \in Rank : /\ ~m_stop'[q] => \A e \in m_events'[q] : base <= e.ts
                         /\ pc'[q] = "handler" => base <= m_currentTs'[q]
    BY <2>4, <2>6, <2>7, <2>8, <2>9 DEF Window
  <2>12. \A n \in network' : base <= n.rxTime /\ Horizon(n.to, base)' <= n.rxTime
    BY <1>c, <1>e, <2>9 DEF Window
  <2>. QED BY <2>10, <2>11, <2>12 DEF Window
<1>7. ASSUME NEW r \in Rank, ReceiveMessage(r)
      PROVE  Window(base)'
  <2>1. PICK m \in network : /\ m.to = r /\ network' = network \ {m}
                             /\ Insert(r, m_currentTs[r] + (m.rxTime - m_currentTs[r]))
    BY <1>7 DEF ReceiveMessage
  <2>2. m_currentTs[r] + (m.rxTime - m_currentTs[r]) = m.rxTime
    BY <1>a DEF Typing, Message
  <2>3. \A q \in Rank : \A e \in m_events'[q] : e \in m_events[q] \/ e.ts = m.rxTime
    BY <1>a, <2>1, <2>2 DEF Insert, Typing
  <2>. QED BY <1>7, <1>c, <1>e, <2>1, <2>3 DEF ReceiveMessage, Window
<1>. QED BY <1>1, <1>2, <1>3, <1>4, <1>5, <1>6, <1>7 DEF Next, Handler, Run

LEMMA NextListAhead ==
  ASSUME IInv, Next
  PROVE  ListAhead'
<1>a. Typing /\ ListAhead /\ Together
  BY DEF IInv
<1>b. PICK base \in Nat : Window(base)
  BY DEF IInv
<1>1. CASE UNCHANGED <<m_events, m_currentTs>>
  BY <1>a, <1>1 DEF ListAhead
<1>2. ASSUME NEW r \in Rank, NEW d \in Delay, Schedule(r, d)
      PROVE  ListAhead'
  <2>1. \A q \in Rank : \A e \in m_events'[q] :
            e \in m_events[q] \/ (q = r /\ e.ts = m_currentTs[r] + d)
    BY <1>a, <1>2 DEF Schedule, Insert, Typing
  <2>2. m_currentTs[r] <= m_currentTs[r] + d
    BY <1>a, WindowAssumption DEF Typing
  <2>. QED BY <1>a, <1>2, <2>1, <2>2 DEF Schedule, ListAhead
<1>3. ASSUME NEW r \in Rank, ProcessOneEvent(r)
      PROVE  ListAhead'
  <2>1. PICK next \in m_events[r] : /\ IsEarliest(next, m_events[r])
                                    /\ m_events' = [m_events EXCEPT ![r] = @ \ {next}]
                                    /\ m_currentTs' = [m_currentTs EXCEPT ![r] = next.ts]
    BY <1>3 DEF ProcessOneEvent
  <2>2. \A f \in m_events[r] : next.ts <= f.ts
    BY <1>a, <2>1 DEF IsEarliest, Less, Typing
  <2>3. \A q \in Rank : \A e \in m_events'[q] : e \in m_events[q]
    BY <1>a, <2>1 DEF Typing
  <2>4. \A q \in Rank : m_currentTs'[q] = IF q = r THEN next.ts ELSE m_currentTs[q]
    BY <1>a, <2>1 DEF Typing
  <2>. QED BY <1>a, <2>2, <2>3, <2>4 DEF ListAhead
<1>4. ASSUME NEW r \in Rank, ReceiveMessage(r)
      PROVE  ListAhead'
  <2>1. PICK m \in network : /\ m.to = r
                             /\ Insert(r, m_currentTs[r] + (m.rxTime - m_currentTs[r]))
    BY <1>4 DEF ReceiveMessage
  <2>2. m_currentTs[r] + (m.rxTime - m_currentTs[r]) = m.rxTime /\ m.rxTime \in Nat
    BY <1>a DEF Typing, Message
  <2>3. m_currentTs[r] <= m.rxTime
    <3>1. /\ Horizon(r, base) <= m.rxTime /\ Horizon(r, base) \in Nat
          /\ m_currentTs[r] <= Horizon(r, base) /\ m_currentTs[r] \in Nat
      BY <1>a, <1>b, <2>1, HorizonBounds DEF Window, Typing
    <3>. QED BY <2>2, <3>1
  <2>4. \A q \in Rank : \A e \in m_events'[q] : e \in m_events[q] \/ (q = r /\ e.ts = m.rxTime)
    BY <1>a, <2>1, <2>2 DEF Insert, Typing
  <2>. QED BY <1>a, <1>4, <2>3, <2>4 DEF ReceiveMessage, ListAhead
<1>5. \/ UNCHANGED <<m_events, m_currentTs>>
      \/ \E r \in Rank : \/ \E d \in Delay : Schedule(r, d)
                         \/ ProcessOneEvent(r) \/ ReceiveMessage(r)
  BY DEF Next, Handler, Run, RunBegin, Allgather, SendPacket, Stop, HandlerReturn,
         EndOfWindow, Contribute, listVars
<1>. QED BY <1>1, <1>2, <1>3, <1>4, <1>5

LEMMA Stutter ==
  ASSUME IInv, UNCHANGED vars
  PROVE  IInv'
<1>1. UNCHANGED <<m_events, m_uid, g_txCount, g_rxCount, network, m_currentTs, m_stop,
                  m_lookAhead, m_grantedTime, pc>>
  BY DEF vars, listVars, countVars
<1>2. Typing' /\ Counts' /\ LookAheadIsSafe' /\ Together' /\ ListAhead'
  BY <1>1 DEF IInv, Typing, Counts, Total, Counted, LookAheadIsSafe, Together,
              IsLocalFinished, ListAhead
<1>3. PICK base \in Nat : Window(base)
  BY DEF IInv
<1>4. Window(base)'
  BY <1>1, <1>3 DEF Window, Horizon
<1>. QED BY <1>2, <1>4 DEF IInv

LEMMA InvariantHolds == Spec => []IInv
<1>1. ASSUME IInv, [Next]_vars PROVE IInv'
  <2>1. CASE Next
    <3>1. PICK base \in Nat : Window(base)
      BY <1>1 DEF IInv
    <3>2. \E b \in Nat : Window(b)'
      BY <1>1, <2>1, <3>1, NextWindow
    <3>. QED BY <1>1, <2>1, <3>2, NextTyping, NextCounts, NextLookAhead, NextTogether,
                NextListAhead DEF IInv
  <2>2. CASE UNCHANGED vars
    BY <1>1, <2>2, Stutter
  <2>. QED BY <1>1, <2>1, <2>2
<1>. QED BY <1>1, InitInvariant, PTL DEF Spec

-----------------------------------------------------------------------------
(***************************************************************************)
(* The assertion of ProcessOneEvent: no rank is ever ahead of an event or  *)
(* of a message that is still to come, whatever the delays of messages.    *)
(***************************************************************************)
THEOREM WindowIsSafe == Spec => []NothingInThePast
<1>1. IInv => NothingInThePast
  <2> SUFFICES ASSUME IInv, NEW m \in network PROVE m_currentTs[m.to] <= m.rxTime
    BY DEF IInv, ListAhead, NothingInThePast
  <2>1. PICK base \in Nat : Window(base)
    BY DEF IInv
  <2>2. Typing /\ m.to \in Rank /\ m.rxTime \in Nat
    BY DEF IInv, Typing, Message
  <2>3. /\ m_currentTs[m.to] <= Horizon(m.to, base) /\ Horizon(m.to, base) <= m.rxTime
        /\ m_currentTs[m.to] \in Nat /\ Horizon(m.to, base) \in Nat
    BY <2>1, <2>2, HorizonBounds DEF Window, Typing
  <2>. QED BY <2>2, <2>3
<1>. QED BY <1>1, InvariantHolds, PTL

(***************************************************************************)
(* The global halting condition: a rank leaves Run only when all do, and   *)
(* nothing is in flight or left to execute.                                *)
(***************************************************************************)
THEOREM HaltsTogether == Spec => []NobodyLeavesEarly
<1>1. IInv => NobodyLeavesEarly
  BY DEF IInv, Together, NobodyLeavesEarly
<1>. QED BY <1>1, InvariantHolds, PTL

-----------------------------------------------------------------------------
(* Bags of times, by their counts.                                          *)

At(L, t) == {e \in L : e.ts = t}
DueAt(N, t) == {m \in N : m.rxTime = t}

\* How many of the events L and of the messages N are for time t.
Count(L, N, t) == Cardinality(At(L, t)) + Cardinality(DueAt(N, t))

BagOf(L, N) == [t \in {e.ts : e \in L} \cup {m.rxTime : m \in N} |-> Count(L, N, t)]

LEMMA CountIsMultiplicity ==
  ASSUME NEW L, NEW N, IsFiniteSet(L), IsFiniteSet(N), NEW t
  PROVE  /\ Count(L, N, t) \in Nat
         /\ t \in DOMAIN BagOf(L, N) <=> Count(L, N, t) > 0
         /\ t \in DOMAIN BagOf(L, N) => BagOf(L, N)[t] = Count(L, N, t)
<1>1. /\ IsFiniteSet(At(L, t)) /\ Cardinality(At(L, t)) \in Nat
      /\ Cardinality(At(L, t)) = 0 <=> At(L, t) = {}
  BY FS_Subset, FS_CardinalityType, FS_EmptySet DEF At
<1>2. /\ IsFiniteSet(DueAt(N, t)) /\ Cardinality(DueAt(N, t)) \in Nat
      /\ Cardinality(DueAt(N, t)) = 0 <=> DueAt(N, t) = {}
  BY FS_Subset, FS_CardinalityType, FS_EmptySet DEF DueAt
<1>3. Count(L, N, t) = 0 <=> At(L, t) = {} /\ DueAt(N, t) = {}
  BY <1>1, <1>2 DEF Count
<1>4. t \in DOMAIN BagOf(L, N) <=> At(L, t) # {} \/ DueAt(N, t) # {}
  BY DEF BagOf, At, DueAt
<1>5. t \in DOMAIN BagOf(L, N) => BagOf(L, N)[t] = Count(L, N, t)
  BY DEF BagOf
<1>6. Count(L, N, t) \in Nat
  BY <1>1, <1>2 DEF Count
<1>. QED BY <1>3, <1>4, <1>5, <1>6

LEMMA SameCountsSameBag ==
  ASSUME NEW L, NEW N, IsFiniteSet(L), IsFiniteSet(N),
         NEW M, NEW O, IsFiniteSet(M), IsFiniteSet(O),
         \A t : Count(M, O, t) = Count(L, N, t)
  PROVE  BagOf(M, O) = BagOf(L, N)
<1>1. \A t : t \in DOMAIN BagOf(M, O) <=> t \in DOMAIN BagOf(L, N)
  BY CountIsMultiplicity
<1>2. DOMAIN BagOf(M, O) = DOMAIN BagOf(L, N)
  BY <1>1
<1>3. \A t \in DOMAIN BagOf(L, N) : BagOf(M, O)[t] = BagOf(L, N)[t]
  BY <1>2, CountIsMultiplicity
<1>4. /\ BagOf(M, O) = [t \in DOMAIN BagOf(M, O) |-> BagOf(M, O)[t]]
      /\ BagOf(L, N) = [t \in DOMAIN BagOf(L, N) |-> BagOf(L, N)[t]]
  BY DEF BagOf
<1>. QED BY <1>2, <1>3, <1>4

LEMMA BagOfIsABag ==
  ASSUME NEW L, NEW N, IsFiniteSet(L), IsFiniteSet(N)
  PROVE  Parallel!IsABag(BagOf(L, N))
<1>1. \A t \in DOMAIN BagOf(L, N) : BagOf(L, N)[t] \in {n \in Nat : n > 0}
  BY CountIsMultiplicity
<1>2. BagOf(L, N) = [t \in DOMAIN BagOf(L, N) |-> BagOf(L, N)[t]]
  BY DEF BagOf
<1>. QED BY <1>1, <1>2 DEF Parallel!IsABag

\* A count that grows, by one, at one time only.
MoreAt(L, N, M, O, s) ==
  \A t : Count(M, O, t) = Count(L, N, t) + (IF t = s THEN 1 ELSE 0)

LEMMA OneTimeEnters ==
  ASSUME NEW L, NEW N, IsFiniteSet(L), IsFiniteSet(N),
         NEW M, NEW O, IsFiniteSet(M), IsFiniteSet(O),
         NEW s, MoreAt(L, N, M, O, s)
  PROVE  /\ Parallel!\sqsubseteq(BagOf(L, N), BagOf(M, O))
         /\ \A t \in Parallel!BagToSet(Parallel!(-)(BagOf(M, O), BagOf(L, N))) : t = s
<1> DEFINE B == BagOf(L, N)
           C == BagOf(M, O)
           Extra(t) == IF t \in DOMAIN B THEN C[t] - B[t] ELSE C[t]
<1>1. ASSUME NEW t
      PROVE  /\ t \in DOMAIN B => t \in DOMAIN C /\ B[t] <= C[t]
             /\ t \in DOMAIN C /\ t # s => ~(Extra(t) > 0)
  <2>1. /\ Count(L, N, t) \in Nat /\ Count(M, O, t) \in Nat
        /\ t \in DOMAIN B <=> Count(L, N, t) > 0
        /\ t \in DOMAIN B => B[t] = Count(L, N, t)
        /\ t \in DOMAIN C <=> Count(M, O, t) > 0
        /\ t \in DOMAIN C => C[t] = Count(M, O, t)
    BY CountIsMultiplicity
  <2>2. Count(M, O, t) = Count(L, N, t) + (IF t = s THEN 1 ELSE 0)
    BY DEF MoreAt
  <2> HIDE DEF B, C
  <2>. QED BY <2>1, <2>2
<1>2. Parallel!BagToSet(Parallel!(-)(C, B)) = {t \in DOMAIN C : Extra(t) > 0}
  <2> HIDE DEF B, C
  <2>. QED BY DEF Parallel!BagToSet, Parallel!(-)
<1> HIDE DEF B, C, Extra
<1>3. /\ Parallel!\sqsubseteq(B, C)
      /\ \A t \in Parallel!BagToSet(Parallel!(-)(C, B)) : t = s
  BY <1>1, <1>2 DEF Parallel!\sqsubseteq
<1>. QED BY <1>3 DEF B, C

LEMMA OneTimeLeaves ==
  ASSUME NEW L, NEW N, IsFiniteSet(L), IsFiniteSet(N),
         NEW M, NEW O, IsFiniteSet(M), IsFiniteSet(O),
         NEW s, MoreAt(M, O, L, N, s)
  PROVE  /\ s \in Parallel!BagToSet(BagOf(L, N))
         /\ BagOf(M, O) = Parallel!(-)(BagOf(L, N), Parallel!SetToBag({s}))
<1> DEFINE B == BagOf(L, N)
           C == BagOf(M, O)
           Left(t) == IF t = s THEN B[t] - 1 ELSE B[t]
<1>1. ASSUME NEW t
      PROVE  /\ t \in DOMAIN C <=> t \in DOMAIN B /\ Left(t) > 0
             /\ t \in DOMAIN C => C[t] = Left(t)
             /\ s \in DOMAIN B
  <2>1. /\ Count(L, N, t) \in Nat /\ Count(M, O, t) \in Nat
        /\ t \in DOMAIN B <=> Count(L, N, t) > 0
        /\ t \in DOMAIN B => B[t] = Count(L, N, t)
        /\ t \in DOMAIN C <=> Count(M, O, t) > 0
        /\ t \in DOMAIN C => C[t] = Count(M, O, t)
    BY CountIsMultiplicity
  <2>2. Count(L, N, t) = Count(M, O, t) + (IF t = s THEN 1 ELSE 0)
    BY DEF MoreAt
  <2>3. s \in DOMAIN B
    <3>1. /\ Count(L, N, s) \in Nat /\ Count(M, O, s) \in Nat
          /\ s \in DOMAIN B <=> Count(L, N, s) > 0
      BY CountIsMultiplicity
    <3>2. Count(L, N, s) = Count(M, O, s) + 1
      BY DEF MoreAt
    <3>. QED BY <3>1, <3>2
  <2> HIDE DEF B, C
  <2>. QED BY <2>1, <2>2, <2>3
<1>2. C = [t \in DOMAIN C |-> C[t]]
  BY DEF BagOf
<1>3. Parallel!(-)(B, Parallel!SetToBag({s}))
        = [t \in {d \in DOMAIN B : Left(d) > 0} |-> Left(t)]
  <2> HIDE DEF B, C
  <2>1. DOMAIN Parallel!SetToBag({s}) = {s} /\ Parallel!SetToBag({s})[s] = 1
    BY DEF Parallel!SetToBag
  <2>2. Parallel!(-)(B, Parallel!SetToBag({s})) =
          LET D == [e \in DOMAIN B |-> IF e \in DOMAIN Parallel!SetToBag({s})
                                       THEN B[e] - Parallel!SetToBag({s})[e] ELSE B[e]]
          IN  [e \in {d \in DOMAIN D : D[d] > 0} |-> D[e]]
    BY DEF Parallel!(-)
  <2>. QED BY <2>1, <2>2
<1> HIDE DEF B, C, Left
<1>4. DOMAIN C = {d \in DOMAIN B : Left(d) > 0}
  BY <1>1
<1>5. s \in Parallel!BagToSet(B) /\ C = Parallel!(-)(B, Parallel!SetToBag({s}))
  BY <1>1, <1>2, <1>3, <1>4 DEF Parallel!BagToSet
<1>. QED BY <1>5 DEF B, C

LEMMA EventEnters ==
  ASSUME NEW L, NEW N, IsFiniteSet(L), IsFiniteSet(N), NEW e, e \notin L
  PROVE  MoreAt(L, N, L \cup {e}, N, e.ts) /\ IsFiniteSet(L \cup {e})
<1>1. ASSUME NEW t
      PROVE  Count(L \cup {e}, N, t) = Count(L, N, t) + (IF t = e.ts THEN 1 ELSE 0)
  <2>1. /\ IsFiniteSet(At(L, t)) /\ Cardinality(At(L, t)) \in Nat
        /\ Cardinality(DueAt(N, t)) \in Nat /\ e \notin At(L, t)
    BY FS_Subset, FS_CardinalityType DEF At, DueAt
  <2>2. At(L \cup {e}, t) = IF t = e.ts THEN At(L, t) \cup {e} ELSE At(L, t)
    BY DEF At
  <2>3. Cardinality(At(L, t) \cup {e}) = Cardinality(At(L, t)) + 1
    BY <2>1, FS_AddElement
  <2>. QED BY <2>1, <2>2, <2>3 DEF Count
<1>. QED BY <1>1, FS_AddElement DEF MoreAt

LEMMA MessageEnters ==
  ASSUME NEW L, NEW N, IsFiniteSet(L), IsFiniteSet(N), NEW m, m \notin N
  PROVE  MoreAt(L, N, L, N \cup {m}, m.rxTime) /\ IsFiniteSet(N \cup {m})
<1>1. ASSUME NEW t
      PROVE  Count(L, N \cup {m}, t) = Count(L, N, t) + (IF t = m.rxTime THEN 1 ELSE 0)
  <2>1. /\ IsFiniteSet(DueAt(N, t)) /\ Cardinality(DueAt(N, t)) \in Nat
        /\ Cardinality(At(L, t)) \in Nat /\ m \notin DueAt(N, t)
    BY FS_Subset, FS_CardinalityType DEF At, DueAt
  <2>2. DueAt(N \cup {m}, t) = IF t = m.rxTime THEN DueAt(N, t) \cup {m} ELSE DueAt(N, t)
    BY DEF DueAt
  <2>3. Cardinality(DueAt(N, t) \cup {m}) = Cardinality(DueAt(N, t)) + 1
    BY <2>1, FS_AddElement
  <2>. QED BY <2>1, <2>2, <2>3 DEF Count
<1>. QED BY <1>1, FS_AddElement DEF MoreAt

LEMMA EventLeaves ==
  ASSUME NEW L, NEW N, IsFiniteSet(L), IsFiniteSet(N), NEW e \in L
  PROVE  MoreAt(L \ {e}, N, L, N, e.ts) /\ IsFiniteSet(L \ {e})
<1>1. IsFiniteSet(L \ {e}) /\ e \notin L \ {e} /\ L = (L \ {e}) \cup {e}
  BY FS_RemoveElement
<1> DEFINE M == L \ {e}
<1> HIDE DEF M
<1>2. MoreAt(M, N, M \cup {e}, N, e.ts)
  BY <1>1, EventEnters DEF M
<1>. QED BY <1>1, <1>2 DEF M

\* A message that becomes an event.
LEMMA MessageReceived ==
  ASSUME NEW L, NEW N, IsFiniteSet(L), IsFiniteSet(N),
         NEW m \in N, NEW e, e \notin L, e.ts = m.rxTime
  PROVE  BagOf(L \cup {e}, N \ {m}) = BagOf(L, N)
<1> DEFINE O == N \ {m}
<1>1. IsFiniteSet(O) /\ m \notin O /\ N = O \cup {m}
  BY FS_RemoveElement
<1> HIDE DEF O
<1>2. MoreAt(L, O, L, O \cup {m}, m.rxTime)
  BY <1>1, MessageEnters
<1>3. MoreAt(L, O, L \cup {e}, O, e.ts) /\ IsFiniteSet(L \cup {e})
  BY <1>1, EventEnters
<1>4. \A t : Count(L \cup {e}, O, t) = Count(L, N, t)
  BY <1>1, <1>2, <1>3 DEF MoreAt
<1>5. BagOf(L \cup {e}, O) = BagOf(L, N)
  BY <1>1, <1>3, <1>4, SameCountsSameBag
<1>. QED BY <1>5 DEF O

-----------------------------------------------------------------------------
(* What is pending.                                                         *)

MessagesTo(net, r) == {m \in net : m.to = r}

PendingOf(events, net) == [r \in Rank |-> BagOf(events[r], MessagesTo(net, r))]

LEMMA PendingAsBags ==
  /\ Pending = PendingOf(m_events, network)
  /\ Pending' = PendingOf(m_events', network')
<1>1. ASSUME NEW events, NEW net
      PROVE  PendingOf(events, net) =
               [r \in Rank |-> [t \in {e.ts : e \in events[r]}
                                      \cup {m.rxTime : m \in {n \in net : n.to = r}} |->
                    Cardinality({e \in events[r] : e.ts = t})
                    + Cardinality({m \in net : m.to = r /\ m.rxTime = t})]]
  <2>1. \A r, t : DueAt(MessagesTo(net, r), t) = {m \in net : m.to = r /\ m.rxTime = t}
    BY DEF DueAt, MessagesTo
  <2>2. ASSUME NEW r \in Rank
        PROVE  BagOf(events[r], MessagesTo(net, r)) =
                 [t \in {e.ts : e \in events[r]}
                        \cup {m.rxTime : m \in {n \in net : n.to = r}} |->
                    Cardinality({e \in events[r] : e.ts = t})
                    + Cardinality({m \in net : m.to = r /\ m.rxTime = t})]
    <3>1. \A t : Count(events[r], MessagesTo(net, r), t) =
                    Cardinality({e \in events[r] : e.ts = t})
                    + Cardinality({m \in net : m.to = r /\ m.rxTime = t})
      BY <2>1 DEF Count, At
    <3>. QED BY <3>1 DEF BagOf, MessagesTo
  <2>. QED BY <2>2 DEF PendingOf
<1>2. Pending = PendingOf(m_events, network)
  BY <1>1 DEF Pending, Times
<1>3. Pending' = PendingOf(m_events', network')
  BY <1>1 DEF Pending, Times
<1>. QED BY <1>2, <1>3

-----------------------------------------------------------------------------
(* The step mapping.                                                        *)

\* The unique ids are unique: the next one is larger than those in the list.
Fresh ==
  /\ m_events \in [Rank -> SUBSET [ts : Nat, uid : Nat]] /\ m_uid \in [Rank -> Nat]
  /\ \A r \in Rank : IsFiniteSet(m_events[r])
  /\ \A r \in Rank : \A e \in m_events[r] : e.uid < m_uid[r]

LEMMA InitFresh == Init => Fresh
<1> SUFFICES ASSUME Init PROVE Fresh
  OBVIOUS
<1> DEFINE D == {0} \cup Delay
           E == {[ts |-> d, uid |-> VALID + d] : d \in Delay}
<1>1. D \subseteq 0..Infinity /\ D # {} /\ Infinity \in Nat
  BY WindowAssumption, LinkAssumption
<1>2. Largest(D) \in D /\ \A d \in D : d <= Largest(D)
  BY <1>1, LargestIsGreatest
<1>3. \A r \in Rank : m_events[r] \subseteq E /\ m_uid[r] = VALID + 1 + Largest(D)
  BY DEF Init
<1>4. m_uid \in [Rank -> Nat]
  <2>1. Largest(D) \in Nat /\ VALID + 1 + Largest(D) \in Nat
    BY <1>1, <1>2 DEF VALID
  <2>2. m_uid = [r \in Rank |-> VALID + 1 + Largest(D)]
    BY DEF Init
  <2> HIDE DEF D
  <2>. QED BY <2>1, <2>2
<1>5. IsFiniteSet(E)
  <2>1. E \subseteq {[ts |-> d, uid |-> VALID + d] : d \in 0..Infinity}
    BY <1>1
  <2>2. IsFiniteSet(0..Infinity)
    BY <1>1, FS_Interval
  <2> DEFINE f == [d \in 0..Infinity |-> [ts |-> d, uid |-> VALID + d]]
             T == {[ts |-> d, uid |-> VALID + d] : d \in 0..Infinity}
  <2>3. f \in Surjection(0..Infinity, T)
    BY DEF Surjection
  <2>4. IsFiniteSet(T)
    BY <2>2, <2>3, FS_Surjection
  <2>. QED BY <2>1, <2>4, FS_Subset
<1>6. \A e \in E : e \in [ts : Nat, uid : Nat] /\ e.uid < VALID + 1 + Largest(D)
  <2>1. \A d \in Delay : d <= Largest(D) /\ d \in Nat /\ Largest(D) \in Nat
    BY <1>1, <1>2
  <2> HIDE DEF D
  <2>2. \A d \in Delay : /\ d \in Nat /\ VALID + d \in Nat
                        /\ VALID + d < VALID + 1 + Largest(D)
    BY <2>1 DEF VALID
  <2>3. \A e \in E : \E d \in Delay : e = [ts |-> d, uid |-> VALID + d]
    OBVIOUS
  <2>. QED BY <2>2, <2>3
<1>7. m_events \in [Rank -> SUBSET E]
  BY DEF Init
<1> HIDE DEF D, E
<1>8. \A r \in Rank : IsFiniteSet(m_events[r])
  BY <1>3, <1>5, FS_Subset
<1>9. m_events \in [Rank -> SUBSET [ts : Nat, uid : Nat]]
  BY <1>6, <1>7
<1>. QED BY <1>3, <1>4, <1>6, <1>8, <1>9 DEF Fresh

\* One event more, with the next unique id.
LEMMA InsertFresh ==
  ASSUME Typing, Fresh, NEW r \in Rank, NEW t \in Nat, Insert(r, t)
  PROVE  Fresh'
<1> DEFINE e == [ts |-> t, uid |-> m_uid[r]]
<1>1. m_events' = [m_events EXCEPT ![r] = @ \cup {e}] /\ m_uid' = [m_uid EXCEPT ![r] = @ + 1]
  BY DEF Insert
<1>2. e.uid = m_uid[r] /\ e \in [ts : Nat, uid : Nat]
  BY DEF Fresh
<1> HIDE DEF e
<1>3. \A q \in Rank : m_events'[q] = IF q = r THEN m_events[q] \cup {e} ELSE m_events[q]
  BY <1>1 DEF Typing
<1>4. \A q \in Rank : m_uid'[q] = IF q = r THEN m_uid[q] + 1 ELSE m_uid[q]
  BY <1>1 DEF Fresh
<1>5. m_uid' \in [Rank -> Nat] /\ \A q \in Rank : m_uid[q] \in Nat
  BY <1>1 DEF Fresh
<1>6. \A q \in Rank : IsFiniteSet(m_events'[q])
  <2>1. \A q \in Rank : IsFiniteSet(m_events[q]) /\ IsFiniteSet(m_events[q] \cup {e})
    BY FS_AddElement DEF Fresh
  <2>. QED BY <1>3, <2>1
<1>7. ASSUME NEW q \in Rank, NEW f \in m_events'[q]
      PROVE  f.uid < m_uid'[q]
  <2>1. CASE f \in m_events[q]
    <3>1. f.uid \in Nat /\ f.uid < m_uid[q]
      BY <2>1 DEF Fresh
    <3>. QED BY <1>4, <1>5, <3>1
  <2>2. CASE q = r /\ f = e
    BY <1>2, <1>4, <1>5, <2>2
  <2>. QED BY <1>3, <2>1, <2>2
<1>8. m_events' \in [Rank -> SUBSET [ts : Nat, uid : Nat]]
  BY <1>1, <1>2 DEF Fresh
<1>. QED BY <1>5, <1>6, <1>7, <1>8 DEF Fresh

LEMMA NextFresh ==
  ASSUME IInv, Fresh, Next
  PROVE  Fresh'
<1>a. Typing
  BY DEF IInv
<1>1. CASE UNCHANGED listVars
  BY <1>1 DEF Fresh, listVars
<1>2. ASSUME NEW r \in Rank, NEW t \in Nat, Insert(r, t)
      PROVE  Fresh'
  BY <1>a, <1>2, InsertFresh
<1>3. ASSUME NEW r \in Rank, ProcessOneEvent(r)
      PROVE  Fresh'
  <2>1. PICK e \in m_events[r] : m_events' = [m_events EXCEPT ![r] = @ \ {e}]
    BY <1>3 DEF ProcessOneEvent
  <2>2. \A q \in Rank : m_events'[q] = m_events[q] \/ m_events'[q] = m_events[q] \ {e}
    BY <1>a, <2>1 DEF Typing
  <2>3. \A q \in Rank : IsFiniteSet(m_events'[q])
    <3>1. \A q \in Rank : IsFiniteSet(m_events[q]) /\ IsFiniteSet(m_events[q] \ {e})
      BY FS_RemoveElement DEF Fresh
    <3>. QED BY <2>2, <3>1
  <2>4. m_uid' = m_uid
    BY <1>3 DEF ProcessOneEvent
  <2>5. m_events' \in [Rank -> SUBSET [ts : Nat, uid : Nat]]
    BY <2>1 DEF Fresh
  <2>. QED BY <2>2, <2>3, <2>4, <2>5 DEF Fresh
<1>4. \/ UNCHANGED listVars
      \/ \E r \in Rank : ProcessOneEvent(r) \/ \E t \in Nat : Insert(r, t)
  <2>1. ASSUME NEW r \in Rank, NEW d \in Delay, Schedule(r, d)
        PROVE  \E t \in Nat : Insert(r, t)
    BY <1>a, <2>1, WindowAssumption, LinkAssumption DEF Schedule, Typing
  <2>2. ASSUME NEW r \in Rank, ReceiveMessage(r)
        PROVE  \E t \in Nat : Insert(r, t)
    <3>1. PICK m \in network : Insert(r, m_currentTs[r] + (m.rxTime - m_currentTs[r]))
      BY <2>2 DEF ReceiveMessage
    <3>2. m_currentTs[r] + (m.rxTime - m_currentTs[r]) = m.rxTime /\ m.rxTime \in Nat
      BY <1>a DEF Typing, Message
    <3>. QED BY <3>1, <3>2
  <2>. QED
    BY <2>1, <2>2 DEF Next, Handler, Run, RunBegin, Allgather, SendPacket, Stop, HandlerReturn,
                      EndOfWindow, Contribute, listVars
<1>. QED BY <1>1, <1>2, <1>3, <1>4

LEMMA FreshHolds == Spec => []Fresh
<1>1. ASSUME IInv, Fresh, [Next]_vars PROVE Fresh'
  <2>1. CASE Next
    BY <1>1, <2>1, NextFresh
  <2>2. CASE UNCHANGED vars
    BY <1>1, <2>2 DEF Fresh, vars, listVars
  <2>. QED BY <1>1, <2>1, <2>2
<1>. QED BY <1>1, InitFresh, InvariantHolds, PTL DEF Spec

LEMMA NothingEnters ==
  ASSUME NEW L, NEW N, IsFiniteSet(L), IsFiniteSet(N)
  PROVE  /\ Parallel!\sqsubseteq(BagOf(L, N), BagOf(L, N))
         /\ Parallel!BagToSet(Parallel!(-)(BagOf(L, N), BagOf(L, N))) = {}
<1> DEFINE B == BagOf(L, N)
<1>1. \A t \in DOMAIN B : B[t] \in Nat
  BY CountIsMultiplicity
<1> HIDE DEF B
<1>2. /\ Parallel!\sqsubseteq(B, B)
      /\ Parallel!BagToSet(Parallel!(-)(B, B)) = {}
  BY <1>1 DEF Parallel!\sqsubseteq, Parallel!BagToSet, Parallel!(-)
<1>. QED BY <1>2 DEF B

LEMMA FinitePending ==
  ASSUME IInv, Fresh, NEW r \in Rank
  PROVE  IsFiniteSet(m_events[r]) /\ IsFiniteSet(MessagesTo(network, r))
<1>1. MessagesTo(network, r) \subseteq network /\ IsFiniteSet(network)
  BY DEF MessagesTo, IInv, Counts
<1>. QED BY <1>1, FS_Subset DEF Fresh

\* Schedule is a call that makes an event of the caller's own.
LEMMA ScheduleCalls ==
  ASSUME IInv, Fresh, NEW r \in Rank, NEW d \in Delay, Schedule(r, d)
  PROVE  Parallel!Call(r)
<1> DEFINE s == m_currentTs[r] + d
           e == [ts |-> s, uid |-> m_uid[r]]
           B(q) == BagOf(m_events[q], MessagesTo(network, q))
<1>a. Typing
  BY DEF IInv
<1>1. /\ m_events' = [m_events EXCEPT ![r] = @ \cup {e}]
      /\ network' = network /\ m_currentTs' = m_currentTs
  BY DEF Schedule, Insert, countVars
<1>2. e \notin m_events[r] /\ e.ts = s
  <2>1. m_uid[r] \in Nat /\ e.uid = m_uid[r]
    BY DEF Fresh
  <2>. QED BY <2>1 DEF Fresh
<1>3. m_currentTs[r] <= s
  BY <1>a, WindowAssumption, LinkAssumption DEF Typing
<1> HIDE DEF e, s
<1>4. \A q \in Rank : Pending[q] = B(q)
  BY PendingAsBags DEF PendingOf
<1>5. \A q \in Rank : q # r => Pending'[q] = B(q)
  BY <1>a, <1>1, PendingAsBags DEF PendingOf, Typing
<1>6. Pending'[r] = BagOf(m_events[r] \cup {e}, MessagesTo(network, r))
  BY <1>a, <1>1, PendingAsBags DEF PendingOf, Typing
<1> HIDE DEF B
<1>7. ASSUME NEW q \in Rank
      PROVE  /\ Parallel!\sqsubseteq(Pending[q], Pending'[q])
             /\ \A t \in Parallel!BagToSet(Parallel!(-)(Pending'[q], Pending[q])) :
                   q = r /\ m_currentTs'[r] <= t
  <2>0. IsFiniteSet(m_events[q]) /\ IsFiniteSet(MessagesTo(network, q))
    BY FinitePending
  <2>1. CASE q = r
    <3>1. /\ MoreAt(m_events[r], MessagesTo(network, r),
                    m_events[r] \cup {e}, MessagesTo(network, r), s)
          /\ IsFiniteSet(m_events[r] \cup {e})
      BY <1>2, <2>0, <2>1, EventEnters
    <3>2. /\ Parallel!\sqsubseteq(Pending[r], Pending'[r])
          /\ \A t \in Parallel!BagToSet(Parallel!(-)(Pending'[r], Pending[r])) : t = s
      BY <1>4, <1>6, <2>0, <2>1, <3>1, OneTimeEnters DEF B
    <3>. QED BY <1>1, <1>3, <2>1, <3>2
  <2>2. CASE q # r
    BY <1>4, <1>5, <2>0, <2>2, NothingEnters DEF B
  <2>. QED BY <2>1, <2>2
<1>. QED BY <1>1, <1>7 DEF Parallel!Call, Parallel!Spawn

\* SendPacket is a call that makes an event of a neighbour's.
LEMMA SendPacketCalls ==
  ASSUME IInv, Fresh, NothingInThePast', NEW r \in Rank, NEW l \in Link, NEW tx \in TxTime,
         SendPacket(r, l, tx)
  PROVE  Parallel!Call(r)
<1> DEFINE to == Remote(l, r)
           s == RxTime(r, l, tx)
           m == [from |-> r, no |-> g_txCount[r], to |-> to, rxTime |-> s]
           B(q) == BagOf(m_events[q], MessagesTo(network, q))
<1>a. Typing
  BY DEF IInv
<1>1. /\ network' = network \cup {m} /\ l \in LinksOf(r)
      /\ m_events' = m_events /\ m_currentTs' = m_currentTs
  BY DEF SendPacket, listVars
<1>2. m.to = to /\ m.rxTime = s /\ m.from = r /\ m.no = g_txCount[r]
  OBVIOUS
<1>3. m_currentTs[r] + LinkDelay[l] <= s
  BY <1>a, WindowAssumption, LinkAssumption DEF RxTime, Typing
<1>4. to \in Rank /\ to # r
  BY <1>1, RemoteIsOther
<1> HIDE DEF m, s
<1>5. m \notin network
  BY <1>a, <1>2 DEF IInv, Counts, Typing
<1>6. m_currentTs[to] <= s
  BY <1>1, <1>2 DEF NothingInThePast
<1>7. \A q \in Rank : Pending[q] = B(q)
  BY PendingAsBags DEF PendingOf
<1>8. /\ MessagesTo(network', to) = MessagesTo(network, to) \cup {m}
      /\ \A q \in Rank : q # to => MessagesTo(network', q) = MessagesTo(network, q)
  BY <1>1, <1>2 DEF MessagesTo
<1>9. /\ Pending'[to] = BagOf(m_events[to], MessagesTo(network, to) \cup {m})
      /\ \A q \in Rank : q # to => Pending'[q] = B(q)
  BY <1>1, <1>4, <1>8, PendingAsBags DEF PendingOf
<1> HIDE DEF B
<1>10. ASSUME NEW q \in Rank
       PROVE  /\ Parallel!\sqsubseteq(Pending[q], Pending'[q])
              /\ \A t \in Parallel!BagToSet(Parallel!(-)(Pending'[q], Pending[q])) :
                    q = to /\ t = s
  <2>0. IsFiniteSet(m_events[q]) /\ IsFiniteSet(MessagesTo(network, q))
    BY FinitePending
  <2>1. CASE q = to
    <3>0. m \notin MessagesTo(network, to)
      BY <1>5 DEF MessagesTo
    <3>1. /\ MoreAt(m_events[to], MessagesTo(network, to),
                    m_events[to], MessagesTo(network, to) \cup {m}, s)
          /\ IsFiniteSet(MessagesTo(network, to) \cup {m})
      BY <1>2, <2>0, <2>1, <3>0, MessageEnters
    <3>2. /\ Parallel!\sqsubseteq(Pending[to], Pending'[to])
          /\ \A t \in Parallel!BagToSet(Parallel!(-)(Pending'[to], Pending[to])) : t = s
      BY <1>7, <1>9, <2>0, <2>1, <3>1, OneTimeEnters DEF B
    <3>. QED BY <2>1, <3>2
  <2>2. CASE q # to
    BY <1>7, <1>9, <2>0, <2>2, NothingEnters DEF B
  <2>. QED BY <2>1, <2>2
<1>11. l \in Parallel!LinksOf(r) /\ Parallel!Remote(l, r) = to
  BY <1>1 DEF Parallel!LinksOf, Parallel!Remote, LinksOf, Remote
<1> HIDE DEF to
<1>12. Parallel!Spawn(r, Pending)
  BY <1>1, <1>3, <1>4, <1>6, <1>10, <1>11 DEF Parallel!Spawn
<1>. QED BY <1>1, <1>12 DEF Parallel!Call

\* The hand-over of a message from the network to the list cannot be seen.
LEMMA ReceiveMessageStutters ==
  ASSUME IInv, Fresh, NEW r \in Rank, ReceiveMessage(r)
  PROVE  UNCHANGED <<m_currentTs, Pending>>
<1>a. Typing
  BY DEF IInv
<1>1. PICK m \in network : /\ m.to = r /\ network' = network \ {m}
                           /\ Insert(r, m_currentTs[r] + (m.rxTime - m_currentTs[r]))
  BY DEF ReceiveMessage
<1>2. m_currentTs[r] + (m.rxTime - m_currentTs[r]) = m.rxTime
  BY <1>a DEF Typing, Message
<1> DEFINE e == [ts |-> m.rxTime, uid |-> m_uid[r]]
<1>3. m_events' = [m_events EXCEPT ![r] = @ \cup {e}]
  BY <1>1, <1>2 DEF Insert
<1>4. e \notin m_events[r] /\ e.ts = m.rxTime
  <2>1. m_uid[r] \in Nat /\ e.uid = m_uid[r]
    BY DEF Fresh
  <2>. QED BY <2>1 DEF Fresh
<1> HIDE DEF e
<1>5. /\ m \in MessagesTo(network, r)
      /\ MessagesTo(network', r) = MessagesTo(network, r) \ {m}
      /\ \A q \in Rank : q # r => MessagesTo(network', q) = MessagesTo(network, q)
  BY <1>1 DEF MessagesTo
<1>6. \A q \in Rank : BagOf(m_events'[q], MessagesTo(network', q))
                         = BagOf(m_events[q], MessagesTo(network, q))
  <2> SUFFICES ASSUME NEW q \in Rank
               PROVE  BagOf(m_events'[q], MessagesTo(network', q))
                        = BagOf(m_events[q], MessagesTo(network, q))
    OBVIOUS
  <2>1. CASE q = r
    <3>1. m_events'[r] = m_events[r] \cup {e}
      BY <1>a, <1>3 DEF Typing
    <3>2. BagOf(m_events[r] \cup {e}, MessagesTo(network, r) \ {m})
            = BagOf(m_events[r], MessagesTo(network, r))
      BY <1>4, <1>5, FinitePending, MessageReceived
    <3>. QED BY <1>5, <2>1, <3>1, <3>2
  <2>2. CASE q # r
    BY <1>a, <1>3, <1>5, <2>2 DEF Typing
  <2>. QED BY <2>1, <2>2
<1>7. PendingOf(m_events', network') = PendingOf(m_events, network)
  BY <1>6 DEF PendingOf
<1>. QED BY <1>7, PendingAsBags DEF ReceiveMessage

\* An event is executed when nothing sooner can come, from anywhere.
LEMMA ProcessOneEventExecutes ==
  ASSUME IInv, Fresh, NothingInThePast', NEW r \in Rank, ProcessOneEvent(r)
  PROVE  Parallel!Execute(r)
<1> DEFINE B(q) == BagOf(m_events[q], MessagesTo(network, q))
<1>a. Typing
  BY DEF IInv
<1>1. PICK e \in m_events[r] : /\ m_events' = [m_events EXCEPT ![r] = @ \ {e}]
                               /\ m_currentTs' = [m_currentTs EXCEPT ![r] = e.ts]
  BY DEF ProcessOneEvent
<1>2. network' = network
  BY DEF ProcessOneEvent, countVars
<1>3. \A q \in Rank : Pending[q] = B(q)
  BY PendingAsBags DEF PendingOf
<1>4. /\ Pending'[r] = BagOf(m_events[r] \ {e}, MessagesTo(network, r))
      /\ \A q \in Rank : q # r => Pending'[q] = B(q)
  BY <1>a, <1>1, <1>2, PendingAsBags DEF PendingOf, Typing
<1>5. /\ e.ts \in Parallel!BagToSet(Pending[r])
      /\ Pending'[r] = Parallel!(-)(Pending[r], Parallel!SetToBag({e.ts}))
  <2>0. IsFiniteSet(m_events[r]) /\ IsFiniteSet(MessagesTo(network, r))
    BY FinitePending
  <2>1. /\ MoreAt(m_events[r] \ {e}, MessagesTo(network, r),
                  m_events[r], MessagesTo(network, r), e.ts)
        /\ IsFiniteSet(m_events[r] \ {e})
    BY <2>0, EventLeaves
  <2>. QED BY <1>3, <1>4, <2>0, <2>1, OneTimeLeaves
<1>6. Parallel!Due(r, e.ts)
  <2>1. m_currentTs'[r] = e.ts
    BY <1>a, <1>1 DEF Typing
  <2>2. \A f \in m_events[r] : f = e \/ e.ts <= f.ts
    BY <1>a, <1>1, <2>1 DEF NothingInThePast, Typing
  <2>3. \A m \in MessagesTo(network, r) : e.ts <= m.rxTime
    BY <1>2, <2>1 DEF NothingInThePast, MessagesTo
  <2>4. e.ts \in Nat
    BY <1>a DEF Typing
  <2>5. \A s \in DOMAIN B(r) : e.ts <= s
    BY <2>2, <2>3, <2>4 DEF BagOf
  <2>. QED BY <1>3, <2>5 DEF Parallel!Due, Parallel!BagToSet
<1> HIDE DEF B
<1>7. PICK left : left = [Pending EXCEPT ![r] = Parallel!(-)(@, Parallel!SetToBag({e.ts}))]
  OBVIOUS
<1>8. \A q \in Rank : left[q] = Pending'[q]
  <2>1. DOMAIN Pending = Rank
    BY DEF Pending
  <2>. QED BY <1>3, <1>4, <1>5, <1>7, <2>1
<1>9. ASSUME NEW q \in Rank
      PROVE  /\ Parallel!\sqsubseteq(left[q], Pending'[q])
             /\ Parallel!BagToSet(Parallel!(-)(Pending'[q], left[q])) = {}
  <2>0. IsFiniteSet(m_events[q]) /\ IsFiniteSet(MessagesTo(network, q))
        /\ IsFiniteSet(m_events[q] \ {e})
    BY FinitePending, FS_RemoveElement
  <2>1. CASE q = r
    BY <1>4, <1>8, <2>0, <2>1, NothingEnters
  <2>2. CASE q # r
    BY <1>4, <1>8, <2>0, <2>2, NothingEnters DEF B
  <2>. QED BY <2>1, <2>2
<1>10. Parallel!Spawn(r, left)
  BY <1>9 DEF Parallel!Spawn
<1>. QED BY <1>1, <1>5, <1>6, <1>7, <1>10 DEF Parallel!Execute

LEMMA StepImplementsParallel ==
  ASSUME IInv, Fresh, NothingInThePast', [Next]_vars
  PROVE  [Parallel!Next]_<<m_currentTs, Pending>>
<1>1. CASE UNCHANGED <<m_events, network, m_currentTs>>
  BY <1>1, PendingAsBags DEF PendingOf
<1>2. ASSUME NEW r \in Rank, NEW d \in Delay, Schedule(r, d)
      PROVE  Parallel!Next
  BY <1>2, ScheduleCalls DEF Parallel!Next
<1>3. ASSUME NEW r \in Rank, NEW l \in Link, NEW tx \in TxTime, SendPacket(r, l, tx)
      PROVE  Parallel!Next
  BY <1>3, SendPacketCalls DEF Parallel!Next
<1>4. ASSUME NEW r \in Rank, ProcessOneEvent(r)
      PROVE  Parallel!Next
  BY <1>4, ProcessOneEventExecutes DEF Parallel!Next
<1>5. ASSUME NEW r \in Rank, ReceiveMessage(r)
      PROVE  UNCHANGED <<m_currentTs, Pending>>
  BY <1>5, ReceiveMessageStutters
<1>6. \/ UNCHANGED <<m_events, network, m_currentTs>>
      \/ \E r \in Rank : \/ \E d \in Delay : Schedule(r, d)
                         \/ \E l \in Link, tx \in TxTime : SendPacket(r, l, tx)
                         \/ ProcessOneEvent(r)
                         \/ ReceiveMessage(r)
  BY DEF Next, Handler, Run, RunBegin, Allgather, Stop, HandlerReturn, EndOfWindow, Contribute,
         listVars, countVars, vars
<1>. QED BY <1>1, <1>2, <1>3, <1>4, <1>5, <1>6

LEMMA InitImplementsParallel == Init => Parallel!Init
<1> SUFFICES ASSUME Init PROVE Parallel!Init
  OBVIOUS
<1>1. Fresh /\ IInv
  BY InitFresh, InitInvariant
<1>2. \A r \in Rank : Parallel!IsABag(Pending[r])
  BY <1>1, FinitePending, BagOfIsABag, PendingAsBags DEF PendingOf
<1>. QED BY <1>2 DEF Init, Parallel!Init

\* All variables of all ranks keep their types, whatever arrives from others.
THEOREM TypesAreKept == Spec => []TypeOK
<1>1. IInv /\ Fresh => TypeOK
  BY LinkAssumption DEF IInv, Typing, Fresh, TypeOK, Message
<1>. QED BY <1>1, InvariantHolds, FreshHolds, PTL

(***************************************************************************)
(* The granted time window is a conservative parallel simulation: no rank  *)
(* executes anything that a sequential simulation would not execute at     *)
(* that moment, and no message is lost or doubled on its way.              *)
(***************************************************************************)
THEOREM WindowImplementsParallel == Spec => ImplementsParallel
<1>1. ASSUME IInv, Fresh, NothingInThePast', [Next]_vars
      PROVE  [Parallel!Next]_<<m_currentTs, Pending>>
  BY <1>1, StepImplementsParallel
<1>. QED
  BY <1>1, InitImplementsParallel, InvariantHolds, FreshHolds, WindowIsSafe, PTL
     DEF Spec, ImplementsParallel, Parallel!Spec
=============================================================================
