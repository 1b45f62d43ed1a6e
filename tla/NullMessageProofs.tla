--------------------------- MODULE NullMessageProofs --------------------------
(***************************************************************************)
(* The promises of the null-message simulator are kept, for any number of  *)
(* ranks, any delays and any attribute "SchedulerTune", as long as no two  *)
(* ranks are joined by more than one link.                                 *)
(*                                                                         *)
(* The argument: a promise g of r to q is the smaller of r's safe time and *)
(* of its next event, and the delay of the link.  Whatever r sends to q    *)
(* afterwards is sent by an event in its list, by one that is received     *)
(* (hence not before its safe time), or by the handler that runs.  The     *)
(* last is the danger: a handler that has sent a packet may run at a time  *)
(* earlier than g less the delay.  It sends no second one, because the     *)
(* device is busy until an event that was in the list when g was found.    *)
(*                                                                         *)
(* It follows that the simulator implements ParallelSimulation: what a     *)
(* rank executes is earlier than anything still on its way to it.          *)
(***************************************************************************)
EXTENDS NullMessage, FiniteSetTheorems, FunctionTheorems, WellFoundedInduction,
        TLAPS

\* Without it no promise is safe (MCNullMessagePromise.cfg).
OneLink ==
    \A r \in Rank : \A k, l \in LinksOf(r) : Remote(k, r) = Remote(l, r) => k = l

-----------------------------------------------------------------------------
(* Least elements, links and sequences.                                     *)

\* A number that is smallest exists, and CHOOSE finds it.
LEMMA LeastExists ==
  ASSUME NEW S, S \subseteq Nat, S # {}
  PROVE  Smallest(S) \in S /\ \A y \in S : Smallest(S) <= y
<1>1. PICK n \in S : \A m \in S : ~(<<m, n>> \in OpToRel(<, Nat))
  BY NatLessThanWellFounded, WFMin
<1>2. \A m \in S : ~(m < n)
  BY <1>1 DEF OpToRel
<1>3. \A m \in S : n <= m
  BY <1>2
<1>. QED BY <1>3 DEF Smallest

\* A set below a bound has a largest number.
LEMMA GreatestExists ==
  ASSUME NEW N \in Nat, NEW S, S \subseteq 0..N, S # {}
  PROVE  Largest(S) \in S /\ \A y \in S : y <= Largest(S)
<1> DEFINE T == {N - x : x \in S}
<1>1. T \subseteq Nat /\ T # {}
  <2>1. \A x \in S : N - x \in Nat
    OBVIOUS
  <2>. QED BY <2>1
<1>2. PICK x \in S : Smallest(T) = N - x
  BY <1>1, LeastExists
<1>3. ASSUME NEW y \in S PROVE y <= x
  <2>1. N - x <= N - y
    BY <1>1, <1>2, LeastExists
  <2>. QED BY <2>1
<1>. QED BY <1>3 DEF Largest

\* A link joins a rank to another one, which it also joins to the first.
LEMMA NeighboursAreMutual ==
  ASSUME NEW r \in Rank, NEW q \in Neighbours(r)
  PROVE  q \in Rank /\ q # r /\ r \in Neighbours(q)
<1>1. PICK l \in LinksOf(r) : q = Remote(l, r)
  BY DEF Neighbours
<1>2. PICK a \in Rank, b \in Rank : a # b /\ Ends[l] = {a, b} /\ r \in {a, b}
  BY LinkAssumption DEF LinksOf
<1>3. q \in {a, b} /\ q # r
  BY <1>1, <1>2 DEF Remote
<1>4. l \in LinksOf(q) /\ Remote(l, q) = r
  BY <1>2, <1>3 DEF LinksOf, Remote
<1>. QED BY <1>2, <1>3, <1>4 DEF Neighbours

\* The delay of a bundle is a number, that of a single link the link's.
LEMMA BundleDelayIs ==
  ASSUME NEW r \in Rank, NEW q \in Neighbours(r)
  PROVE  /\ BundleDelay(r, q) \in Nat
         /\ OneLink => \A l \in LinksOf(r) : Remote(l, r) = q => BundleDelay(r, q) = LinkDelay[l]
<1> DEFINE S == {LinkDelay[l] : l \in {k \in LinksOf(r) : Remote(k, r) = q}}
<1>1. S \subseteq Nat /\ S # {}
  BY LinkAssumption DEF LinksOf, Neighbours
<1>2. BundleDelay(r, q) \in S
  BY <1>1, LeastExists DEF BundleDelay
<1>. QED BY <1>1, <1>2 DEF OneLink

\* The time between two null messages.
Period(r, q) == (m_schedulerTune * BundleDelay(r, q) + 50) \div 100

LEMMA PeriodIs ==
  ASSUME NEW r \in Rank, NEW q \in Neighbours(r), NEW now \in Nat
  PROVE  /\ Period(r, q) \in Nat
         /\ NullTime(r, q, now) = now + Period(r, q)
         /\ NullTime(r, q, now) \in Nat /\ now <= NullTime(r, q, now)
<1>1. BundleDelay(r, q) \in Nat /\ m_schedulerTune \in Nat
  BY BundleDelayIs, NullMessageAssumption
<1>2. m_schedulerTune * BundleDelay(r, q) + 50 \in Nat
  BY <1>1
<1>3. Period(r, q) \in Nat
  BY <1>2 DEF Period
<1>. QED BY <1>3 DEF NullTime, Period

LEMMA AppendElements ==
  ASSUME NEW T, NEW s \in Seq(T), NEW m \in T
  PROVE  /\ Append(s, m) \in Seq(T) /\ Len(s) \in Nat
         /\ DOMAIN Append(s, m) = 1..(Len(s) + 1) /\ DOMAIN s = 1..Len(s)
         /\ \A i \in 1..Len(s) : Append(s, m)[i] = s[i]
         /\ Append(s, m)[Len(s) + 1] = m
OBVIOUS

LEMMA TailElements ==
  ASSUME NEW T, NEW s \in Seq(T), s # <<>>
  PROVE  /\ Tail(s) \in Seq(T) /\ Len(s) \in Nat \ {0} /\ Head(s) = s[1] /\ Head(s) \in T
         /\ DOMAIN s = 1..Len(s) /\ DOMAIN Tail(s) = 1..(Len(s) - 1)
         /\ \A i \in 1..(Len(s) - 1) : Tail(s)[i] = s[i + 1]
OBVIOUS

-----------------------------------------------------------------------------
(* The invariant.                                                           *)

Message == [rxTime : Nat, guarantee : Nat]

AnyEvent == [ts : Nat, uid : Nat, kind : {"user", "stop", "complete", "null"},
             of : Link \cup Rank \cup {None}]

Typing ==
  /\ m_events \in [Rank -> SUBSET AnyEvent]
  /\ m_uid \in [Rank -> Nat] /\ m_currentTs \in [Rank -> Nat]
  /\ m_stop \in [Rank -> BOOLEAN] /\ m_safeTime \in [Rank -> Nat]
  /\ busy \in [Rank -> SUBSET Link]
  /\ pc \in [Rank -> {"idle", "run", "handler", "arrive", "done"}]
  /\ DOMAIN m_guaranteeTime = Rank /\ DOMAIN m_nullEventId = Rank /\ DOMAIN channel = Rank
  /\ \A r \in Rank : /\ busy[r] \subseteq LinksOf(r)
                     /\ m_guaranteeTime[r] \in [Neighbours(r) -> Nat]
                     /\ m_nullEventId[r] \in [Neighbours(r) -> Nat]
                     /\ channel[r] \in [Neighbours(r) -> Seq(Message)]

\* A rank is not ahead of its safe time, nor of its list.
Clock(r) ==
  /\ m_currentTs[r] <= m_safeTime[r] /\ m_safeTime[r] <= Infinity
  /\ \A q \in Neighbours(r) : m_safeTime[r] <= m_guaranteeTime[r][q]
  /\ \A e \in m_events[r] : m_currentTs[r] <= e.ts
  /\ pc[r] = "idle" => m_safeTime[r] = 0 /\ ~m_stop[r]

\* e sends the next null message of r to q.
IsNextNull(r, q, e) == e.kind = "null" /\ e.of = q /\ e.uid = m_nullEventId[r][q]

\* There is one such event per neighbour, never further off than a period.
Nulls(r) ==
  /\ \A e \in m_events[r] : e.kind = "null" => e.of \in Neighbours(r) /\ e.uid < m_uid[r]
  /\ \A q \in Neighbours(r) : \A e, f \in m_events[r] :
        IsNextNull(r, q, e) /\ IsNextNull(r, q, f) => e = f
  /\ pc[r] # "idle" => \A q \in Neighbours(r) : \E e \in m_events[r] :
        IsNextNull(r, q, e) /\ e.ts <= m_currentTs[r] + Period(r, q)
  /\ m_stop[r] \/ \E e \in m_events[r] : e.kind = "stop"

\* What r has promised q: the promise q holds and those on their way.
Given(r, q) ==
  {m_guaranteeTime[q][r]} \cup {channel[r][q][i].guarantee : i \in DOMAIN channel[r][q]}

\* No event of r can break the promise g to q.  The next null message, whose
\* event will send no packet, is of no concern.
Settled(r, q, g) ==
  /\ \A e \in m_events[r] : ~IsNextNull(r, q, e) => g <= e.ts + BundleDelay(r, q)
  /\ pc[r] = "handler" => g <= m_currentTs[r] + BundleDelay(r, q)

\* Nor can any while the line is busy, which is until an event that cannot.
OnTheLine(r, q, g) ==
  \E l \in busy[r] :
     /\ Remote(l, r) = q
     /\ \A e \in m_events[r] :
           (e.kind = "complete" /\ e.of = l) \/ IsNextNull(r, q, e)
              => g <= e.ts + BundleDelay(r, q)

Promises(r) ==
  \A q \in Neighbours(r) : \A g \in Given(r, q) :
     /\ g <= m_safeTime[r] + BundleDelay(r, q)
     /\ Settled(r, q, g) \/ OnTheLine(r, q, g)

\* From q to r: promises only grow, and packets keep those sent before them.
Line(q, r) ==
  \A i \in DOMAIN channel[q][r] :
     LET m == channel[q][r][i]
         Kept(g) == g <= m.guarantee /\ (m.rxTime > 0 => g <= m.rxTime)
     IN  /\ Kept(m_guaranteeTime[r][q])
         /\ \A j \in 1..(i - 1) : Kept(channel[q][r][j].guarantee)

IInv ==
  /\ Typing
  /\ \A r \in Rank : /\ Clock(r) /\ Nulls(r) /\ Promises(r)
                     /\ \A q \in Neighbours(r) : Line(q, r)

LEMMA InitInvariant == Init => IInv
<1> SUFFICES ASSUME Init PROVE IInv
  OBVIOUS
<1>1. Largest({0} \cup Delay) \in Nat
  <2>1. {0} \cup Delay \subseteq 0..Infinity /\ Infinity \in Nat
    BY LinkAssumption, NullMessageAssumption
  <2>. QED BY <2>1, GreatestExists
<1>2. Typing
  <2>1. \A d \in Delay : d \in Nat
    BY LinkAssumption, NullMessageAssumption
  <2>2. m_events \in [Rank -> SUBSET AnyEvent]
    BY <2>1, NullMessageAssumption DEF Init, AnyEvent, Event, VALID
  <2>3. m_uid \in [Rank -> Nat]
    BY <1>1 DEF Init, VALID
  <2>4. \A r \in Rank : /\ busy[r] \subseteq LinksOf(r)
                       /\ m_guaranteeTime[r] \in [Neighbours(r) -> Nat]
                       /\ m_nullEventId[r] \in [Neighbours(r) -> Nat]
    BY DEF Init
  <2>5. \A r \in Rank : channel[r] \in [Neighbours(r) -> Seq(Message)]
    <3>1. <<>> \in Seq(Message)
      OBVIOUS
    <3>. QED BY <3>1 DEF Init
  <2>. QED BY <2>2, <2>3, <2>4, <2>5 DEF Init, Typing
<1>3. ASSUME NEW r \in Rank
      PROVE  Clock(r) /\ Nulls(r) /\ Promises(r) /\ \A q \in Neighbours(r) : Line(q, r)
  <2>1. m_events[r] \subseteq AnyEvent /\ \A e \in m_events[r] : e.kind # "null"
    BY <1>2 DEF Typing, Init, Event
  <2>2. Clock(r)
    BY <2>1, LinkAssumption DEF Clock, Init, AnyEvent
  <2>3. Nulls(r)
    <3>1. Event(StopTime, VALID, "stop", None) \in m_events[r]
      BY DEF Init
    <3>. QED BY <2>1, <3>1 DEF Nulls, Init, IsNextNull, Event
  <2>4. ASSUME NEW q \in Neighbours(r) PROVE channel[r][q] = <<>> /\ channel[q][r] = <<>>
    BY NeighboursAreMutual DEF Init
  <2>5. ASSUME NEW q \in Neighbours(r) PROVE Given(r, q) = {0}
    BY <2>4, NeighboursAreMutual DEF Init, Given
  <2>6. Promises(r)
    <3>1. ASSUME NEW q \in Neighbours(r), NEW g \in Given(r, q)
          PROVE  g <= m_safeTime[r] + BundleDelay(r, q) /\ Settled(r, q, g)
      <4>1. g = 0 /\ BundleDelay(r, q) \in Nat
        BY <2>5, BundleDelayIs
      <4>. QED BY <2>1, <4>1 DEF Settled, Init, AnyEvent
    <3>. QED BY <3>1 DEF Promises
  <2>7. \A q \in Neighbours(r) : Line(q, r)
    BY <2>4 DEF Line
  <2>. QED BY <2>2, <2>3, <2>6, <2>7
<1>. QED BY <1>2, <1>3 DEF IInv

-----------------------------------------------------------------------------
(* What the functions of the code return.                                   *)

LEMMA GuaranteeIs ==
  ASSUME Typing, NEW r \in Rank, NEW q \in Neighbours(r),
         NEW events \in SUBSET AnyEvent, events # {},
         NEW g, g = CalculateGuaranteeTime(r, q, events)
  PROVE  /\ g \in Nat /\ g <= m_safeTime[r] + BundleDelay(r, q)
         /\ \A e \in events : g <= e.ts + BundleDelay(r, q)
         /\ \A n \in Nat : /\ n <= m_safeTime[r] + BundleDelay(r, q)
                           /\ \A e \in events : n <= e.ts + BundleDelay(r, q)
                           => n <= g
<1> DEFINE T == {e.ts : e \in events}
           first == Next(events)
           safe == m_safeTime[r]
           D == BundleDelay(r, q)
<1>1. safe \in Nat /\ D \in Nat /\ \A e \in events : e.ts \in Nat
  BY BundleDelayIs DEF Typing, AnyEvent
<1>2. T \subseteq Nat /\ T # {}
  BY <1>1
<1>3. first \in Nat /\ \A e \in events : first <= e.ts
  BY <1>2, LeastExists DEF Next
<1>4. PICK e \in events : e.ts = first
  BY <1>2, LeastExists DEF Next
<1>5. {first, safe} \subseteq Nat /\ {first, safe} # {}
  BY <1>1, <1>3
<1>6. PICK s \in {first, safe} : s <= first /\ s <= safe /\ g = s + D
  BY <1>5, LeastExists DEF CalculateGuaranteeTime
<1> HIDE DEF T, first, safe, D
<1>7. g \in Nat /\ g <= safe + D
  BY <1>1, <1>3, <1>6
<1>8. \A f \in events : g <= f.ts + D
  BY <1>1, <1>3, <1>6
<1>9. \A n \in Nat : n <= safe + D /\ n <= first + D => n <= g
  BY <1>6
<1>. QED BY <1>4, <1>7, <1>8, <1>9 DEF first, safe, D

LEMMA SafeTimeIs ==
  ASSUME NEW r \in Rank, NEW guarantees \in [Neighbours(r) -> Nat]
  PROVE  /\ SafeTime(guarantees) \in Nat /\ SafeTime(guarantees) <= Infinity
         /\ \A q \in Neighbours(r) : SafeTime(guarantees) <= guarantees[q]
         /\ \A n \in Nat : n <= Infinity /\ (\A q \in Neighbours(r) : n <= guarantees[q])
                              => n <= SafeTime(guarantees)
<1> DEFINE S == {Infinity} \cup {guarantees[q] : q \in Neighbours(r)}
<1>1. S \subseteq Nat /\ S # {}
  BY LinkAssumption
<1>2. SafeTime(guarantees) = Smallest(S)
  BY DEF SafeTime
<1> HIDE DEF S
<1>3. SafeTime(guarantees) \in S /\ \A y \in S : SafeTime(guarantees) <= y
  BY <1>1, <1>2, LeastExists
<1>. QED BY <1>1, <1>3 DEF S

-----------------------------------------------------------------------------
(* Messages.                                                                *)

LEMMA PromisesAreTimes ==
  ASSUME Typing, NEW r \in Rank, NEW q \in Neighbours(r), NEW g \in Given(r, q)
  PROVE  g \in Nat
<1>1. m_guaranteeTime[q][r] \in Nat
  BY NeighboursAreMutual DEF Typing
<1>2. ASSUME NEW i \in DOMAIN channel[r][q] PROVE channel[r][q][i].guarantee \in Nat
  <2>1. channel[r][q] \in Seq(Message)
    BY DEF Typing
  <2>2. channel[r][q][i] \in Message
    BY <1>2, <2>1
  <2>. QED BY <2>2 DEF Message
<1>. QED BY <1>1, <1>2 DEF Given

\* A message that is sent and keeps all earlier promises.
LEMMA LineAppend ==
  ASSUME Typing, NEW r \in Rank, NEW q \in Neighbours(r), Line(r, q), NEW m \in Message,
         channel'[r][q] = Append(channel[r][q], m),
         m_guaranteeTime'[q][r] = m_guaranteeTime[q][r],
         \A g \in Given(r, q) : g <= m.guarantee /\ (m.rxTime > 0 => g <= m.rxTime)
  PROVE  Line(r, q)' /\ Given(r, q)' = Given(r, q) \cup {m.guarantee}
<1> DEFINE s == channel[r][q]
           t == channel'[r][q]
<1>1. s \in Seq(Message)
  BY DEF Typing
<1>2. /\ Len(s) \in Nat /\ DOMAIN t = 1..(Len(s) + 1) /\ DOMAIN s = 1..Len(s)
      /\ t[Len(s) + 1] = m /\ \A i \in 1..Len(s) : t[i] = s[i]
  BY <1>1, AppendElements
<1> HIDE DEF s, t
<1>3. Given(r, q)' = Given(r, q) \cup {m.guarantee}
  BY <1>2 DEF Given, s, t
<1>4. m_guaranteeTime[q][r] \in Given(r, q)
      /\ \A j \in DOMAIN s : s[j].guarantee \in Given(r, q)
  BY DEF Given, s
<1>5. Line(r, q)'
  <2> SUFFICES ASSUME NEW i \in DOMAIN t
               PROVE  /\ m_guaranteeTime[q][r] <= t[i].guarantee
                      /\ t[i].rxTime > 0 => m_guaranteeTime[q][r] <= t[i].rxTime
                      /\ \A j \in 1..(i - 1) :
                           /\ t[j].guarantee <= t[i].guarantee
                           /\ t[i].rxTime > 0 => t[j].guarantee <= t[i].rxTime
    BY DEF Line, t
  <2>1. CASE i \in 1..Len(s)
    <3>1. t[i] = s[i] /\ \A j \in 1..(i - 1) : t[j] = s[j]
      BY <1>2, <2>1
    <3>. QED BY <1>2, <2>1, <3>1 DEF Line, s
  <2>2. CASE i = Len(s) + 1
    <3>1. t[i] = m /\ \A j \in 1..(i - 1) : t[j] = s[j] /\ j \in DOMAIN s
      BY <1>2, <2>2
    <3>. QED BY <1>4, <3>1
  <2>. QED BY <1>2, <2>1, <2>2
<1>. QED BY <1>3, <1>5

\* A message that is received.
LEMMA LineTail ==
  ASSUME Typing, NEW r \in Rank, NEW q \in Neighbours(r), Line(q, r), channel[q][r] # <<>>,
         channel'[q][r] = Tail(channel[q][r]),
         m_guaranteeTime'[r][q] = Head(channel[q][r]).guarantee
  PROVE  /\ Line(q, r)' /\ Given(q, r)' \subseteq Given(q, r)
         /\ Head(channel[q][r]) \in Message
         /\ m_guaranteeTime[r][q] <= Head(channel[q][r]).guarantee
         /\ Head(channel[q][r]).rxTime > 0
                => m_guaranteeTime[r][q] <= Head(channel[q][r]).rxTime
<1> DEFINE s == channel[q][r]
           t == channel'[q][r]
           held == m_guaranteeTime'[r][q]
<1>1. s \in Seq(Message) /\ s # <<>>
  BY NeighboursAreMutual DEF Typing
<1>2. /\ Len(s) \in Nat \ {0} /\ DOMAIN s = 1..Len(s) /\ DOMAIN t = 1..(Len(s) - 1)
      /\ Head(s) = s[1] /\ Head(s) \in Message /\ held = s[1].guarantee
      /\ \A i \in 1..(Len(s) - 1) : t[i] = s[i + 1]
  BY <1>1, TailElements
<1>3. \A i \in 1..Len(s) :
         /\ m_guaranteeTime[r][q] <= s[i].guarantee
         /\ s[i].rxTime > 0 => m_guaranteeTime[r][q] <= s[i].rxTime
         /\ \A j \in 1..(i - 1) : /\ s[j].guarantee <= s[i].guarantee
                                  /\ s[i].rxTime > 0 => s[j].guarantee <= s[i].rxTime
  BY <1>2 DEF Line
<1>4. Given(q, r)' = {held} \cup {t[i].guarantee : i \in DOMAIN t}
      /\ Given(q, r) = {m_guaranteeTime[r][q]} \cup {s[i].guarantee : i \in DOMAIN s}
  BY DEF Given
<1>5. Line(q, r)' = \A i \in DOMAIN t :
         /\ held <= t[i].guarantee /\ (t[i].rxTime > 0 => held <= t[i].rxTime)
         /\ \A j \in 1..(i - 1) : /\ t[j].guarantee <= t[i].guarantee
                                  /\ t[i].rxTime > 0 => t[j].guarantee <= t[i].rxTime
  BY DEF Line
<1> HIDE DEF s, t, held
<1>6. Given(q, r)' \subseteq Given(q, r)
  <2>1. held = s[1].guarantee /\ 1 \in DOMAIN s
    BY <1>2
  <2>2. \A i \in DOMAIN t : t[i] = s[i + 1] /\ i + 1 \in DOMAIN s
    BY <1>2
  <2>. QED BY <1>4, <2>1, <2>2
<1>7. Line(q, r)'
  <2>1. ASSUME NEW i \in DOMAIN t
        PROVE  /\ held <= t[i].guarantee /\ (t[i].rxTime > 0 => held <= t[i].rxTime)
               /\ \A j \in 1..(i - 1) : /\ t[j].guarantee <= t[i].guarantee
                                        /\ t[i].rxTime > 0 => t[j].guarantee <= t[i].rxTime
    <3>1. /\ i \in Nat /\ i + 1 \in 1..Len(s) /\ t[i] = s[i + 1] /\ 1 \in 1..((i + 1) - 1)
          /\ \A j \in 1..(i - 1) : t[j] = s[j + 1] /\ j + 1 \in 1..((i + 1) - 1)
      BY <1>2
    <3>. QED BY <1>2, <1>3, <3>1
  <2>. QED BY <1>5, <2>1
<1>8. s[1].rxTime > 0 => m_guaranteeTime[r][q] <= s[1].rxTime
  BY <1>2, <1>3
<1>9. m_guaranteeTime[r][q] <= s[1].guarantee
  BY <1>2, <1>3
<1>. QED BY <1>2, <1>6, <1>7, <1>8, <1>9 DEF s

-----------------------------------------------------------------------------
(* A step of one rank.                                                      *)

\* The other ranks share no state with r, only messages.
Alone(r) ==
  \A s \in Rank : s # r =>
     /\ m_events'[s] = m_events[s] /\ m_uid'[s] = m_uid[s]
     /\ m_currentTs'[s] = m_currentTs[s] /\ m_stop'[s] = m_stop[s]
     /\ m_safeTime'[s] = m_safeTime[s] /\ m_guaranteeTime'[s] = m_guaranteeTime[s]
     /\ m_nullEventId'[s] = m_nullEventId[s] /\ busy'[s] = busy[s] /\ pc'[s] = pc[s]

LEMMA Elsewhere ==
  ASSUME IInv, NEW r \in Rank, Alone(r), NEW s \in Rank, s # r,
         \A q \in Neighbours(s) : Given(s, q)' \subseteq Given(s, q)
  PROVE  Clock(s)' /\ Nulls(s)' /\ Promises(s)'
<1>1. Clock(s) /\ Nulls(s) /\ Promises(s)
  BY DEF IInv
<1>2. Clock(s)'
  BY <1>1 DEF Clock, Alone
<1>3. Nulls(s)'
  BY <1>1 DEF Nulls, Alone, IsNextNull
<1>4. ASSUME NEW q \in Neighbours(s), NEW g \in Given(s, q)'
      PROVE  (g <= m_safeTime[s] + BundleDelay(s, q) /\ (Settled(s, q, g) \/ OnTheLine(s, q, g)))'
  <2>1. g <= m_safeTime[s] + BundleDelay(s, q) /\ (Settled(s, q, g) \/ OnTheLine(s, q, g))
    BY <1>1 DEF Promises
  <2>. QED BY <2>1 DEF Alone, Settled, OnTheLine, IsNextNull
<1>5. Promises(s)'
  BY <1>4 DEF Promises
<1>. QED BY <1>2, <1>3, <1>5

\* What is to be shown of a step of r.
LEMMA StepOf ==
  ASSUME IInv, NEW r \in Rank, Typing', Alone(r), Clock(r)', Nulls(r)', Promises(r)',
         \A s \in Rank : \A q \in Neighbours(s) :
            Line(q, s)' /\ (s # r => Given(s, q)' \subseteq Given(s, q))
  PROVE  IInv'
<1>1. ASSUME NEW s \in Rank
      PROVE  (/\ Clock(s) /\ Nulls(s) /\ Promises(s)
              /\ \A q \in Neighbours(s) : Line(q, s))'
  BY <1>1, Elsewhere
<1>. QED BY <1>1 DEF IInv

\* No message is sent or received.
Quiet == channel' = channel /\ m_guaranteeTime' = m_guaranteeTime

LEMMA NothingMoves ==
  ASSUME IInv, Quiet, NEW s \in Rank, NEW q \in Neighbours(s)
  PROVE  Line(q, s)' /\ Given(s, q)' = Given(s, q)
<1>1. Line(q, s)
  BY DEF IInv
<1>. QED BY <1>1 DEF Quiet, Line, Given

\* Once g is safe with respect to the earliest event it is settled.
LEMMA SettledBy ==
  ASSUME NEW r \in Rank, NEW q \in Neighbours(r), NEW g \in Nat, NEW next \in AnyEvent,
         g <= next.ts + BundleDelay(r, q),
         m_events'[r] \subseteq AnyEvent, \A e \in m_events'[r] : next.ts <= e.ts,
         m_currentTs'[r] = next.ts
  PROVE  Settled(r, q, g)'
<1>1. BundleDelay(r, q) \in Nat
  BY BundleDelayIs
<1>2. \A e \in m_events'[r] : g <= e.ts + BundleDelay(r, q)
  BY <1>1 DEF AnyEvent
<1>. QED BY <1>2 DEF Settled

-----------------------------------------------------------------------------
(* Steps that take an event.                                                *)

\* What Take says of the list and the clock.
LEMMA TakeProperties ==
  ASSUME IInv, NEW r \in Rank, NEW next, Take(r, next)
  PROVE  /\ next \in m_events[r] /\ next \in AnyEvent /\ m_events[r] \subseteq AnyEvent
         /\ m_currentTs[r] <= next.ts /\ next.ts <= m_safeTime[r]
         /\ \A e \in m_events[r] : next.ts <= e.ts
         /\ m_currentTs' = [m_currentTs EXCEPT ![r] = next.ts]
         /\ pc[r] = "run" /\ ~m_stop[r]
         /\ \E e \in m_events[r] : e.kind = "stop"
<1>1. Typing /\ Clock(r) /\ Nulls(r)
  BY DEF IInv
<1>2. next \in m_events[r] /\ m_events[r] \subseteq AnyEvent
  BY <1>1 DEF Take, IsEarliest, Typing
<1>3. \A e \in m_events[r] : next.ts <= e.ts
  BY <1>2 DEF Take, IsEarliest, Less, AnyEvent
<1>. QED BY <1>1, <1>2, <1>3 DEF Take, IsFinished, Clock, Nulls

\* The events of user code and of devices, of Stop, and cancelled null events.
LEMMA TakeKeeps ==
  ASSUME IInv, NEW r \in Rank, NEW next, Take(r, next), Remove(r, next),
         UNCHANGED <<promiseVars, sendVars>>, ~IsNextNull(r, next.of, next),
         NEW place \in {"handler", "arrive"}, Go(r, place),
         busy' = [busy EXCEPT ![r] = @ \ (IF next.kind = "complete" THEN {next.of} ELSE {})],
         m_stop' = [m_stop EXCEPT ![r] = next.kind = "stop"]
  PROVE  IInv'
<1>1. /\ next \in m_events[r] /\ next \in AnyEvent /\ m_events[r] \subseteq AnyEvent
      /\ m_currentTs[r] <= next.ts /\ next.ts <= m_safeTime[r]
      /\ \A e \in m_events[r] : next.ts <= e.ts
      /\ m_currentTs' = [m_currentTs EXCEPT ![r] = next.ts]
      /\ pc[r] = "run" /\ ~m_stop[r]
      /\ \E e \in m_events[r] : e.kind = "stop"
  BY TakeProperties
<1>2. Typing /\ Clock(r) /\ Nulls(r) /\ Promises(r)
  BY DEF IInv
<1>3. Typing'
  BY <1>1, <1>2 DEF Typing, Remove, promiseVars, sendVars, Go, AnyEvent
<1>4. Alone(r) /\ Quiet
  BY <1>1, <1>2 DEF Alone, Quiet, Typing, Remove, promiseVars, sendVars, Go
<1>5. /\ m_events'[r] = m_events[r] \ {next} /\ m_uid'[r] = m_uid[r]
      /\ m_currentTs'[r] = next.ts /\ m_safeTime' = m_safeTime
      /\ m_guaranteeTime' = m_guaranteeTime /\ m_nullEventId' = m_nullEventId
      /\ m_stop'[r] = (next.kind = "stop") /\ pc'[r] = place
      /\ busy'[r] = busy[r] \ (IF next.kind = "complete" THEN {next.of} ELSE {})
  BY <1>1, <1>2 DEF Typing, Remove, promiseVars, sendVars, Go
<1>6. Clock(r)'
  BY <1>1, <1>2, <1>5 DEF Clock
<1>7. Nulls(r)'
  <2>1. ASSUME NEW q \in Neighbours(r)
        PROVE  \E e \in m_events'[r] :
                  IsNextNull(r, q, e)' /\ e.ts <= m_currentTs'[r] + Period(r, q)
    <3>1. PICK e \in m_events[r] : IsNextNull(r, q, e) /\ e.ts <= m_currentTs[r] + Period(r, q)
      BY <1>1, <1>2 DEF Nulls
    <3>2. e # next /\ IsNextNull(r, q, e)'
      BY <3>1, <1>5 DEF IsNextNull
    <3>3. e.ts <= next.ts + Period(r, q)
      <4>1. /\ Period(r, q) \in Nat /\ e.ts \in Nat /\ next.ts \in Nat
            /\ m_currentTs[r] \in Nat
        BY <1>1, <1>2, PeriodIs DEF Typing, AnyEvent
      <4>. QED BY <1>1, <3>1, <4>1
    <3>. QED BY <1>5, <3>1, <3>2, <3>3
  <2>2. m_stop'[r] \/ \E e \in m_events'[r] : e.kind = "stop"
    BY <1>1, <1>5
  <2>3. \A q \in Neighbours(r) : \A e, f \in m_events'[r] :
            IsNextNull(r, q, e)' /\ IsNextNull(r, q, f)' => e = f
    BY <1>2, <1>5 DEF Nulls, IsNextNull
  <2>. QED BY <1>2, <1>5, <2>1, <2>2, <2>3 DEF Nulls
<1>8. Promises(r)'
  <2>1. ASSUME NEW q \in Neighbours(r), NEW g \in Given(r, q)'
        PROVE  (g <= m_safeTime[r] + BundleDelay(r, q) /\ (Settled(r, q, g) \/ OnTheLine(r, q, g)))'
    <3>1. g \in Given(r, q) /\ q \in Rank /\ r \in Neighbours(q)
      BY <1>4, NothingMoves, NeighboursAreMutual
    <3>2. g \in Nat
      BY <1>2, <3>1, PromisesAreTimes
    <3>3. g <= m_safeTime[r] + BundleDelay(r, q) /\ (Settled(r, q, g) \/ OnTheLine(r, q, g))
      BY <1>2, <3>1 DEF Promises
    <3>4. /\ m_events'[r] \subseteq AnyEvent
          /\ \A e \in m_events'[r] : next.ts <= e.ts
      BY <1>1, <1>5
    <3>5. CASE g <= next.ts + BundleDelay(r, q)
      BY <1>1, <1>5, <3>2, <3>3, <3>4, <3>5, SettledBy
    <3>6. CASE ~(g <= next.ts + BundleDelay(r, q))
      <4>1. IsNextNull(r, next.of, next) \/ ~Settled(r, q, g)
        BY <1>1, <3>6 DEF Settled, IsNextNull
      <4>2. PICK l \in busy[r] :
               /\ Remote(l, r) = q
               /\ \A e \in m_events[r] :
                     (e.kind = "complete" /\ e.of = l) \/ IsNextNull(r, q, e)
                        => g <= e.ts + BundleDelay(r, q)
        BY <3>3, <4>1 DEF OnTheLine
      <4>3. ~(next.kind = "complete" /\ next.of = l)
        BY <1>1, <3>6, <4>2
      <4>4. l \in busy'[r]
        BY <1>5, <4>3
      <4>5. OnTheLine(r, q, g)'
        BY <1>5, <4>2, <4>4 DEF OnTheLine, IsNextNull
      <4>. QED BY <1>5, <3>3, <4>5
    <3>. QED BY <3>5, <3>6
  <2>. QED BY <2>1 DEF Promises
<1>. QED BY <1>3, <1>4, <1>6, <1>7, <1>8, NothingMoves, StepOf

LEMMA EventsKeep ==
  ASSUME IInv, NEW r \in Rank, NEW next \in m_events[r],
         \/ UserEvent(r, next) \/ TransmitComplete(r, next)
         \/ StopEvent(r, next) \/ CancelledEvent(r, next)
  PROVE  IInv'
<1>1. Typing
  BY DEF IInv
<1>2. CASE UserEvent(r, next)
  <2>1. Take(r, next) /\ next.kind = "user"
    BY <1>2 DEF UserEvent
  <2>2. m_stop' = [m_stop EXCEPT ![r] = next.kind = "stop"]
    BY <1>1, <1>2, <2>1, TakeProperties DEF UserEvent, Typing
  <2>3. busy' = [busy EXCEPT ![r] = @ \ (IF next.kind = "complete" THEN {next.of} ELSE {})]
    BY <1>1, <1>2, <2>1 DEF UserEvent, Typing
  <2>. QED BY <1>2, <2>1, <2>2, <2>3, TakeKeeps DEF UserEvent, IsNextNull
<1>3. CASE TransmitComplete(r, next)
  <2>1. Take(r, next) /\ next.kind = "complete"
    BY <1>3 DEF TransmitComplete
  <2>2. m_stop' = [m_stop EXCEPT ![r] = next.kind = "stop"]
    BY <1>1, <1>3, <2>1, TakeProperties DEF TransmitComplete, Typing
  <2>3. busy' = [busy EXCEPT ![r] = @ \ (IF next.kind = "complete" THEN {next.of} ELSE {})]
    BY <1>1, <1>3, <2>1 DEF TransmitComplete, Typing
  <2>. QED BY <1>3, <2>1, <2>2, <2>3, TakeKeeps DEF TransmitComplete, IsNextNull
<1>4. CASE StopEvent(r, next)
  <2>1. Take(r, next) /\ next.kind = "stop"
    BY <1>4 DEF StopEvent
  <2>2. m_stop' = [m_stop EXCEPT ![r] = next.kind = "stop"]
    BY <1>1, <1>4, <2>1 DEF StopEvent, Typing
  <2>3. busy' = [busy EXCEPT ![r] = @ \ (IF next.kind = "complete" THEN {next.of} ELSE {})]
    BY <1>1, <1>4, <2>1 DEF StopEvent, Typing
  <2>. QED BY <1>4, <2>1, <2>2, <2>3, TakeKeeps DEF StopEvent, IsNextNull
<1>5. CASE CancelledEvent(r, next)
  <2>1. Take(r, next) /\ next.kind = "null"
    BY <1>5 DEF CancelledEvent
  <2>2. m_stop' = [m_stop EXCEPT ![r] = next.kind = "stop"]
    BY <1>1, <1>5, <2>1, TakeProperties DEF CancelledEvent, Typing
  <2>3. busy' = [busy EXCEPT ![r] = @ \ (IF next.kind = "complete" THEN {next.of} ELSE {})]
    BY <1>1, <1>5, <2>1 DEF CancelledEvent, Typing
  <2>. QED BY <1>5, <2>1, <2>2, <2>3, TakeKeeps DEF CancelledEvent, IsNextNull
<1>. QED BY <1>2, <1>3, <1>4, <1>5

-----------------------------------------------------------------------------
(* Steps that take none.                                                    *)

\* The list of r may get events that are not before its safe time, in a handler
\* not before now, and its safe time may grow.
LEMMA RowGrows ==
  ASSUME IInv, Typing', NEW r \in Rank,
         pc[r] # "idle", pc'[r] # "idle", pc'[r] = "handler" => pc[r] = "handler",
         NEW new \in SUBSET AnyEvent, m_events'[r] = m_events[r] \cup new,
         \A e \in new : /\ e.kind = "user" /\ m_currentTs[r] <= e.ts
                        /\ pc[r] = "handler" \/ m_safeTime[r] <= e.ts,
         m_uid[r] <= m_uid'[r], m_currentTs'[r] = m_currentTs[r], m_stop'[r] = m_stop[r],
         m_nullEventId'[r] = m_nullEventId[r], busy'[r] = busy[r],
         m_safeTime[r] <= m_safeTime'[r], m_safeTime'[r] <= Infinity,
         \A q \in Neighbours(r) : /\ m_safeTime'[r] <= m_guaranteeTime'[r][q]
                                  /\ Given(r, q)' \subseteq Given(r, q)
  PROVE  Clock(r)' /\ Nulls(r)' /\ Promises(r)'
<1>1. Typing /\ Clock(r) /\ Nulls(r) /\ Promises(r)
  BY DEF IInv
<1>2. Clock(r)'
  <2>1. m_currentTs[r] \in Nat /\ m_safeTime[r] \in Nat /\ m_safeTime'[r] \in Nat
    BY <1>1 DEF Typing
  <2>. QED BY <1>1, <2>1 DEF Clock
<1>3. Nulls(r)'
  <2>1. \A e \in m_events'[r] : e.kind = "null" => e \in m_events[r]
    OBVIOUS
  <2>2. \A e \in m_events[r] : e.uid < m_uid[r] => e.uid < m_uid'[r]
    <3>1. m_uid[r] \in Nat /\ m_uid'[r] \in Nat /\ \A e \in m_events[r] : e.uid \in Nat
      BY <1>1 DEF Typing, AnyEvent
    <3>. QED BY <3>1
  <2>3. \A q, e : IsNextNull(r, q, e)' = IsNextNull(r, q, e)
    BY DEF IsNextNull
  <2>4. \A q, e : IsNextNull(r, q, e) => e.kind = "null"
    BY DEF IsNextNull
  <2>. QED BY <1>1, <2>1, <2>2, <2>3, <2>4 DEF Nulls
<1>4. Promises(r)'
  <2>1. ASSUME NEW q \in Neighbours(r), NEW g \in Given(r, q)'
        PROVE  (g <= m_safeTime[r] + BundleDelay(r, q) /\ (Settled(r, q, g) \/ OnTheLine(r, q, g)))'
    <3>1. g <= m_safeTime[r] + BundleDelay(r, q) /\ (Settled(r, q, g) \/ OnTheLine(r, q, g))
      BY <1>1, <2>1 DEF Promises
    <3>2. /\ g \in Nat /\ BundleDelay(r, q) \in Nat /\ m_currentTs[r] \in Nat
          /\ m_safeTime[r] \in Nat /\ m_safeTime'[r] \in Nat
          /\ \A e \in new : e.ts \in Nat
      BY <1>1, <2>1, PromisesAreTimes, BundleDelayIs DEF Typing, AnyEvent
    <3>3. g <= m_safeTime'[r] + BundleDelay(r, q)
      BY <3>1, <3>2
    <3>4. CASE OnTheLine(r, q, g)
      <4>1. OnTheLine(r, q, g)'
        BY <3>4 DEF OnTheLine, IsNextNull
      <4>. QED BY <3>3, <4>1
    <3>5. CASE Settled(r, q, g)
      <4>1. \A e \in new : g <= e.ts + BundleDelay(r, q)
        BY <3>1, <3>2, <3>5 DEF Settled
      <4>2. Settled(r, q, g)'
        BY <3>5, <4>1 DEF Settled, IsNextNull
      <4>. QED BY <3>3, <4>2
    <3>. QED BY <3>1, <3>4, <3>5
  <2>. QED BY <2>1 DEF Promises
<1>. QED BY <1>2, <1>3, <1>4

LEMMA ScheduleKeeps ==
  ASSUME IInv, NEW r \in Rank, NEW d \in Delay, Schedule(r, d)
  PROVE  IInv'
<1> DEFINE e == Event(m_currentTs[r] + d, m_uid[r], "user", None)
<1>1. Typing /\ Clock(r)
  BY DEF IInv
<1>2. e \in AnyEvent /\ m_currentTs[r] <= e.ts /\ e.kind = "user"
  <2>1. d \in Nat /\ m_currentTs[r] \in Nat /\ m_uid[r] \in Nat
    BY <1>1, NullMessageAssumption, LinkAssumption DEF Typing
  <2>. QED BY <2>1 DEF Event, AnyEvent
<1> HIDE DEF e
<1>3. /\ m_events' = [m_events EXCEPT ![r] = @ \cup {e}]
      /\ m_uid' = [m_uid EXCEPT ![r] = @ + 1]
      /\ pc[r] = "handler"
  BY FS_Singleton DEF Schedule, Insert, MayCall, e
<1>4. UNCHANGED <<promiseVars, sendVars, m_currentTs, m_stop, busy, pc>>
  BY DEF Schedule
<1>5. Typing'
  <2>1. m_events' \in [Rank -> SUBSET AnyEvent] /\ m_uid' \in [Rank -> Nat]
    BY <1>1, <1>2, <1>3 DEF Typing
  <2>. QED BY <1>1, <1>4, <2>1 DEF Typing, promiseVars, sendVars
<1>6. Alone(r) /\ Quiet
  BY <1>1, <1>3, <1>4 DEF Alone, Quiet, Typing, promiseVars, sendVars
<1>7. Clock(r)' /\ Nulls(r)' /\ Promises(r)'
  <2>1. /\ m_events'[r] = m_events[r] \cup {e} /\ m_uid'[r] = m_uid[r] + 1
        /\ m_uid[r] <= m_uid'[r] /\ m_safeTime[r] <= m_safeTime'[r]
    BY <1>1, <1>3, <1>4 DEF Typing, promiseVars
  <2>2. \A q \in Neighbours(r) : /\ m_safeTime'[r] <= m_guaranteeTime'[r][q]
                                 /\ Given(r, q)' \subseteq Given(r, q)
    BY <1>1, <1>4, <1>6, NothingMoves DEF Clock, promiseVars
  <2>3. {e} \in SUBSET AnyEvent /\ \A f \in {e} : /\ f.kind = "user" /\ m_currentTs[r] <= f.ts
                                                  /\ pc[r] = "handler"
    BY <1>2, <1>3
  <2>4. /\ pc'[r] = pc[r] /\ m_currentTs'[r] = m_currentTs[r] /\ m_stop'[r] = m_stop[r]
        /\ m_nullEventId'[r] = m_nullEventId[r] /\ busy'[r] = busy[r]
        /\ m_safeTime'[r] <= Infinity /\ pc[r] # "idle"
    BY <1>1, <1>3, <1>4 DEF Clock, promiseVars, sendVars
  <2>. QED BY <1>5, <2>1, <2>2, <2>3, <2>4, RowGrows
<1>. QED BY <1>5, <1>6, <1>7, NothingMoves, StepOf

LEMMA ReturnsKeep ==
  ASSUME IInv, NEW r \in Rank, HandlerReturn(r) \/ RunReturn(r) \/ CalculateSafeTime(r)
  PROVE  IInv'
<1>1. Typing /\ Clock(r)
  BY DEF IInv
<1>2. /\ m_safeTime[r] <= m_safeTime'[r] /\ m_safeTime'[r] <= Infinity
      /\ \A q \in Neighbours(r) : m_safeTime'[r] <= m_guaranteeTime[r][q]
      /\ m_safeTime'[r] \in Nat
  <2>1. CASE CalculateSafeTime(r)
    <3>1. m_safeTime'[r] = SafeTime(m_guaranteeTime[r])
      BY <1>1, <2>1 DEF CalculateSafeTime, Typing
    <3>2. m_guaranteeTime[r] \in [Neighbours(r) -> Nat] /\ m_safeTime[r] \in Nat
      BY <1>1 DEF Typing
    <3>. QED BY <1>1, <3>1, <3>2, SafeTimeIs DEF Clock
  <2>2. CASE HandlerReturn(r) \/ RunReturn(r)
    BY <1>1, <2>2 DEF HandlerReturn, RunReturn, Typing, Clock, promiseVars
  <2>. QED BY <2>1, <2>2
<1>3. UNCHANGED <<eventVars, m_guaranteeTime, sendVars, m_currentTs, m_stop, busy>>
  BY DEF HandlerReturn, RunReturn, CalculateSafeTime, promiseVars
<1>4. /\ \A s \in Rank : s # r => m_safeTime'[s] = m_safeTime[s] /\ pc'[s] = pc[s]
      /\ m_safeTime' \in [Rank -> Nat]
      /\ pc' \in [Rank -> {"idle", "run", "handler", "arrive", "done"}]
      /\ pc[r] # "idle" /\ pc'[r] # "idle" /\ pc'[r] # "handler"
  BY <1>1, <1>2 DEF HandlerReturn, RunReturn, CalculateSafeTime, Go, Typing, promiseVars
<1>5. Typing'
  BY <1>1, <1>3, <1>4 DEF Typing, eventVars, sendVars
<1>6. Alone(r) /\ Quiet
  BY <1>3, <1>4 DEF Alone, Quiet, eventVars, sendVars
<1>7. Clock(r)' /\ Nulls(r)' /\ Promises(r)'
  <2>1. /\ m_events'[r] = m_events[r] \cup {} /\ m_uid[r] <= m_uid'[r]
        /\ m_currentTs'[r] = m_currentTs[r] /\ m_stop'[r] = m_stop[r]
        /\ m_nullEventId'[r] = m_nullEventId[r] /\ busy'[r] = busy[r]
    BY <1>1, <1>3 DEF Typing, eventVars, sendVars
  <2>2. \A q \in Neighbours(r) : /\ m_safeTime'[r] <= m_guaranteeTime'[r][q]
                                 /\ Given(r, q)' \subseteq Given(r, q)
    BY <1>2, <1>3, <1>6, NothingMoves
  <2>3. {} \in SUBSET AnyEvent
    OBVIOUS
  <2>. QED BY <1>2, <1>4, <1>5, <2>1, <2>2, <2>3, RowGrows
<1>. QED BY <1>5, <1>6, <1>7, NothingMoves, StepOf

\* A packet is due no sooner than any promise that came before it, and hence
\* than the safe time.
LEMMA ReceiveKeeps ==
  ASSUME IInv, NEW r \in Rank, NEW q \in Rank, Receive(r, q), pc[r] \in {"run", "arrive"},
         \/ m_safeTime' = m_safeTime
         \/ m_safeTime' = [m_safeTime EXCEPT ![r] = SafeTime(m_guaranteeTime'[r])],
         UNCHANGED <<m_nullEventId, m_currentTs, m_stop, busy, pc>>
  PROVE  IInv'
<1> DEFINE m == Head(channel[q][r])
           e == Event(m.rxTime, m_uid[r], "user", None)
           new == IF m.rxTime > 0 THEN {e} ELSE {}
<1>1. Typing /\ Clock(r) /\ q \in Neighbours(r) /\ r \in Neighbours(q) /\ q # r /\ Line(q, r)
  BY NeighboursAreMutual DEF IInv, Receive
<1>2. /\ channel[q][r] # <<>>
      /\ channel' = [channel EXCEPT ![q][r] = Tail(@)]
      /\ m_guaranteeTime' = [m_guaranteeTime EXCEPT ![r][q] = m.guarantee]
      /\ m_events' = [m_events EXCEPT ![r] = @ \cup new]
      /\ m_uid' = [m_uid EXCEPT ![r] = @ + Cardinality(new)]
  BY DEF Receive, Insert
<1>3. /\ channel'[q][r] = Tail(channel[q][r])
      /\ m_guaranteeTime'[r][q] = m.guarantee
      /\ channel[q][r] \in Seq(Message)
  BY <1>1, <1>2 DEF Typing
<1>4. /\ Line(q, r)' /\ Given(q, r)' \subseteq Given(q, r)
      /\ m \in Message
      /\ m_guaranteeTime[r][q] <= m.guarantee
      /\ m.rxTime > 0 => m_guaranteeTime[r][q] <= m.rxTime
  BY <1>1, <1>2, <1>3, LineTail
<1>5. Tail(channel[q][r]) \in Seq(Message)
  BY <1>2, <1>3
<1> HIDE DEF m
<1>6. /\ \A f \in new : /\ f.kind = "user" /\ m_currentTs[r] <= f.ts /\ m_safeTime[r] <= f.ts
      /\ new \in SUBSET AnyEvent
  <2>1. /\ m.rxTime \in Nat /\ m_uid[r] \in Nat /\ m_safeTime[r] \in Nat
        /\ m_guaranteeTime[r][q] \in Nat /\ m_currentTs[r] \in Nat
    BY <1>1, <1>4 DEF Typing, Message
  <2>2. CASE m.rxTime > 0
    <3>1. m_safeTime[r] <= m.rxTime /\ m_currentTs[r] <= m.rxTime
      BY <1>1, <1>4, <2>1, <2>2 DEF Clock
    <3>2. e \in AnyEvent /\ e.ts = m.rxTime /\ e.kind = "user"
      BY <2>1 DEF Event, AnyEvent
    <3>. QED BY <3>1, <3>2
  <2>3. CASE ~(m.rxTime > 0)
    BY <2>3
  <2>. QED BY <2>2, <2>3
<1>7. Cardinality(new) \in Nat
  <2>1. new = {e} \/ new = {}
    OBVIOUS
  <2> HIDE DEF e, new
  <2>. QED BY <2>1, FS_Singleton, FS_EmptySet
<1> HIDE DEF e, new
<1>8. m_guaranteeTime'[r] \in [Neighbours(r) -> Nat]
  BY <1>1, <1>2, <1>4 DEF Typing, Message
<1>9. /\ m_safeTime'[r] \in Nat /\ m_safeTime[r] <= m_safeTime'[r]
      /\ m_safeTime'[r] <= Infinity
      /\ \A p \in Neighbours(r) : m_safeTime'[r] <= m_guaranteeTime'[r][p]
  <2>1. m_safeTime[r] \in Nat /\ m_safeTime[r] <= Infinity
    BY <1>1 DEF Typing, Clock
  <2>2. \A p \in Neighbours(r) : m_safeTime[r] <= m_guaranteeTime'[r][p]
    <3>1. m_safeTime[r] <= m.guarantee
      <4>1. m_guaranteeTime[r][q] \in Nat /\ m.guarantee \in Nat /\ m_safeTime[r] <= m_guaranteeTime[r][q]
        BY <1>1, <1>4 DEF Typing, Message, Clock
      <4>. QED BY <1>4, <2>1, <4>1
    <3>. QED BY <1>1, <1>2, <3>1 DEF Clock, Typing
  <2>3. CASE m_safeTime' = m_safeTime
    BY <2>1, <2>2, <2>3
  <2>4. CASE m_safeTime' = [m_safeTime EXCEPT ![r] = SafeTime(m_guaranteeTime'[r])]
    <3>1. m_safeTime'[r] = SafeTime(m_guaranteeTime'[r])
      BY <1>1, <2>4 DEF Typing
    <3>. QED BY <1>8, <2>1, <2>2, <3>1, SafeTimeIs
  <2>. QED BY <2>3, <2>4
<1>10. Typing'
  <2>1. m_events' \in [Rank -> SUBSET AnyEvent] /\ m_uid' \in [Rank -> Nat]
    BY <1>1, <1>2, <1>6, <1>7 DEF Typing
  <2>2. m_safeTime' \in [Rank -> Nat]
    BY <1>1, <1>9 DEF Typing
  <2>3. DOMAIN channel' = Rank
        /\ \A s \in Rank : channel'[s] \in [Neighbours(s) -> Seq(Message)]
    BY <1>1, <1>2, <1>5 DEF Typing
  <2>4. DOMAIN m_guaranteeTime' = Rank
        /\ \A s \in Rank : m_guaranteeTime'[s] \in [Neighbours(s) -> Nat]
    BY <1>1, <1>2, <1>8 DEF Typing
  <2>. QED BY <1>1, <2>1, <2>2, <2>3, <2>4 DEF Typing
<1>11. Alone(r)
  BY <1>1, <1>2 DEF Alone, Typing
<1>12. ASSUME NEW s \in Rank, NEW p \in Neighbours(s), ~(s = r /\ p = q)
       PROVE  Line(p, s)' /\ Given(p, s)' = Given(p, s)
  <2>1. p \in Rank /\ s \in Neighbours(p) /\ Line(p, s)
    BY NeighboursAreMutual DEF IInv
  <2>2. channel'[p][s] = channel[p][s]
    BY <1>1, <1>2, <1>12, <2>1 DEF Typing
  <2>3. m_guaranteeTime'[s][p] = m_guaranteeTime[s][p]
    BY <1>1, <1>2, <1>12, <2>1 DEF Typing
  <2>. QED BY <2>1, <2>2, <2>3 DEF Line, Given
<1>13. \A s \in Rank : \A p \in Neighbours(s) : Line(p, s)' /\ Given(s, p)' \subseteq Given(s, p)
  BY <1>4, <1>12, NeighboursAreMutual
<1>14. Clock(r)' /\ Nulls(r)' /\ Promises(r)'
  <2>1. /\ m_events'[r] = m_events[r] \cup new /\ m_uid[r] <= m_uid'[r]
        /\ m_currentTs'[r] = m_currentTs[r] /\ m_stop'[r] = m_stop[r] /\ pc'[r] = pc[r]
        /\ m_nullEventId'[r] = m_nullEventId[r] /\ busy'[r] = busy[r]
    BY <1>1, <1>2, <1>7 DEF Typing
  <2>. QED BY <1>6, <1>9, <1>10, <1>13, <2>1, RowGrows
<1>. QED BY <1>10, <1>11, <1>13, <1>14, StepOf

-----------------------------------------------------------------------------
(* Steps that make a promise.                                               *)

LEMMA SendKeeps ==
  ASSUME IInv, NEW r \in Rank, NEW q \in Neighbours(r), NEW rxTime \in Nat, NEW guarantee \in Nat,
         Send(r, q, rxTime, guarantee), m_guaranteeTime' = m_guaranteeTime,
         \A g \in Given(r, q) : g <= guarantee /\ (rxTime > 0 => g <= rxTime)
  PROVE  /\ DOMAIN channel' = Rank
         /\ \A s \in Rank : channel'[s] \in [Neighbours(s) -> Seq(Message)]
         /\ Given(r, q)' = Given(r, q) \cup {guarantee}
         /\ \A s \in Rank : \A p \in Neighbours(s) :
               /\ Line(p, s)'
               /\ ~(s = r /\ p = q) => Given(s, p)' = Given(s, p)
<1> DEFINE m == [rxTime |-> rxTime, guarantee |-> guarantee]
<1>1. Typing /\ q \in Rank /\ r \in Neighbours(q) /\ Line(r, q)
  BY NeighboursAreMutual DEF IInv
<1>2. m \in Message /\ m.rxTime = rxTime /\ m.guarantee = guarantee
  BY DEF Message
<1>3. channel' = [channel EXCEPT ![r][q] = Append(@, m)]
  BY DEF Send
<1> HIDE DEF m
<1>4. channel'[r][q] = Append(channel[r][q], m) /\ channel[r][q] \in Seq(Message)
  BY <1>1, <1>3 DEF Typing
<1>5. channel'[r][q] \in Seq(Message)
  BY <1>2, <1>4, AppendElements
<1>6. DOMAIN channel' = Rank
      /\ \A s \in Rank : channel'[s] \in [Neighbours(s) -> Seq(Message)]
  BY <1>1, <1>3, <1>5 DEF Typing
<1>7. Line(r, q)' /\ Given(r, q)' = Given(r, q) \cup {guarantee}
  BY <1>1, <1>2, <1>4, LineAppend
<1>8. ASSUME NEW s \in Rank, NEW p \in Neighbours(s), ~(s = r /\ p = q)
      PROVE  Line(s, p)' /\ Given(s, p)' = Given(s, p)
  <2>1. channel'[s][p] = channel[s][p]
    BY <1>1, <1>3, <1>8 DEF Typing
  <2>2. p \in Rank /\ s \in Neighbours(p) /\ Line(s, p)
    BY NeighboursAreMutual DEF IInv
  <2>. QED BY <2>1, <2>2 DEF Line, Given
<1>. QED BY <1>6, <1>7, <1>8, NeighboursAreMutual

\* The promise that a null message carries is settled, and exceeds all others.
LEMMA NullMessageKeeps ==
  ASSUME IInv, NEW r \in Rank, NEW next \in m_events[r], NullMessageEventHandler(r, next)
  PROVE  IInv'
<1> DEFINE q0 == next.of
           left == m_events[r] \ {next}
           g0 == CalculateGuaranteeTime(r, q0, left)
<1>0. PICK e0 : e0 = Event(NullTime(r, q0, next.ts), m_uid[r], "null", q0)
  OBVIOUS
<1>1. /\ next.kind = "null" /\ next.uid = m_nullEventId[r][q0] /\ Take(r, next)
      /\ Send(r, q0, 0, g0)
      /\ m_events' = [m_events EXCEPT ![r] = left \cup {e0}]
      /\ m_nullEventId' = [m_nullEventId EXCEPT ![r][q0] = m_uid[r]]
      /\ m_uid' = [m_uid EXCEPT ![r] = @ + 1]
      /\ pc' = [pc EXCEPT ![r] = "arrive"]
      /\ UNCHANGED <<m_safeTime, m_guaranteeTime, m_stop, busy>>
  BY <1>0 DEF NullMessageEventHandler, Go, promiseVars
<1>2. /\ next \in AnyEvent /\ m_events[r] \subseteq AnyEvent
      /\ m_currentTs[r] <= next.ts /\ next.ts <= m_safeTime[r]
      /\ \A e \in m_events[r] : next.ts <= e.ts
      /\ m_currentTs' = [m_currentTs EXCEPT ![r] = next.ts]
      /\ pc[r] = "run" /\ ~m_stop[r]
      /\ \E e \in m_events[r] : e.kind = "stop"
  BY <1>1, TakeProperties
<1>3. Typing /\ Clock(r) /\ Nulls(r) /\ Promises(r) /\ q0 \in Neighbours(r) /\ IsNextNull(r, q0, next)
  BY <1>1 DEF IInv, Nulls, IsNextNull
<1>4. /\ q0 \in Rank /\ BundleDelay(r, q0) \in Nat /\ m_uid[r] \in Nat
      /\ next.ts \in Nat /\ m_safeTime[r] \in Nat /\ m_currentTs[r] \in Nat
      /\ \A e \in m_events[r] : e.ts \in Nat
  BY <1>2, <1>3, BundleDelayIs, NeighboursAreMutual DEF Typing, AnyEvent
<1>5. /\ e0 \in AnyEvent /\ next.ts <= e0.ts /\ e0.kind = "null" /\ e0.of = q0
      /\ e0.uid = m_uid[r] /\ e0.ts = next.ts + Period(r, q0)
  BY <1>0, <1>3, <1>4, PeriodIs DEF Event, AnyEvent
<1>6. left \in SUBSET AnyEvent /\ left # {}
  BY <1>1, <1>2
<1>7. /\ g0 \in Nat /\ g0 <= m_safeTime[r] + BundleDelay(r, q0)
      /\ \A e \in left : g0 <= e.ts + BundleDelay(r, q0)
      /\ \A n \in Nat : /\ n <= m_safeTime[r] + BundleDelay(r, q0)
                        /\ \A e \in left : n <= e.ts + BundleDelay(r, q0)
                        => n <= g0
  BY <1>3, <1>6, GuaranteeIs
<1> HIDE DEF g0
<1>8. ASSUME NEW g \in Given(r, q0)
      PROVE  g \in Nat /\ g <= m_safeTime[r] + BundleDelay(r, q0)
             /\ \A e \in left : g <= e.ts + BundleDelay(r, q0)
  <2>1. g \in Nat /\ g <= m_safeTime[r] + BundleDelay(r, q0)
        /\ (Settled(r, q0, g) \/ OnTheLine(r, q0, g))
    BY <1>3, PromisesAreTimes DEF Promises
  <2>2. CASE Settled(r, q0, g)
    <3>1. \A e \in left : ~IsNextNull(r, q0, e)
      BY <1>3 DEF Nulls
    <3>. QED BY <2>1, <2>2, <3>1 DEF Settled
  <2>3. CASE OnTheLine(r, q0, g)
    <3>1. g <= next.ts + BundleDelay(r, q0)
      BY <1>3, <2>3 DEF OnTheLine
    <3>2. \A e \in left : g <= e.ts + BundleDelay(r, q0)
      BY <1>2, <1>4, <2>1, <3>1
    <3>. QED BY <2>1, <3>2
  <2>. QED BY <2>1, <2>2, <2>3
<1>9. \A g \in Given(r, q0) : g <= g0
  BY <1>7, <1>8
<1>10. /\ DOMAIN channel' = Rank
       /\ \A s \in Rank : channel'[s] \in [Neighbours(s) -> Seq(Message)]
       /\ Given(r, q0)' = Given(r, q0) \cup {g0}
       /\ \A s \in Rank : \A p \in Neighbours(s) :
             Line(p, s)' /\ (~(s = r /\ p = q0) => Given(s, p)' = Given(s, p))
  <2>1. \A g \in Given(r, q0) : g <= g0 /\ (0 > 0 => g <= 0)
    BY <1>9
  <2>. QED BY <1>1, <1>3, <1>7, <2>1, SendKeeps
<1>11. /\ m_events'[r] = left \cup {e0} /\ m_uid'[r] = m_uid[r] + 1
       /\ m_currentTs'[r] = next.ts /\ m_safeTime' = m_safeTime /\ busy' = busy
       /\ m_stop' = m_stop /\ pc'[r] = "arrive" /\ m_nullEventId'[r][q0] = m_uid[r]
       /\ \A q \in Neighbours(r) : q # q0 => m_nullEventId'[r][q] = m_nullEventId[r][q]
  BY <1>1, <1>2, <1>3 DEF Typing
<1>12. Typing'
  <2>1. m_events' \in [Rank -> SUBSET AnyEvent] /\ m_uid' \in [Rank -> Nat]
    BY <1>1, <1>2, <1>3, <1>5 DEF Typing
  <2>2. DOMAIN m_nullEventId' = Rank
        /\ \A s \in Rank : m_nullEventId'[s] \in [Neighbours(s) -> Nat]
    BY <1>1, <1>3, <1>4 DEF Typing
  <2>3. m_currentTs' \in [Rank -> Nat]
        /\ pc' \in [Rank -> {"idle", "run", "handler", "arrive", "done"}]
    BY <1>1, <1>2, <1>3, <1>4 DEF Typing
  <2>. QED BY <1>1, <1>3, <1>10, <2>1, <2>2, <2>3 DEF Typing
<1>13. Alone(r)
  BY <1>1, <1>2, <1>3 DEF Alone, Typing
<1>14. Clock(r)'
  BY <1>1, <1>2, <1>3, <1>5, <1>11 DEF Clock
<1>15. Nulls(r)'
  <2>1. \A e \in m_events'[r] : e.kind = "null" => e.of \in Neighbours(r) /\ e.uid < m_uid'[r]
    <3>1. \A e \in m_events[r] : e.uid \in Nat
      BY <1>2 DEF AnyEvent
    <3>. QED BY <1>3, <1>4, <1>5, <1>11, <3>1 DEF Nulls
  <2>2. \A q \in Neighbours(r) : \A e \in m_events'[r] :
           IsNextNull(r, q, e)' => IF q = q0 THEN e = e0 ELSE e \in m_events[r] /\ IsNextNull(r, q, e)
    <3>1. \A e \in left : e.kind = "null" => e.uid # m_uid[r]
      BY <1>3, <1>4 DEF Nulls
    <3>. QED BY <1>5, <1>11, <3>1 DEF IsNextNull
  <2>3. \A q \in Neighbours(r) : \A e, f \in m_events'[r] :
           IsNextNull(r, q, e)' /\ IsNextNull(r, q, f)' => e = f
    BY <1>3, <2>2 DEF Nulls
  <2>4. ASSUME NEW q \in Neighbours(r)
        PROVE  \E e \in m_events'[r] :
                  IsNextNull(r, q, e)' /\ e.ts <= m_currentTs'[r] + Period(r, q)
    <3>1. Period(r, q) \in Nat
      BY <1>4, PeriodIs
    <3>2. CASE q = q0
      <4>1. IsNextNull(r, q, e0)' /\ e0.ts <= m_currentTs'[r] + Period(r, q)
        BY <1>4, <1>5, <1>11, <3>1, <3>2 DEF IsNextNull
      <4>. QED BY <1>11, <4>1
    <3>3. CASE q # q0
      <4>1. PICK e \in m_events[r] : IsNextNull(r, q, e) /\ e.ts <= m_currentTs[r] + Period(r, q)
        BY <1>2, <1>3 DEF Nulls
      <4>2. e # next /\ IsNextNull(r, q, e)'
        BY <1>11, <3>3, <4>1 DEF IsNextNull
      <4>3. e.ts <= next.ts + Period(r, q)
        BY <1>2, <1>4, <3>1, <4>1
      <4>. QED BY <1>11, <4>1, <4>2, <4>3
    <3>. QED BY <3>2, <3>3
  <2>5. \E e \in m_events'[r] : e.kind = "stop"
    BY <1>1, <1>2, <1>11
  <2>. QED BY <2>1, <2>3, <2>4, <2>5 DEF Nulls
<1>16. Promises(r)'
  <2>1. ASSUME NEW q \in Neighbours(r), NEW g \in Given(r, q)'
        PROVE  (g <= m_safeTime[r] + BundleDelay(r, q) /\ (Settled(r, q, g) \/ OnTheLine(r, q, g)))'
    <3>1. CASE q = q0
      <4>1. /\ g <= m_safeTime[r] + BundleDelay(r, q0)
            /\ \A e \in left : g <= e.ts + BundleDelay(r, q0)
        BY <1>7, <1>8, <1>10, <3>1
      <4>2. IsNextNull(r, q0, e0)'
        BY <1>5, <1>11 DEF IsNextNull
      <4>3. Settled(r, q0, g)'
        BY <1>11, <4>1, <4>2 DEF Settled
      <4>. QED BY <1>11, <3>1, <4>1, <4>3
    <3>2. CASE q # q0
      <4>1. g \in Given(r, q) /\ g \in Nat /\ BundleDelay(r, q) \in Nat
        BY <1>3, <1>10, <3>2, PromisesAreTimes, BundleDelayIs
      <4>2. g <= m_safeTime[r] + BundleDelay(r, q) /\ (Settled(r, q, g) \/ OnTheLine(r, q, g))
        BY <1>3, <4>1 DEF Promises
      <4>3. \A e : IsNextNull(r, q, e)' = IsNextNull(r, q, e)
        BY <1>11, <3>2 DEF IsNextNull
      <4>4. CASE Settled(r, q, g)
        <5>1. ~IsNextNull(r, q, next)
          BY <3>2 DEF IsNextNull
        <5>2. g <= next.ts + BundleDelay(r, q)
          BY <4>4, <5>1 DEF Settled
        <5>3. g <= e0.ts + BundleDelay(r, q)
          <6>1. e0.ts \in Nat
            BY <1>5 DEF AnyEvent
          <6>. QED BY <1>4, <1>5, <4>1, <5>2, <6>1
        <5>4. Settled(r, q, g)'
          BY <1>11, <4>3, <4>4, <5>3 DEF Settled
        <5>. QED BY <1>11, <4>2, <5>4
      <4>5. CASE OnTheLine(r, q, g)
        <5>1. ~IsNextNull(r, q, e0) /\ e0.kind # "complete"
          BY <1>5, <3>2 DEF IsNextNull
        <5>2. OnTheLine(r, q, g)'
          BY <1>11, <4>3, <4>5, <5>1 DEF OnTheLine
        <5>. QED BY <1>11, <4>2, <5>2
      <4>. QED BY <4>2, <4>4, <4>5
    <3>. QED BY <3>1, <3>2
  <2>. QED BY <2>1 DEF Promises
<1>. QED BY <1>10, <1>12, <1>13, <1>14, <1>15, <1>16, StepOf

\* A packet keeps the promises that were made when the line was free, and the
\* one that goes with it is kept while the line is busy.
LEMMA TransmitKeeps ==
  ASSUME OneLink, IInv, NEW r \in Rank, NEW l \in Link, NEW tx \in TxTime[l],
         TransmitStart(r, l, tx)
  PROVE  IInv'
<1> DEFINE q0 == Remote(l, r)
           rx == Arrival(r, l, tx)
           D == BundleDelay(r, q0)
<1>0. PICK c0, e0 : /\ c0 = Complete(r, l, tx)
                    /\ e0 = Event(NullTime(r, q0, m_currentTs[r]), m_uid[r] + 1, "null", q0)
  OBVIOUS
<1> DEFINE all == m_events[r] \cup {c0}
           g0 == CalculateGuaranteeTime(r, q0, all)
<1>1. /\ l \in LinksOf(r) /\ l \notin busy[r] /\ pc[r] = "handler"
      /\ busy' = [busy EXCEPT ![r] = @ \cup {l}]
      /\ Send(r, q0, rx, g0)
      /\ m_events' = [m_events EXCEPT ![r] = @ \cup {c0, e0}]
      /\ m_uid' = [m_uid EXCEPT ![r] = @ + Cardinality({c0, e0})]
      /\ m_nullEventId' = [m_nullEventId EXCEPT ![r][q0] = m_uid[r] + 1]
      /\ UNCHANGED <<m_safeTime, m_guaranteeTime, m_currentTs, m_stop, pc>>
  BY <1>0 DEF TransmitStart, Insert, MayCall, promiseVars
<1>2. Typing /\ Clock(r) /\ Nulls(r) /\ Promises(r) /\ m_events[r] \subseteq AnyEvent
  BY DEF IInv, Typing
<1>3. q0 \in Neighbours(r) /\ q0 \in Rank /\ LinkDelay[l] = D
  BY <1>1, NeighboursAreMutual, BundleDelayIs DEF Neighbours
<1>4. /\ D \in Nat /\ m_uid[r] \in Nat /\ tx \in Nat /\ InterframeGap[l] \in Nat
      /\ m_safeTime[r] \in Nat /\ m_currentTs[r] \in Nat
      /\ \A e \in m_events[r] : e.ts \in Nat /\ e.uid \in Nat
  BY <1>2, <1>3, BundleDelayIs, NullMessageAssumption DEF Typing, AnyEvent
<1>5. /\ c0 \in AnyEvent /\ c0.kind = "complete" /\ c0.of = l
      /\ c0.ts = m_currentTs[r] + tx + InterframeGap[l] /\ c0.ts \in Nat
  BY <1>0, <1>4 DEF Complete, Event, AnyEvent
<1>6. /\ e0 \in AnyEvent /\ e0.kind = "null" /\ e0.of = q0 /\ e0.uid = m_uid[r] + 1
      /\ e0.ts = m_currentTs[r] + Period(r, q0) /\ e0.ts \in Nat /\ Period(r, q0) \in Nat
  BY <1>0, <1>3, <1>4, PeriodIs DEF Event, AnyEvent
<1>7. Cardinality({c0, e0}) = 2
  <2>1. c0 # e0
    BY <1>5, <1>6
  <2>2. IsFiniteSet({c0}) /\ Cardinality({c0}) = 1
    BY FS_Singleton
  <2>3. Cardinality({c0} \cup {e0}) = Cardinality({c0}) + 1
    BY <2>1, <2>2, FS_AddElement
  <2>4. {c0} \cup {e0} = {c0, e0}
    OBVIOUS
  <2>. QED BY <2>2, <2>3, <2>4
<1>8. rx \in Nat /\ rx = m_currentTs[r] + tx + D
  BY <1>3, <1>4 DEF Arrival
<1>9. all \in SUBSET AnyEvent /\ all # {}
  BY <1>2, <1>5
<1>10. /\ g0 \in Nat /\ g0 <= m_safeTime[r] + D
       /\ \A e \in all : g0 <= e.ts + D
       /\ \A n \in Nat : /\ n <= m_safeTime[r] + D
                         /\ \A e \in all : n <= e.ts + D
                         => n <= g0
  BY <1>2, <1>3, <1>9, GuaranteeIs
<1> HIDE DEF g0, rx
<1>11. ASSUME NEW g \in Given(r, q0)
       PROVE  /\ g \in Nat /\ Settled(r, q0, g) /\ g <= m_safeTime[r] + D
              /\ g <= m_currentTs[r] + D /\ g <= rx /\ \A e \in all : g <= e.ts + D
  <2>1. g \in Nat /\ g <= m_safeTime[r] + D /\ (Settled(r, q0, g) \/ OnTheLine(r, q0, g))
    BY <1>2, <1>3, PromisesAreTimes DEF Promises
  <2>2. ~OnTheLine(r, q0, g)
    BY <1>1, <1>2 DEF OnTheLine, OneLink, Typing
  <2>3. g <= m_currentTs[r] + D
    BY <1>1, <2>1, <2>2 DEF Settled
  <2>4. \A e \in m_events[r] : g <= e.ts + D
    <3>1. \A e \in m_events[r] : m_currentTs[r] <= e.ts
      BY <1>2 DEF Clock
    <3>. QED BY <1>4, <2>1, <2>3, <3>1
  <2>5. g <= c0.ts + D /\ g <= rx
    BY <1>4, <1>5, <1>8, <2>1, <2>3
  <2>. QED BY <2>1, <2>2, <2>3, <2>4, <2>5
<1>12. \A g \in Given(r, q0) : g <= g0 /\ (rx > 0 => g <= rx)
  BY <1>10, <1>11
<1>13. /\ DOMAIN channel' = Rank
       /\ \A s \in Rank : channel'[s] \in [Neighbours(s) -> Seq(Message)]
       /\ Given(r, q0)' = Given(r, q0) \cup {g0}
       /\ \A s \in Rank : \A p \in Neighbours(s) :
             Line(p, s)' /\ (~(s = r /\ p = q0) => Given(s, p)' = Given(s, p))
  BY <1>1, <1>3, <1>8, <1>10, <1>12, SendKeeps
<1>14. /\ m_events'[r] = m_events[r] \cup {c0, e0} /\ m_uid'[r] = m_uid[r] + 2
       /\ m_currentTs' = m_currentTs /\ m_safeTime' = m_safeTime /\ m_stop' = m_stop /\ pc' = pc
       /\ busy'[r] = busy[r] \cup {l} /\ m_nullEventId'[r][q0] = m_uid[r] + 1
       /\ \A q \in Neighbours(r) : q # q0 => m_nullEventId'[r][q] = m_nullEventId[r][q]
  BY <1>1, <1>2, <1>3, <1>7 DEF Typing
<1>15. Typing'
  <2>1. m_events' \in [Rank -> SUBSET AnyEvent] /\ m_uid' \in [Rank -> Nat]
    BY <1>1, <1>2, <1>5, <1>6, <1>7 DEF Typing
  <2>2. DOMAIN m_nullEventId' = Rank
        /\ \A s \in Rank : m_nullEventId'[s] \in [Neighbours(s) -> Nat]
    <3>1. m_nullEventId' = [m_nullEventId EXCEPT ![r][q0] = m_uid[r] + 1] /\ m_uid[r] + 1 \in Nat
      BY <1>1, <1>4
    <3>. QED BY <1>2, <3>1 DEF Typing
  <2>3. busy' \in [Rank -> SUBSET Link] /\ \A s \in Rank : busy'[s] \subseteq LinksOf(s)
    <3>1. \A s \in Rank : busy'[s] = IF s = r THEN busy[r] \cup {l} ELSE busy[s]
      BY <1>1, <1>2 DEF Typing
    <3>2. busy' \in [Rank -> SUBSET Link]
      BY <1>1, <1>2 DEF Typing
    <3>. QED BY <1>1, <1>2, <3>1, <3>2 DEF Typing
  <2>. QED BY <1>1, <1>2, <1>13, <2>1, <2>2, <2>3 DEF Typing
<1>16. Alone(r)
  BY <1>1, <1>2 DEF Alone, Typing
<1>17. m_currentTs[r] <= c0.ts /\ m_currentTs[r] <= e0.ts
  BY <1>4, <1>5, <1>6
<1>18. Clock(r)'
  BY <1>1, <1>2, <1>14, <1>17 DEF Clock
<1>19. Nulls(r)'
  <2>1. \A e \in m_events'[r] : e.kind = "null" => e.of \in Neighbours(r) /\ e.uid < m_uid'[r]
    <3>1. m_uid'[r] = m_uid[r] + 2 /\ e0.uid < m_uid'[r]
      BY <1>4, <1>6, <1>14
    <3>2. \A e \in m_events[r] : e.uid < m_uid[r] => e.uid < m_uid'[r]
      BY <1>4, <3>1
    <3>3. \A e \in m_events'[r] : e.kind = "null" => e \in m_events[r] \/ e = e0
      BY <1>5, <1>14
    <3>. QED BY <1>2, <1>3, <1>6, <3>1, <3>2, <3>3 DEF Nulls
  <2>2. \A q \in Neighbours(r) : \A e \in m_events'[r] :
           IsNextNull(r, q, e)' => IF q = q0 THEN e = e0 ELSE e \in m_events[r] /\ IsNextNull(r, q, e)
    <3>1. \A e \in m_events[r] : e.kind = "null" => e.uid # m_uid[r] + 1
      BY <1>2, <1>4 DEF Nulls
    <3>. QED BY <1>5, <1>6, <1>14, <3>1 DEF IsNextNull
  <2>3. \A q \in Neighbours(r) : \A e, f \in m_events'[r] :
           IsNextNull(r, q, e)' /\ IsNextNull(r, q, f)' => e = f
    BY <1>2, <2>2 DEF Nulls
  <2>4. ASSUME NEW q \in Neighbours(r)
        PROVE  \E e \in m_events'[r] :
                  IsNextNull(r, q, e)' /\ e.ts <= m_currentTs'[r] + Period(r, q)
    <3>1. CASE q = q0
      <4>1. IsNextNull(r, q, e0)' /\ e0.ts <= m_currentTs'[r] + Period(r, q)
        BY <1>4, <1>6, <1>14, <3>1 DEF IsNextNull
      <4>. QED BY <1>14, <4>1
    <3>2. CASE q # q0
      <4>1. PICK e \in m_events[r] : IsNextNull(r, q, e) /\ e.ts <= m_currentTs[r] + Period(r, q)
        BY <1>1, <1>2 DEF Nulls
      <4>2. IsNextNull(r, q, e)'
        BY <1>14, <3>2, <4>1 DEF IsNextNull
      <4>. QED BY <1>14, <4>1, <4>2
    <3>. QED BY <3>1, <3>2
  <2>5. m_stop'[r] \/ \E e \in m_events'[r] : e.kind = "stop"
    BY <1>2, <1>14 DEF Nulls
  <2>. QED BY <2>1, <2>3, <2>4, <2>5 DEF Nulls
<1>20. Promises(r)'
  <2>1. ASSUME NEW q \in Neighbours(r), NEW g \in Given(r, q)'
        PROVE  (g <= m_safeTime[r] + BundleDelay(r, q) /\ (Settled(r, q, g) \/ OnTheLine(r, q, g)))'
    <3>1. CASE q = q0 /\ g \in Given(r, q0)
      <4>1. \A e \in m_events'[r] : ~IsNextNull(r, q0, e)' => g <= e.ts + D
        <5>1. IsNextNull(r, q0, e0)'
          BY <1>6, <1>14 DEF IsNextNull
        <5>. QED BY <1>11, <1>14, <3>1, <5>1
      <4>2. g <= m_currentTs'[r] + D /\ g <= m_safeTime'[r] + D
        BY <1>11, <1>14, <3>1
      <4>3. Settled(r, q0, g)'
        BY <4>1, <4>2 DEF Settled
      <4>. QED BY <3>1, <4>2, <4>3
    <3>2. CASE q = q0 /\ g = g0
      <4>1. PICK e \in m_events[r] :
               IsNextNull(r, q0, e) /\ e.ts <= m_currentTs[r] + Period(r, q0)
        BY <1>1, <1>2, <1>3 DEF Nulls
      <4>2. g0 <= e0.ts + D
        BY <1>4, <1>6, <1>10, <4>1
      <4>3. \A f \in m_events'[r] : g <= f.ts + D
        BY <1>10, <1>14, <3>2, <4>2
      <4>4. OnTheLine(r, q0, g)'
        BY <1>14, <4>3 DEF OnTheLine
      <4>. QED BY <1>10, <1>14, <3>2, <4>4
    <3>3. CASE q # q0
      <4>1. g \in Given(r, q) /\ g \in Nat /\ BundleDelay(r, q) \in Nat
        BY <1>2, <1>13, <3>3, PromisesAreTimes, BundleDelayIs
      <4>2. g <= m_safeTime[r] + BundleDelay(r, q) /\ (Settled(r, q, g) \/ OnTheLine(r, q, g))
        BY <1>2, <4>1 DEF Promises
      <4>3. \A e : IsNextNull(r, q, e)' = IsNextNull(r, q, e)
        BY <1>14, <3>3 DEF IsNextNull
      <4>4. CASE Settled(r, q, g)
        <5>1. g <= m_currentTs[r] + BundleDelay(r, q)
          BY <1>1, <4>4 DEF Settled
        <5>2. g <= c0.ts + BundleDelay(r, q) /\ g <= e0.ts + BundleDelay(r, q)
          BY <1>4, <1>5, <1>6, <1>17, <4>1, <5>1
        <5>3. Settled(r, q, g)'
          BY <1>14, <4>3, <4>4, <5>1, <5>2 DEF Settled
        <5>. QED BY <1>14, <4>2, <5>3
      <4>5. CASE OnTheLine(r, q, g)
        <5>1. PICK k \in busy[r] :
                 /\ Remote(k, r) = q
                 /\ \A e \in m_events[r] :
                       (e.kind = "complete" /\ e.of = k) \/ IsNextNull(r, q, e)
                          => g <= e.ts + BundleDelay(r, q)
          BY <4>5 DEF OnTheLine
        <5>2. k # l /\ ~IsNextNull(r, q, c0) /\ ~IsNextNull(r, q, e0)
          BY <1>1, <1>5, <1>6, <3>3, <5>1 DEF IsNextNull
        <5>3. OnTheLine(r, q, g)'
          BY <1>5, <1>6, <1>14, <4>3, <5>1, <5>2 DEF OnTheLine
        <5>. QED BY <1>14, <4>2, <5>3
      <4>. QED BY <4>2, <4>4, <4>5
    <3>. QED BY <1>13, <2>1, <3>1, <3>2, <3>3
  <2>. QED BY <2>1 DEF Promises
<1>. QED BY <1>13, <1>15, <1>16, <1>18, <1>19, <1>20, StepOf

\* The neighbours of r that get a null event before q.
Before(r, q) == {p \in Neighbours(r) : p < q}

\* The ids of the first null events are among those that Insert uses up.
LEMMA IdsFit ==
  ASSUME NEW r \in Rank, NEW event, NEW new,
         \A q \in Neighbours(r) : event[q] \in new /\ event[q].of = q,
         \A e \in new : \E q \in Neighbours(r) : e = event[q]
  PROVE  /\ Cardinality(new) \in Nat
         /\ \A q \in Neighbours(r) : /\ Cardinality(Before(r, q)) \in Nat
                                     /\ Cardinality(Before(r, q)) < Cardinality(new)
<1> DEFINE N == Neighbours(r)
           to == [q \in N |-> event[q]]
           from == [e \in new |-> e.of]
<1>1. N \in SUBSET Rank
  BY NeighboursAreMutual
<1>2. IsFiniteSet(N) /\ Cardinality(N) \in Nat
  BY <1>1, LinkAssumption, FS_Subset, FS_CardinalityType
<1>3. to \in Surjection(N, new) /\ from \in Surjection(new, N)
  BY DEF Surjection
<1> HIDE DEF N, to, from
<1>4. IsFiniteSet(new) /\ Cardinality(new) \in Nat
  BY <1>2, <1>3, FS_Surjection, FS_CardinalityType
<1>5. Cardinality(N) <= Cardinality(new)
  BY <1>3, <1>4, FS_Surjection
<1>6. ASSUME NEW q \in N
      PROVE  /\ Cardinality(Before(r, q)) \in Nat
             /\ Cardinality(Before(r, q)) < Cardinality(new)
  <2>1. q \in Nat
    BY <1>1, NullMessageAssumption
  <2>2. Before(r, q) \in SUBSET (N \ {q})
    BY <2>1 DEF Before, N
  <2>3. IsFiniteSet(N \ {q}) /\ Cardinality(N \ {q}) = Cardinality(N) - 1
    BY <1>2, FS_RemoveElement
  <2>4. /\ Cardinality(Before(r, q)) <= Cardinality(N \ {q})
        /\ Cardinality(Before(r, q)) \in Nat
    BY <2>2, <2>3, FS_Subset, FS_CardinalityType
  <2>. QED BY <1>2, <1>4, <1>5, <2>3, <2>4
<1>. QED BY <1>4, <1>6 DEF N

\* A rank starts with the promises that its links give.
LEMMA RunBeginKeeps ==
  ASSUME IInv, NEW r \in Rank, RunBegin(r)
  PROVE  IInv'
<1> DEFINE N == Neighbours(r)
           first(q) == [rxTime |-> 0, guarantee |-> BundleDelay(r, q)]
<1>0. PICK id, event, new :
        /\ id = [q \in N |-> m_uid[r] + Cardinality({p \in N : p < q})]
        /\ event = [q \in N |-> Event(NullTime(r, q, m_currentTs[r]), id[q], "null", q)]
        /\ new = {event[q] : q \in N}
  OBVIOUS
<1>1. /\ pc[r] = "idle"
      /\ new = {Event(NullTime(r, q, m_currentTs[r]),
                      m_uid[r] + Cardinality({p \in N : p < q}), "null", q) : q \in N}
      /\ m_events' = [m_events EXCEPT ![r] = @ \cup new]
      /\ m_uid' = [m_uid EXCEPT ![r] = @ + Cardinality(new)]
      /\ m_nullEventId' = [m_nullEventId EXCEPT ![r] = id]
      /\ channel' = [channel EXCEPT ![r] = [q \in N |-> Append(channel[r][q], first(q))]]
      /\ m_safeTime' = [m_safeTime EXCEPT ![r] = 0]
      /\ m_stop' = [m_stop EXCEPT ![r] = FALSE]
      /\ pc' = [pc EXCEPT ![r] = "run"]
      /\ UNCHANGED <<m_guaranteeTime, m_currentTs, busy>>
  BY <1>0 DEF RunBegin, Insert, Go
<1>2. /\ Typing /\ Clock(r) /\ Nulls(r) /\ Promises(r)
      /\ m_events[r] \subseteq AnyEvent /\ \A q \in N : Line(r, q)
  BY NeighboursAreMutual DEF IInv, Typing
<1>3. /\ m_safeTime[r] = 0 /\ m_currentTs[r] = 0 /\ m_uid[r] \in Nat
      /\ \E e \in m_events[r] : e.kind = "stop"
  <2>1. m_currentTs[r] \in Nat /\ m_safeTime[r] = 0 /\ m_currentTs[r] <= m_safeTime[r]
    BY <1>1, <1>2 DEF Typing, Clock
  <2>. QED BY <1>1, <1>2, <2>1 DEF Typing, Clock, Nulls
<1>4. ASSUME NEW q \in N
      PROVE  /\ event[q].of = q /\ event[q].kind = "null" /\ event[q].uid = id[q]
             /\ event[q].ts = Period(r, q) /\ Period(r, q) \in Nat
             /\ BundleDelay(r, q) \in Nat /\ q \in Rank
  <2>1. NullTime(r, q, 0) = 0 + Period(r, q) /\ Period(r, q) \in Nat
    BY PeriodIs
  <2>2. event[q] = Event(NullTime(r, q, m_currentTs[r]), id[q], "null", q)
    BY <1>0
  <2>3. BundleDelay(r, q) \in Nat /\ q \in Rank
    BY BundleDelayIs, NeighboursAreMutual
  <2>. QED BY <1>3, <2>1, <2>2, <2>3 DEF Event
<1>a. \A q \in N : first(q) \in Message
  BY <1>4 DEF Message
<1>b. \A q \in N : id[q] = m_uid[r] + Cardinality(Before(r, q))
  BY <1>0 DEF Before
<1>c. /\ \A q \in N : event[q] \in new /\ event[q].of = q
      /\ \A e \in new : \E q \in N : e = event[q]
  BY <1>0, <1>4
<1>5. /\ Cardinality(new) \in Nat
      /\ \A q \in N : /\ Cardinality(Before(r, q)) \in Nat
                      /\ Cardinality(Before(r, q)) < Cardinality(new)
  BY <1>c, IdsFit
<1>6. \A q \in N : /\ id[q] \in Nat /\ m_uid[r] <= id[q]
                   /\ id[q] < m_uid[r] + Cardinality(new)
  <2> SUFFICES ASSUME NEW q \in N
               PROVE  /\ id[q] \in Nat /\ m_uid[r] <= id[q]
                      /\ id[q] < m_uid[r] + Cardinality(new)
    OBVIOUS
  <2>1. PICK n : n = Cardinality(Before(r, q))
    OBVIOUS
  <2>2. id[q] = m_uid[r] + n /\ n \in Nat /\ n < Cardinality(new)
    BY <1>b, <1>5, <2>1
  <2>. QED BY <1>3, <1>5, <2>2
<1>7. new \subseteq AnyEvent
  <2>1. \A q \in N : event[q] \in AnyEvent
    <3>1. ASSUME NEW q \in N PROVE event[q] \in AnyEvent
      <4>1. event[q] = [ts |-> Period(r, q), uid |-> id[q], kind |-> "null", of |-> q]
        BY <1>0, <1>3, <1>4 DEF Event
      <4>. QED BY <1>4, <1>6, <4>1 DEF AnyEvent
    <3>. QED BY <3>1
  <2>. QED BY <1>0, <2>1
<1>8. ASSUME NEW q \in N
      PROVE  /\ channel'[r][q] = Append(channel[r][q], first(q))
             /\ channel[r][q] \in Seq(Message) /\ channel'[r][q] \in Seq(Message)
  <2>1. channel'[r][q] = Append(channel[r][q], first(q)) /\ channel[r][q] \in Seq(Message)
    BY <1>1, <1>2 DEF Typing
  <2>. QED BY <1>a, <2>1, AppendElements
<1>9. ASSUME NEW q \in N, NEW g \in Given(r, q)
      PROVE  g \in Nat /\ g <= BundleDelay(r, q)
  <2>1. g \in Nat /\ g <= m_safeTime[r] + BundleDelay(r, q)
    BY <1>2, <1>9, PromisesAreTimes DEF Promises
  <2>. QED BY <1>3, <1>4, <2>1
<1>10. ASSUME NEW q \in N
       PROVE  Line(r, q)' /\ Given(r, q)' = Given(r, q) \cup {BundleDelay(r, q)}
  <2>1. \A g \in Given(r, q) :
           g <= first(q).guarantee /\ (first(q).rxTime > 0 => g <= first(q).rxTime)
    BY <1>9
  <2>2. m_guaranteeTime'[q][r] = m_guaranteeTime[q][r] /\ first(q).guarantee = BundleDelay(r, q)
    BY <1>1
  <2>3. first(q) \in Message /\ Line(r, q) /\ channel'[r][q] = Append(channel[r][q], first(q))
    BY <1>2, <1>8, <1>a
  <2> HIDE DEF first
  <2>. QED BY <1>2, <2>1, <2>2, <2>3, LineAppend
<1>11. ASSUME NEW s \in Rank, NEW p \in Neighbours(s), s # r
       PROVE  Line(s, p)' /\ Given(s, p)' = Given(s, p)
  <2>1. channel'[s] = channel[s]
    BY <1>1, <1>2, <1>11 DEF Typing
  <2>2. p \in Rank /\ s \in Neighbours(p) /\ Line(s, p)
    BY NeighboursAreMutual DEF IInv
  <2>. QED BY <1>1, <2>1, <2>2 DEF Line, Given
<1>12. \A s \in Rank : \A p \in Neighbours(s) :
          Line(p, s)' /\ (s # r => Given(s, p)' \subseteq Given(s, p))
  BY <1>10, <1>11, NeighboursAreMutual
<1>13. /\ m_events'[r] = m_events[r] \cup new /\ m_uid'[r] = m_uid[r] + Cardinality(new)
       /\ m_currentTs'[r] = 0 /\ m_safeTime'[r] = 0 /\ pc'[r] = "run"
       /\ m_nullEventId'[r] = id /\ m_stop'[r] = FALSE
  BY <1>1, <1>2, <1>3 DEF Typing
<1>14. Typing'
  <2>1. m_events' \in [Rank -> SUBSET AnyEvent] /\ m_uid' \in [Rank -> Nat]
    <3>1. /\ m_events' = [m_events EXCEPT ![r] = @ \cup new]
          /\ m_uid' = [m_uid EXCEPT ![r] = @ + Cardinality(new)]
          /\ Cardinality(new) \in Nat
      BY <1>1, <1>5
    <3>. QED BY <1>2, <1>7, <3>1 DEF Typing
  <2>2. id \in [N -> Nat]
    BY <1>0, <1>6
  <2>3. DOMAIN m_nullEventId' = Rank
        /\ \A s \in Rank : m_nullEventId'[s] \in [Neighbours(s) -> Nat]
    BY <1>1, <1>2, <2>2 DEF Typing
  <2>4. DOMAIN channel' = Rank
        /\ \A s \in Rank : channel'[s] \in [Neighbours(s) -> Seq(Message)]
    <3>1. [q \in N |-> Append(channel[r][q], first(q))] \in [N -> Seq(Message)]
      BY <1>4, <1>8, AppendElements
    <3>. QED BY <1>1, <1>2, <3>1 DEF Typing
  <2>5. /\ m_safeTime' \in [Rank -> Nat] /\ m_stop' \in [Rank -> BOOLEAN]
        /\ pc' \in [Rank -> {"idle", "run", "handler", "arrive", "done"}]
    BY <1>1, <1>2 DEF Typing
  <2>. QED BY <1>1, <1>2, <2>1, <2>3, <2>4, <2>5 DEF Typing
<1>15. Alone(r)
  BY <1>1, <1>2 DEF Alone, Typing
<1>16. \A e \in m_events'[r] : e.ts \in Nat
  BY <1>2, <1>7, <1>13 DEF AnyEvent
<1>17. Clock(r)'
  <2>1. \A q \in N : m_guaranteeTime'[r][q] \in Nat
    BY <1>1, <1>2 DEF Typing
  <2>. QED BY <1>13, <1>16, <2>1, LinkAssumption DEF Clock
<1>18. Nulls(r)'
  <2>1. \A e \in m_events[r] : e.uid \in Nat /\ (e.kind = "null" => e.of \in N /\ e.uid < m_uid[r])
    BY <1>2 DEF Nulls, AnyEvent
  <2>2. \A q \in N : event[q] \in new /\ \A e \in new : e.of = q => e = event[q]
    BY <1>c
  <2>3. \A e \in m_events'[r] : e.kind = "null" => e.of \in N /\ e.uid < m_uid'[r]
    <3>1. \A e \in new : e.of \in N /\ e.uid < m_uid'[r]
      <4> SUFFICES ASSUME NEW q \in N PROVE event[q].of \in N /\ event[q].uid < m_uid'[r]
        BY <1>c
      <4>. QED BY <1>4, <1>6, <1>13
    <3>2. \A e \in m_events[r] : e.uid < m_uid[r] => e.uid < m_uid'[r]
      BY <1>3, <1>5, <1>13, <2>1
    <3>. QED BY <1>13, <2>1, <3>1, <3>2
  <2>4. ASSUME NEW q \in N, NEW e \in m_events'[r], IsNextNull(r, q, e)'
        PROVE  e = event[q]
    <3>1. e.kind = "null" /\ e.of = q /\ e.uid = id[q]
      BY <1>13, <2>4 DEF IsNextNull
    <3>2. e \notin m_events[r]
      BY <1>3, <1>6, <2>1, <3>1
    <3>. QED BY <1>13, <2>2, <3>1, <3>2
  <2>5. ASSUME NEW q \in N
        PROVE  event[q] \in m_events'[r] /\ IsNextNull(r, q, event[q])'
               /\ event[q].ts <= m_currentTs'[r] + Period(r, q)
    <3>1. /\ event[q].ts = Period(r, q) /\ Period(r, q) \in Nat
          /\ event[q].kind = "null" /\ event[q].of = q /\ event[q].uid = id[q]
      BY <1>4
    <3>2. event[q].ts <= m_currentTs'[r] + Period(r, q)
      BY <1>13, <3>1
    <3>. QED BY <1>13, <2>2, <3>1, <3>2 DEF IsNextNull
  <2>6. \E e \in m_events'[r] : e.kind = "stop"
    BY <1>3, <1>13
  <2>. QED BY <2>3, <2>4, <2>5, <2>6 DEF Nulls
<1>19. Promises(r)'
  <2>1. ASSUME NEW q \in N, NEW g \in Given(r, q)'
        PROVE  (g <= m_safeTime[r] + BundleDelay(r, q) /\ (Settled(r, q, g) \/ OnTheLine(r, q, g)))'
    <3>1. g \in Nat /\ g <= BundleDelay(r, q) /\ BundleDelay(r, q) \in Nat
      <4>1. g \in Given(r, q) \/ g = BundleDelay(r, q)
        BY <1>10
      <4>2. BundleDelay(r, q) \in Nat
        BY <1>4
      <4>. QED BY <1>9, <4>1, <4>2
    <3>2. \A e \in m_events'[r] : g <= e.ts + BundleDelay(r, q)
      BY <1>16, <3>1
    <3>3. Settled(r, q, g)'
      BY <1>13, <3>2 DEF Settled
    <3>. QED BY <1>13, <3>1, <3>3
  <2>. QED BY <2>1 DEF Promises
<1>. QED BY <1>12, <1>14, <1>15, <1>17, <1>18, <1>19, StepOf

-----------------------------------------------------------------------------
(* The theorems.                                                            *)

LEMMA NextInvariant ==
  ASSUME OneLink, IInv, [NextStep]_vars
  PROVE  IInv'
<1>1. CASE UNCHANGED vars
  <2>1. IInv' = IInv
    BY <1>1 DEF vars, eventVars, promiseVars, sendVars, IInv, Typing, Clock, Nulls, Promises,
                Given, Settled, OnTheLine, IsNextNull, Line
  <2>. QED BY <2>1
<1>2. ASSUME NEW r \in Rank, Handler(r) PROVE IInv'
  BY <1>2, ScheduleKeeps, TransmitKeeps DEF Handler
<1>3. ASSUME NEW r \in Rank, NEW next \in m_events[r], ProcessOneEvent(r, next) PROVE IInv'
  BY <1>3, EventsKeep, NullMessageKeeps DEF ProcessOneEvent
<1>4. ASSUME NEW r \in Rank, NEW q \in Rank, HandleArrivingMessagesBlocking(r, q) PROVE IInv'
  BY <1>4, ReceiveKeeps DEF HandleArrivingMessagesBlocking
<1>5. ASSUME NEW r \in Rank, NEW q \in Rank, HandleArrivingMessagesNonBlocking(r, q) PROVE IInv'
  BY <1>5, ReceiveKeeps DEF HandleArrivingMessagesNonBlocking
<1>6. ASSUME NEW r \in Rank, RunBegin(r) \/ RunReturn(r) \/ HandlerReturn(r) \/ CalculateSafeTime(r)
      PROVE  IInv'
  BY <1>6, RunBeginKeeps, ReturnsKeep
<1>. QED BY <1>1, <1>2, <1>3, <1>4, <1>5, <1>6 DEF NextStep, Loop

LEMMA IInvHolds ==
  ASSUME OneLink
  PROVE  Spec => []IInv
<1>1. IInv /\ [NextStep]_vars => IInv'
  BY NextInvariant
<1>. QED BY <1>1, InitInvariant, PTL DEF Spec

(***************************************************************************)
(* A packet never arrives before a time that its sender has promised, be   *)
(* it held or still on its way, if no two ranks are joined by more than    *)
(* one link (null-message-simulator-impl.h:168-170).                       *)
(***************************************************************************)
THEOREM PromisesAreKept ==
  ASSUME OneLink
  PROVE  Spec => []GuaranteeKept
<1>1. IInv => GuaranteeKept
  BY DEF IInv, Line, GuaranteeKept
<1>. QED BY <1>1, IInvHolds, PTL

(***************************************************************************)
(* Nor has the receiver ever executed anything later than a promise that   *)
(* it holds or is to receive: what SetGuaranteeTime and CalculateSafeTime  *)
(* assert (remote-channel-bundle.cc:83, null-message-simulator-impl.cc:362)*)
(***************************************************************************)
THEOREM NobodyPassesAPromise ==
  ASSUME OneLink
  PROVE  Spec => []PromisesAhead
<1>1. IInv => PromisesAhead
  <2> SUFFICES ASSUME IInv, NEW r \in Rank, NEW q \in Neighbours(r)
               PROVE  /\ m_currentTs[r] <= m_guaranteeTime[r][q]
                      /\ \A i \in DOMAIN channel[q][r] : m_currentTs[r] <= channel[q][r][i].guarantee
    BY DEF PromisesAhead
  <2>1. Typing /\ Clock(r) /\ Line(q, r) /\ r \in Neighbours(q) /\ q \in Rank
    BY NeighboursAreMutual DEF IInv
  <2>2. /\ m_currentTs[r] \in Nat /\ m_safeTime[r] \in Nat /\ m_guaranteeTime[r][q] \in Nat
        /\ \A i \in DOMAIN channel[q][r] : channel[q][r][i].guarantee \in Nat
    <3>1. m_currentTs[r] \in Nat /\ m_safeTime[r] \in Nat /\ m_guaranteeTime[r][q] \in Nat
      BY <2>1 DEF Typing
    <3>2. \A i \in DOMAIN channel[q][r] : channel[q][r][i].guarantee \in Given(q, r)
      BY DEF Given
    <3>. QED BY <2>1, <3>1, <3>2, PromisesAreTimes
  <2>3. m_currentTs[r] <= m_guaranteeTime[r][q]
    BY <2>1, <2>2 DEF Clock
  <2>4. \A i \in DOMAIN channel[q][r] : m_guaranteeTime[r][q] <= channel[q][r][i].guarantee
    BY <2>1 DEF Line
  <2>. QED BY <2>2, <2>3, <2>4
<1>. QED BY <1>1, IInvHolds, PTL

-----------------------------------------------------------------------------
(* Bags of times, by their counts.                                          *)

At(L, t) == {e \in L : e.ts = t}
DueAt(X, t) == {m \in DOMAIN X : X[m] = t}

\* How many of the events L and of the messages with reception times X are for time t.
Count(L, X, t) == Cardinality(At(L, t)) + Cardinality(DueAt(X, t))

BagOf(L, X) == [t \in {e.ts : e \in L} \cup {X[m] : m \in DOMAIN X} |-> Count(L, X, t)]

LEMMA CountIsMultiplicity ==
  ASSUME NEW L, NEW X, IsFiniteSet(L), IsFiniteSet(DOMAIN X), NEW t
  PROVE  /\ Count(L, X, t) \in Nat
         /\ t \in DOMAIN BagOf(L, X) <=> Count(L, X, t) > 0
         /\ t \in DOMAIN BagOf(L, X) => BagOf(L, X)[t] = Count(L, X, t)
<1>1. /\ IsFiniteSet(At(L, t)) /\ Cardinality(At(L, t)) \in Nat
      /\ Cardinality(At(L, t)) = 0 <=> At(L, t) = {}
  BY FS_Subset, FS_CardinalityType, FS_EmptySet DEF At
<1>2. /\ IsFiniteSet(DueAt(X, t)) /\ Cardinality(DueAt(X, t)) \in Nat
      /\ Cardinality(DueAt(X, t)) = 0 <=> DueAt(X, t) = {}
  BY FS_Subset, FS_CardinalityType, FS_EmptySet DEF DueAt
<1>3. Count(L, X, t) = 0 <=> At(L, t) = {} /\ DueAt(X, t) = {}
  BY <1>1, <1>2 DEF Count
<1>4. t \in DOMAIN BagOf(L, X) <=> At(L, t) # {} \/ DueAt(X, t) # {}
  BY DEF BagOf, At, DueAt
<1>5. t \in DOMAIN BagOf(L, X) => BagOf(L, X)[t] = Count(L, X, t)
  BY DEF BagOf
<1>6. Count(L, X, t) \in Nat
  BY <1>1, <1>2 DEF Count
<1>. QED BY <1>3, <1>4, <1>5, <1>6

LEMMA SameCountsSameBag ==
  ASSUME NEW L, NEW X, IsFiniteSet(L), IsFiniteSet(DOMAIN X),
         NEW M, NEW Y, IsFiniteSet(M), IsFiniteSet(DOMAIN Y),
         \A t : Count(M, Y, t) = Count(L, X, t)
  PROVE  BagOf(M, Y) = BagOf(L, X)
<1>1. \A t : t \in DOMAIN BagOf(M, Y) <=> t \in DOMAIN BagOf(L, X)
  BY CountIsMultiplicity
<1>2. DOMAIN BagOf(M, Y) = DOMAIN BagOf(L, X)
  BY <1>1
<1>3. \A t \in DOMAIN BagOf(L, X) : BagOf(M, Y)[t] = BagOf(L, X)[t]
  BY <1>2, CountIsMultiplicity
<1>4. /\ BagOf(M, Y) = [t \in DOMAIN BagOf(M, Y) |-> BagOf(M, Y)[t]]
      /\ BagOf(L, X) = [t \in DOMAIN BagOf(L, X) |-> BagOf(L, X)[t]]
  BY DEF BagOf
<1>. QED BY <1>2, <1>3, <1>4

LEMMA BagOfIsABag ==
  ASSUME NEW L, NEW X, IsFiniteSet(L), IsFiniteSet(DOMAIN X)
  PROVE  Parallel!IsABag(BagOf(L, X))
<1>1. \A t \in DOMAIN BagOf(L, X) : BagOf(L, X)[t] \in {n \in Nat : n > 0}
  BY CountIsMultiplicity
<1>2. BagOf(L, X) = [t \in DOMAIN BagOf(L, X) |-> BagOf(L, X)[t]]
  BY DEF BagOf
<1>. QED BY <1>1, <1>2 DEF Parallel!IsABag

\* A count that grows, by one, at one time only.
MoreAt(L, X, M, Y, s) ==
  \A t : Count(M, Y, t) = Count(L, X, t) + (IF t = s THEN 1 ELSE 0)

LEMMA OneTimeEnters ==
  ASSUME NEW L, NEW X, IsFiniteSet(L), IsFiniteSet(DOMAIN X),
         NEW M, NEW Y, IsFiniteSet(M), IsFiniteSet(DOMAIN Y),
         NEW s, MoreAt(L, X, M, Y, s)
  PROVE  /\ Parallel!\sqsubseteq(BagOf(L, X), BagOf(M, Y))
         /\ \A t \in Parallel!BagToSet(Parallel!(-)(BagOf(M, Y), BagOf(L, X))) : t = s
<1> DEFINE B == BagOf(L, X)
           C == BagOf(M, Y)
           Extra(t) == IF t \in DOMAIN B THEN C[t] - B[t] ELSE C[t]
<1>1. ASSUME NEW t
      PROVE  /\ t \in DOMAIN B => t \in DOMAIN C /\ B[t] <= C[t]
             /\ t \in DOMAIN C /\ t # s => ~(Extra(t) > 0)
  <2>1. /\ Count(L, X, t) \in Nat /\ Count(M, Y, t) \in Nat
        /\ t \in DOMAIN B <=> Count(L, X, t) > 0
        /\ t \in DOMAIN B => B[t] = Count(L, X, t)
        /\ t \in DOMAIN C <=> Count(M, Y, t) > 0
        /\ t \in DOMAIN C => C[t] = Count(M, Y, t)
    BY CountIsMultiplicity
  <2>2. Count(M, Y, t) = Count(L, X, t) + (IF t = s THEN 1 ELSE 0)
    BY DEF MoreAt
  <2> HIDE DEF B, C
  <2>. QED BY <2>1, <2>2
<1>2. Parallel!BagToSet(Parallel!(-)(C, B)) = {t \in DOMAIN C : Extra(t) > 0}
  <2> HIDE DEF B, C
  <2>. QED BY DEF Parallel!BagToSet, Parallel!(-)
<1> HIDE DEF B, C, Extra
<1>3. /\ Parallel!\sqsubseteq(B, C)
      /\ \A t \in Parallel!BagToSet(Parallel!(-)(C, B)) : t = s
  BY <1>1, <1>2 DEF Parallel!\sqsubseteq
<1>. QED BY <1>3 DEF B, C

LEMMA OneTimeLeaves ==
  ASSUME NEW L, NEW X, IsFiniteSet(L), IsFiniteSet(DOMAIN X),
         NEW M, NEW Y, IsFiniteSet(M), IsFiniteSet(DOMAIN Y),
         NEW s, MoreAt(M, Y, L, X, s)
  PROVE  /\ s \in Parallel!BagToSet(BagOf(L, X))
         /\ BagOf(M, Y) = Parallel!(-)(BagOf(L, X), Parallel!SetToBag({s}))
<1> DEFINE B == BagOf(L, X)
           C == BagOf(M, Y)
           Left(t) == IF t = s THEN B[t] - 1 ELSE B[t]
<1>1. ASSUME NEW t
      PROVE  /\ t \in DOMAIN C <=> t \in DOMAIN B /\ Left(t) > 0
             /\ t \in DOMAIN C => C[t] = Left(t)
             /\ s \in DOMAIN B
  <2>1. /\ Count(L, X, t) \in Nat /\ Count(M, Y, t) \in Nat
        /\ t \in DOMAIN B <=> Count(L, X, t) > 0
        /\ t \in DOMAIN B => B[t] = Count(L, X, t)
        /\ t \in DOMAIN C <=> Count(M, Y, t) > 0
        /\ t \in DOMAIN C => C[t] = Count(M, Y, t)
    BY CountIsMultiplicity
  <2>2. Count(L, X, t) = Count(M, Y, t) + (IF t = s THEN 1 ELSE 0)
    BY DEF MoreAt
  <2>3. s \in DOMAIN B
    <3>1. /\ Count(L, X, s) \in Nat /\ Count(M, Y, s) \in Nat
          /\ s \in DOMAIN B <=> Count(L, X, s) > 0
      BY CountIsMultiplicity
    <3>2. Count(L, X, s) = Count(M, Y, s) + 1
      BY DEF MoreAt
    <3>. QED BY <3>1, <3>2
  <2> HIDE DEF B, C
  <2>. QED BY <2>1, <2>2, <2>3
<1>2. C = [t \in DOMAIN C |-> C[t]]
  BY DEF BagOf
<1>3. Parallel!(-)(B, Parallel!SetToBag({s}))
        = [t \in {d \in DOMAIN B : Left(d) > 0} |-> Left(t)]
  <2> HIDE DEF B, C
  <2>1. DOMAIN Parallel!SetToBag({s}) = {s} /\ Parallel!SetToBag({s})[s] = 1
    BY DEF Parallel!SetToBag
  <2>2. Parallel!(-)(B, Parallel!SetToBag({s})) =
          LET D == [e \in DOMAIN B |-> IF e \in DOMAIN Parallel!SetToBag({s})
                                       THEN B[e] - Parallel!SetToBag({s})[e] ELSE B[e]]
          IN  [e \in {d \in DOMAIN D : D[d] > 0} |-> D[e]]
    BY DEF Parallel!(-)
  <2>. QED BY <2>1, <2>2
<1> HIDE DEF B, C, Left
<1>4. DOMAIN C = {d \in DOMAIN B : Left(d) > 0}
  BY <1>1
<1>5. s \in Parallel!BagToSet(B) /\ C = Parallel!(-)(B, Parallel!SetToBag({s}))
  BY <1>1, <1>2, <1>3, <1>4 DEF Parallel!BagToSet
<1>. QED BY <1>5 DEF B, C

LEMMA EventEnters ==
  ASSUME NEW L, NEW X, IsFiniteSet(L), IsFiniteSet(DOMAIN X), NEW e, e \notin L
  PROVE  MoreAt(L, X, L \cup {e}, X, e.ts) /\ IsFiniteSet(L \cup {e})
<1>1. ASSUME NEW t
      PROVE  Count(L \cup {e}, X, t) = Count(L, X, t) + (IF t = e.ts THEN 1 ELSE 0)
  <2>1. /\ IsFiniteSet(At(L, t)) /\ Cardinality(At(L, t)) \in Nat
        /\ Cardinality(DueAt(X, t)) \in Nat /\ e \notin At(L, t)
    BY FS_Subset, FS_CardinalityType DEF At, DueAt
  <2>2. At(L \cup {e}, t) = IF t = e.ts THEN At(L, t) \cup {e} ELSE At(L, t)
    BY DEF At
  <2>3. Cardinality(At(L, t) \cup {e}) = Cardinality(At(L, t)) + 1
    BY <2>1, FS_AddElement
  <2>. QED BY <2>1, <2>2, <2>3 DEF Count
<1>. QED BY <1>1, FS_AddElement DEF MoreAt

LEMMA EventLeaves ==
  ASSUME NEW L, NEW X, IsFiniteSet(L), IsFiniteSet(DOMAIN X), NEW e \in L
  PROVE  MoreAt(L \ {e}, X, L, X, e.ts) /\ IsFiniteSet(L \ {e})
<1>1. IsFiniteSet(L \ {e}) /\ e \notin L \ {e} /\ L = (L \ {e}) \cup {e}
  BY FS_RemoveElement
<1> DEFINE M == L \ {e}
<1> HIDE DEF M
<1>2. MoreAt(M, X, M \cup {e}, X, e.ts)
  BY <1>1, EventEnters DEF M
<1>. QED BY <1>1, <1>2 DEF M

LEMMA NothingEnters ==
  ASSUME NEW L, NEW X, IsFiniteSet(L), IsFiniteSet(DOMAIN X)
  PROVE  /\ Parallel!\sqsubseteq(BagOf(L, X), BagOf(L, X))
         /\ Parallel!BagToSet(Parallel!(-)(BagOf(L, X), BagOf(L, X))) = {}
<1> DEFINE B == BagOf(L, X)
<1>1. \A t \in DOMAIN B : B[t] \in Nat
  BY CountIsMultiplicity
<1> HIDE DEF B
<1>2. /\ Parallel!\sqsubseteq(B, B)
      /\ Parallel!BagToSet(Parallel!(-)(B, B)) = {}
  BY <1>1 DEF Parallel!\sqsubseteq, Parallel!BagToSet, Parallel!(-)
<1>. QED BY <1>2 DEF B

\* One message more.
LEMMA MessageEnters ==
  ASSUME NEW L, NEW X, IsFiniteSet(L), IsFiniteSet(DOMAIN X),
         NEW Y, NEW m, m \notin DOMAIN X, DOMAIN Y = DOMAIN X \cup {m},
         \A n \in DOMAIN X : Y[n] = X[n]
  PROVE  MoreAt(L, X, L, Y, Y[m]) /\ IsFiniteSet(DOMAIN Y)
<1>1. ASSUME NEW t
      PROVE  Count(L, Y, t) = Count(L, X, t) + (IF t = Y[m] THEN 1 ELSE 0)
  <2>1. /\ IsFiniteSet(DueAt(X, t)) /\ Cardinality(DueAt(X, t)) \in Nat
        /\ Cardinality(At(L, t)) \in Nat /\ m \notin DueAt(X, t)
    BY FS_Subset, FS_CardinalityType DEF At, DueAt
  <2>2. DueAt(Y, t) = IF t = Y[m] THEN DueAt(X, t) \cup {m} ELSE DueAt(X, t)
    BY DEF DueAt
  <2>3. Cardinality(DueAt(X, t) \cup {m}) = Cardinality(DueAt(X, t)) + 1
    BY <2>1, FS_AddElement
  <2>. QED BY <2>1, <2>2, <2>3 DEF Count
<1>. QED BY <1>1, FS_AddElement DEF MoreAt

\* The messages renumbered.
LEMMA RenumberedCounts ==
  ASSUME NEW L, NEW X, NEW Y, IsFiniteSet(DOMAIN X),
         NEW f \in Bijection(DOMAIN X, DOMAIN Y), \A m \in DOMAIN X : Y[f[m]] = X[m]
  PROVE  (\A t : Count(L, Y, t) = Count(L, X, t)) /\ IsFiniteSet(DOMAIN Y)
<1>0. /\ f \in [DOMAIN X -> DOMAIN Y]
      /\ \A m, n \in DOMAIN X : f[m] = f[n] => m = n
      /\ \A n \in DOMAIN Y : \E m \in DOMAIN X : f[m] = n
  BY DEF Bijection, Injection, Surjection, IsInjective
<1>1. IsFiniteSet(DOMAIN Y)
  BY FS_Bijection DEF ExistsBijection
<1>2. ASSUME NEW t PROVE Count(L, Y, t) = Count(L, X, t)
  <2> DEFINE S == DueAt(X, t)
             T == DueAt(Y, t)
             h == [m \in S |-> f[m]]
  <2>1. S \in SUBSET DOMAIN X /\ \A m \in S : f[m] \in T
    BY <1>0 DEF DueAt
  <2>2. \A n \in T : \E m \in S : f[m] = n
    BY <1>0 DEF DueAt
  <2>3. IsFiniteSet(S)
    BY <2>1, FS_Subset
  <2> HIDE DEF S, T
  <2>4. h \in Bijection(S, T)
    <3>1. h \in Injection(S, T)
      BY <1>0, <2>1 DEF Injection, IsInjective
    <3>2. h \in Surjection(S, T)
      BY <2>1, <2>2 DEF Surjection
    <3>. QED BY <3>1, <3>2 DEF Bijection
  <2>5. Cardinality(T) = Cardinality(S)
    BY <2>3, <2>4, FS_Bijection DEF ExistsBijection
  <2>. QED BY <2>5 DEF Count, S, T
<1>. QED BY <1>1, <1>2

-----------------------------------------------------------------------------
(* What is pending.                                                         *)

ListedIn(events) == {e \in events : e.kind # "null"}

ComingIn(chan, r) ==
  UNION {{<<q, i>> : i \in {j \in DOMAIN chan[q][r] : chan[q][r][j].rxTime > 0}}
           : q \in Neighbours(r)}

RxIn(chan, r) == [m \in ComingIn(chan, r) |-> chan[m[1]][r][m[2]].rxTime]

PendingOf(events, chan) == [r \in Rank |-> BagOf(ListedIn(events[r]), RxIn(chan, r))]

LEMMA PendingAsBags ==
  /\ Pending = PendingOf(m_events, channel)
  /\ Pending' = PendingOf(m_events', channel')
<1>1. /\ \A r : Listed(r) = ListedIn(m_events[r]) /\ Coming(r) = ComingIn(channel, r)
      /\ \A r : Listed(r)' = ListedIn(m_events'[r]) /\ Coming(r)' = ComingIn(channel', r)
  BY DEF Listed, ListedIn, Coming, ComingIn
<1>2. ASSUME NEW r
      PROVE  /\ BagOf(ListedIn(m_events[r]), RxIn(channel, r)) =
                  [t \in Times(r) |-> Cardinality({e \in Listed(r) : e.ts = t})
                                      + Cardinality({m \in Coming(r) : RxTime(r, m) = t})]
             /\ BagOf(ListedIn(m_events'[r]), RxIn(channel', r)) =
                  [t \in Times(r) |-> Cardinality({e \in Listed(r) : e.ts = t})
                                      + Cardinality({m \in Coming(r) : RxTime(r, m) = t})]'
  <2>1. /\ DOMAIN RxIn(channel, r) = Coming(r)
        /\ \A m \in Coming(r) : RxIn(channel, r)[m] = RxTime(r, m)
        /\ DOMAIN RxIn(channel', r) = Coming(r)'
        /\ \A m \in Coming(r)' : RxIn(channel', r)[m] = RxTime(r, m)'
    BY <1>1 DEF RxIn, RxTime
  <2>2. \A t : /\ DueAt(RxIn(channel, r), t) = {m \in Coming(r) : RxTime(r, m) = t}
               /\ DueAt(RxIn(channel', r), t) = {m \in Coming(r)' : RxTime(r, m)' = t}
    BY <2>1 DEF DueAt
  <2>3. /\ \A t : Count(ListedIn(m_events[r]), RxIn(channel, r), t) =
                    Cardinality({e \in Listed(r) : e.ts = t})
                    + Cardinality({m \in Coming(r) : RxTime(r, m) = t})
        /\ \A t : Count(ListedIn(m_events'[r]), RxIn(channel', r), t) =
                    Cardinality({e \in Listed(r)' : e.ts = t})
                    + Cardinality({m \in Coming(r)' : RxTime(r, m)' = t})
    BY <1>1, <2>2 DEF Count, At
  <2>4. /\ {e.ts : e \in ListedIn(m_events[r])}
             \cup {RxIn(channel, r)[m] : m \in DOMAIN RxIn(channel, r)} = Times(r)
        /\ {e.ts : e \in ListedIn(m_events'[r])}
             \cup {RxIn(channel', r)[m] : m \in DOMAIN RxIn(channel', r)} = Times(r)'
    BY <1>1, <2>1 DEF Times
  <2>. QED BY <2>3, <2>4 DEF BagOf
<1>3. Pending = PendingOf(m_events, channel)
  <2>1. \A r \in Rank : BagOf(ListedIn(m_events[r]), RxIn(channel, r)) =
           [t \in Times(r) |-> Cardinality({e \in Listed(r) : e.ts = t})
                               + Cardinality({m \in Coming(r) : RxTime(r, m) = t})]
    BY <1>2
  <2>. QED BY <2>1, Zenon DEF Pending, PendingOf
<1>4. Pending' = PendingOf(m_events', channel')
  BY <1>2 DEF Pending, PendingOf
<1>. QED BY <1>3, <1>4

LEMMA InComing ==
  ASSUME NEW chan, NEW r
  PROVE  /\ \A x : x \in DOMAIN RxIn(chan, r) <=>
              \E q \in Neighbours(r) : \E i \in DOMAIN chan[q][r] :
                 chan[q][r][i].rxTime > 0 /\ x = <<q, i>>
         /\ \A q \in Neighbours(r) : \A i \in DOMAIN chan[q][r] :
              chan[q][r][i].rxTime > 0 => RxIn(chan, r)[<<q, i>>] = chan[q][r][i].rxTime
<1>1. \A x : x \in ComingIn(chan, r) <=>
              \E q \in Neighbours(r) : \E i \in DOMAIN chan[q][r] :
                 chan[q][r][i].rxTime > 0 /\ x = <<q, i>>
  BY DEF ComingIn
<1>2. DOMAIN RxIn(chan, r) = ComingIn(chan, r)
  BY DEF RxIn
<1>3. \A q \in Neighbours(r) : \A i \in DOMAIN chan[q][r] :
        chan[q][r][i].rxTime > 0 => <<q, i>> \in ComingIn(chan, r)
  BY <1>1
<1>4. \A q \in Neighbours(r) : \A i \in DOMAIN chan[q][r] :
        chan[q][r][i].rxTime > 0 => RxIn(chan, r)[<<q, i>>] = chan[q][r][i].rxTime
  BY <1>3 DEF RxIn
<1>. QED BY <1>1, <1>2, <1>4

\* Null messages bring nothing.
LEMMA NullsBringNothing ==
  ASSUME NEW r, NEW chan, NEW next,
         \A q \in Neighbours(r) :
            \/ next[q][r] = chan[q][r]
            \/ /\ chan[q][r] \in Seq(Message)
               /\ \E m \in Message : m.rxTime = 0 /\ next[q][r] = Append(chan[q][r], m)
  PROVE  RxIn(next, r) = RxIn(chan, r)
<1> DEFINE Is(c, q, i) == i \in DOMAIN c[q][r] /\ c[q][r][i].rxTime > 0
           Same(q, i) == /\ Is(next, q, i) <=> Is(chan, q, i)
                         /\ Is(next, q, i) => next[q][r][i].rxTime = chan[q][r][i].rxTime
<1>1. ASSUME NEW q \in Neighbours(r), NEW i
      PROVE  Same(q, i)
  <2>1. CASE next[q][r] = chan[q][r]
    BY <2>1
  <2>2. ASSUME chan[q][r] \in Seq(Message), NEW m \in Message, m.rxTime = 0,
               next[q][r] = Append(chan[q][r], m)
        PROVE  Same(q, i)
    <3> DEFINE s == chan[q][r]
    <3>1. /\ Len(s) \in Nat /\ DOMAIN next[q][r] = 1..(Len(s) + 1) /\ DOMAIN s = 1..Len(s)
          /\ \A j \in 1..Len(s) : next[q][r][j] = s[j]
          /\ next[q][r][Len(s) + 1] = m
      BY <2>2, AppendElements
    <3> HIDE DEF s
    <3>2. ~(m.rxTime > 0)
      BY <2>2
    <3>3. CASE i \in 1..Len(s)
      BY <3>1, <3>3 DEF s
    <3>4. CASE i \notin 1..Len(s)
      <4>1. i \in DOMAIN next[q][r] => i = Len(s) + 1
        BY <3>1, <3>4
      <4>. QED BY <3>1, <3>2, <3>4, <4>1 DEF s
    <3>. QED BY <3>3, <3>4
  <2>. QED BY <2>1, <2>2
<1>2. \A x : x \in DOMAIN RxIn(next, r) <=> x \in DOMAIN RxIn(chan, r)
  BY <1>1, InComing
<1>3. ASSUME NEW x \in DOMAIN RxIn(chan, r) PROVE RxIn(next, r)[x] = RxIn(chan, r)[x]
  <2>1. PICK q \in Neighbours(r) : \E i \in DOMAIN chan[q][r] :
                 chan[q][r][i].rxTime > 0 /\ x = <<q, i>>
    BY InComing
  <2>2. PICK i \in DOMAIN chan[q][r] : chan[q][r][i].rxTime > 0 /\ x = <<q, i>>
    BY <2>1
  <2>3. RxIn(chan, r)[x] = chan[q][r][i].rxTime
    BY <2>2, InComing
  <2>4. /\ i \in DOMAIN next[q][r] /\ next[q][r][i].rxTime > 0
        /\ next[q][r][i].rxTime = chan[q][r][i].rxTime
    BY <1>1, <2>2
  <2>5. RxIn(next, r)[x] = next[q][r][i].rxTime
    BY <2>2, <2>4, InComing
  <2>. QED BY <2>3, <2>4, <2>5
<1>4. /\ RxIn(next, r) = [m \in DOMAIN RxIn(next, r) |-> RxIn(next, r)[m]]
      /\ RxIn(chan, r) = [m \in DOMAIN RxIn(chan, r) |-> RxIn(chan, r)[m]]
  BY DEF RxIn
<1>. QED BY <1>2, <1>3, <1>4

\* A packet that is sent.
LEMMA PacketSent ==
  ASSUME NEW r \in Rank, NEW p \in Neighbours(r), NEW chan, NEW next, NEW m \in Message,
         chan[p][r] \in Seq(Message), next[p][r] = Append(chan[p][r], m), m.rxTime > 0,
         \A q \in Neighbours(r) : q # p => next[q][r] = chan[q][r],
         NEW L, IsFiniteSet(L), IsFiniteSet(DOMAIN RxIn(chan, r))
  PROVE  /\ MoreAt(L, RxIn(chan, r), L, RxIn(next, r), m.rxTime)
         /\ IsFiniteSet(DOMAIN RxIn(next, r))
<1> DEFINE s == chan[p][r]
           X == RxIn(chan, r)
           Y == RxIn(next, r)
           Is(c, q, i) == i \in DOMAIN c[q][r] /\ c[q][r][i].rxTime > 0
<1>0. PICK x : x = <<p, Len(s) + 1>>
  OBVIOUS
<1>1. /\ Len(s) \in Nat /\ DOMAIN next[p][r] = 1..(Len(s) + 1) /\ DOMAIN s = 1..Len(s)
      /\ \A j \in 1..Len(s) : next[p][r][j] = s[j]
      /\ next[p][r][Len(s) + 1] = m
  BY AppendElements
<1>2. ASSUME NEW q \in Neighbours(r), NEW i
      PROVE  /\ Is(next, q, i) <=> Is(chan, q, i) \/ <<q, i>> = x
             /\ Is(chan, q, i) => <<q, i>> # x /\ next[q][r][i].rxTime = chan[q][r][i].rxTime
  <2>1. CASE q # p
    BY <1>0, <2>1
  <2>2. CASE q = p
    <3> HIDE DEF s
    <3>1. Is(chan, q, i) <=> i \in 1..Len(s) /\ s[i].rxTime > 0
      BY <1>1, <2>2 DEF s
    <3>2. Is(next, q, i) <=> i \in 1..(Len(s) + 1) /\ next[p][r][i].rxTime > 0
      BY <1>1, <2>2
    <3>3. CASE i \in 1..Len(s)
      <4>1. next[p][r][i] = s[i] /\ i \in 1..(Len(s) + 1) /\ i # Len(s) + 1
        BY <1>1, <3>3
      <4>. QED BY <1>0, <2>2, <3>1, <3>2, <3>3, <4>1 DEF s
    <3>4. CASE i \notin 1..Len(s)
      <4>1. i \in 1..(Len(s) + 1) <=> i = Len(s) + 1
        BY <1>1, <3>4
      <4>. QED BY <1>0, <1>1, <2>2, <3>1, <3>2, <3>4, <4>1
    <3>. QED BY <3>3, <3>4
  <2>. QED BY <2>1, <2>2
<1>3. \A c, y : (c = chan \/ c = next) =>
        (y \in DOMAIN RxIn(c, r) <=> \E q \in Neighbours(r) : \E i : Is(c, q, i) /\ y = <<q, i>>)
  BY InComing
<1>4. \A c : (c = chan \/ c = next) =>
        \A q \in Neighbours(r) : \A i : Is(c, q, i) => RxIn(c, r)[<<q, i>>] = c[q][r][i].rxTime
  BY InComing
<1>5. Is(next, p, Len(s) + 1)
  BY <1>1
<1> HIDE DEF Is, s
<1>6. x \notin DOMAIN X
  BY <1>2, <1>3
<1>7. DOMAIN Y = DOMAIN X \cup {x}
  <2>1. \A y : y \in DOMAIN Y => y \in DOMAIN X \cup {x}
    BY <1>2, <1>3
  <2>2. \A y : y \in DOMAIN X => y \in DOMAIN Y
    BY <1>2, <1>3
  <2>3. x \in DOMAIN Y
    BY <1>0, <1>3, <1>5
  <2>. QED BY <2>1, <2>2, <2>3
<1>8. \A y \in DOMAIN X : Y[y] = X[y]
  <2> SUFFICES ASSUME NEW y \in DOMAIN X PROVE Y[y] = X[y]
    OBVIOUS
  <2>1. PICK q, i : q \in Neighbours(r) /\ Is(chan, q, i) /\ y = <<q, i>>
    BY <1>3
  <2>2. Is(next, q, i) /\ next[q][r][i].rxTime = chan[q][r][i].rxTime
    BY <1>2, <2>1
  <2>. QED BY <1>4, <2>1, <2>2
<1>9. Y[x] = m.rxTime
  BY <1>0, <1>1, <1>4, <1>5 DEF s
<1> HIDE DEF X, Y
<1>10. MoreAt(L, X, L, Y, Y[x]) /\ IsFiniteSet(DOMAIN Y)
  BY <1>6, <1>7, <1>8, MessageEnters DEF X
<1>. QED BY <1>9, <1>10 DEF X, Y

\* The first message from p is taken off the line; a packet becomes an event.
TakesFirst(r, p, chan, next, L, M) ==
  LET m == Head(chan[p][r])
  IN  /\ p \in Neighbours(r)
      /\ chan[p][r] \in Seq(Message) /\ chan[p][r] # <<>> /\ next[p][r] = Tail(chan[p][r])
      /\ \A q \in Neighbours(r) : q # p => next[q][r] = chan[q][r]
      /\ IF m.rxTime > 0 THEN \E e : e \notin L /\ e.ts = m.rxTime /\ M = L \cup {e}
                         ELSE M = L

LEMMA FirstTaken ==
  ASSUME NEW r \in Rank, NEW p, NEW chan, NEW next, NEW L, NEW M,
         TakesFirst(r, p, chan, next, L, M),
         IsFiniteSet(L), IsFiniteSet(DOMAIN RxIn(chan, r))
  PROVE  /\ BagOf(M, RxIn(next, r)) = BagOf(L, RxIn(chan, r))
         /\ IsFiniteSet(DOMAIN RxIn(next, r))
<1>a. /\ p \in Neighbours(r)
      /\ chan[p][r] \in Seq(Message) /\ chan[p][r] # <<>> /\ next[p][r] = Tail(chan[p][r])
      /\ \A q \in Neighbours(r) : q # p => next[q][r] = chan[q][r]
  BY DEF TakesFirst
<1>b. IF Head(chan[p][r]).rxTime > 0
      THEN \E e : e \notin L /\ e.ts = Head(chan[p][r]).rxTime /\ M = L \cup {e}
      ELSE M = L
  BY DEF TakesFirst
<1> DEFINE s == chan[p][r]
           X == RxIn(chan, r)
           Y == RxIn(next, r)
           Is(c, q, i) == i \in DOMAIN c[q][r] /\ c[q][r][i].rxTime > 0
<1>0. PICK x : x = <<p, 1>>
  OBVIOUS
<1>1. /\ Len(s) \in Nat \ {0} /\ Head(s) = s[1] /\ Head(s) \in Message
      /\ DOMAIN s = 1..Len(s) /\ DOMAIN next[p][r] = 1..(Len(s) - 1)
      /\ \A i \in 1..(Len(s) - 1) : next[p][r][i] = s[i + 1]
  BY <1>a, TailElements
<1>2. /\ \A y : y \in DOMAIN X <=> \E q \in Neighbours(r) : \E i : Is(chan, q, i) /\ y = <<q, i>>
      /\ \A y : y \in DOMAIN Y <=> \E q \in Neighbours(r) : \E i : Is(next, q, i) /\ y = <<q, i>>
      /\ \A q \in Neighbours(r) : \A i : Is(chan, q, i) => X[<<q, i>>] = chan[q][r][i].rxTime
      /\ \A q \in Neighbours(r) : \A i : Is(next, q, i) => Y[<<q, i>>] = next[q][r][i].rxTime
  BY InComing
\* The message that has number i afterwards had number Old(i).
<1> DEFINE Old(q, i) == IF q = p THEN i + 1 ELSE i
<1>3. \A q \in Neighbours(r) : \A i : Is(next, q, i) =>
         /\ Is(chan, q, Old(q, i)) /\ next[q][r][i].rxTime = chan[q][r][Old(q, i)].rxTime
         /\ <<q, Old(q, i)>> # x /\ (q = p => i \in Nat)
  <2> SUFFICES ASSUME NEW q \in Neighbours(r), NEW i, Is(next, q, i)
               PROVE  /\ Is(chan, q, Old(q, i))
                      /\ next[q][r][i].rxTime = chan[q][r][Old(q, i)].rxTime
                      /\ <<q, Old(q, i)>> # x /\ (q = p => i \in Nat)
    OBVIOUS
  <2>1. CASE q # p
    BY <1>a, <1>0, <2>1
  <2>2. CASE q = p
    <3>1. i \in 1..(Len(s) - 1) /\ next[p][r][i] = s[i + 1]
      BY <1>1, <2>2
    <3>2. i + 1 \in 1..Len(s) /\ i + 1 # 1 /\ i \in Nat
      BY <1>1, <3>1
    <3>. QED BY <1>0, <1>1, <2>2, <3>1, <3>2
  <2>. QED BY <2>1, <2>2
<1>4. \A q \in Neighbours(r) : \A k : Is(chan, q, k) /\ <<q, k>> # x =>
         \E i : Is(next, q, i) /\ Old(q, i) = k
  <2> SUFFICES ASSUME NEW q \in Neighbours(r), NEW k, Is(chan, q, k), <<q, k>> # x
               PROVE  \E i : Is(next, q, i) /\ Old(q, i) = k
    OBVIOUS
  <2>1. CASE q # p
    BY <1>a, <2>1
  <2>2. CASE q = p
    <3>1. k \in 1..Len(s) /\ k # 1
      BY <1>0, <1>1, <2>2
    <3>2. k - 1 \in 1..(Len(s) - 1) /\ (k - 1) + 1 = k
      BY <1>1, <3>1
    <3>3. next[p][r][k - 1] = s[k]
      BY <1>1, <3>2
    <3>4. Is(next, q, k - 1) /\ Old(q, k - 1) = k
      BY <1>1, <2>2, <3>2, <3>3
    <3>. QED BY <3>4
  <2>. QED BY <2>1, <2>2
<1>5. Is(chan, p, 1) <=> Head(s).rxTime > 0
  BY <1>1
<1> HIDE DEF Is, s
<1> DEFINE D == DOMAIN X \ {x}
           Z == [y \in D |-> X[y]]
           f == [y \in DOMAIN Y |-> <<y[1], Old(y[1], y[2])>>]
<1>6. f \in Bijection(DOMAIN Y, D) /\ \A y \in DOMAIN Y : Z[f[y]] = Y[y]
  <2>1. ASSUME NEW y \in DOMAIN Y
        PROVE  f[y] \in D /\ X[f[y]] = Y[y]
    <3>1. PICK q, i : q \in Neighbours(r) /\ Is(next, q, i) /\ y = <<q, i>>
      BY <1>2
    <3>2. f[y] = <<q, Old(q, i)>>
      BY <3>1
    <3>. QED BY <1>2, <1>3, <3>1, <3>2
  <2>2. ASSUME NEW y \in DOMAIN Y, NEW z \in DOMAIN Y, f[y] = f[z]
        PROVE  y = z
    <3>1. PICK q, i : q \in Neighbours(r) /\ Is(next, q, i) /\ y = <<q, i>>
      BY <1>2
    <3>2. PICK o, k : o \in Neighbours(r) /\ Is(next, o, k) /\ z = <<o, k>>
      BY <1>2
    <3>3. <<q, Old(q, i)>> = <<o, Old(o, k)>>
      BY <2>2, <3>1, <3>2
    <3>4. q = o /\ Old(q, i) = Old(o, k)
      BY <3>3
    <3>5. i = k
      BY <1>3, <3>1, <3>2, <3>4
    <3>. QED BY <3>1, <3>2, <3>4, <3>5
  <2>3. ASSUME NEW z \in D PROVE \E y \in DOMAIN Y : f[y] = z
    <3>1. PICK q, k : q \in Neighbours(r) /\ Is(chan, q, k) /\ z = <<q, k>>
      BY <1>2
    <3>2. PICK i : Is(next, q, i) /\ Old(q, i) = k
      BY <1>4, <3>1
    <3>3. <<q, i>> \in DOMAIN Y
      BY <1>2, <3>1, <3>2
    <3>4. f[<<q, i>>] = z
      BY <3>1, <3>2, <3>3
    <3>. QED BY <3>3, <3>4
  <2>4. DOMAIN f = DOMAIN Y /\ f = [y \in DOMAIN Y |-> f[y]]
    OBVIOUS
  <2> HIDE DEF f, D, X, Y
  <2>5. f \in Injection(DOMAIN Y, D)
    BY <2>1, <2>2, <2>4 DEF Injection, IsInjective
  <2>6. f \in Surjection(DOMAIN Y, D)
    BY <2>1, <2>3, <2>4 DEF Surjection
  <2>. QED BY <2>1, <2>5, <2>6 DEF Bijection
<1>7. DOMAIN Z = D /\ \A y \in D : Z[y] = X[y]
  OBVIOUS
<1>8. Head(s).rxTime > 0 => x \in DOMAIN X /\ X[x] = Head(s).rxTime
  BY <1>a, <1>0, <1>1, <1>2, <1>5 DEF s
<1>9. ~(Head(s).rxTime > 0) => x \notin DOMAIN X
  BY <1>a, <1>0, <1>2, <1>5
<1> HIDE DEF X, Y, Z, f
<1>10. IsFiniteSet(D)
  BY FS_RemoveElement DEF X
<1> HIDE DEF D
<1>11. (\A N, t : Count(N, Y, t) = Count(N, Z, t)) /\ IsFiniteSet(DOMAIN Y)
  <2>1. IsFiniteSet(DOMAIN Y)
    <3>1. ExistsBijection(D, DOMAIN Y)
      <4>1. Bijection(DOMAIN Y, D) # {}
        BY <1>6
      <4>. QED BY <4>1, Fun_ExistsBijSymmetric DEF ExistsBijection
    <3>. QED BY <1>10, <3>1, FS_Bijection
  <2>. QED BY <1>6, <1>7, <2>1, RenumberedCounts
<1>12. CASE Head(s).rxTime > 0
  <2>1. PICK e : e \notin L /\ e.ts = Head(s).rxTime /\ M = L \cup {e}
    BY <1>b, <1>12 DEF s
  <2>2. /\ x \in DOMAIN X /\ x \notin DOMAIN Z /\ DOMAIN X = DOMAIN Z \cup {x}
        /\ X[x] = Head(s).rxTime /\ \A y \in DOMAIN Z : X[y] = Z[y]
    BY <1>7, <1>8, <1>12 DEF D
  <2>3. MoreAt(L, Z, L, X, Head(s).rxTime)
    BY <1>7, <1>10, <2>2, MessageEnters
  <2>4. MoreAt(L, Z, M, Z, Head(s).rxTime) /\ IsFiniteSet(M)
    BY <1>7, <1>10, <2>1, EventEnters
  <2>5. \A t : Count(M, Y, t) = Count(L, X, t)
    BY <1>11, <2>3, <2>4 DEF MoreAt
  <2>. QED BY <1>11, <2>4, <2>5, SameCountsSameBag DEF X, Y
<1>13. CASE ~(Head(s).rxTime > 0)
  <2>1. M = L
    BY <1>b, <1>13 DEF s
  <2>2. D = DOMAIN X
    BY <1>9, <1>13 DEF D
  <2>3. \A t : DueAt(Z, t) = DueAt(X, t)
    BY <1>7, <2>2 DEF DueAt
  <2>4. \A t : Count(M, Y, t) = Count(L, X, t)
    BY <1>11, <2>1, <2>3 DEF Count
  <2>. QED BY <1>11, <2>1, <2>4, SameCountsSameBag DEF X, Y
<1>. QED BY <1>12, <1>13

-----------------------------------------------------------------------------
(* The step mapping.                                                        *)

\* When the packets on their way to r arrive.
RxTimes(r) == RxIn(channel, r)

\* What is pending is finite, and the next unique id is new.
Fresh ==
  \A r \in Rank : /\ IsFiniteSet(Listed(r)) /\ IsFiniteSet(DOMAIN RxTimes(r))
                  /\ \A e \in Listed(r) : e.uid < m_uid[r]

LEMMA PendingIs ==
  ASSUME NEW r \in Rank
  PROVE  Pending[r] = BagOf(Listed(r), RxTimes(r)) /\ Pending'[r] = BagOf(Listed(r)', RxTimes(r)')
<1>1. /\ Listed(r) = ListedIn(m_events[r]) /\ Listed(r)' = ListedIn(m_events'[r])
      /\ RxTimes(r) = RxIn(channel, r) /\ RxTimes(r)' = RxIn(channel', r)
  BY DEF Listed, ListedIn, RxTimes
<1>2. /\ Pending[r] = BagOf(ListedIn(m_events[r]), RxIn(channel, r))
      /\ Pending'[r] = BagOf(ListedIn(m_events'[r]), RxIn(channel', r))
  BY PendingAsBags DEF PendingOf
<1>. QED BY <1>1, <1>2

LEMMA InitFresh ==
  ASSUME Init
  PROVE  Fresh
<1> DEFINE D == {0} \cup Delay
<1>1. D \subseteq 0..Infinity /\ D # {} /\ Infinity \in Nat
  BY NullMessageAssumption, LinkAssumption
<1>2. Largest(D) \in D /\ \A d \in D : d <= Largest(D)
  BY <1>1, GreatestExists
<1>3. Largest(D) \in Nat /\ \A d \in Delay : d \in Nat /\ d <= Largest(D)
  BY <1>1, <1>2
<1> HIDE DEF D
<1> SUFFICES ASSUME NEW r \in Rank
             PROVE  /\ IsFiniteSet(Listed(r)) /\ IsFiniteSet(DOMAIN RxTimes(r))
                    /\ \A e \in Listed(r) : e.uid < m_uid[r]
  BY DEF Fresh
<1> DEFINE first == [d \in Delay |-> Event(d, VALID + 1 + d, "user", None)]
           stop  == Event(StopTime, VALID, "stop", None)
           E     == {first[d] : d \in Delay}
<1>4. Listed(r) \subseteq E \cup {stop}
  <2>1. m_events[r] \subseteq E \cup {stop}
    BY DEF Init
  <2>. QED BY <2>1 DEF Listed, ListedIn
<1>5. IsFiniteSet(E \cup {stop})
  <2>1. IsFiniteSet(Delay)
    <3>1. IsFiniteSet(0..Infinity) /\ Delay \in SUBSET (0..Infinity)
      BY NullMessageAssumption, LinkAssumption, FS_Interval
    <3>. QED BY <3>1, FS_Subset
  <2>2. first \in Surjection(Delay, E)
    BY DEF Surjection
  <2> HIDE DEF first, E
  <2>. QED BY <2>1, <2>2, FS_Surjection, FS_AddElement
<1>6. m_uid[r] = VALID + 2 + Largest(D)
  BY DEF Init, D
<1>7. \A e \in E \cup {stop} : e.uid < m_uid[r]
  BY <1>3, <1>6 DEF VALID, Event
<1> HIDE DEF E, stop
<1>8. DOMAIN RxTimes(r) = {}
  <2>1. \A q \in Neighbours(r) : channel[q][r] = <<>>
    BY NeighboursAreMutual DEF Init
  <2>2. \A q \in Neighbours(r) : DOMAIN channel[q][r] = {}
    BY <2>1
  <2>3. \A x : x \notin DOMAIN RxIn(channel, r)
    BY <2>2, InComing
  <2>. QED BY <2>3 DEF RxTimes
<1>. QED BY <1>4, <1>5, <1>7, <1>8, FS_Subset, FS_EmptySet

\* A step that the promises do not show.
Silent ==
  /\ \A r \in Rank : ListedIn(m_events'[r]) = ListedIn(m_events[r])
  /\ \A r \in Rank : \A q \in Neighbours(r) :
        \/ channel'[q][r] = channel[q][r]
        \/ /\ channel[q][r] \in Seq(Message)
           /\ \E m \in Message : m.rxTime = 0 /\ channel'[q][r] = Append(channel[q][r], m)

LEMMA SilentStutters ==
  ASSUME Typing, Fresh, Silent, \A r \in Rank : m_uid'[r] \in Nat /\ m_uid[r] <= m_uid'[r]
  PROVE  Fresh' /\ Pending' = Pending
<1>1. ASSUME NEW r \in Rank
      PROVE  Listed(r)' = Listed(r) /\ RxTimes(r)' = RxTimes(r)
  <2>1. \A q \in Neighbours(r) :
          \/ channel'[q][r] = channel[q][r]
          \/ /\ channel[q][r] \in Seq(Message)
             /\ \E m \in Message : m.rxTime = 0 /\ channel'[q][r] = Append(channel[q][r], m)
    BY DEF Silent
  <2>2. RxIn(channel', r) = RxIn(channel, r)
    BY <2>1, NullsBringNothing
  <2>3. ListedIn(m_events'[r]) = ListedIn(m_events[r])
    BY DEF Silent
  <2>. QED BY <2>2, <2>3 DEF Listed, ListedIn, RxTimes
<1>2. ASSUME NEW r \in Rank, NEW e \in Listed(r) PROVE e.uid < m_uid'[r]
  <2>1. e.uid < m_uid[r] /\ e.uid \in Nat /\ m_uid[r] \in Nat
    <3>1. m_events[r] \subseteq AnyEvent /\ e \in m_events[r] /\ m_uid[r] \in Nat
      BY DEF Typing, Listed
    <3>. QED BY <3>1 DEF Fresh, AnyEvent
  <2>. QED BY <2>1
<1>3. Fresh'
  BY <1>1, <1>2 DEF Fresh
<1>4. \A r \in Rank : Pending'[r] = Pending[r]
  BY <1>1, PendingIs
<1>5. /\ Pending = [r \in Rank |-> Pending[r]]
      /\ Pending' = [r \in Rank |-> Pending'[r]]
  BY PendingAsBags DEF PendingOf
<1>. QED BY <1>3, <1>4, <1>5

\* An event is executed when nothing sooner can come, from anywhere.
LEMMA TakeIsDue ==
  ASSUME IInv, NEW r \in Rank, NEW next, Take(r, next)
  PROVE  Parallel!Due(r, next.ts)
<1>1. Typing /\ Clock(r)
  BY DEF IInv
<1>2. /\ \A e \in Listed(r) : next.ts <= e.ts
      /\ next.ts <= m_safeTime[r] /\ next.ts \in Nat /\ m_safeTime[r] \in Nat
  BY <1>1, TakeProperties DEF Listed, ListedIn, Typing, AnyEvent
<1>3. ASSUME NEW m \in DOMAIN RxTimes(r) PROVE next.ts <= RxTimes(r)[m]
  <2>1. PICK q \in Neighbours(r) : \E i \in DOMAIN channel[q][r] :
                 channel[q][r][i].rxTime > 0 /\ m = <<q, i>>
    BY InComing DEF RxTimes
  <2>2. PICK i \in DOMAIN channel[q][r] : channel[q][r][i].rxTime > 0 /\ m = <<q, i>>
    BY <2>1
  <2>3. RxTimes(r)[m] = channel[q][r][i].rxTime
    BY <2>2, InComing DEF RxTimes
  <2>4. m_guaranteeTime[r][q] <= channel[q][r][i].rxTime
    BY <2>2 DEF IInv, Line
  <2>5. m_safeTime[r] <= m_guaranteeTime[r][q] /\ m_guaranteeTime[r][q] \in Nat
    BY <1>1 DEF Clock, Typing
  <2>6. channel[q][r][i].rxTime \in Nat
    <3>1. channel[q][r] \in Seq(Message)
      BY <1>1, NeighboursAreMutual DEF Typing
    <3>2. channel[q][r][i] \in Message
      BY <2>2, <3>1
    <3>. QED BY <3>2 DEF Message
  <2>. QED BY <1>2, <2>3, <2>4, <2>5, <2>6
<1>4. \A s \in DOMAIN BagOf(Listed(r), RxTimes(r)) : next.ts <= s
  BY <1>2, <1>3 DEF BagOf
<1>. QED BY <1>4, PendingIs DEF Parallel!Due, Parallel!BagToSet

\* Null messages move the clock, and nothing else that can be seen.
LEMMA NullsAdvance ==
  ASSUME IInv, Fresh, NEW r \in Rank, NEW next \in m_events[r],
         NullMessageEventHandler(r, next) \/ CancelledEvent(r, next)
  PROVE  Fresh' /\ Parallel!Advance(r)
<1>1. Typing /\ Nulls(r) /\ next.kind = "null" /\ Take(r, next)
  BY DEF IInv, NullMessageEventHandler, CancelledEvent
<1>2. /\ m_currentTs' = [m_currentTs EXCEPT ![r] = next.ts] /\ m_currentTs[r] <= next.ts
      /\ m_currentTs'[r] = next.ts
  BY <1>1, TakeProperties DEF Typing
<1>3. Silent /\ \A q \in Rank : m_uid'[q] \in Nat /\ m_uid[q] <= m_uid'[q]
  <2>1. CASE NullMessageEventHandler(r, next)
    <3> DEFINE q0 == next.of
               g0 == CalculateGuaranteeTime(r, q0, m_events[r] \ {next})
    <3>1. PICK e0 : /\ e0 = Event(NullTime(r, q0, next.ts), m_uid[r], "null", q0)
                    /\ m_events' = [m_events EXCEPT ![r] = (@ \ {next}) \cup {e0}]
      BY <2>1 DEF NullMessageEventHandler
    <3>2. e0.kind = "null"
      BY <3>1 DEF Event
    <3>3. \A q \in Rank : ListedIn(m_events'[q]) = ListedIn(m_events[q])
      BY <1>1, <3>1, <3>2 DEF ListedIn, Typing
    <3>4. /\ channel' = [channel EXCEPT ![r][q0] = Append(@, [rxTime |-> 0, guarantee |-> g0])]
          /\ m_uid' = [m_uid EXCEPT ![r] = @ + 1]
      BY <2>1 DEF NullMessageEventHandler, Send
    <3>5. /\ m_events[r] \ {next} \in SUBSET AnyEvent /\ m_events[r] \ {next} # {}
          /\ q0 \in Neighbours(r)
      BY <1>1, TakeProperties DEF Nulls
    <3>6. g0 \in Nat
      BY <1>1, <3>5, GuaranteeIs
    <3> DEFINE m == [rxTime |-> 0, guarantee |-> g0]
    <3>7. m \in Message /\ m.rxTime = 0
      BY <3>6 DEF Message
    <3> HIDE DEF g0, m
    <3>8. \A s \in Rank : \A q \in Neighbours(s) :
             \/ channel'[q][s] = channel[q][s]
             \/ channel[q][s] \in Seq(Message) /\ channel'[q][s] = Append(channel[q][s], m)
      <4>1. \A s \in Rank : \A q \in Neighbours(s) :
               /\ q \in Rank /\ s \in Neighbours(q) /\ DOMAIN channel[q] = Neighbours(q)
               /\ channel[q][s] \in Seq(Message)
        BY <1>1, NeighboursAreMutual DEF Typing
      <4>2. channel' = [channel EXCEPT ![r][q0] = Append(@, m)] /\ DOMAIN channel = Rank
        BY <1>1, <3>4 DEF Typing, m
      <4>. QED BY <4>1, <4>2
    <3>9. \A q \in Rank : m_uid'[q] \in Nat /\ m_uid[q] <= m_uid'[q]
      BY <1>1, <3>4 DEF Typing
    <3>10. Silent
      BY <3>3, <3>7, <3>8 DEF Silent
    <3>. QED BY <3>9, <3>10
  <2>2. CASE CancelledEvent(r, next)
    <3>1. m_events' = [m_events EXCEPT ![r] = @ \ {next}] /\ m_uid' = m_uid /\ channel' = channel
      BY <2>2 DEF CancelledEvent, Remove, sendVars
    <3>2. \A q \in Rank : ListedIn(m_events'[q]) = ListedIn(m_events[q])
      BY <1>1, <3>1 DEF ListedIn, Typing
    <3>3. Silent
      BY <3>1, <3>2 DEF Silent
    <3>. QED BY <1>1, <3>1, <3>3 DEF Typing
  <2>. QED BY <2>1, <2>2
<1>4. Fresh' /\ Pending' = Pending
  BY <1>1, <1>3, SilentStutters
<1>5. Parallel!Due(r, m_currentTs'[r])
  BY <1>1, <1>2, TakeIsDue
<1>. QED BY <1>2, <1>4, <1>5 DEF Parallel!Advance

\* The other events are executed.
LEMMA EventsExecute ==
  ASSUME IInv, Fresh, NEW r \in Rank, NEW next \in m_events[r],
         UserEvent(r, next) \/ TransmitComplete(r, next) \/ StopEvent(r, next)
  PROVE  Fresh' /\ Parallel!Execute(r)
<1>1. /\ Typing /\ next.kind # "null" /\ Take(r, next)
      /\ m_events' = [m_events EXCEPT ![r] = @ \ {next}] /\ m_uid' = m_uid /\ channel' = channel
  BY DEF IInv, UserEvent, TransmitComplete, StopEvent, Remove, sendVars
<1>2. m_currentTs' = [m_currentTs EXCEPT ![r] = next.ts]
  BY <1>1, TakeProperties
<1>3. /\ next \in Listed(r) /\ Listed(r)' = Listed(r) \ {next} /\ RxTimes(r)' = RxTimes(r)
      /\ \A q \in Rank : q # r => Listed(q)' = Listed(q) /\ RxTimes(q)' = RxTimes(q)
  BY <1>1 DEF Listed, RxTimes, ListedIn, Typing
<1>4. /\ MoreAt(Listed(r) \ {next}, RxTimes(r), Listed(r), RxTimes(r), next.ts)
      /\ \A q \in Rank : IsFiniteSet(Listed(q)') /\ IsFiniteSet(DOMAIN RxTimes(q)')
  <2>1. \A q \in Rank : IsFiniteSet(Listed(q)) /\ IsFiniteSet(DOMAIN RxTimes(q))
    BY DEF Fresh
  <2>2. MoreAt(Listed(r) \ {next}, RxTimes(r), Listed(r), RxTimes(r), next.ts) /\ IsFiniteSet(Listed(r) \ {next})
    BY <1>3, <2>1, EventLeaves
  <2>. QED BY <1>3, <2>1, <2>2
<1>5. /\ next.ts \in Parallel!BagToSet(Pending[r])
      /\ Pending'[r] = Parallel!(-)(Pending[r], Parallel!SetToBag({next.ts}))
      /\ \A q \in Rank : q # r => Pending'[q] = Pending[q]
  <2>1. /\ IsFiniteSet(Listed(r)) /\ IsFiniteSet(DOMAIN RxTimes(r)) /\ IsFiniteSet(Listed(r) \ {next})
        /\ Pending[r] = BagOf(Listed(r), RxTimes(r)) /\ Pending'[r] = BagOf(Listed(r) \ {next}, RxTimes(r))
    BY <1>3, <1>4, PendingIs DEF Fresh
  <2>2. \A q \in Rank : q # r => Pending'[q] = Pending[q]
    BY <1>3, PendingIs
  <2>. QED BY <1>4, <2>1, <2>2, OneTimeLeaves
<1>6. Fresh'
  BY <1>1, <1>3, <1>4 DEF Fresh
<1>7. PICK left : left = [Pending EXCEPT ![r] = Parallel!(-)(@, Parallel!SetToBag({next.ts}))]
  OBVIOUS
<1>8. \A q \in Rank : left[q] = Pending'[q]
  <2>1. DOMAIN Pending = Rank
    BY DEF Pending
  <2>. QED BY <1>5, <1>7, <2>1
<1>9. ASSUME NEW q \in Rank
      PROVE  /\ Parallel!\sqsubseteq(left[q], Pending'[q])
             /\ Parallel!BagToSet(Parallel!(-)(Pending'[q], left[q])) = {}
  BY <1>4, <1>8, PendingIs, NothingEnters
<1>10. Parallel!Spawn(r, left)
  BY <1>9 DEF Parallel!Spawn
<1>. QED BY <1>1, <1>2, <1>5, <1>6, <1>7, <1>10, TakeIsDue DEF Parallel!Execute

\* An event with the next unique id.
LEMMA ListGrows ==
  ASSUME Typing, Fresh, NEW r \in Rank, NEW e, e.uid = m_uid[r],
         Listed(r)' = Listed(r) \cup {e}, m_uid'[r] \in Nat, m_uid[r] < m_uid'[r]
  PROVE  /\ e \notin Listed(r) /\ IsFiniteSet(Listed(r)')
         /\ \A f \in Listed(r)' : f.uid < m_uid'[r]
<1>1. m_uid[r] \in Nat /\ \A f \in Listed(r) : f.uid \in Nat
  BY DEF Typing, Listed, AnyEvent
<1>2. IsFiniteSet(Listed(r)) /\ \A f \in Listed(r) : f.uid < m_uid[r]
  BY DEF Fresh
<1>3. e \notin Listed(r)
  BY <1>1, <1>2
<1>4. IsFiniteSet(Listed(r)')
  BY <1>2, FS_AddElement
<1>5. \A f \in Listed(r)' : f.uid < m_uid'[r]
  BY <1>1, <1>2
<1>. QED BY <1>3, <1>4, <1>5

LEMMA ScheduleCalls ==
  ASSUME IInv, Fresh, NEW r \in Rank, NEW d \in Delay, Schedule(r, d)
  PROVE  Fresh' /\ Parallel!Call(r)
<1> DEFINE s == m_currentTs[r] + d
<1>a. Typing
  BY DEF IInv
<1>0. PICK e : e = Event(s, m_uid[r], "user", None)
  OBVIOUS
<1>1. /\ m_events' = [m_events EXCEPT ![r] = @ \cup {e}]
      /\ m_uid' = [m_uid EXCEPT ![r] = @ + 1]
      /\ channel' = channel /\ m_currentTs' = m_currentTs
  BY <1>0, FS_Singleton DEF Schedule, Insert, sendVars
<1>2. e.ts = s /\ e.uid = m_uid[r] /\ e.kind # "null"
  BY <1>0 DEF Event
<1>3. m_currentTs[r] <= s
  BY <1>a, NullMessageAssumption, LinkAssumption DEF Typing
<1> HIDE DEF s
<1>4. /\ Listed(r)' = Listed(r) \cup {e} /\ RxTimes(r)' = RxTimes(r)
      /\ \A q \in Rank : q # r => Listed(q)' = Listed(q) /\ RxTimes(q)' = RxTimes(q)
  BY <1>a, <1>1, <1>2 DEF Listed, RxTimes, Typing
<1>5. /\ e \notin Listed(r) /\ IsFiniteSet(Listed(r)')
      /\ \A f \in Listed(r)' : f.uid < m_uid'[r]
  <2>1. m_uid'[r] \in Nat /\ m_uid[r] < m_uid'[r]
    BY <1>a, <1>1 DEF Typing
  <2>. QED BY <1>a, <1>2, <1>4, <2>1, ListGrows
<1>6. Fresh'
  <2>1. \A q \in Rank : q # r => m_uid'[q] = m_uid[q]
    BY <1>a, <1>1 DEF Typing
  <2>. QED BY <1>4, <1>5, <2>1 DEF Fresh
<1>7. ASSUME NEW q \in Rank
      PROVE  /\ Parallel!\sqsubseteq(Pending[q], Pending'[q])
             /\ \A t \in Parallel!BagToSet(Parallel!(-)(Pending'[q], Pending[q])) :
                   q = r /\ m_currentTs'[r] <= t
  <2>0. /\ IsFiniteSet(Listed(q)) /\ IsFiniteSet(DOMAIN RxTimes(q))
        /\ Pending[q] = BagOf(Listed(q), RxTimes(q))
        /\ Pending'[q] = BagOf(Listed(q)', RxTimes(q)')
    BY PendingIs DEF Fresh
  <2>1. CASE q = r
    <3>1. MoreAt(Listed(r), RxTimes(r), Listed(r) \cup {e}, RxTimes(r), s)
      BY <1>2, <1>5, <2>0, <2>1, EventEnters
    <3>2. /\ Parallel!\sqsubseteq(Pending[r], Pending'[r])
          /\ \A t \in Parallel!BagToSet(Parallel!(-)(Pending'[r], Pending[r])) : t = s
      <4>1. /\ Pending[r] = BagOf(Listed(r), RxTimes(r))
            /\ Pending'[r] = BagOf(Listed(r) \cup {e}, RxTimes(r))
            /\ IsFiniteSet(Listed(r)) /\ IsFiniteSet(Listed(r) \cup {e})
            /\ IsFiniteSet(DOMAIN RxTimes(r))
        BY <1>4, <1>5, <2>0, <2>1
      <4>. QED BY <3>1, <4>1, OneTimeEnters
    <3>. QED BY <1>1, <1>3, <2>1, <3>2
  <2>2. CASE q # r
    BY <1>4, <2>0, <2>2, NothingEnters
  <2>. QED BY <2>1, <2>2
<1>8. Parallel!Spawn(r, Pending)
  BY <1>7 DEF Parallel!Spawn
<1>. QED BY <1>1, <1>6, <1>8 DEF Parallel!Call

\* A packet is an event of the device's own and one of a neighbour's.
LEMMA TransmitCalls ==
  ASSUME IInv, IInv', Fresh, NEW r \in Rank, NEW l \in Link, NEW tx \in TxTime[l],
         TransmitStart(r, l, tx)
  PROVE  Fresh' /\ Parallel!Call(r)
<1> DEFINE q0 == Remote(l, r)
           rx == Arrival(r, l, tx)
           g0 == CalculateGuaranteeTime(r, q0, m_events[r] \cup {Complete(r, l, tx)})
<1>a. Typing
  BY DEF IInv
<1>0. PICK c0, e0, m : /\ c0 = Complete(r, l, tx)
                       /\ e0 = Event(NullTime(r, q0, m_currentTs[r]), m_uid[r] + 1, "null", q0)
                       /\ m = [rxTime |-> rx, guarantee |-> g0]
  OBVIOUS
<1>1. /\ l \in LinksOf(r)
      /\ channel' = [channel EXCEPT ![r][q0] = Append(@, m)]
      /\ m_events' = [m_events EXCEPT ![r] = @ \cup {c0, e0}]
      /\ m_uid' = [m_uid EXCEPT ![r] = @ + Cardinality({c0, e0})]
      /\ m_currentTs' = m_currentTs /\ m_guaranteeTime' = m_guaranteeTime
  BY <1>0 DEF TransmitStart, Insert, Send, promiseVars
<1>2. q0 \in Neighbours(r) /\ q0 \in Rank /\ q0 # r /\ r \in Neighbours(q0)
  BY <1>1, NeighboursAreMutual DEF Neighbours
<1>3. /\ m_currentTs[r] \in Nat /\ tx \in Nat /\ InterframeGap[l] \in Nat /\ LinkDelay[l] \in Nat /\ m_uid[r] \in Nat
      /\ m_events[r] \in SUBSET AnyEvent
  BY <1>a, NullMessageAssumption, LinkAssumption DEF Typing
<1>4. /\ rx \in Nat /\ m_currentTs[r] + LinkDelay[l] <= rx
      /\ c0 \in AnyEvent /\ c0.kind = "complete" /\ c0.uid = m_uid[r]
      /\ c0.ts = m_currentTs[r] + tx + InterframeGap[l] /\ m_currentTs[r] <= c0.ts
      /\ e0.kind = "null"
  BY <1>0, <1>3 DEF Arrival, Complete, Event, AnyEvent
<1>5. m \in Message /\ m.rxTime = rx
  <2>1. g0 \in Nat
    <3>1. m_events[r] \cup {c0} \in SUBSET AnyEvent /\ m_events[r] \cup {c0} # {}
      BY <1>3, <1>4
    <3>. QED BY <1>0, <1>a, <1>2, <3>1, GuaranteeIs
  <2>. QED BY <1>0, <1>4, <2>1 DEF Message
<1> HIDE DEF q0, rx, g0
<1>6. Cardinality({c0, e0}) \in Nat /\ Cardinality({c0, e0}) > 0
  <2>1. IsFiniteSet({c0} \cup {e0}) /\ {c0} \cup {e0} = {c0, e0}
    BY FS_Singleton, FS_AddElement
  <2>2. PICK S : S = {c0, e0}
    OBVIOUS
  <2>3. IsFiniteSet(S) /\ S # {}
    BY <2>1, <2>2
  <2>4. Cardinality(S) \in Nat /\ Cardinality(S) # 0
    BY <2>3, FS_CardinalityType, FS_EmptySet
  <2>. QED BY <2>2, <2>4
<1>7. /\ Listed(r)' = Listed(r) \cup {c0}
      /\ \A q \in Rank : q # r => Listed(q)' = Listed(q)
  BY <1>a, <1>1, <1>4 DEF Listed, Typing
<1>8. /\ c0 \notin Listed(r) /\ IsFiniteSet(Listed(r)')
      /\ \A f \in Listed(r)' : f.uid < m_uid'[r]
  <2>1. m_uid'[r] \in Nat /\ m_uid[r] < m_uid'[r]
    <3>1. m_uid'[r] = m_uid[r] + Cardinality({c0, e0})
      BY <1>a, <1>1 DEF Typing
    <3>. QED BY <1>3, <1>6, <3>1
  <2>. QED BY <1>a, <1>4, <1>7, <2>1, ListGrows
<1>9. /\ channel[r][q0] \in Seq(Message) /\ channel'[r][q0] = Append(channel[r][q0], m)
      /\ \A s \in Rank : \A q \in Neighbours(s) :
            ~(q = r /\ s = q0) => channel'[q][s] = channel[q][s]
  <2>1. \A s \in Rank : \A q \in Neighbours(s) :
           q \in Rank /\ s \in Neighbours(q) /\ channel[q] \in [Neighbours(q) -> Seq(Message)]
    BY <1>a, NeighboursAreMutual DEF Typing
  <2>2. DOMAIN channel = Rank /\ channel[r] \in [Neighbours(r) -> Seq(Message)]
    BY <1>a DEF Typing
  <2>. QED BY <1>1, <1>2, <2>1, <2>2
<1>10. \A s \in Rank : s # q0 => RxTimes(s)' = RxTimes(s)
  <2> SUFFICES ASSUME NEW s \in Rank, s # q0 PROVE RxIn(channel', s) = RxIn(channel, s)
    BY DEF RxTimes
  <2>1. \A q \in Neighbours(s) : channel'[q][s] = channel[q][s]
    BY <1>9
  <2>. QED BY <2>1, NullsBringNothing
<1>11. CASE rx > 0
  <2>1. /\ MoreAt(Listed(q0), RxTimes(q0), Listed(q0), RxTimes(q0)', rx)
        /\ IsFiniteSet(DOMAIN RxTimes(q0)')
    <3>1. IsFiniteSet(Listed(q0)) /\ IsFiniteSet(DOMAIN RxIn(channel, q0))
      BY <1>2 DEF Fresh, RxTimes
    <3>2. \A q \in Neighbours(q0) : q # r => channel'[q][q0] = channel[q][q0]
      BY <1>2, <1>9
    <3>. QED BY <1>2, <1>5, <1>9, <1>11, <3>1, <3>2, PacketSent DEF RxTimes
  <2>2. m_currentTs[q0] <= rx
    <3>1. Clock(q0)' /\ Line(r, q0)' /\ Typing'
      BY <1>2 DEF IInv
    <3>2. PICK i \in DOMAIN channel'[r][q0] : channel'[r][q0][i] = m
      BY <1>5, <1>9, AppendElements
    <3>3. m_guaranteeTime'[q0][r] <= rx
      BY <1>5, <1>11, <3>1, <3>2 DEF Line
    <3>4. m_currentTs'[q0] <= m_safeTime'[q0] /\ m_safeTime'[q0] <= m_guaranteeTime'[q0][r]
      BY <1>2, <3>1 DEF Clock
    <3>5. m_currentTs'[q0] \in Nat /\ m_safeTime'[q0] \in Nat /\ m_guaranteeTime'[q0][r] \in Nat
      BY <1>2, <3>1 DEF Typing
    <3>. QED BY <1>1, <1>4, <3>3, <3>4, <3>5
  <2>3. Fresh'
    <3>1. \A q \in Rank : q # r => m_uid'[q] = m_uid[q]
      BY <1>a, <1>1 DEF Typing
    <3>2. \A q \in Rank : IsFiniteSet(DOMAIN RxTimes(q)')
      BY <1>10, <2>1 DEF Fresh
    <3>. QED BY <1>7, <1>8, <3>1, <3>2 DEF Fresh
  <2>4. ASSUME NEW q \in Rank
        PROVE  /\ Parallel!\sqsubseteq(Pending[q], Pending'[q])
               /\ \A t \in Parallel!BagToSet(Parallel!(-)(Pending'[q], Pending[q])) :
                     (q = r /\ t = c0.ts) \/ (q = q0 /\ t = rx)
    <3>0. /\ IsFiniteSet(Listed(q)) /\ IsFiniteSet(DOMAIN RxTimes(q))
          /\ IsFiniteSet(Listed(q)') /\ IsFiniteSet(DOMAIN RxTimes(q)')
          /\ Pending[q] = BagOf(Listed(q), RxTimes(q))
          /\ Pending'[q] = BagOf(Listed(q)', RxTimes(q)')
      BY <2>3, PendingIs DEF Fresh
    <3>1. CASE q = r
      <4>1. MoreAt(Listed(r), RxTimes(r), Listed(r) \cup {c0}, RxTimes(r), c0.ts)
        BY <1>8, <3>0, <3>1, EventEnters
      <4>2. MoreAt(Listed(r), RxTimes(r), Listed(r)', RxTimes(r)', c0.ts)
        BY <1>2, <1>7, <1>10, <4>1
      <4>. QED BY <3>0, <3>1, <4>2, OneTimeEnters
    <3>2. CASE q = q0
      <4>1. Listed(q0)' = Listed(q0)
        BY <1>2, <1>7
      <4>. QED BY <2>1, <3>0, <3>2, <4>1, OneTimeEnters
    <3>3. CASE q # r /\ q # q0
      BY <1>7, <1>10, <3>0, <3>3, NothingEnters
    <3>. QED BY <3>1, <3>2, <3>3
  <2>5. l \in Parallel!LinksOf(r) /\ Parallel!Remote(l, r) = q0
    BY <1>1 DEF Parallel!LinksOf, Parallel!Remote, LinksOf, Remote, q0
  <2>6. Parallel!Spawn(r, Pending)
    BY <1>1, <1>2, <1>4, <2>2, <2>4, <2>5 DEF Parallel!Spawn
  <2>. QED BY <1>1, <2>3, <2>6 DEF Parallel!Call
\* A packet that arrives at time 0 is taken for a null message.
<1>12. CASE rx = 0
  <2>1. \A s \in Rank : RxTimes(s)' = RxTimes(s)
    <3>1. \A q \in Neighbours(q0) :
            \/ channel'[q][q0] = channel[q][q0]
            \/ /\ channel[q][q0] \in Seq(Message)
               /\ \E n \in Message : n.rxTime = 0 /\ channel'[q][q0] = Append(channel[q][q0], n)
      BY <1>2, <1>5, <1>9, <1>12
    <3>2. RxIn(channel', q0) = RxIn(channel, q0)
      BY <3>1, NullsBringNothing
    <3>. QED BY <1>10, <3>2 DEF RxTimes
  <2>2. Fresh'
    <3>1. \A q \in Rank : q # r => m_uid'[q] = m_uid[q]
      BY <1>a, <1>1 DEF Typing
    <3>. QED BY <1>7, <1>8, <2>1, <3>1 DEF Fresh
  <2>3. ASSUME NEW q \in Rank
        PROVE  /\ Parallel!\sqsubseteq(Pending[q], Pending'[q])
               /\ \A t \in Parallel!BagToSet(Parallel!(-)(Pending'[q], Pending[q])) :
                     q = r /\ t = c0.ts
    <3>0. /\ IsFiniteSet(Listed(q)) /\ IsFiniteSet(DOMAIN RxTimes(q)) /\ IsFiniteSet(Listed(q)')
          /\ Pending[q] = BagOf(Listed(q), RxTimes(q))
          /\ Pending'[q] = BagOf(Listed(q)', RxTimes(q))
      BY <2>1, <2>2, PendingIs DEF Fresh
    <3>1. CASE q = r
      <4>1. MoreAt(Listed(r), RxTimes(r), Listed(r) \cup {c0}, RxTimes(r), c0.ts)
        BY <1>8, <3>0, <3>1, EventEnters
      <4>2. /\ Pending[r] = BagOf(Listed(r), RxTimes(r))
            /\ Pending'[r] = BagOf(Listed(r) \cup {c0}, RxTimes(r))
            /\ IsFiniteSet(Listed(r)) /\ IsFiniteSet(Listed(r) \cup {c0})
            /\ IsFiniteSet(DOMAIN RxTimes(r))
        BY <1>7, <3>0, <3>1
      <4>3. /\ Parallel!\sqsubseteq(Pending[r], Pending'[r])
            /\ \A t \in Parallel!BagToSet(Parallel!(-)(Pending'[r], Pending[r])) : t = c0.ts
        <5>1. \A t \in Parallel!BagToSet(Parallel!(-)(BagOf(Listed(r) \cup {c0}, RxTimes(r)),
                                                      BagOf(Listed(r), RxTimes(r)))) : t = c0.ts
          BY <4>1, <4>2, OneTimeEnters
        <5>2. Parallel!\sqsubseteq(BagOf(Listed(r), RxTimes(r)),
                                   BagOf(Listed(r) \cup {c0}, RxTimes(r)))
          BY <4>1, <4>2, OneTimeEnters
        <5>. QED BY <4>2, <5>1, <5>2
      <4>. QED BY <3>1, <4>3
    <3>2. CASE q # r
      BY <1>7, <3>0, <3>2, NothingEnters
    <3>. QED BY <3>1, <3>2
  <2>4. Parallel!Spawn(r, Pending)
    BY <1>1, <1>4, <2>3 DEF Parallel!Spawn
  <2>. QED BY <1>1, <2>2, <2>4 DEF Parallel!Call
<1>. QED BY <1>4, <1>11, <1>12

\* The hand-over of a message to the list cannot be seen.
LEMMA ReceiveStutters ==
  ASSUME IInv, Fresh, NEW r \in Rank, NEW p \in Rank, Receive(r, p)
  PROVE  Fresh' /\ Pending' = Pending
<1>a. Typing
  BY DEF IInv
<1>0. PICK m, e, new : /\ m = Head(channel[p][r])
                       /\ e = Event(m.rxTime, m_uid[r], "user", None)
                       /\ new = IF m.rxTime > 0 THEN {e} ELSE {}
  OBVIOUS
<1>1. /\ p \in Neighbours(r) /\ channel[p][r] # <<>>
      /\ channel' = [channel EXCEPT ![p][r] = Tail(@)]
      /\ m_events' = [m_events EXCEPT ![r] = @ \cup new]
      /\ m_uid' = [m_uid EXCEPT ![r] = @ + Cardinality(new)]
  BY <1>0 DEF Receive, Insert
<1>2. e.ts = m.rxTime /\ e.uid = m_uid[r] /\ e.kind # "null"
  BY <1>0 DEF Event
<1>3. /\ channel[p][r] \in Seq(Message) /\ channel'[p][r] = Tail(channel[p][r])
      /\ \A s \in Rank : \A q \in Neighbours(s) :
            ~(q = p /\ s = r) => channel'[q][s] = channel[q][s]
  <2>1. \A s \in Rank : \A q \in Neighbours(s) :
           q \in Rank /\ s \in Neighbours(q) /\ channel[q] \in [Neighbours(q) -> Seq(Message)]
    BY <1>a, NeighboursAreMutual DEF Typing
  <2>2. DOMAIN channel = Rank
    BY <1>a DEF Typing
  <2>. QED BY <1>1, <2>1, <2>2
<1>4. /\ m.rxTime > 0 => Listed(r)' = Listed(r) \cup {e}
      /\ ~(m.rxTime > 0) => Listed(r)' = Listed(r)
      /\ \A q \in Rank : q # r => Listed(q)' = Listed(q) /\ m_uid'[q] = m_uid[q]
  BY <1>0, <1>a, <1>1, <1>2 DEF Listed, Typing
<1>5. /\ IsFiniteSet(Listed(r)') /\ \A f \in Listed(r)' : f.uid < m_uid'[r]
      /\ m.rxTime > 0 => e \notin Listed(r)
  <2>1. CASE m.rxTime > 0
    <3>1. Cardinality(new) = 1
      BY <1>0, <2>1, FS_Singleton
    <3>2. m_uid'[r] \in Nat /\ m_uid[r] < m_uid'[r]
      BY <1>a, <1>1, <3>1 DEF Typing
    <3>. QED BY <1>a, <1>2, <1>4, <2>1, <3>2, ListGrows
  <2>2. CASE ~(m.rxTime > 0)
    <3>1. Cardinality(new) = 0
      BY <1>0, <2>2, FS_EmptySet
    <3>2. m_uid'[r] = m_uid[r]
      BY <1>a, <1>1, <3>1 DEF Typing
    <3>. QED BY <1>4, <2>2, <3>2 DEF Fresh
  <2>. QED BY <2>1, <2>2
<1>6. /\ BagOf(Listed(r)', RxTimes(r)') = BagOf(Listed(r), RxTimes(r))
      /\ IsFiniteSet(DOMAIN RxTimes(r)')
  <2>1. IsFiniteSet(Listed(r)) /\ IsFiniteSet(DOMAIN RxIn(channel, r))
    BY DEF Fresh, RxTimes
  <2>2. \A q \in Neighbours(r) : q # p => channel'[q][r] = channel[q][r]
    BY <1>3
  <2>3. PICK M : M = Listed(r)'
    OBVIOUS
  <2>4. TakesFirst(r, p, channel, channel', Listed(r), M)
    BY <1>0, <1>1, <1>2, <1>3, <1>4, <1>5, <2>2, <2>3 DEF TakesFirst
  <2>5. /\ BagOf(M, RxIn(channel', r)) = BagOf(Listed(r), RxIn(channel, r))
        /\ IsFiniteSet(DOMAIN RxIn(channel', r))
    BY <2>1, <2>4, FirstTaken
  <2>. QED BY <2>3, <2>5 DEF RxTimes
<1>7. \A q \in Rank : q # r => RxTimes(q)' = RxTimes(q)
  <2> SUFFICES ASSUME NEW q \in Rank, q # r PROVE RxIn(channel', q) = RxIn(channel, q)
    BY DEF RxTimes
  <2>1. \A s \in Neighbours(q) : channel'[s][q] = channel[s][q]
    BY <1>3
  <2>. QED BY <2>1, NullsBringNothing
<1>8. Fresh'
  BY <1>4, <1>5, <1>6, <1>7 DEF Fresh
<1>9. \A q \in Rank : Pending'[q] = Pending[q]
  BY <1>4, <1>6, <1>7, PendingIs
<1>10. /\ Pending = [q \in Rank |-> Pending[q]]
       /\ Pending' = [q \in Rank |-> Pending'[q]]
  BY PendingAsBags DEF PendingOf
<1>. QED BY <1>8, <1>9, <1>10

\* Nor can the null messages with which a run begins.
LEMMA RunBeginStutters ==
  ASSUME IInv, Fresh, NEW r \in Rank, RunBegin(r)
  PROVE  Fresh' /\ Pending' = Pending
<1> DEFINE N == Neighbours(r)
           first(q) == [rxTime |-> 0, guarantee |-> BundleDelay(r, q)]
<1>a. Typing
  BY DEF IInv
<1>0. PICK event, new :
        /\ event = [q \in N |-> Event(NullTime(r, q, m_currentTs[r]),
                                      m_uid[r] + Cardinality({p \in N : p < q}), "null", q)]
        /\ new = {event[q] : q \in N}
  OBVIOUS
<1>1. /\ new = {Event(NullTime(r, q, m_currentTs[r]),
                      m_uid[r] + Cardinality({p \in N : p < q}), "null", q) : q \in N}
      /\ m_events' = [m_events EXCEPT ![r] = @ \cup new]
      /\ m_uid' = [m_uid EXCEPT ![r] = @ + Cardinality(new)]
      /\ channel' = [channel EXCEPT ![r] = [q \in N |-> Append(channel[r][q], first(q))]]
  BY <1>0 DEF RunBegin, Insert
<1>2. /\ \A q \in N : event[q] \in new /\ event[q].of = q /\ event[q].kind = "null"
      /\ \A e \in new : \E q \in N : e = event[q]
  BY <1>0 DEF Event
<1>3. Cardinality(new) \in Nat
  BY <1>2, IdsFit
<1>4. \A q \in N : first(q) \in Message /\ first(q).rxTime = 0
  BY BundleDelayIs DEF Message
<1>5. \A s \in Rank : ListedIn(m_events'[s]) = ListedIn(m_events[s])
  <2>1. \A e \in new : e.kind = "null"
    BY <1>2
  <2>. QED BY <1>a, <1>1, <2>1 DEF ListedIn, Typing
<1>6. ASSUME NEW s \in Rank, NEW q \in Neighbours(s)
      PROVE  \/ channel'[q][s] = channel[q][s]
             \/ /\ channel[q][s] \in Seq(Message)
                /\ \E m \in Message : m.rxTime = 0 /\ channel'[q][s] = Append(channel[q][s], m)
  <2>1. q \in Rank /\ s \in Neighbours(q) /\ DOMAIN channel = Rank
        /\ channel[q] \in [Neighbours(q) -> Seq(Message)]
    BY <1>a, NeighboursAreMutual DEF Typing
  <2>2. CASE q # r
    BY <1>1, <2>1, <2>2
  <2>3. CASE q = r
    <3>1. channel'[q][s] = Append(channel[q][s], first(s))
      BY <1>1, <2>1, <2>3
    <3>. QED BY <1>4, <2>1, <2>3, <3>1
  <2>. QED BY <2>2, <2>3
<1>7. Silent
  BY <1>5, <1>6 DEF Silent
<1>8. \A q \in Rank : m_uid'[q] \in Nat /\ m_uid[q] <= m_uid'[q]
  BY <1>a, <1>1, <1>3 DEF Typing
<1>. QED BY <1>a, <1>7, <1>8, SilentStutters

LEMMA StepImplementsParallel ==
  ASSUME IInv, IInv', Fresh, [NextStep]_vars
  PROVE  Fresh' /\ [Parallel!Next]_<<m_currentTs, Pending>>
<1>a. Typing
  BY DEF IInv
<1>1. CASE UNCHANGED <<m_events, m_uid, channel, m_currentTs>>
  <2>1. Silent /\ \A r \in Rank : m_uid'[r] \in Nat /\ m_uid[r] <= m_uid'[r]
    BY <1>a, <1>1 DEF Silent, Typing
  <2>. QED BY <1>a, <1>1, <2>1, SilentStutters
<1>2. ASSUME NEW r \in Rank, Handler(r)
      PROVE  Fresh' /\ Parallel!Next
  BY <1>2, ScheduleCalls, TransmitCalls DEF Handler, Parallel!Next
<1>3. ASSUME NEW r \in Rank, NEW next \in m_events[r], ProcessOneEvent(r, next)
      PROVE  Fresh' /\ Parallel!Next
  BY <1>3, EventsExecute, NullsAdvance DEF ProcessOneEvent, Parallel!Next
<1>4. ASSUME NEW r \in Rank, NEW q \in Rank,
             \/ HandleArrivingMessagesBlocking(r, q) \/ HandleArrivingMessagesNonBlocking(r, q)
      PROVE  Fresh' /\ UNCHANGED <<m_currentTs, Pending>>
  <2>1. Receive(r, q) /\ m_currentTs' = m_currentTs
    BY <1>4 DEF HandleArrivingMessagesBlocking, HandleArrivingMessagesNonBlocking
  <2>. QED BY <2>1, ReceiveStutters
<1>5. ASSUME NEW r \in Rank, RunBegin(r)
      PROVE  Fresh' /\ UNCHANGED <<m_currentTs, Pending>>
  BY <1>5, RunBeginStutters DEF RunBegin
<1>6. ASSUME NEW r \in Rank, RunReturn(r) \/ HandlerReturn(r) \/ CalculateSafeTime(r)
      PROVE  UNCHANGED <<m_events, m_uid, channel, m_currentTs>>
  BY <1>6 DEF RunReturn, HandlerReturn, CalculateSafeTime, eventVars, sendVars
<1>7. UNCHANGED vars => UNCHANGED <<m_events, m_uid, channel, m_currentTs>>
  BY DEF vars, eventVars, sendVars
<1>. QED BY <1>1, <1>2, <1>3, <1>4, <1>5, <1>6, <1>7 DEF NextStep, Loop

LEMMA InitImplementsParallel == Init => Parallel!Init
<1> SUFFICES ASSUME Init PROVE Parallel!Init
  OBVIOUS
<1>1. Fresh
  BY InitFresh
<1>2. \A r \in Rank : Parallel!IsABag(Pending[r])
  BY <1>1, BagOfIsABag, PendingIs DEF Fresh
<1>. QED BY <1>2 DEF Init, Parallel!Init

(***************************************************************************)
(* The null-message algorithm is a conservative parallel simulation: no    *)
(* rank executes anything that a sequential simulation would not execute   *)
(* at that moment, and no packet is lost or doubled on its way.            *)
(***************************************************************************)
THEOREM NullMessagesImplementParallel ==
  ASSUME OneLink
  PROVE  Spec => ImplementsParallel
<1>1. IInv /\ IInv' /\ Fresh /\ [NextStep]_vars
        => Fresh' /\ [Parallel!Next]_<<m_currentTs, Pending>>
  BY StepImplementsParallel
<1>. QED
  BY <1>1, InitFresh, InitImplementsParallel, IInvHolds, PTL
     DEF Spec, ImplementsParallel, Parallel!Spec
=============================================================================
