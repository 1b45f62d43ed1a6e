------------------------- MODULE SetSchedulerProofs -------------------------
(***************************************************************************)
(* Proofs about the event lists of module SetScheduler: the sorted list,   *)
(* the calendar, and the simulator that exchanges the one for the other.   *)
(*                                                                         *)
(* From the bottom up: keys and sequences in order; the list; division, on *)
(* which the calendar's days and buckets rest; what each helper of the     *)
(* calendar does to its buckets (Sound), to its position (Positioned) and  *)
(* to the events it holds; the operations; the simulator (SetIInv).        *)
(***************************************************************************)
EXTENDS SetScheduler, SequenceTheorems, FiniteSetTheorems, WellFoundedInduction, TLAPS

AnyKey == [ts : Nat, uid : Nat]

\* The events given are keys.
LEMMA KeysAreAnyKeys == Key \subseteq AnyKey
BY KeyAssumption DEF AnyKey

\* Of two keys at most one is before the other.
LEMMA LessAsymmetric ==
  ASSUME NEW a \in AnyKey, NEW b \in AnyKey, Less(a, b)
  PROVE  ~Less(b, a) /\ a # b
BY DEF Less, AnyKey

LEMMA LessTransitive ==
  ASSUME NEW a \in AnyKey, NEW b \in AnyKey, NEW c \in AnyKey,
         Less(a, b), Less(b, c)
  PROVE  Less(a, c)
BY DEF Less, AnyKey

\* Two keys that are not ordered are the same.
LEMMA LessTotal ==
  ASSUME NEW a \in AnyKey, NEW b \in AnyKey, ~Less(a, b), ~Less(b, a)
  PROVE  a = b
BY DEF Less, AnyKey

-----------------------------------------------------------------------------
(* Sequences of keys in their order, or in the reverse one.                 *)

Before(rev, a, b) == IF rev THEN Less(b, a) ELSE Less(a, b)

\* Each event is before the ones behind it; in particular none is there twice.
InOrder(rev, s) == \A i, j \in 1..Len(s) : i < j => Before(rev, s[i], s[j])

Elements(s) == {s[i] : i \in 1..Len(s)}

\* s with ev at place k, and s without its k-th element.
PlacedAt(s, ev, k) == SubSeq(s, 1, k - 1) \o <<ev>> \o SubSeq(s, k, Len(s))
WithoutAt(s, k)    == SubSeq(s, 1, k - 1) \o SubSeq(s, k + 1, Len(s))

\* The order of a bucket, either way, is a strict total order.
LEMMA BeforeAsymmetric ==
  ASSUME NEW rev \in BOOLEAN, NEW a \in Key, NEW b \in Key, Before(rev, a, b)
  PROVE  ~Before(rev, b, a) /\ a # b
BY KeysAreAnyKeys, LessAsymmetric DEF Before

LEMMA BeforeTransitive ==
  ASSUME NEW rev \in BOOLEAN, NEW a \in Key, NEW b \in Key, NEW c \in Key,
         Before(rev, a, b), Before(rev, b, c)
  PROVE  Before(rev, a, c)
BY KeysAreAnyKeys, LessTransitive DEF Before

LEMMA BeforeTotal ==
  ASSUME NEW rev \in BOOLEAN, NEW a \in Key, NEW b \in Key, a # b, ~Before(rev, a, b)
  PROVE  Before(rev, b, a)
BY KeysAreAnyKeys, LessTotal DEF Before

\* s with ev at place k, element by element.
LEMMA PlacedProperties ==
  ASSUME NEW s \in Seq(Key), NEW ev \in Key, NEW k \in 1..(Len(s) + 1)
  PROVE  /\ PlacedAt(s, ev, k) \in Seq(Key)
         /\ Len(PlacedAt(s, ev, k)) = Len(s) + 1
         /\ \A i \in 1..(Len(s) + 1) :
                PlacedAt(s, ev, k)[i] = IF i < k THEN s[i]
                                   ELSE IF i = k THEN ev ELSE s[i - 1]
<1> DEFINE a == SubSeq(s, 1, k - 1)
           b == SubSeq(s, k, Len(s))
           ab == a \o <<ev>>
<1>1. s \in Seq(Key) /\ Len(s) \in Nat
  BY LenProperties
<1>2. /\ a \in Seq(Key) /\ Len(a) = k - 1
      /\ \A i \in 1..(k - 1) : a[i] = s[i]
  BY <1>1, SubSeqProperties
<1>3. /\ b \in Seq(Key) /\ Len(b) = Len(s) - k + 1
      /\ \A i \in 1..(Len(s) - k + 1) : b[i] = s[k + i - 1]
  BY <1>1, SubSeqProperties
<1>4. <<ev>> \in Seq(Key) /\ Len(<<ev>>) = 1 /\ <<ev>>[1] = ev
  OBVIOUS
<1>5. /\ ab \in Seq(Key) /\ Len(ab) = k
      /\ \A i \in 1..k : ab[i] = IF i < k THEN s[i] ELSE ev
  <2> HIDE DEF a
  <2>1. /\ ab \in Seq(Key) /\ Len(ab) = Len(a) + 1
        /\ \A i \in 1..(Len(a) + 1) :
               ab[i] = IF i <= Len(a) THEN a[i] ELSE <<ev>>[i - Len(a)]
    BY <1>2, <1>4, ConcatProperties
  <2>2. QED
    BY <2>1, <1>2, <1>4
<1>6. PlacedAt(s, ev, k) = ab \o b
  BY DEF PlacedAt
<1> HIDE DEF a, b, ab
<1>7. /\ ab \o b \in Seq(Key) /\ Len(ab \o b) = Len(ab) + Len(b)
      /\ \A i \in 1..(Len(ab) + Len(b)) :
             (ab \o b)[i] = IF i <= Len(ab) THEN ab[i] ELSE b[i - Len(ab)]
  BY <1>3, <1>5, ConcatProperties
<1>8. QED
  BY <1>1, <1>3, <1>5, <1>6, <1>7

\* s without its k-th event, element by element.
LEMMA WithoutProperties ==
  ASSUME NEW s \in Seq(Key), NEW k \in 1..Len(s)
  PROVE  /\ WithoutAt(s, k) \in Seq(Key)
         /\ Len(WithoutAt(s, k)) = Len(s) - 1
         /\ \A i \in 1..(Len(s) - 1) :
                WithoutAt(s, k)[i] = IF i < k THEN s[i] ELSE s[i + 1]
<1> DEFINE a == SubSeq(s, 1, k - 1)
           b == SubSeq(s, k + 1, Len(s))
<1>1. s \in Seq(Key) /\ Len(s) \in Nat
  BY LenProperties
<1>2. /\ a \in Seq(Key) /\ Len(a) = k - 1
      /\ \A i \in 1..(k - 1) : a[i] = s[i]
  BY <1>1, SubSeqProperties
<1>3. /\ b \in Seq(Key) /\ Len(b) = Len(s) - k
      /\ \A i \in 1..(Len(s) - k) : b[i] = s[k + i]
  BY <1>1, SubSeqProperties
<1>4. WithoutAt(s, k) = a \o b
  BY DEF WithoutAt
<1> HIDE DEF a, b
<1>5. /\ a \o b \in Seq(Key) /\ Len(a \o b) = Len(a) + Len(b)
      /\ \A i \in 1..(Len(a) + Len(b)) :
             (a \o b)[i] = IF i <= Len(a) THEN a[i] ELSE b[i - Len(a)]
  BY <1>2, <1>3, ConcatProperties
<1>6. /\ Len(a) + Len(b) = Len(s) - 1
      /\ \A i \in 1..(Len(s) - 1) : i > k - 1 => i - (k - 1) \in 1..(Len(s) - k)
  BY <1>1, <1>2, <1>3
<1>7. \A i \in 1..(Len(s) - 1) : (a \o b)[i] = IF i < k THEN s[i] ELSE s[i + 1]
  <2> TAKE i \in 1..(Len(s) - 1)
  <2>1. CASE i < k
    <3>1. i <= Len(a) /\ i \in 1..(k - 1)
      BY <1>1, <1>2, <2>1
    <3>. QED BY <1>2, <1>5, <1>6, <2>1, <3>1
  <2>2. CASE i >= k
    <3>1. /\ ~(i <= Len(a)) /\ i - Len(a) = i - (k - 1)
          /\ i - (k - 1) \in 1..(Len(s) - k) /\ k + (i - (k - 1)) = i + 1
      BY <1>1, <1>2, <1>6, <2>2
    <3>2. b[i - (k - 1)] = s[i + 1]
      BY <1>3, <3>1
    <3>3. i \in 1..(Len(a) + Len(b)) /\ (a \o b)[i] = b[i - Len(a)]
      BY <1>5, <1>6, <3>1
    <3>4. (a \o b)[i] = s[i + 1]
      BY <3>1, <3>2, <3>3
    <3>. QED BY <1>1, <2>2, <3>4
  <2>3. i < k \/ i >= k
    BY <1>1
  <2>. QED BY <2>1, <2>2, <2>3
<1>. QED BY <1>4, <1>5, <1>6, <1>7

\* The place of the first element that ev is before, or the end.
IsPlaceOf(rev, s, ev, k) ==
  /\ k \in 1..(Len(s) + 1)
  /\ \A i \in 1..(k - 1) : ~Before(rev, ev, s[i])
  /\ k <= Len(s) => Before(rev, ev, s[k])

\* There a new event is in order.
LEMMA PlacedInOrder ==
  ASSUME NEW rev \in BOOLEAN, NEW s \in Seq(Key), InOrder(rev, s),
         NEW ev \in Key, ev \notin Elements(s), NEW k, IsPlaceOf(rev, s, ev, k)
  PROVE  /\ PlacedAt(s, ev, k) \in Seq(Key) /\ InOrder(rev, PlacedAt(s, ev, k))
         /\ Elements(PlacedAt(s, ev, k)) = Elements(s) \cup {ev}
<1> DEFINE t == PlacedAt(s, ev, k)
<1>0. /\ k \in 1..(Len(s) + 1)
      /\ \A i \in 1..(k - 1) : ~Before(rev, ev, s[i])
      /\ k <= Len(s) => Before(rev, ev, s[k])
  BY DEF IsPlaceOf
<1>1. /\ t \in Seq(Key) /\ Len(t) = Len(s) + 1
      /\ \A i \in 1..(Len(s) + 1) :
             t[i] = IF i < k THEN s[i] ELSE IF i = k THEN ev ELSE s[i - 1]
  BY <1>0, PlacedProperties
<1>2. Len(s) \in Nat /\ \A i \in 1..Len(s) : s[i] \in Key
  BY LenProperties, ElementOfSeq
<1> HIDE DEF t
<1>3. \A i \in 1..(k - 1) : Before(rev, s[i], ev)
  <2> TAKE i \in 1..(k - 1)
  <2>1. i \in 1..Len(s) /\ s[i] \in Key /\ s[i] # ev
    BY <1>0, <1>2 DEF Elements
  <2>. QED BY <1>0, <2>1, BeforeTotal
<1>4. \A i \in k..Len(s) : Before(rev, ev, s[i])
  <2> TAKE i \in k..Len(s)
  <2>1. /\ k \in 1..Len(s) /\ i \in 1..Len(s) /\ s[k] \in Key /\ s[i] \in Key
        /\ Before(rev, ev, s[k])
    BY <1>0, <1>2
  <2>2. i = k \/ Before(rev, s[k], s[i])
    BY <2>1 DEF InOrder
  <2>. QED BY <2>1, <2>2, BeforeTransitive
<1>5. InOrder(rev, t)
  <2> SUFFICES ASSUME NEW i \in 1..(Len(s) + 1), NEW j \in 1..(Len(s) + 1), i < j
               PROVE  Before(rev, t[i], t[j])
    BY <1>1 DEF InOrder
  <2>1. CASE j < k
    <3>1. i \in 1..Len(s) /\ j \in 1..Len(s) /\ t[i] = s[i] /\ t[j] = s[j]
      BY <1>0, <1>1, <1>2, <2>1
    <3>. QED BY <3>1 DEF InOrder
  <2>2. CASE j = k
    BY <2>2, <1>0, <1>1, <1>2, <1>3
  <2>3. CASE j > k /\ i = k
    <3>1. j - 1 \in k..Len(s) /\ t[j] = s[j - 1] /\ t[i] = ev
      BY <1>0, <1>1, <1>2, <2>3
    <3>. QED BY <1>4, <3>1
  <2>4. CASE j > k /\ i < k
    <3>1. /\ i \in 1..Len(s) /\ j - 1 \in 1..Len(s) /\ i < j - 1
          /\ t[i] = s[i] /\ t[j] = s[j - 1]
      BY <1>0, <1>1, <1>2, <2>4
    <3>. QED BY <3>1 DEF InOrder
  <2>5. CASE j > k /\ i > k
    <3>1. /\ i - 1 \in 1..Len(s) /\ j - 1 \in 1..Len(s) /\ i - 1 < j - 1
          /\ t[i] = s[i - 1] /\ t[j] = s[j - 1]
      BY <1>0, <1>1, <1>2, <2>5
    <3>. QED BY <3>1 DEF InOrder
  <2>. QED BY <1>0, <1>2, <2>1, <2>2, <2>3, <2>4, <2>5
<1>6. Elements(t) = Elements(s) \cup {ev}
  <2>1. \A i \in 1..(Len(s) + 1) : t[i] \in Elements(s) \cup {ev}
    BY <1>0, <1>1, <1>2 DEF Elements
  <2>2. \A i \in 1..Len(s) : s[i] \in Elements(t)
    <3> TAKE i \in 1..Len(s)
    <3>1. CASE i < k
      BY <3>1, <1>0, <1>1, <1>2 DEF Elements
    <3>2. CASE i >= k
      <4>1. i + 1 \in 1..(Len(s) + 1) /\ t[i + 1] = s[i]
        BY <3>2, <1>0, <1>1, <1>2
      <4>. QED BY <1>1, <4>1 DEF Elements
    <3>. QED BY <1>0, <1>2, <3>1, <3>2
  <2>3. ev \in Elements(t)
    BY <1>0, <1>1 DEF Elements
  <2>4. \A x \in Elements(t) : x \in Elements(s) \cup {ev}
    BY <1>1, <2>1 DEF Elements
  <2>5. \A x \in Elements(s) : x \in Elements(t)
    BY <2>2 DEF Elements
  <2>. QED BY <2>3, <2>4, <2>5
<1>. QED BY <1>1, <1>5, <1>6 DEF t

\* Taking out one element, wherever it is, takes out just that one.
LEMMA WithoutInOrder ==
  ASSUME NEW rev \in BOOLEAN, NEW s \in Seq(Key), InOrder(rev, s), NEW k \in 1..Len(s)
  PROVE  /\ WithoutAt(s, k) \in Seq(Key) /\ InOrder(rev, WithoutAt(s, k))
         /\ Elements(WithoutAt(s, k)) = Elements(s) \ {s[k]}
<1> DEFINE t == WithoutAt(s, k)
           Old(i) == IF i < k THEN i ELSE i + 1
<1>1. /\ t \in Seq(Key) /\ Len(t) = Len(s) - 1
      /\ \A i \in 1..(Len(s) - 1) : t[i] = s[Old(i)]
  BY WithoutProperties
<1>2. Len(s) \in Nat /\ \A i \in 1..Len(s) : s[i] \in Key
  BY LenProperties, ElementOfSeq
<1> HIDE DEF t
<1>3. \A i \in 1..(Len(s) - 1) : Old(i) \in 1..Len(s) /\ Old(i) # k
  BY <1>2
<1>4. \A i, j \in 1..(Len(s) - 1) : i < j => Old(i) < Old(j)
  BY <1>2
<1>5. \A i \in 1..Len(s) : i # k => \E j \in 1..(Len(s) - 1) : Old(j) = i
  <2> SUFFICES ASSUME NEW i \in 1..Len(s), i # k
               PROVE  \E j \in 1..(Len(s) - 1) : Old(j) = i
    OBVIOUS
  <2>1. CASE i < k
    <3>1. i \in 1..(Len(s) - 1) /\ Old(i) = i
      BY <1>2, <2>1
    <3>. QED BY <3>1
  <2>2. CASE i > k
    <3>1. i - 1 \in 1..(Len(s) - 1) /\ Old(i - 1) = i
      BY <1>2, <2>2
    <3>. QED BY <3>1
  <2>. QED BY <1>2, <2>1, <2>2
<1> HIDE DEF Old
<1>6. InOrder(rev, t)
  BY <1>1, <1>3, <1>4 DEF InOrder
<1>7. \A i \in 1..Len(s) : i # k => s[i] # s[k]
  <2> SUFFICES ASSUME NEW i \in 1..Len(s), i # k PROVE s[i] # s[k]
    OBVIOUS
  <2>1. i < k \/ k < i
    BY <1>2
  <2>2. Before(rev, s[i], s[k]) \/ Before(rev, s[k], s[i])
    BY <2>1 DEF InOrder
  <2>3. s[i] \in Key /\ s[k] \in Key
    BY <1>2
  <2>4. /\ Before(rev, s[i], s[k]) => s[i] # s[k]
        /\ Before(rev, s[k], s[i]) => s[k] # s[i]
    BY <2>3, BeforeAsymmetric
  <2>. QED BY <2>2, <2>4
<1>8. Elements(t) = Elements(s) \ {s[k]}
  <2>1. \A x \in Elements(t) : x \in Elements(s) \ {s[k]}
    BY <1>1, <1>3, <1>7 DEF Elements
  <2>2. ASSUME NEW x \in Elements(s) \ {s[k]} PROVE x \in Elements(t)
    <3>1. PICK i \in 1..Len(s) : s[i] = x /\ i # k
      BY DEF Elements
    <3>2. PICK j \in 1..(Len(s) - 1) : Old(j) = i
      BY <1>5, <3>1
    <3>3. j \in 1..Len(t) /\ t[j] = x
      BY <1>1, <3>1, <3>2
    <3>. QED BY <3>3 DEF Elements
  <2>. QED BY <2>1, <2>2
<1>. QED BY <1>1, <1>6, <1>8 DEF t

-----------------------------------------------------------------------------
(* ListScheduler.                                                           *)

Sorted == InOrder(FALSE, events)

IInv == TypeOK /\ Sorted

\* The list's own operators in the terms of the general ones.
LEMMA ListOrder ==
  /\ Held = Elements(events) /\ Held' = Elements(events')
  /\ \A a, b : Before(FALSE, a, b) <=> Less(a, b)
  /\ \A ev, k : Placed(ev, k) = PlacedAt(events, ev, k)
  /\ \A k : Without(k) = WithoutAt(events, k)
BY DEF Held, Elements, Before, Placed, PlacedAt, Without, WithoutAt

\* Insert at its insertion point keeps the list sorted and adds its event.
LEMMA InsertKeepsSorted ==
  ASSUME IInv, NEW ev \in Key, Insert(ev)
  PROVE  IInv' /\ Held' = Held \cup {ev}
<1>1. PICK k \in 1..(Len(events) + 1) : InsertionPoint(ev, k) /\ events' = Placed(ev, k)
  BY DEF Insert
<1>2. events \in Seq(Key) /\ InOrder(FALSE, events) /\ ev \notin Elements(events)
  BY ListOrder DEF Insert, IInv, TypeOK, Sorted
<1>3. IsPlaceOf(FALSE, events, ev, k)
  BY <1>1 DEF InsertionPoint, Before, IsPlaceOf
<1>4. /\ events' \in Seq(Key) /\ InOrder(FALSE, events')
      /\ Elements(events') = Elements(events) \cup {ev}
  <2>1. /\ PlacedAt(events, ev, k) \in Seq(Key) /\ InOrder(FALSE, PlacedAt(events, ev, k))
        /\ Elements(PlacedAt(events, ev, k)) = Elements(events) \cup {ev}
    BY <1>2, <1>3, PlacedInOrder
  <2>2. events' = PlacedAt(events, ev, k)
    BY <1>1 DEF Placed, PlacedAt
  <2>. QED BY <2>1, <2>2
<1>5. call' \subseteq Operation \X Key
  BY DEF Insert, Operation
<1>. QED BY <1>4, <1>5, ListOrder DEF IInv, TypeOK, Sorted

\* The first event of a sorted list is its earliest.
LEMMA HeadIsEarliest ==
  ASSUME IInv, events # <<>>
  PROVE  /\ 1 \in 1..Len(events) /\ Head(events) = events[1] /\ Head(events) \in Key
         /\ IsEarliest(Head(events), Held)
<1>1. /\ events \in Seq(Key) /\ Len(events) \in Nat \ {0}
      /\ \A i \in 1..Len(events) : events[i] \in Key
  BY EmptySeq, ElementOfSeq DEF IInv, TypeOK
<1>2. Head(events) = events[1] /\ events[1] \in Held
  BY <1>1 DEF Held
<1>3. \A i \in 1..Len(events) : ~Less(events[i], events[1])
  <2> TAKE i \in 1..Len(events)
  <2>1. i = 1 \/ Less(events[1], events[i])
    <3>1. 1 \in 1..Len(events) /\ (i = 1 \/ 1 < i)
      BY <1>1
    <3>2. \A j \in 1..Len(events) : 1 < j => Before(FALSE, events[1], events[j])
      BY <3>1 DEF IInv, Sorted, InOrder
    <3>. QED BY <3>1, <3>2, ListOrder
  <2>2. events[1] \in AnyKey /\ events[i] \in AnyKey
    BY <1>1, KeysAreAnyKeys
  <2>. QED BY <2>1, <2>2, LessAsymmetric
<1>. QED BY <1>1, <1>2, <1>3 DEF IsEarliest, Held

\* Taking out one event keeps the list sorted.
LEMMA WithoutKeepsSorted ==
  ASSUME IInv, NEW k \in 1..Len(events), events' = Without(k)
  PROVE  events' \in Seq(Key) /\ Sorted' /\ Held' = Held \ {events[k]}
<1>1. events \in Seq(Key) /\ InOrder(FALSE, events)
  BY DEF IInv, TypeOK, Sorted
<1>. QED BY <1>1, ListOrder, WithoutInOrder DEF Sorted

\* RemoveNext keeps the list sorted and takes out the earliest event.
LEMMA RemoveNextKeepsSorted ==
  ASSUME IInv, RemoveNext
  PROVE  /\ IInv'
         /\ IsEarliest(Head(events), Held) /\ Head(events) \in Key
         /\ Held' = Held \ {Head(events)} /\ call' = {<<"RemoveNext", Head(events)>>}
<1>1. events # <<>> /\ events \in Seq(Key)
  BY DEF RemoveNext, IsEmpty, IInv, TypeOK
<1>2. Tail(events) = Without(1)
  <2>1. SubSeq(events, 1, 1 - 1) = <<>>
    BY SubSeqEmpty
  <2>2. Tail(events) = SubSeq(events, 2, Len(events)) /\ Tail(events) \in Seq(Key)
    BY <1>1, TailIsSubSeq, HeadTailProperties
  <2>. QED BY <2>1, <2>2, ConcatEmptySeq DEF Without
<1>3. /\ 1 \in 1..Len(events) /\ Head(events) = events[1] /\ Head(events) \in Key
      /\ IsEarliest(Head(events), Held)
  BY <1>1, HeadIsEarliest
<1>4. events' = Without(1)
  BY <1>2 DEF RemoveNext
<1>5. events' \in Seq(Key) /\ Sorted' /\ Held' = Held \ {Head(events)}
  BY <1>3, <1>4, WithoutKeepsSorted
<1>6. call' = {<<"RemoveNext", Head(events)>>} /\ call' \subseteq Operation \X Key
  BY <1>3 DEF RemoveNext, Operation
<1>. QED BY <1>3, <1>5, <1>6 DEF IInv, TypeOK

\* Remove keeps the list sorted and takes out the event named.
LEMMA RemoveKeepsSorted ==
  ASSUME IInv, NEW ev \in Key, Remove(ev)
  PROVE  IInv' /\ Held' = Held \ {ev}
<1>1. PICK k \in 1..Len(events) : events[k].uid = ev.uid /\ events' = Without(k)
  BY DEF Remove
<1>2. events[k] = ev
  <2>1. events[k] \in Key
    BY ElementOfSeq DEF IInv, TypeOK
  <2>. QED BY <1>1, <2>1, KeyAssumption
<1>3. call' \subseteq Operation \X Key
  BY DEF Remove, Operation
<1>. QED BY <1>1, <1>2, <1>3, WithoutKeepsSorted DEF IInv, TypeOK

\* Every step of the list keeps the invariant.
LEMMA ListStep ==
  ASSUME IInv, [Next]_vars
  PROVE  IInv'
<1>1. CASE RemoveNext
  BY <1>1, RemoveNextKeepsSorted
<1>2. ASSUME NEW ev \in Key, Insert(ev) PROVE IInv'
  BY <1>2, InsertKeepsSorted
<1>3. ASSUME NEW ev \in Key, Remove(ev) PROVE IInv'
  BY <1>3, RemoveKeepsSorted
<1>4. CASE UNCHANGED vars
  BY <1>4 DEF vars, IInv, TypeOK, Sorted
<1>. QED BY <1>1, <1>2, <1>3, <1>4 DEF Next

\* The empty list is sorted.
LEMMA ListInit == Init => IInv
BY EmptySeq DEF Init, IInv, TypeOK, Sorted, InOrder

\* The list is always well typed and sorted.
LEMMA IInvHolds == Spec => []IInv
<1>1. IInv /\ [Next]_vars => IInv'
  BY ListStep
<1>. QED BY <1>1, ListInit, PTL DEF Spec

\* For every set of events, what is held and what is called for is events.
THEOREM TypeCorrect == Spec => []TypeOK
<1>1. IInv => TypeOK
  BY DEF IInv
<1>. QED BY <1>1, IInvHolds, PTL

\* For every set of events, PeekNext shows the earliest one of the list
\* (list-scheduler.cc Insert, RemoveNext, Remove, PeekNext).
THEOREM PeekCorrect == Spec => []PeekIsEarliest
<1>1. IInv => PeekIsEarliest
  BY HeadIsEarliest DEF PeekIsEarliest, PeekNext, IsEmpty
<1>. QED BY <1>1, IInvHolds, PTL

\* For every set of events, the sorted list implements the event list of
\* scheduler.h: each of its steps is the step of the same name there.
THEOREM ListImplementsScheduler == Spec => ImplementsScheduler
<1>1. Init => Abstract!Init
  BY DEF Init, Abstract!Init, Held
<1>2. IInv /\ [Next]_vars => [Abstract!Next]_(Abstract!vars)
  <2> SUFFICES ASSUME IInv, [Next]_vars PROVE [Abstract!Next]_(Abstract!vars)
    OBVIOUS
  <2>1. CASE RemoveNext
    <3>1. /\ IsEarliest(Head(events), Held) /\ Head(events) \in Held
          /\ Held' = Held \ {Head(events)} /\ call' = {<<"RemoveNext", Head(events)>>}
      BY <2>1, RemoveNextKeepsSorted DEF IsEarliest
    <3>2. Abstract!RemoveNext
      BY <3>1 DEF Abstract!RemoveNext, IsEarliest, Less, Abstract!IsEarliest, Abstract!Less
    <3>. QED BY <3>2 DEF Abstract!Next
  <2>2. ASSUME NEW ev \in Key, Insert(ev) PROVE Abstract!Insert(ev)
    BY <2>2, InsertKeepsSorted DEF Insert, Abstract!Insert
  <2>3. ASSUME NEW ev \in Key, Remove(ev) PROVE Abstract!Remove(ev)
    BY <2>3, RemoveKeepsSorted DEF Remove, Abstract!Remove
  <2>4. CASE UNCHANGED vars
    BY <2>4 DEF vars, Held, Abstract!vars
  <2>. QED BY <2>1, <2>2, <2>3, <2>4 DEF Next, Abstract!Next
<1>. QED BY <1>1, <1>2, IInvHolds, PTL DEF Spec, ImplementsScheduler, Abstract!Spec

-----------------------------------------------------------------------------
(* Division.                                                                *)

\* Quotient and rest, as facts for the provers.
LEMMA Division ==
  ASSUME NEW a \in Nat, NEW n \in Nat, n > 0
  PROVE  /\ a \div n \in Nat /\ a % n \in 0..(n - 1)
         /\ a = n * (a \div n) + (a % n)
<1>1. a \div n \in Nat /\ a % n \in 0..(n - 1)
  OBVIOUS
<1>2. a = n * (a \div n) + (a % n)
  OBVIOUS
<1>. QED BY <1>1, <1>2

\* Quotient and rest are unique.
LEMMA DivisionIsUnique ==
  ASSUME NEW n \in Nat, n > 0, NEW a \in Nat, NEW q \in Nat, NEW r \in 0..(n - 1),
         a = n * q + r
  PROVE  a \div n = q /\ a % n = r
<1> DEFINE p == a \div n
           s == a % n
<1>1. p \in Nat /\ s \in 0..(n - 1) /\ a = n * p + s
  BY Division
<1> HIDE DEF p, s
<1>2. n * (p - q) = r - s
  BY <1>1
<1>3. CASE p - q >= 1
  <2>1. n * (p - q) >= n
    BY <1>1, <1>3
  <2>. QED BY <1>1, <1>2, <2>1
<1>4. CASE p - q <= -1
  <2>1. n * (p - q) <= -n
    BY <1>1, <1>4
  <2>. QED BY <1>1, <1>2, <2>1
<1>5. CASE p = q
  BY <1>1, <1>2, <1>5 DEF p, s
<1>. QED BY <1>1, <1>3, <1>4, <1>5

\* Of n numbers in a row no two have the same rest.
LEMMA RestsDiffer ==
  ASSUME NEW n \in Nat, n > 0, NEW x \in Nat, NEW d \in 0..(n - 1), (x + d) % n = x % n
  PROVE  d = 0
<1> DEFINE p == x \div n
           q == (x + d) \div n
           r == x % n
<1>1. /\ p \in Nat /\ q \in Nat /\ r \in 0..(n - 1)
      /\ x = n * p + r /\ x + d = n * q + r
  BY Division
<1> HIDE DEF p, q, r
<1>2. d = n * (q - p)
  BY <1>1
<1>3. CASE q - p >= 1
  <2>1. n * (q - p) >= n
    BY <1>1, <1>3
  <2>. QED BY <1>1, <1>2, <2>1
<1>4. CASE q - p <= -1
  <2>1. n * (q - p) <= -n
    BY <1>1, <1>4
  <2>. QED BY <1>1, <1>2, <2>1
<1>5. CASE q = p
  BY <1>1, <1>2, <1>5
<1>. QED BY <1>1, <1>3, <1>4, <1>5

\* The rest of a sum.
LEMMA RestOfSum ==
  ASSUME NEW n \in Nat, n > 0, NEW v \in Nat, NEW k \in Nat
  PROVE  ((v % n) + k) % n = (v + k) % n
<1> DEFINE p == v \div n
           r == v % n
           q == (r + k) \div n
           s == (r + k) % n
<1>1. p \in Nat /\ r \in 0..(n - 1) /\ v = n * p + r
  BY Division
<1>2. q \in Nat /\ s \in 0..(n - 1) /\ r + k = n * q + s
  BY <1>1, Division
<1> HIDE DEF p, r, q, s
<1>3. v + k = n * (p + q) + s
  BY <1>1, <1>2
<1>4. (v + k) % n = s
  <2>1. v + k \in Nat /\ p + q \in Nat
    BY <1>1, <1>2
  <2>. QED BY <1>2, <1>3, <2>1, DivisionIsUnique
<1>. QED BY <1>4 DEF s, r

\* The k-th bucket of a scan that starts with day v holds, of the n days from v on,
\* only day v + k.
LEMMA SameDay ==
  ASSUME NEW n \in Nat, n > 0, NEW v \in Nat, NEW k \in 0..(n - 1),
         NEW q \in Nat, v <= q, q < v + n, q % n = ((v % n) + k) % n
  PROVE  q = v + k
<1>1. ((v % n) + k) % n = (v + k) % n
  <2>1. k \in Nat
    OBVIOUS
  <2>. QED BY <2>1, RestOfSum
<1>2. CASE q <= v + k
  <2>1. PICK d \in Nat : d = v + k - q
    BY <1>2
  <2>2. d \in 0..(n - 1) /\ q + d = v + k
    BY <2>1
  <2>3. (q + d) % n = q % n
    <3>1. (q + d) % n = (v + k) % n
      BY <2>2
    <3>. QED BY <1>1, <3>1
  <2>4. d = 0
    BY <2>2, <2>3, RestsDiffer
  <2>. QED BY <2>2, <2>4
<1>3. CASE q > v + k
  <2> DEFINE x == v + k
  <2>1. PICK d \in Nat : d = q - x
    BY <1>3
  <2>2. x \in Nat /\ d \in 0..(n - 1) /\ x + d = q
    BY <2>1
  <2>3. (x + d) % n = x % n
    <3>1. (x + d) % n = q % n
      BY <2>2
    <3>. QED BY <1>1, <3>1
  <2> HIDE DEF x
  <2>4. d = 0
    BY <2>2, <2>3, RestsDiffer
  <2>. QED BY <2>2, <2>4 DEF x
<1>. QED BY <1>2, <1>3

\* A time is before the end of day v, or not before its beginning, as its day says.
LEMMA TopOfDay ==
  ASSUME NEW w \in Nat, w > 0, NEW t \in Nat, NEW v \in Nat
  PROVE  /\ t < (v + 1) * w <=> t \div w <= v
         /\ v * w <= t <=> v <= t \div w
<1> DEFINE q == t \div w
           r == t % w
<1>1. q \in Nat /\ r \in 0..(w - 1) /\ t = w * q + r
  BY Division
<1> HIDE DEF q, r
<1>2. ASSUME q <= v PROVE t < (v + 1) * w
  <2>1. w * q <= w * v
    BY <1>1, <1>2
  <2>2. w * v + w = (v + 1) * w
    OBVIOUS
  <2>. QED BY <1>1, <2>1, <2>2
<1>3. ASSUME v < q PROVE (v + 1) * w <= t
  <2>1. w * (v + 1) <= w * q
    BY <1>1, <1>3
  <2>2. w * (v + 1) = (v + 1) * w
    OBVIOUS
  <2>3. w * (v + 1) \in Int /\ w * q \in Int
    BY <1>1
  <2>. QED BY <1>1, <2>1, <2>2, <2>3
<1>4. ASSUME v <= q PROVE v * w <= t
  <2>1. v * w <= w * q
    BY <1>1, <1>4
  <2>. QED BY <1>1, <2>1
<1>5. ASSUME q < v PROVE t < v * w
  <2>1. w * (q + 1) <= w * v
    BY <1>1, <1>5
  <2>2. w * q + w = w * (q + 1) /\ w * v = v * w
    BY <1>1
  <2>. QED BY <1>1, <2>1, <2>2
<1>6. v * w \in Int /\ (v + 1) * w \in Int
  OBVIOUS
<1>. QED BY <1>1, <1>2, <1>3, <1>4, <1>5, <1>6 DEF q

-----------------------------------------------------------------------------
(* CalendarScheduler: the calendar, its buckets and its position.           *)

\* A set of numbers has a least one.
LEMMA LeastExists ==
  ASSUME NEW S, S \subseteq Nat, S # {}
  PROVE  \E x \in S : \A y \in S : x <= y
<1>1. PICK n \in S : \A m \in S : ~(<<m, n>> \in OpToRel(<, Nat))
  BY NatLessThanWellFounded, WFMin
<1>2. \A m \in S : ~(m < n)
  BY <1>1 DEF OpToRel
<1>3. \A m \in S : n <= m
  BY <1>2
<1>. QED BY <1>3

\* Min gives it.
LEMMA MinIsLeast ==
  ASSUME NEW S, S \subseteq Nat, S # {}
  PROVE  Calendar!Min(S) \in S /\ \A y \in S : Calendar!Min(S) <= y
BY LeastExists DEF Calendar!Min

\* The earliest of a set of keys: the smallest id of the smallest time.
LEMMA EarliestExists ==
  ASSUME NEW S, S \subseteq Key, S # {}
  PROVE  \E e \in S : IsEarliest(e, S)
<1>1. S \subseteq AnyKey
  BY KeysAreAnyKeys
<1> DEFINE T == {e.ts : e \in S}
<1>2. T \subseteq Nat /\ T # {}
  BY <1>1 DEF AnyKey
<1>3. PICK t \in T : \A u \in T : t <= u
  BY <1>2, LeastExists
<1> DEFINE U == {e.uid : e \in {f \in S : f.ts = t}}
<1>4. U \subseteq Nat /\ U # {}
  BY <1>1, <1>3 DEF AnyKey
<1>5. PICK u \in U : \A v \in U : u <= v
  BY <1>4, LeastExists
<1>6. PICK e \in S : e.ts = t /\ e.uid = u
  BY <1>5
<1>7. \A f \in S : ~Less(f, e)
  <2> SUFFICES ASSUME NEW f \in S PROVE ~Less(f, e)
    OBVIOUS
  <2>1. t <= f.ts
    BY <1>3
  <2>2. f.ts = t => u <= f.uid
    BY <1>5
  <2>3. f.ts \in Nat /\ f.uid \in Nat /\ t \in Nat /\ u \in Nat
    BY <1>1, <1>2, <1>4 DEF AnyKey
  <2>. QED BY <1>6, <2>1, <2>2, <2>3 DEF Less
<1>. QED BY <1>7 DEF IsEarliest

\* The variables of a calendar and what they range over.
IsCalendar(c) ==
  /\ c.nBuckets \in Nat /\ c.nBuckets > 0 /\ c.width > 0
  /\ c \in [buckets : [0..(c.nBuckets - 1) -> Seq(Key)], nBuckets : Nat, width : Nat,
            lastPrio : Nat, lastBucket : Int, bucketTop : Int, qSize : Nat,
            reverse : BOOLEAN]

Bucket(c) == 0..(c.nBuckets - 1)

\* Every bucket is in its order and holds only events of its own days.
Sound(c) ==
  /\ \A b \in Bucket(c) : InOrder(c.reverse, c.buckets[b])
  /\ \A b \in Bucket(c) : \A ev \in Elements(c.buckets[b]) : Calendar!Hash(c, ev.ts) = b

\* The scan for the next event starts on the day of the last one, and no event
\* held is due before it.
Positioned(c) ==
  /\ c.lastBucket = Calendar!Hash(c, c.lastPrio)
  /\ c.bucketTop = (c.lastPrio \div c.width + 1) * c.width
  /\ \A ev \in Calendar!HeldIn(c) : ev.ts >= c.lastPrio

\* m_qSize is the number of events.
Counted(c) ==
  IsFiniteSet(Calendar!HeldIn(c)) /\ c.qSize = Cardinality(Calendar!HeldIn(c))

\* d differs from c in its buckets only.
SameButBuckets(c, d) ==
  /\ d.nBuckets = c.nBuckets /\ d.width = c.width /\ d.lastPrio = c.lastPrio
  /\ d.lastBucket = c.lastBucket /\ d.bucketTop = c.bucketTop
  /\ d.qSize = c.qSize /\ d.reverse = c.reverse

\* An event held is an element of one of the buckets.
LEMMA HeldInBuckets ==
  ASSUME NEW c, IsCalendar(c)
  PROVE  /\ Calendar!HeldIn(c) = UNION {Elements(c.buckets[b]) : b \in Bucket(c)}
         /\ \A ev : ev \in Calendar!HeldIn(c) <=>
                        \E b \in Bucket(c) : ev \in Elements(c.buckets[b])
         /\ Calendar!HeldIn(c) \subseteq Key
<1>1. \A b \in Bucket(c) : c.buckets[b] \in Seq(Key)
  BY DEF IsCalendar, Bucket
<1>2. \A b \in Bucket(c) : Calendar!InBucket(c, b) = Elements(c.buckets[b])
  BY <1>1 DEF Calendar!InBucket, Calendar!Range, Elements
<1>3. DOMAIN c.buckets = Bucket(c)
  BY DEF IsCalendar, Bucket
<1>4. \A b \in Bucket(c) : Elements(c.buckets[b]) \subseteq Key
  BY <1>1, ElementOfSeq DEF Elements
<1>5. \A ev : ev \in Calendar!HeldIn(c) <=>
                \E b \in Bucket(c) : ev \in Elements(c.buckets[b])
  BY <1>2, <1>3 DEF Calendar!HeldIn
<1>. QED BY <1>4, <1>5

\* The calendar with another sequence in bucket b.
LEMMA OtherBucket ==
  ASSUME NEW c, IsCalendar(c), NEW b \in Bucket(c), NEW s \in Seq(Key)
  PROVE  LET d == [c EXCEPT !.buckets[b] = s]
         IN  /\ IsCalendar(d) /\ SameButBuckets(c, d)
             /\ d.buckets = [c.buckets EXCEPT ![b] = s]
             /\ d.buckets[b] = s
             /\ \A a \in Bucket(c) : a # b => d.buckets[a] = c.buckets[a]
<1> DEFINE d == [c EXCEPT !.buckets[b] = s]
<1>1. c.buckets \in [Bucket(c) -> Seq(Key)]
  BY DEF IsCalendar, Bucket
<1>2. SameButBuckets(c, d) /\ d.buckets = [c.buckets EXCEPT ![b] = s]
  BY DEF SameButBuckets, IsCalendar
<1>3. /\ [c.buckets EXCEPT ![b] = s] \in [Bucket(c) -> Seq(Key)]
      /\ [c.buckets EXCEPT ![b] = s][b] = s
      /\ \A a \in Bucket(c) : a # b => [c.buckets EXCEPT ![b] = s][a] = c.buckets[a]
  BY <1>1
<1>4. IsCalendar(d)
  BY <1>2, <1>3 DEF IsCalendar, SameButBuckets, Bucket
<1>. QED BY <1>2, <1>3, <1>4

-----------------------------------------------------------------------------
(* CalendarScheduler: inserting into the buckets.                           *)

\* Every time has its bucket.
LEMMA HashIsBucket ==
  ASSUME NEW c, IsCalendar(c), NEW ts \in Nat
  PROVE  Calendar!Hash(c, ts) \in Bucket(c) /\ ts \div c.width \in Nat
<1>1. /\ c.width \in Nat /\ c.width > 0 /\ c.nBuckets \in Nat /\ c.nBuckets > 0
  BY DEF IsCalendar
<1>2. ts \div c.width \in Nat
  BY <1>1, Division
<1>3. (ts \div c.width) % c.nBuckets \in 0..(c.nBuckets - 1)
  BY <1>1, <1>2, Division
<1>. QED BY <1>2, <1>3 DEF Calendar!Hash, Bucket

\* d is c with the events of the bucket b exchanged for those of the sequence s.
Exchanged(c, b, s, d) ==
  /\ IsCalendar(d) /\ SameButBuckets(c, d) /\ Sound(d)
  /\ Calendar!HeldIn(d)
        = (Calendar!HeldIn(c) \ Elements(c.buckets[b])) \cup Elements(s)

\* A bucket may be given any events of its own days in its order.
LEMMA ExchangedBucket ==
  ASSUME NEW c, IsCalendar(c), Sound(c), NEW b \in Bucket(c), NEW s \in Seq(Key),
         InOrder(c.reverse, s), \A ev \in Elements(s) : Calendar!Hash(c, ev.ts) = b
  PROVE  Exchanged(c, b, s, [c EXCEPT !.buckets[b] = s])
<1> DEFINE d == [c EXCEPT !.buckets[b] = s]
<1>1. /\ IsCalendar(d) /\ SameButBuckets(c, d) /\ d.buckets[b] = s
      /\ \A a \in Bucket(c) : a # b => d.buckets[a] = c.buckets[a]
  BY OtherBucket
<1>. HIDE DEF d
<1>2. Bucket(d) = Bucket(c) /\ \A ts : Calendar!Hash(d, ts) = Calendar!Hash(c, ts)
  BY <1>1 DEF Bucket, SameButBuckets, Calendar!Hash
<1>3. Sound(d)
  <2>1. ASSUME NEW a \in Bucket(d)
        PROVE  /\ InOrder(d.reverse, d.buckets[a])
               /\ \A ev \in Elements(d.buckets[a]) : Calendar!Hash(d, ev.ts) = a
    <3>1. CASE a = b
      BY <3>1, <1>1, <1>2 DEF SameButBuckets
    <3>2. CASE a # b
      BY <3>2, <1>1, <1>2 DEF SameButBuckets, Sound
    <3>. QED BY <3>1, <3>2
  <2>. QED BY <2>1 DEF Sound
<1>4. ASSUME NEW ev
      PROVE  ev \in Calendar!HeldIn(d) <=>
                \/ ev \in Calendar!HeldIn(c) /\ ev \notin Elements(c.buckets[b])
                \/ ev \in Elements(s)
  <2>1. ev \in Calendar!HeldIn(d) <=> \E a \in Bucket(c) : ev \in Elements(d.buckets[a])
    BY <1>1, <1>2, HeldInBuckets
  <2>2. ev \in Calendar!HeldIn(c) <=> \E a \in Bucket(c) : ev \in Elements(c.buckets[a])
    BY HeldInBuckets
  <2>3. \A a \in Bucket(c) : a # b /\ ev \in Elements(c.buckets[a])
                                 => ev \notin Elements(c.buckets[b])
    BY DEF Sound
  <2>. QED BY <1>1, <2>1, <2>2, <2>3
<1>5. Calendar!HeldIn(d) = (Calendar!HeldIn(c) \ Elements(c.buckets[b])) \cup Elements(s)
  BY <1>4
<1>. QED BY <1>1, <1>3, <1>5 DEF d, Exchanged

\* Of an event held, all is known to be in the bucket of its time.
LEMMA HeldWhereHashed ==
  ASSUME NEW c, IsCalendar(c), Sound(c), NEW ev \in Calendar!HeldIn(c)
  PROVE  /\ ev \in Key /\ ev.ts \in Nat
         /\ Calendar!Hash(c, ev.ts) \in Bucket(c)
         /\ ev \in Elements(c.buckets[Calendar!Hash(c, ev.ts)])
<1>1. ev \in Key
  BY HeldInBuckets
<1>2. ev.ts \in Nat
  BY <1>1, KeysAreAnyKeys DEF AnyKey
<1>3. PICK b \in Bucket(c) : ev \in Elements(c.buckets[b])
  BY HeldInBuckets
<1>. QED BY <1>1, <1>2, <1>3 DEF Sound

\* The calendar c has become d, whose buckets hold the events H.
Becomes(c, d, H) ==
  IsCalendar(d) /\ Sound(d) /\ SameButBuckets(c, d) /\ Calendar!HeldIn(d) = H

\* DoInsert puts its event in order into its bucket.
LEMMA DoInsertAdds ==
  ASSUME NEW c, IsCalendar(c), Sound(c), NEW ev \in Key, ev \notin Calendar!HeldIn(c)
  PROVE  Becomes(c, Calendar!DoInsert(c, ev), Calendar!HeldIn(c) \cup {ev})
<1> DEFINE b == Calendar!Hash(c, ev.ts)
           s == c.buckets[b]
           S == {i \in DOMAIN s : Calendar!Order(c, ev, s[i])} \cup {Len(s) + 1}
           k == Calendar!Min(S)
           t == PlacedAt(s, ev, k)
<1>1. b \in Bucket(c) /\ s \in Seq(Key) /\ c.reverse \in BOOLEAN
  <2>1. ev.ts \in Nat
    BY KeysAreAnyKeys DEF AnyKey
  <2>2. b \in Bucket(c)
    BY <2>1, HashIsBucket
  <2>3. c.reverse \in BOOLEAN /\ c.buckets \in [Bucket(c) -> Seq(Key)]
    BY DEF IsCalendar, Bucket
  <2>. QED BY <2>2, <2>3
<1>2. Calendar!DoInsert(c, ev) = [c EXCEPT !.buckets[b] = t]
  BY DEF Calendar!DoInsert, Calendar!Seqs!InsertAt, PlacedAt
<1>3. InOrder(c.reverse, s) /\ \A x \in Elements(s) : Calendar!Hash(c, x.ts) = b
  BY <1>1 DEF Sound
<1>4. ev \notin Elements(s)
  BY <1>1, HeldInBuckets
<1>5. \A i : Calendar!Order(c, ev, s[i]) <=> Before(c.reverse, ev, s[i])
  BY DEF Calendar!Order, Before, Calendar!Less, Less
<1>6. DOMAIN s = 1..Len(s) /\ Len(s) \in Nat
  BY <1>1
<1> HIDE DEF b, s
<1>7. IsPlaceOf(c.reverse, s, ev, k)
  <2>1. S \subseteq 1..(Len(s) + 1) /\ Len(s) + 1 \in S
    BY <1>6
  <2>2. k \in S /\ \A j \in S : k <= j
    <3>1. S \subseteq Nat /\ S # {}
      BY <2>1, <1>6
    <3>. QED BY <3>1, MinIsLeast
  <2>3. k \in 1..(Len(s) + 1)
    BY <2>1, <2>2
  <2>4. \A i \in 1..(k - 1) : ~Before(c.reverse, ev, s[i])
    <3> SUFFICES ASSUME NEW i \in 1..(k - 1), Before(c.reverse, ev, s[i]) PROVE FALSE
      OBVIOUS
    <3>1. i \in 1..Len(s) /\ ~(k <= i)
      BY <2>3, <1>6
    <3>2. i \in S
      BY <3>1, <1>5, <1>6
    <3>. QED BY <2>2, <3>1, <3>2
  <2>5. k <= Len(s) => Before(c.reverse, ev, s[k])
    BY <2>2, <2>3, <1>5, <1>6
  <2>. HIDE DEF k
  <2>. QED BY <2>3, <2>4, <2>5 DEF IsPlaceOf
<1> HIDE DEF k
<1>8. /\ t \in Seq(Key) /\ InOrder(c.reverse, t)
      /\ Elements(t) = Elements(s) \cup {ev}
  BY <1>1, <1>3, <1>4, <1>7, PlacedInOrder
<1> HIDE DEF t
<1>9. \A x \in Elements(t) : Calendar!Hash(c, x.ts) = b
  BY <1>3, <1>8 DEF b
<1> DEFINE d == [c EXCEPT !.buckets[b] = t]
<1>10. /\ IsCalendar(d) /\ SameButBuckets(c, d) /\ Sound(d)
      /\ Calendar!HeldIn(d) = (Calendar!HeldIn(c) \ Elements(c.buckets[b])) \cup Elements(t)
  <2>1. Exchanged(c, b, t, d)
    BY <1>1, <1>8, <1>9, ExchangedBucket
  <2> HIDE DEF d
  <2>. QED BY <2>1 DEF Exchanged
<1> HIDE DEF d
<1>11. Elements(c.buckets[b]) = Elements(s) /\ Elements(s) \subseteq Calendar!HeldIn(c)
  BY <1>1, HeldInBuckets DEF s
<1>12. Calendar!HeldIn(d) = Calendar!HeldIn(c) \cup {ev}
  BY <1>8, <1>10, <1>11
<1>13. Calendar!DoInsert(c, ev) = d
  BY <1>2 DEF d
<1>. QED BY <1>10, <1>12, <1>13 DEF Becomes

-----------------------------------------------------------------------------
(* CalendarScheduler: inserting a sequence of events.                       *)

\* A property of 0 that goes from each number to the next, up to n: if it failed,
\* it would first fail somewhere.
LEMMA FirstFailure ==
  ASSUME NEW n \in Nat, NEW F, F \subseteq 0..n, F # {}, 0 \notin F
  PROVE  \E m \in 1..n : m \in F /\ m - 1 \in 0..n /\ m - 1 \notin F
<1>1. PICK m \in F : \A y \in F : m <= y
  <2>1. F \subseteq Nat
    OBVIOUS
  <2>. QED BY <2>1, LeastExists
<1>2. m \in 1..n /\ m - 1 \in 0..n /\ ~(m <= m - 1)
  BY <1>1
<1>3. m - 1 \notin F
  BY <1>1, <1>2
<1>. QED BY <1>1, <1>2, <1>3

\* s[1], ..., s[n] put into c one after the other.
IsPutting(put, c, s, n) ==
  put = [m \in 0..n |-> IF m = 0 THEN c ELSE Calendar!DoInsert(put[m - 1], s[m])]

\* There is such a function, for every length.
LEMMA PuttingExists ==
  ASSUME NEW c, NEW s, NEW n \in Nat
  PROVE  \E put : IsPutting(put, c, s, n)
<1> DEFINE F == {m \in 0..n : ~ \E put : IsPutting(put, c, s, m)}
<1> SUFFICES ASSUME n \in F PROVE FALSE
  OBVIOUS
<1>1. 0 \notin F
  <2>1. IsPutting([m \in 0..0 |-> c], c, s, 0)
    BY DEF IsPutting
  <2>. QED BY <2>1
<1>2. PICK m \in 1..n : m \in F /\ m - 1 \in 0..n /\ m - 1 \notin F
  BY <1>1, FirstFailure
<1>3. PICK g : IsPutting(g, c, s, m - 1)
  BY <1>2
<1> DEFINE f == [i \in 0..m |-> IF i = m THEN Calendar!DoInsert(g[m - 1], s[m]) ELSE g[i]]
<1>4. \A i \in 0..(m - 1) :
          g[i] = IF i = 0 THEN c ELSE Calendar!DoInsert(g[i - 1], s[i])
  BY <1>3 DEF IsPutting
<1>5. ASSUME NEW i \in 0..m
      PROVE  f[i] = IF i = 0 THEN c ELSE Calendar!DoInsert(f[i - 1], s[i])
  <2>1. i # 0 => i - 1 \in 0..m /\ i - 1 # m /\ f[i - 1] = g[i - 1]
    OBVIOUS
  <2>2. CASE i = m
    BY <2>1, <2>2
  <2>3. CASE i # m
    <3>1. i \in 0..(m - 1) /\ f[i] = g[i]
      BY <2>3
    <3>. QED BY <1>4, <2>1, <3>1
  <2>. QED BY <2>2, <2>3
<1>6. IsPutting(f, c, s, m)
  <2>1. f = [i \in 0..m |-> f[i]]
    OBVIOUS
  <2>. HIDE DEF f
  <2>2. [i \in 0..m |-> f[i]]
           = [i \in 0..m |-> IF i = 0 THEN c ELSE Calendar!DoInsert(f[i - 1], s[i])]
    BY <1>5
  <2>. QED BY <2>1, <2>2 DEF IsPutting
<1>. QED BY <1>2, <1>6

\* No event twice.
Distinct(s) == \A i, j \in 1..Len(s) : i # j => s[i] # s[j]

\* The first n events of s.
FirstOf(s, n) == {s[i] : i \in 1..n}

\* PutAll puts new events into their buckets.
LEMMA PutAllAdds ==
  ASSUME NEW c, IsCalendar(c), Sound(c), NEW s \in Seq(Key), Distinct(s),
         Elements(s) \cap Calendar!HeldIn(c) = {}
  PROVE  Becomes(c, Calendar!PutAll(c, s), Calendar!HeldIn(c) \cup Elements(s))
<1> DEFINE n == Len(s)
           Good(put, m) == Becomes(c, put[m], Calendar!HeldIn(c) \cup FirstOf(s, m))
<1>1. n \in Nat /\ \A m \in 1..n : s[m] \in Key
  BY LenProperties, ElementOfSeq
<1>2. PICK put : IsPutting(put, c, s, n) /\ Calendar!PutAll(c, s) = put[n]
  <2>1. \E put : IsPutting(put, c, s, n)
    BY <1>1, PuttingExists
  <2> DEFINE P == CHOOSE put : IsPutting(put, c, s, n)
  <2>2. IsPutting(P, c, s, n)
    BY <2>1
  <2>3. Calendar!PutAll(c, s) = P[n]
    BY DEF Calendar!PutAll, IsPutting
  <2>. QED BY <2>2, <2>3
<1>3. put[0] = c /\ \A m \in 1..n : put[m] = Calendar!DoInsert(put[m - 1], s[m])
  BY <1>1, <1>2 DEF IsPutting
<1> HIDE DEF n
<1>4. Good(put, 0)
  <2>1. FirstOf(s, 0) = {}
    BY DEF FirstOf
  <2>. QED BY <1>3, <2>1 DEF Becomes, SameButBuckets
<1>5. ASSUME NEW m \in 1..n, Good(put, m - 1) PROVE Good(put, m)
  <2> DEFINE d == put[m - 1]
             e == put[m]
  <2>1. /\ IsCalendar(d) /\ Sound(d) /\ SameButBuckets(c, d)
        /\ Calendar!HeldIn(d) = Calendar!HeldIn(c) \cup FirstOf(s, m - 1)
    BY <1>5 DEF Becomes
  <2>2. s[m] \in Key /\ s[m] \in Elements(s)
    BY <1>1 DEF Elements, n
  <2>3. s[m] \notin FirstOf(s, m - 1)
    <3>1. \A i \in 1..(m - 1) : i \in 1..n /\ i # m
      BY <1>1
    <3>. QED BY <1>1, <3>1 DEF FirstOf, Distinct, n
  <2>4. s[m] \notin Calendar!HeldIn(d)
    BY <2>1, <2>2, <2>3
  <2>5. e = Calendar!DoInsert(d, s[m])
    BY <1>3
  <2>6. FirstOf(s, m) = FirstOf(s, m - 1) \cup {s[m]}
    <3>1. 1..m = 1..(m - 1) \cup {m}
      BY <1>1
    <3>. QED BY <3>1 DEF FirstOf
  <2> HIDE DEF d, e
  <2>7. Becomes(d, e, Calendar!HeldIn(d) \cup {s[m]})
    BY <2>1, <2>2, <2>4, <2>5, DoInsertAdds
  <2>8. Calendar!HeldIn(d) \cup {s[m]} = Calendar!HeldIn(c) \cup FirstOf(s, m)
    BY <2>1, <2>6
  <2>9. SameButBuckets(c, e)
    BY <2>1, <2>7 DEF Becomes, SameButBuckets
  <2>10. Becomes(c, e, Calendar!HeldIn(c) \cup FirstOf(s, m))
    BY <2>7, <2>8, <2>9 DEF Becomes
  <2>. QED BY <2>10 DEF e
<1>6. Good(put, n)
  <2> DEFINE F == {m \in 0..n : ~Good(put, m)}
  <2> SUFFICES ASSUME n \in F PROVE FALSE
    BY <1>1
  <2>1. 0 \notin F
    BY <1>4
  <2>2. PICK m \in 1..n : m \in F /\ m - 1 \in 0..n /\ m - 1 \notin F
    <3> HIDE DEF Good
    <3>. QED BY <1>1, <2>1, FirstFailure
  <2>. QED BY <1>5, <2>2
<1>7. FirstOf(s, n) = Elements(s)
  BY DEF FirstOf, Elements, n
<1>. QED BY <1>2, <1>6, <1>7

-----------------------------------------------------------------------------
(* CalendarScheduler: the next event of a bucket, and the scan of the year. *)

\* NextEvent shows the earliest event of a bucket, and Pop takes out just that one.
LEMMA NextOfBucket ==
  ASSUME NEW c, IsCalendar(c), Sound(c), NEW b \in Bucket(c), c.buckets[b] # <<>>
  PROVE  /\ IsEarliest(Calendar!NextEvent(c, b), Elements(c.buckets[b]))
         /\ Becomes(c, Calendar!Pop(c, b),
                    Calendar!HeldIn(c) \ {Calendar!NextEvent(c, b)})
<1> DEFINE s == c.buckets[b]
           k == IF c.reverse THEN Len(s) ELSE 1
           t == WithoutAt(s, k)
<1>1. s \in Seq(Key) /\ c.reverse \in BOOLEAN
  BY DEF IsCalendar, Bucket
<1>2. Len(s) \in Nat /\ Len(s) > 0 /\ \A i \in 1..Len(s) : s[i] \in Key
  <2>1. Len(s) \in Nat /\ Len(s) # 0
    BY <1>1, EmptySeq
  <2>. QED BY <1>1, <2>1, ElementOfSeq
<1>3. InOrder(c.reverse, s) /\ \A x \in Elements(s) : Calendar!Hash(c, x.ts) = b
  BY DEF Sound
<1>4. k \in 1..Len(s) /\ s[k] \in Elements(s)
  BY <1>2 DEF Elements
<1>5. Calendar!NextEvent(c, b) = s[k]
  <2>1. CASE c.reverse
    BY <2>1 DEF Calendar!NextEvent, Calendar!Seqs!Last
  <2>2. CASE ~c.reverse
    BY <1>1, <1>2, <2>2 DEF Calendar!NextEvent
  <2>. QED BY <2>1, <2>2
<1>6. Calendar!Pop(c, b) = [c EXCEPT !.buckets[b] = t]
  <2>1. CASE c.reverse
    <3>1. SubSeq(s, Len(s) + 1, Len(s)) = <<>>
      BY <1>1, <1>2, SubSeqEmpty
    <3>2. SubSeq(s, 1, Len(s) - 1) \in Seq(Key)
      BY <1>1, <1>2, SubSeqProperties
    <3>3. t = SubSeq(s, 1, Len(s) - 1)
      BY <2>1, <3>1, <3>2, ConcatEmptySeq DEF WithoutAt
    <3>. QED BY <2>1, <3>3 DEF Calendar!Pop, Calendar!Seqs!Front
  <2>2. CASE ~c.reverse
    <3>1. SubSeq(s, 1, 1 - 1) = <<>>
      BY <1>1, SubSeqEmpty
    <3>2. Tail(s) = SubSeq(s, 2, Len(s)) /\ Tail(s) \in Seq(Key)
      BY <1>1, <1>2, TailIsSubSeq, HeadTailProperties
    <3>3. t = Tail(s)
      BY <2>2, <3>1, <3>2, ConcatEmptySeq DEF WithoutAt
    <3>. QED BY <2>2, <3>3 DEF Calendar!Pop
  <2>. QED BY <2>1, <2>2
<1> HIDE DEF k
<1>7. \A x \in Elements(s) : ~Less(x, s[k])
  <2> SUFFICES ASSUME NEW i \in 1..Len(s) PROVE ~Less(s[i], s[k])
    BY DEF Elements
  <2>1. s[i] \in AnyKey /\ s[k] \in AnyKey
    BY <1>2, <1>4, KeysAreAnyKeys
  <2>2. CASE i = k
    BY <2>1, <2>2, LessAsymmetric
  <2>3. CASE i # k
    <3>1. Less(s[k], s[i])
      <4>1. CASE c.reverse
        <5>1. k = Len(s) /\ i < k
          BY <1>2, <2>3, <4>1 DEF k
        <5>2. Before(c.reverse, s[i], s[k])
          BY <1>3, <1>4, <5>1 DEF InOrder
        <5>. QED BY <4>1, <5>2 DEF Before
      <4>2. CASE ~c.reverse
        <5>1. k = 1 /\ k < i
          BY <1>2, <2>3, <4>2 DEF k
        <5>2. Before(c.reverse, s[k], s[i])
          BY <1>3, <1>4, <5>1 DEF InOrder
        <5>. QED BY <4>2, <5>2 DEF Before
      <4>. QED BY <4>1, <4>2
    <3>. QED BY <2>1, <3>1, LessAsymmetric
  <2>. QED BY <2>2, <2>3
<1> HIDE DEF s
<1>8. /\ t \in Seq(Key) /\ InOrder(c.reverse, t)
      /\ Elements(t) = Elements(s) \ {s[k]}
  BY <1>1, <1>3, <1>4, WithoutInOrder
<1> HIDE DEF t
<1> DEFINE d == [c EXCEPT !.buckets[b] = t]
<1>9. /\ IsCalendar(d) /\ SameButBuckets(c, d) /\ Sound(d)
      /\ Calendar!HeldIn(d) = (Calendar!HeldIn(c) \ Elements(c.buckets[b])) \cup Elements(t)
  <2>1. Exchanged(c, b, t, d)
    BY <1>3, <1>8, ExchangedBucket
  <2> HIDE DEF d
  <2>. QED BY <2>1 DEF Exchanged
<1> HIDE DEF d
<1>10. Elements(c.buckets[b]) = Elements(s) /\ Elements(s) \subseteq Calendar!HeldIn(c)
  BY HeldInBuckets DEF s
<1>11. Calendar!HeldIn(d) = Calendar!HeldIn(c) \ {s[k]}
  BY <1>4, <1>8, <1>9, <1>10
<1>12. Calendar!Pop(c, b) = d
  BY <1>6 DEF d
<1>13. IsEarliest(s[k], Elements(s))
  BY <1>4, <1>7 DEF IsEarliest
<1>. QED BY <1>5, <1>9, <1>10, <1>11, <1>12, <1>13 DEF Becomes
-----------------------------------------------------------------------------
\* The scan reaches every bucket.
LEMMA EveryBucketScanned ==
  ASSUME NEW c, IsCalendar(c), c.lastBucket \in Bucket(c), NEW b \in Bucket(c)
  PROVE  \E k \in Bucket(c) : Calendar!Scanned(c, k) = b
<1> DEFINE n == c.nBuckets
           l == c.lastBucket
<1>1. n \in Nat /\ n > 0 /\ l \in 0..(n - 1) /\ b \in 0..(n - 1)
  BY DEF IsCalendar, Bucket
<1> HIDE DEF n, l
<1>2. CASE l <= b
  <2>1. b - l \in 0..(n - 1) /\ l + (b - l) = b
    BY <1>1, <1>2
  <2>2. b % n = b
    <3>1. b = n * 0 + b /\ b \in Nat
      BY <1>1
    <3>. QED BY <1>1, <3>1, DivisionIsUnique
  <2>3. (l + (b - l)) % n = b
    BY <2>1, <2>2
  <2>. QED BY <2>1, <2>3 DEF Calendar!Scanned, Bucket, n, l
<1>3. CASE b < l
  <2>1. b - l + n \in 0..(n - 1) /\ l + (b - l + n) = n * 1 + b
    BY <1>1, <1>3
  <2>2. (n * 1 + b) % n = b
    <3>1. n * 1 + b \in Nat
      BY <1>1
    <3>. QED BY <1>1, <3>1, DivisionIsUnique
  <2>3. (l + (b - l + n)) % n = b
    BY <2>1, <2>2
  <2>. QED BY <2>1, <2>3 DEF Calendar!Scanned, Bucket, n, l
<1>. QED BY <1>1, <1>2, <1>3

\* And nothing else.
LEMMA ScannedIsBucket ==
  ASSUME NEW c, IsCalendar(c), c.lastBucket \in Bucket(c), NEW k \in Bucket(c)
  PROVE  Calendar!Scanned(c, k) \in Bucket(c)
<1>1. c.nBuckets \in Nat /\ c.nBuckets > 0 /\ c.lastBucket + k \in Nat
  BY DEF IsCalendar, Bucket
<1>2. (c.lastBucket + k) % c.nBuckets \in 0..(c.nBuckets - 1)
  BY <1>1, Division
<1>. QED BY <1>2 DEF Calendar!Scanned, Bucket

-----------------------------------------------------------------------------
(* CalendarScheduler: the days of the events that the scan comes across.    *)

\* What is in the buckets does not depend on the position.
SameBuckets(c, d) ==
  /\ d.buckets = c.buckets /\ d.nBuckets = c.nBuckets
  /\ d.width = c.width /\ d.reverse = c.reverse

\* A change of position or count leaves the buckets sound.
LEMMA SoundBuckets ==
  ASSUME NEW c, NEW d, Sound(c), SameBuckets(c, d)
  PROVE  /\ Sound(d) /\ Calendar!HeldIn(d) = Calendar!HeldIn(c)
         /\ \A ts : Calendar!Hash(d, ts) = Calendar!Hash(c, ts)
BY DEF Sound, SameBuckets, Bucket, Calendar!HeldIn, Calendar!InBucket, Calendar!Hash

\* The position is the bucket of the last event's day.
LEMMA PositionInYear ==
  ASSUME NEW c, IsCalendar(c), Positioned(c)
  PROVE  /\ c.lastPrio \div c.width \in Nat
         /\ c.lastBucket \in Bucket(c)
         /\ c.lastBucket = (c.lastPrio \div c.width) % c.nBuckets
<1>1. c.lastPrio \in Nat
  BY DEF IsCalendar
<1>. QED BY <1>1, HashIsBucket DEF Positioned, Calendar!Hash

\* An event that the scan comes across is of the day that the scan looks at, or
\* of a later year, and it is of that day if it is due before the day's end.
LEMMA DayOfScanned ==
  ASSUME NEW c, IsCalendar(c), Sound(c), Positioned(c), NEW k \in Bucket(c),
         NEW ev \in Elements(c.buckets[Calendar!Scanned(c, k)])
  PROVE  LET q == ev.ts \div c.width
             v == c.lastPrio \div c.width
         IN  /\ ev.ts \in Nat /\ q \in Nat /\ v \in Nat /\ v <= q
             /\ ev.ts < Calendar!Top(c, k) <=> q <= v + k
             /\ q < v + c.nBuckets => q = v + k
             /\ ev \in Calendar!HeldIn(c)
<1> DEFINE q == ev.ts \div c.width
           v == c.lastPrio \div c.width
           n == c.nBuckets
           w == c.width
           b == Calendar!Scanned(c, k)
<1>1. n \in Nat /\ n > 0 /\ w \in Nat /\ w > 0 /\ k \in 0..(n - 1) /\ c.lastPrio \in Nat
  BY DEF IsCalendar, Bucket
<1>2. v \in Nat /\ c.lastBucket \in Bucket(c) /\ c.lastBucket = v % n
  BY PositionInYear
<1>3. b \in Bucket(c)
  BY <1>2, ScannedIsBucket
<1>4. ev \in Calendar!HeldIn(c)
  BY <1>3, HeldInBuckets
<1>5. ev.ts \in Nat /\ q \in Nat /\ ev.ts >= c.lastPrio
  BY <1>4, HeldWhereHashed, HashIsBucket DEF Positioned
<1>6. q % n = ((v % n) + k) % n
  <2>1. Calendar!Hash(c, ev.ts) = b
    BY <1>3 DEF Sound
  <2>. QED BY <1>2, <2>1 DEF Calendar!Hash, Calendar!Scanned
<1>7. v * w <= c.lastPrio /\ (v * w <= ev.ts <=> v <= q)
  <2>1. v * w <= c.lastPrio <=> v <= v
    BY <1>1, <1>2, TopOfDay
  <2>2. v * w <= ev.ts <=> v <= q
    BY <1>1, <1>2, <1>5, TopOfDay
  <2>. QED BY <1>2, <2>1, <2>2
<1>8. Calendar!Top(c, k) = (v + k + 1) * w
  <2>1. Calendar!Top(c, k) = (v + 1) * w + k * w
    BY DEF Calendar!Top, Positioned
  <2> HIDE DEF v, n, w
  <2>2. (v + 1) * w + k * w = (v + k + 1) * w
    BY <1>1, <1>2
  <2>. QED BY <2>1, <2>2
<1>9. ev.ts < (v + k + 1) * w <=> q <= v + k
  <2>1. v + k \in Nat
    BY <1>1, <1>2
  <2> HIDE DEF v, n
  <2>. QED BY <1>1, <1>5, <2>1, TopOfDay
<1>10. v <= q
  <2> HIDE DEF v, n, w, q
  <2>1. v * w \in Int
    BY <1>1, <1>2
  <2>. QED BY <1>1, <1>2, <1>5, <1>7, <2>1
<1>11. q < v + n => q = v + k
  <2> HIDE DEF v, n, q
  <2>. QED BY <1>1, <1>2, <1>5, <1>6, <1>10, SameDay
<1>. QED BY <1>2, <1>4, <1>5, <1>8, <1>9, <1>10, <1>11

-----------------------------------------------------------------------------
(* CalendarScheduler: the scan finds the earliest event.                    *)

\* Not to be later is transitive.
LEMMA NotLaterTransitive ==
  ASSUME NEW a \in AnyKey, NEW b \in AnyKey, NEW c \in AnyKey, ~Less(b, a), ~Less(c, b)
  PROVE  ~Less(c, a)
BY DEF Less, AnyKey

\* The calendar's IsEarliest is the list's.
LEMMA SameEarliest == \A ev, S : Calendar!IsEarliest(ev, S) <=> IsEarliest(ev, S)
BY DEF Calendar!IsEarliest, IsEarliest, Calendar!Less, Less

\* Every event held is in a bucket that the scan reaches, behind that bucket's next.
LEMMA ScanCovers ==
  ASSUME NEW c, IsCalendar(c), Sound(c), Positioned(c), NEW x \in Calendar!HeldIn(c)
  PROVE  \E k \in Calendar!NonEmpty(c) :
             /\ x \in Elements(c.buckets[Calendar!Scanned(c, k)])
             /\ ~Less(x, Calendar!NextEvent(c, Calendar!Scanned(c, k)))
<1>1. PICK b \in Bucket(c) : x \in Elements(c.buckets[b])
  BY HeldInBuckets
<1>2. PICK k \in Bucket(c) : Calendar!Scanned(c, k) = b
  BY PositionInYear, EveryBucketScanned
<1>3. c.buckets[b] # <<>>
  <2>1. Len(<<>>) = 0
    OBVIOUS
  <2>. QED BY <1>1, <2>1 DEF Elements
<1>4. k \in Calendar!NonEmpty(c)
  BY <1>2, <1>3 DEF Calendar!NonEmpty, Bucket
<1>5. ~Less(x, Calendar!NextEvent(c, b))
  BY <1>1, <1>3, NextOfBucket DEF IsEarliest
<1>. QED BY <1>1, <1>2, <1>4, <1>5

\* What the scan finds in a bucket that is not empty.
LEMMA NextOfScanned ==
  ASSUME NEW c, IsCalendar(c), Sound(c), Positioned(c), NEW k \in Calendar!NonEmpty(c)
  PROVE  LET b == Calendar!Scanned(c, k)
         IN  /\ k \in Bucket(c) /\ b \in Bucket(c) /\ c.buckets[b] # <<>>
             /\ IsEarliest(Calendar!NextEvent(c, b), Elements(c.buckets[b]))
             /\ Calendar!NextEvent(c, b) \in Key
             /\ Calendar!NextEvent(c, b) \in Calendar!HeldIn(c)
<1> DEFINE b == Calendar!Scanned(c, k)
<1>1. k \in Bucket(c) /\ c.buckets[b] # <<>>
  BY DEF Calendar!NonEmpty, Bucket
<1>2. b \in Bucket(c)
  BY <1>1, PositionInYear, ScannedIsBucket
<1> HIDE DEF b
<1>3. IsEarliest(Calendar!NextEvent(c, b), Elements(c.buckets[b]))
  BY <1>1, <1>2, NextOfBucket
<1>4. Calendar!NextEvent(c, b) \in Calendar!HeldIn(c)
  BY <1>2, <1>3, HeldInBuckets DEF IsEarliest
<1>5. Calendar!NextEvent(c, b) \in Key
  BY <1>4, HeldInBuckets
<1>. QED BY <1>1, <1>2, <1>3, <1>4, <1>5 DEF b

\* The first bucket with an event due this year has the earliest event, and the
\* end of the day that the scan has come to is the end of that event's day.
LEMMA FoundThisYear ==
  ASSUME NEW c, IsCalendar(c), Sound(c), Positioned(c), Calendar!DueThisYear(c) # {}
  PROVE  LET k == Calendar!Min(Calendar!DueThisYear(c))
             b == Calendar!Scanned(c, k)
             ev == Calendar!NextEvent(c, b)
         IN  /\ b \in Bucket(c) /\ c.buckets[b] # <<>>
             /\ IsEarliest(ev, Calendar!HeldIn(c))
             /\ b = Calendar!Hash(c, ev.ts)
             /\ Calendar!Top(c, k) = (ev.ts \div c.width + 1) * c.width
<1> DEFINE k == Calendar!Min(Calendar!DueThisYear(c))
           b == Calendar!Scanned(c, k)
           ev == Calendar!NextEvent(c, b)
           v == c.lastPrio \div c.width
<1>1. k \in Calendar!DueThisYear(c) /\ \A j \in Calendar!DueThisYear(c) : k <= j
  <2>1. Calendar!DueThisYear(c) \subseteq Nat
    BY DEF Calendar!DueThisYear, Calendar!NonEmpty
  <2>. QED BY <2>1, MinIsLeast
<1> HIDE DEF k
<1>2. k \in Calendar!NonEmpty(c) /\ ev.ts < Calendar!Top(c, k)
  BY <1>1 DEF Calendar!DueThisYear
<1>3. /\ k \in Bucket(c) /\ b \in Bucket(c) /\ c.buckets[b] # <<>>
      /\ IsEarliest(ev, Elements(c.buckets[b])) /\ ev \in Key
      /\ ev \in Calendar!HeldIn(c) /\ ev \in Elements(c.buckets[b])
  BY <1>2, NextOfScanned DEF IsEarliest
<1>4. c.nBuckets \in Nat /\ k \in 0..(c.nBuckets - 1) /\ c.width \in Nat /\ c.width > 0
  BY <1>3 DEF IsCalendar, Bucket
<1>5. v \in Nat /\ ev.ts \in Nat /\ ev.ts \div c.width = v + k
  <2>1. LET q == ev.ts \div c.width
        IN  /\ ev.ts \in Nat /\ q \in Nat /\ v \in Nat /\ v <= q
            /\ ev.ts < Calendar!Top(c, k) <=> q <= v + k
            /\ q < v + c.nBuckets => q = v + k
    BY <1>3, DayOfScanned
  <2>. QED BY <1>2, <1>4, <2>1
<1> HIDE DEF v
<1>6. ASSUME NEW x \in Calendar!HeldIn(c) PROVE ~Less(x, ev)
  <2>1. PICK j \in Calendar!NonEmpty(c) :
            /\ x \in Elements(c.buckets[Calendar!Scanned(c, j)])
            /\ ~Less(x, Calendar!NextEvent(c, Calendar!Scanned(c, j)))
    BY ScanCovers
  <2> DEFINE a == Calendar!Scanned(c, j)
             e == Calendar!NextEvent(c, a)
             q == x.ts \div c.width
  <2>2. /\ j \in Bucket(c) /\ e \in Elements(c.buckets[a]) /\ e \in Key
    BY NextOfScanned DEF IsEarliest
  <2>3. /\ x.ts \in Nat /\ q \in Nat /\ v <= q
        /\ x.ts < Calendar!Top(c, j) <=> q <= v + j
        /\ q < v + c.nBuckets => q = v + j
    BY <2>1, <2>2, DayOfScanned DEF v
  <2>4. x \in AnyKey /\ e \in AnyKey /\ ev \in AnyKey
    BY <1>3, <2>2, HeldInBuckets, KeysAreAnyKeys
  <2>5. Calendar!Top(c, j) \in Int
    BY <2>2 DEF Calendar!Top, IsCalendar, Bucket
  <2> HIDE DEF a, e, q, b, ev
  <2>6. CASE j = k
    BY <2>1, <2>6 DEF e, a, ev, b
  <2>7. CASE j # k /\ q <= v + k
    <3>1. q = v + j /\ j < k
      BY <1>4, <1>5, <2>2, <2>3, <2>7 DEF Bucket
    <3>2. x.ts < Calendar!Top(c, j)
      BY <1>5, <2>2, <2>3, <3>1 DEF Bucket
    <3>3. e.ts <= x.ts
      BY <2>1, <2>4 DEF Less, AnyKey, e, a
    <3>4. e.ts < Calendar!Top(c, j)
      BY <2>4, <2>5, <3>2, <3>3 DEF AnyKey
    <3>5. j \in Calendar!DueThisYear(c)
      BY <3>4 DEF Calendar!DueThisYear, e, a
    <3>. QED BY <1>1, <1>4, <2>2, <3>1, <3>5 DEF Bucket
  <2>8. CASE q > v + k
    <3>1. ev.ts < x.ts
      <4>1. ev.ts < (v + k + 1) * c.width /\ ~(x.ts < (v + k + 1) * c.width)
        <5>1. /\ ev.ts < (v + k + 1) * c.width <=> ev.ts \div c.width <= v + k
              /\ x.ts < (v + k + 1) * c.width <=> q <= v + k
          BY <1>4, <1>5, <2>3, TopOfDay DEF q
        <5>. QED BY <1>4, <1>5, <2>3, <2>8, <5>1
      <4>2. (v + k + 1) * c.width \in Int
        BY <1>4, <1>5
      <4>. QED BY <1>5, <2>3, <4>1, <4>2
    <3>. QED BY <2>4, <3>1 DEF Less, AnyKey
  <2>. QED BY <1>4, <1>5, <2>3, <2>6, <2>7, <2>8
<1>7. b = Calendar!Hash(c, ev.ts)
  BY <1>3 DEF Sound
<1>8. Calendar!Top(c, k) = (ev.ts \div c.width + 1) * c.width
  <2>1. Calendar!Top(c, k) = (v + 1) * c.width + k * c.width
    BY DEF Calendar!Top, Positioned, v
  <2>2. (v + 1) * c.width + k * c.width = (v + k + 1) * c.width
    BY <1>4, <1>5
  <2>. QED BY <1>5, <2>1, <2>2
<1>9. IsEarliest(ev, Calendar!HeldIn(c))
  BY <1>3, <1>6 DEF IsEarliest
<1>. QED BY <1>3, <1>7, <1>8, <1>9 DEF k

\* Otherwise the earliest of the buckets' next events is the earliest of all.
LEMMA FoundLater ==
  ASSUME NEW c, IsCalendar(c), Sound(c), Positioned(c), Calendar!HeldIn(c) # {}
  PROVE  LET b == Calendar!EarliestBucket(c)
         IN  /\ b \in Bucket(c) /\ c.buckets[b] # <<>>
             /\ IsEarliest(Calendar!NextEvent(c, b), Calendar!HeldIn(c))
<1> DEFINE B == {Calendar!Scanned(c, k) : k \in Calendar!NonEmpty(c)}
           S == {Calendar!NextEvent(c, Calendar!Scanned(c, k)) : k \in Calendar!NonEmpty(c)}
           b == Calendar!EarliestBucket(c)
<1>1. S # {} /\ S \subseteq Key
  BY ScanCovers, NextOfScanned
<1>2. PICK e \in S : IsEarliest(e, S)
  BY <1>1, EarliestExists
<1>3. \E a \in B : Calendar!IsEarliest(Calendar!NextEvent(c, a), S)
  BY <1>2, SameEarliest
<1>4. b \in B /\ Calendar!IsEarliest(Calendar!NextEvent(c, b), S)
  BY <1>3 DEF Calendar!EarliestBucket
<1> HIDE DEF b
<1>5. PICK k \in Calendar!NonEmpty(c) : b = Calendar!Scanned(c, k)
  BY <1>4
<1>6. /\ b \in Bucket(c) /\ c.buckets[b] # <<>>
      /\ Calendar!NextEvent(c, b) \in Key /\ Calendar!NextEvent(c, b) \in Calendar!HeldIn(c)
  BY <1>5, NextOfScanned
<1>7. ASSUME NEW x \in Calendar!HeldIn(c) PROVE ~Less(x, Calendar!NextEvent(c, b))
  <2>1. PICK j \in Calendar!NonEmpty(c) :
            ~Less(x, Calendar!NextEvent(c, Calendar!Scanned(c, j)))
    BY ScanCovers
  <2> DEFINE f == Calendar!NextEvent(c, Calendar!Scanned(c, j))
  <2>2. f \in S /\ f \in Key
    BY NextOfScanned
  <2>3. ~Less(f, Calendar!NextEvent(c, b))
    BY <1>4, <2>2, SameEarliest DEF IsEarliest
  <2>4. x \in AnyKey /\ f \in AnyKey /\ Calendar!NextEvent(c, b) \in AnyKey
    BY <1>6, <2>2, HeldInBuckets, KeysAreAnyKeys
  <2> HIDE DEF f
  <2>5. ~Less(x, f)
    BY <2>1 DEF f
  <2>. QED BY <2>3, <2>4, <2>5, NotLaterTransitive
<1>. QED BY <1>6, <1>7 DEF b, IsEarliest

-----------------------------------------------------------------------------
(* CalendarScheduler: taking out the next event.                            *)

\* The calendar p set to the time ts, which is not later than any event of p.
LEMMA SetToTime ==
  ASSUME NEW p, IsCalendar(p), Sound(p), NEW ts \in Nat,
         \A x \in Calendar!HeldIn(p) : x.ts >= ts,
         NEW d, d.lastBucket = Calendar!Hash(p, ts), d.lastPrio = ts,
         d.bucketTop = (ts \div p.width + 1) * p.width,
         IsCalendar(d), SameBuckets(p, d)
  PROVE  Sound(d) /\ Positioned(d) /\ Calendar!HeldIn(d) = Calendar!HeldIn(p)
<1>1. /\ Sound(d) /\ Calendar!HeldIn(d) = Calendar!HeldIn(p)
      /\ Calendar!Hash(d, ts) = Calendar!Hash(p, ts)
  BY SoundBuckets
<1>. QED BY <1>1 DEF Positioned, SameBuckets

\* The calendar c, without its earliest event ev, has become d.
Advanced(c, ev, d) ==
  /\ IsEarliest(ev, Calendar!HeldIn(c)) /\ ev \in Key
  /\ IsCalendar(d) /\ Sound(d) /\ Positioned(d)
  /\ Calendar!HeldIn(d) = Calendar!HeldIn(c) \ {ev}
  /\ d.nBuckets = c.nBuckets /\ d.width = c.width /\ d.reverse = c.reverse
  /\ d.qSize = c.qSize /\ d.lastPrio = ev.ts

\* DoRemoveNext takes out the earliest event, whichever way it finds it.
LEMMA DoRemoveNextAdvances ==
  ASSUME NEW c, IsCalendar(c), Sound(c), Positioned(c), Calendar!HeldIn(c) # {}
  PROVE  Advanced(c, Calendar!DoRemoveNext(c).ev, Calendar!DoRemoveNext(c).cal)
<1>1. ASSUME NEW b \in Bucket(c), c.buckets[b] # <<>>,
             NEW ev, ev = Calendar!NextEvent(c, b), IsEarliest(ev, Calendar!HeldIn(c)),
             NEW p, p = Calendar!Pop(c, b),
             NEW d, d = [p EXCEPT !.lastBucket = Calendar!Hash(c, ev.ts), !.lastPrio = ev.ts,
                              !.bucketTop = (ev.ts \div c.width + 1) * c.width]
      PROVE  Advanced(c, ev, d)
  <2>1. Becomes(c, p, Calendar!HeldIn(c) \ {ev})
    BY <1>1, NextOfBucket
  <2>2. IsCalendar(p) /\ Sound(p) /\ SameButBuckets(c, p)
    BY <2>1 DEF Becomes
  <2>3. Calendar!HeldIn(p) = Calendar!HeldIn(c) \ {ev}
    BY <2>1 DEF Becomes
  <2>4. ev \in Key /\ ev.ts \in Nat /\ Calendar!HeldIn(c) \subseteq Key
    BY <1>1, HeldInBuckets, HeldWhereHashed DEF IsEarliest
  <2>5. \A x \in Calendar!HeldIn(p) : x.ts >= ev.ts
    <3>1. \A x \in Calendar!HeldIn(c) : ~Less(x, ev) /\ x.ts \in Nat
      BY <1>1, HeldWhereHashed DEF IsEarliest
    <3>. QED BY <2>3, <2>4, <3>1 DEF Less
  <2>6. /\ Calendar!Hash(c, ev.ts) \in Int /\ (ev.ts \div c.width + 1) * c.width \in Int
        /\ Calendar!Hash(p, ev.ts) = Calendar!Hash(c, ev.ts)
    <3>1. Calendar!Hash(c, ev.ts) \in Bucket(c) /\ ev.ts \div c.width \in Nat
      BY <2>4, HashIsBucket
    <3>2. c.width \in Nat
      BY DEF IsCalendar
    <3>. QED BY <2>2, <3>1, <3>2 DEF Bucket, SameButBuckets, Calendar!Hash
  <2>7. /\ d.buckets = p.buckets /\ d.nBuckets = p.nBuckets /\ d.width = p.width
        /\ d.reverse = p.reverse /\ d.qSize = p.qSize
        /\ d.lastBucket = Calendar!Hash(c, ev.ts) /\ d.lastPrio = ev.ts
        /\ d.bucketTop = (ev.ts \div c.width + 1) * c.width
    BY <1>1, <2>2 DEF IsCalendar
  <2>8. IsCalendar(d)
    BY <1>1, <2>2, <2>4, <2>6, <2>7 DEF IsCalendar
  <2>9. SameBuckets(p, d) /\ p.width = c.width
    BY <2>2, <2>7 DEF SameBuckets, SameButBuckets
  <2>10. Sound(d) /\ Positioned(d) /\ Calendar!HeldIn(d) = Calendar!HeldIn(p)
    BY <2>2, <2>4, <2>5, <2>6, <2>7, <2>8, <2>9, SetToTime
  <2>. QED BY <1>1, <2>2, <2>3, <2>4, <2>7, <2>8, <2>10 DEF Advanced, SameButBuckets
<1>2. CASE Calendar!DueThisYear(c) # {}
  <2> DEFINE k == Calendar!Min(Calendar!DueThisYear(c))
             b == Calendar!Scanned(c, k)
             ev == Calendar!NextEvent(c, b)
             p == Calendar!Pop(c, b)
             d == [p EXCEPT !.lastBucket = b, !.lastPrio = ev.ts,
                                    !.bucketTop = Calendar!Top(c, k)]
  <2>1. Calendar!DoRemoveNext(c) = [ev |-> ev, cal |-> d]
    BY <1>2 DEF Calendar!DoRemoveNext
  <2>2. /\ b \in Bucket(c) /\ c.buckets[b] # <<>>
        /\ IsEarliest(ev, Calendar!HeldIn(c))
        /\ b = Calendar!Hash(c, ev.ts)
        /\ Calendar!Top(c, k) = (ev.ts \div c.width + 1) * c.width
    BY <1>2, FoundThisYear
  <2>3. d = [p EXCEPT !.lastBucket = Calendar!Hash(c, ev.ts), !.lastPrio = ev.ts,
                              !.bucketTop = (ev.ts \div c.width + 1) * c.width]
    BY <2>2
  <2>4. Calendar!DoRemoveNext(c).ev = ev /\ Calendar!DoRemoveNext(c).cal = d
    BY <2>1
  <2> HIDE DEF k, b, d
  <2>. QED BY <1>1, <2>2, <2>3, <2>4
<1>3. CASE Calendar!DueThisYear(c) = {}
  <2> DEFINE b == Calendar!EarliestBucket(c)
             ev == Calendar!NextEvent(c, b)
             p == Calendar!Pop(c, b)
             d == [p EXCEPT !.lastPrio = ev.ts, !.lastBucket = Calendar!Hash(c, ev.ts),
                                    !.bucketTop = (ev.ts \div c.width + 1) * c.width]
  <2>1. Calendar!DoRemoveNext(c) = [ev |-> ev, cal |-> d]
    BY <1>3 DEF Calendar!DoRemoveNext
  <2>2. /\ b \in Bucket(c) /\ c.buckets[b] # <<>>
        /\ IsEarliest(ev, Calendar!HeldIn(c))
    BY FoundLater
  <2>3. Becomes(c, p, Calendar!HeldIn(c) \ {ev})
    BY <2>2, NextOfBucket
  <2>4. Calendar!DoRemoveNext(c).ev = ev /\ Calendar!DoRemoveNext(c).cal = d
    BY <2>1
  <2> HIDE DEF b, p
  <2>5. d = [p EXCEPT !.lastBucket = Calendar!Hash(c, ev.ts), !.lastPrio = ev.ts,
                              !.bucketTop = (ev.ts \div c.width + 1) * c.width]
    BY <2>3 DEF Becomes, IsCalendar
  <2> HIDE DEF d
  <2>. QED BY <1>1, <2>2, <2>4, <2>5 DEF p
<1>. QED BY <1>2, <1>3

\* PeekNext shows what RemoveNext will take.
LEMMA PeekAdvances ==
  ASSUME IsCalendar(cal), Sound(cal), Positioned(cal), Calendar!Held # {}
  PROVE  IsEarliest(Calendar!PeekNext, Calendar!Held)
BY FoundThisYear, FoundLater DEF Calendar!PeekNext, Calendar!Held

-----------------------------------------------------------------------------
(* CalendarScheduler: taking out a sample.                                  *)

\* The next n events of c taken out one after the other.
NoneTaken(c) == [cal |-> c, out |-> <<>>]
AfterTaking(r) == [cal |-> Calendar!DoRemoveNext(r.cal).cal,
                   out |-> Append(r.out, Calendar!DoRemoveNext(r.cal).ev)]

IsTaking(take, c, n) ==
  take = [k \in 0..n |-> IF k = 0 THEN NoneTaken(c) ELSE AfterTaking(take[k - 1])]

\* There is such a function, for every number.
LEMMA TakingExists ==
  ASSUME NEW c, NEW n \in Nat
  PROVE  \E take : IsTaking(take, c, n)
<1> DEFINE F == {m \in 0..n : ~ \E take : IsTaking(take, c, m)}
<1> SUFFICES ASSUME n \in F PROVE FALSE
  OBVIOUS
<1>1. 0 \notin F
  <2>1. IsTaking([m \in 0..0 |-> NoneTaken(c)], c, 0)
    BY DEF IsTaking
  <2>. QED BY <2>1
<1>2. PICK m \in 1..n : m \in F /\ m - 1 \in 0..n /\ m - 1 \notin F
  BY <1>1, FirstFailure
<1>3. PICK g : IsTaking(g, c, m - 1)
  BY <1>2
<1> DEFINE f == [i \in 0..m |-> IF i = m THEN AfterTaking(g[m - 1]) ELSE g[i]]
<1>4. \A i \in 0..(m - 1) : g[i] = IF i = 0 THEN NoneTaken(c) ELSE AfterTaking(g[i - 1])
  BY <1>3 DEF IsTaking
<1>5. ASSUME NEW i \in 0..m
      PROVE  f[i] = IF i = 0 THEN NoneTaken(c) ELSE AfterTaking(f[i - 1])
  <2>1. i # 0 => i - 1 \in 0..m /\ i - 1 # m /\ f[i - 1] = g[i - 1]
    OBVIOUS
  <2>2. CASE i = m
    BY <2>1, <2>2
  <2>3. CASE i # m
    <3>1. i \in 0..(m - 1) /\ f[i] = g[i]
      BY <2>3
    <3>. QED BY <1>4, <2>1, <3>1
  <2>. QED BY <2>2, <2>3
<1>6. IsTaking(f, c, m)
  <2>1. f = [i \in 0..m |-> f[i]]
    OBVIOUS
  <2>. HIDE DEF f
  <2>2. [i \in 0..m |-> f[i]]
           = [i \in 0..m |-> IF i = 0 THEN NoneTaken(c) ELSE AfterTaking(f[i - 1])]
    BY <1>5
  <2>. QED BY <2>1, <2>2 DEF IsTaking
<1>. QED BY <1>2, <1>6

\* r is what Take gives when it has taken k events out of c.
Taken(c, r, k) ==
  /\ r.out \in Seq(Key) /\ Len(r.out) = k /\ Distinct(r.out)
  /\ Elements(r.out) \subseteq Calendar!HeldIn(c)
  /\ IsCalendar(r.cal) /\ Sound(r.cal) /\ Positioned(r.cal)
  /\ Calendar!HeldIn(r.cal) = Calendar!HeldIn(c) \ Elements(r.out)
  /\ r.cal.nBuckets = c.nBuckets /\ r.cal.width = c.width
  /\ r.cal.reverse = c.reverse /\ r.cal.qSize = c.qSize
  /\ IsFiniteSet(Calendar!HeldIn(r.cal))
  /\ Cardinality(Calendar!HeldIn(r.cal)) = Cardinality(Calendar!HeldIn(c)) - k

\* A new event at the end of the sample.
LEMMA ElementsOfAppend ==
  ASSUME NEW s \in Seq(Key), NEW ev \in Key, ev \notin Elements(s), Distinct(s)
  PROVE  /\ Append(s, ev) \in Seq(Key) /\ Len(Append(s, ev)) = Len(s) + 1
         /\ Distinct(Append(s, ev)) /\ Elements(Append(s, ev)) = Elements(s) \cup {ev}
<1> DEFINE t == Append(s, ev)
<1>1. /\ t \in Seq(Key) /\ Len(t) = Len(s) + 1 /\ Len(s) \in Nat
      /\ \A i \in 1..Len(s) : t[i] = s[i]
      /\ t[Len(s) + 1] = ev
  BY AppendProperties, LenProperties
<1> HIDE DEF t
<1>2. Distinct(t)
  <2> SUFFICES ASSUME NEW i \in 1..Len(t), NEW j \in 1..Len(t), i # j
               PROVE  t[i] # t[j]
    BY DEF Distinct
  <2>1. /\ i \in 1..Len(s) => t[i] = s[i] /\ s[i] \in Elements(s)
        /\ j \in 1..Len(s) => t[j] = s[j] /\ s[j] \in Elements(s)
    BY <1>1 DEF Elements
  <2>2. /\ i \notin 1..Len(s) => t[i] = ev /\ j \in 1..Len(s)
        /\ j \notin 1..Len(s) => t[j] = ev /\ i \in 1..Len(s)
    BY <1>1
  <2>3. i \in 1..Len(s) /\ j \in 1..Len(s) => s[i] # s[j]
    BY DEF Distinct
  <2>. QED BY <2>1, <2>2, <2>3
<1>3. Elements(t) = Elements(s) \cup {ev}
  <2>1. 1..Len(t) = 1..Len(s) \cup {Len(s) + 1}
    BY <1>1
  <2>. QED BY <1>1, <2>1 DEF Elements
<1>. QED BY <1>1, <1>2, <1>3 DEF t

\* Take takes out different events, as many as it is asked for.
LEMMA TakeTakes ==
  ASSUME NEW c, IsCalendar(c), Sound(c), Positioned(c), Counted(c),
         NEW n \in Nat, n <= c.qSize
  PROVE  Taken(c, Calendar!Take(c, n), n)
<1>1. PICK take : IsTaking(take, c, n) /\ Calendar!Take(c, n) = take[n]
  <2> DEFINE P == CHOOSE take : IsTaking(take, c, n)
  <2>1. IsTaking(P, c, n)
    BY TakingExists
  <2>2. Calendar!Take(c, n) = P[n]
    BY DEF Calendar!Take, IsTaking, NoneTaken, AfterTaking
  <2>. QED BY <2>1, <2>2
<1>2. take[0] = NoneTaken(c) /\ \A m \in 1..n : take[m] = AfterTaking(take[m - 1])
  BY <1>1 DEF IsTaking
<1>3. c.qSize = Cardinality(Calendar!HeldIn(c)) /\ c.qSize \in Nat
  BY DEF Counted, IsCalendar
<1>4. Taken(c, take[0], 0)
  <2>1. take[0].cal = c /\ take[0].out = <<>>
    BY <1>2 DEF NoneTaken
  <2>2. <<>> \in Seq(Key) /\ Len(<<>>) = 0 /\ Distinct(<<>>) /\ Elements(<<>>) = {}
    BY DEF Distinct, Elements
  <2>. QED BY <1>3, <2>1, <2>2 DEF Taken, Counted
<1>5. ASSUME NEW m \in 1..n, Taken(c, take[m - 1], m - 1) PROVE Taken(c, take[m], m)
  <2> DEFINE r == take[m - 1]
             q == take[m]
             next == Calendar!DoRemoveNext(r.cal)
             ev == next.ev
             d == next.cal
             H == Calendar!HeldIn(r.cal)
  <2>1. q.cal = d /\ q.out = Append(r.out, ev)
    <3>1. q = AfterTaking(r)
      BY <1>2
    <3> HIDE DEF q, r
    <3>. QED BY <3>1 DEF AfterTaking
  <2>2. Taken(c, r, m - 1)
    BY <1>5
  <2> HIDE DEF r, q
  <2>3. H # {}
    <3>1. Cardinality(H) > 0
      BY <1>3, <2>2 DEF Taken
    <3>. QED BY <3>1, FS_EmptySet
  <2>4. Advanced(r.cal, ev, d)
    BY <2>2, <2>3, DoRemoveNextAdvances DEF Taken
  <2> HIDE DEF next, ev, d
  <2>5. ev \in Key /\ ev \in H /\ Calendar!HeldIn(d) = H \ {ev}
    BY <2>4 DEF Advanced, IsEarliest
  <2>6. ev \notin Elements(r.out) /\ ev \in Calendar!HeldIn(c)
    BY <2>2, <2>5 DEF Taken
  <2>7. /\ q.out \in Seq(Key) /\ Len(q.out) = (m - 1) + 1 /\ Distinct(q.out)
        /\ Elements(q.out) = Elements(r.out) \cup {ev}
    BY <2>1, <2>2, <2>5, <2>6, ElementsOfAppend DEF Taken
  <2>8. /\ IsFiniteSet(Calendar!HeldIn(d))
        /\ Cardinality(Calendar!HeldIn(d)) = Cardinality(H) - 1
    BY <2>2, <2>5, FS_RemoveElement DEF Taken
  <2>9. Cardinality(Calendar!HeldIn(d)) = Cardinality(Calendar!HeldIn(c)) - m
    <3>1. Cardinality(H) = Cardinality(Calendar!HeldIn(c)) - (m - 1)
      BY <2>2 DEF Taken
    <3>. QED BY <1>3, <2>8, <3>1
  <2>10. Calendar!HeldIn(d) = Calendar!HeldIn(c) \ Elements(q.out)
    BY <2>2, <2>5, <2>7 DEF Taken
  <2>11. Elements(q.out) \subseteq Calendar!HeldIn(c)
    BY <2>2, <2>6, <2>7 DEF Taken
  <2>12. /\ IsCalendar(d) /\ Sound(d) /\ Positioned(d)
         /\ d.nBuckets = c.nBuckets /\ d.width = c.width
         /\ d.reverse = c.reverse /\ d.qSize = c.qSize
    BY <2>2, <2>4 DEF Taken, Advanced
  <2>13. Len(q.out) = m
    BY <2>7
  <2>14. Taken(c, q, m)
    BY <2>1, <2>7, <2>8, <2>9, <2>10, <2>11, <2>12, <2>13 DEF Taken
  <2>. QED BY <2>14 DEF q
<1>6. Taken(c, take[n], n)
  <2> DEFINE F == {m \in 0..n : ~Taken(c, take[m], m)}
  <2> SUFFICES ASSUME n \in F PROVE FALSE
    OBVIOUS
  <2>1. 0 \notin F
    BY <1>4
  <2>2. PICK m \in 1..n : m \in F /\ m - 1 \in 0..n /\ m - 1 \notin F
    BY <2>1, FirstFailure
  <2>. QED BY <1>5, <2>2
<1>. QED BY <1>1, <1>6

-----------------------------------------------------------------------------
(* CalendarScheduler: the sample put back.                                  *)

\* A sample has at least two events, and no more than there are.
LEMMA SampleSize ==
  ASSUME NEW c, IsCalendar(c), c.qSize >= 2
  PROVE  /\ Calendar!NumSamples(c) \in Nat
         /\ Calendar!NumSamples(c) >= 2 /\ Calendar!NumSamples(c) <= c.qSize
<1> DEFINE q == c.qSize
           a == IF q <= 5 THEN q ELSE 5 + (q \div 10)
           S == {25, a}
<1>1. q \in Nat /\ q >= 2
  BY DEF IsCalendar
<1>2. a \in Nat /\ a >= 2 /\ a <= q
  <2> DEFINE t == q \div 10
             r == q % 10
  <2>1. t \in Nat /\ r \in 0..9 /\ q = 10 * t + r
    <3>1. 10 \in Nat /\ 10 > 0
      OBVIOUS
    <3>2. q \div 10 \in Nat /\ q % 10 \in 0..(10 - 1) /\ q = 10 * (q \div 10) + (q % 10)
      BY <1>1, <3>1, Division
    <3>. QED BY <3>2
  <2>2. a = IF q <= 5 THEN q ELSE 5 + t
    OBVIOUS
  <2> HIDE DEF q, t, r, a
  <2>3. q > 5 => 5 + t <= q
    BY <1>1, <2>1
  <2>. QED BY <1>1, <2>1, <2>2, <2>3
<1> HIDE DEF a, q
<1>3. Calendar!Min(S) \in S /\ \A y \in S : Calendar!Min(S) <= y
  <2>1. S \subseteq Nat /\ S # {}
    BY <1>2
  <2>. QED BY <2>1, MinIsLeast
<1>4. Calendar!NumSamples(c) = Calendar!Min(S)
  BY DEF Calendar!NumSamples, a, q
<1>5. Calendar!Min(S) \in Nat /\ Calendar!Min(S) >= 2 /\ Calendar!Min(S) <= q
  BY <1>1, <1>2, <1>3
<1>. QED BY <1>4, <1>5 DEF q

\* Sampling leaves the calendar with the events and the position that it had.
LEMMA SamplingKeeps ==
  ASSUME NEW c, IsCalendar(c), Sound(c), Positioned(c), Counted(c)
  PROVE  /\ Becomes(c, Calendar!AfterSampling(c), Calendar!HeldIn(c))
         /\ Positioned(Calendar!AfterSampling(c))
<1>1. CASE c.qSize < 2
  BY <1>1 DEF Calendar!AfterSampling, Becomes, SameButBuckets
<1>2. CASE ~(c.qSize < 2)
  <2> DEFINE r == Calendar!Samples(c)
             p == Calendar!PutAll(r.cal, r.out)
             d == [p EXCEPT !.lastBucket = c.lastBucket, !.bucketTop = c.bucketTop,
                            !.lastPrio = c.lastPrio]
  <2>1. Calendar!AfterSampling(c) = d
    BY <1>2 DEF Calendar!AfterSampling
  <2>2. Taken(c, r, Calendar!NumSamples(c))
    <3>1. c.qSize >= 2
      BY <1>2 DEF IsCalendar
    <3>. QED BY <3>1, SampleSize, TakeTakes DEF Calendar!Samples
  <2> HIDE DEF r
  <2>3. Elements(r.out) \cap Calendar!HeldIn(r.cal) = {}
    BY <2>2 DEF Taken
  <2>4. Becomes(r.cal, p, Calendar!HeldIn(r.cal) \cup Elements(r.out))
    BY <2>2, <2>3, PutAllAdds DEF Taken
  <2> HIDE DEF p
  <2>5. Calendar!HeldIn(p) = Calendar!HeldIn(c)
    BY <2>2, <2>4 DEF Taken, Becomes
  <2>6. IsCalendar(p) /\ Sound(p)
    BY <2>4 DEF Becomes
  <2>7. /\ p.nBuckets = c.nBuckets /\ p.width = c.width
        /\ p.reverse = c.reverse /\ p.qSize = c.qSize
    BY <2>2, <2>4 DEF Taken, Becomes, SameButBuckets
  <2>8. /\ d.buckets = p.buckets /\ d.nBuckets = p.nBuckets /\ d.width = p.width
        /\ d.reverse = p.reverse /\ d.qSize = p.qSize
        /\ d.lastBucket = c.lastBucket /\ d.lastPrio = c.lastPrio
        /\ d.bucketTop = c.bucketTop
    BY <2>6 DEF IsCalendar
  <2>9. IsCalendar(d)
    <3>1. c.lastBucket \in Int /\ c.lastPrio \in Nat /\ c.bucketTop \in Int
      BY DEF IsCalendar
    <3>. QED BY <2>6, <2>8, <3>1 DEF IsCalendar
  <2>10. SameBuckets(p, d)
    BY <2>8 DEF SameBuckets
  <2> HIDE DEF d
  <2>11. Sound(d) /\ Calendar!HeldIn(d) = Calendar!HeldIn(c)
    BY <2>5, <2>6, <2>10, SoundBuckets
  <2>12. SameButBuckets(c, d)
    BY <2>7, <2>8 DEF SameButBuckets
  <2>13. Positioned(d)
    BY <2>11, <2>12 DEF Positioned, SameButBuckets, Calendar!Hash
  <2>. QED BY <2>1, <2>9, <2>11, <2>12, <2>13 DEF Becomes
<1>. QED BY <1>1, <1>2

-----------------------------------------------------------------------------
(* CalendarScheduler: the new width.                                        *)

\* The sum of the first n of s.
IsSumming(sum, s, n) ==
  sum = [k \in 0..n |-> IF k = 0 THEN 0 ELSE sum[k - 1] + s[k]]

\* There is such a function, for every number.
LEMMA SummingExists ==
  ASSUME NEW s, NEW n \in Nat
  PROVE  \E sum : IsSumming(sum, s, n)
<1> DEFINE F == {m \in 0..n : ~ \E sum : IsSumming(sum, s, m)}
<1> SUFFICES ASSUME n \in F PROVE FALSE
  OBVIOUS
<1>1. 0 \notin F
  <2>1. IsSumming([m \in 0..0 |-> 0], s, 0)
    BY DEF IsSumming
  <2>. QED BY <2>1
<1>2. PICK m \in 1..n : m \in F /\ m - 1 \in 0..n /\ m - 1 \notin F
  BY <1>1, FirstFailure
<1>3. PICK g : IsSumming(g, s, m - 1)
  BY <1>2
<1> DEFINE f == [i \in 0..m |-> IF i = m THEN g[m - 1] + s[m] ELSE g[i]]
<1>4. \A i \in 0..(m - 1) : g[i] = IF i = 0 THEN 0 ELSE g[i - 1] + s[i]
  BY <1>3 DEF IsSumming
<1>5. ASSUME NEW i \in 0..m
      PROVE  f[i] = IF i = 0 THEN 0 ELSE f[i - 1] + s[i]
  <2>1. i # 0 => i - 1 \in 0..m /\ i - 1 # m /\ f[i - 1] = g[i - 1]
    OBVIOUS
  <2>2. CASE i = m
    BY <2>1, <2>2
  <2>3. CASE i # m
    <3>1. i \in 0..(m - 1) /\ f[i] = g[i]
      BY <2>3
    <3>. QED BY <1>4, <2>1, <3>1
  <2>. QED BY <2>2, <2>3
<1>6. IsSumming(f, s, m)
  <2>1. f = [i \in 0..m |-> f[i]]
    OBVIOUS
  <2>. HIDE DEF f
  <2>2. [i \in 0..m |-> f[i]] = [i \in 0..m |-> IF i = 0 THEN 0 ELSE f[i - 1] + s[i]]
    BY <1>5
  <2>. QED BY <2>1, <2>2 DEF IsSumming
<1>. QED BY <1>2, <1>6

\* A sum of integers is one.
LEMMA TotalIsInteger ==
  ASSUME NEW n \in Nat, NEW s \in [1..n -> Int]
  PROVE  Calendar!Total(s) \in Int
<1>0. Len(s) = n
  <2>1. s \in Seq(Int) /\ DOMAIN s = 1..n
    OBVIOUS
  <2>. QED BY <2>1, LenProperties
<1>1. PICK sum : IsSumming(sum, s, n) /\ Calendar!Total(s) = sum[n]
  <2> DEFINE P == CHOOSE sum : IsSumming(sum, s, n)
  <2>1. IsSumming(P, s, n)
    BY SummingExists
  <2>2. Calendar!Total(s) = P[n]
    BY <1>0 DEF Calendar!Total, IsSumming
  <2>. QED BY <2>1, <2>2
<1>2. sum[0] = 0 /\ \A m \in 1..n : sum[m] = sum[m - 1] + s[m]
  BY <1>1 DEF IsSumming
<1> DEFINE F == {m \in 0..n : sum[m] \notin Int}
<1>3. 0 \notin F
  BY <1>2
<1>4. ASSUME n \in F PROVE FALSE
  <2>1. PICK m \in 1..n : m \in F /\ m - 1 \in 0..n /\ m - 1 \notin F
    BY <1>3, <1>4, FirstFailure
  <2>2. sum[m - 1] \in Int /\ s[m] \in Int /\ sum[m] = sum[m - 1] + s[m]
    BY <1>2, <2>1
  <2>. QED BY <2>1, <2>2
<1>. QED BY <1>1, <1>4

\* Whatever the separations, the new width is at least 1.
LEMMA NewWidthIsPositive ==
  ASSUME NEW c, IsCalendar(c), Sound(c), Positioned(c), Counted(c)
  PROVE  Calendar!CalculateNewWidth(c) \in Nat /\ Calendar!CalculateNewWidth(c) > 0
<1>1. CASE c.qSize < 2
  BY <1>1 DEF Calendar!CalculateNewWidth
<1>2. CASE ~(c.qSize < 2)
  <2> DEFINE out == Calendar!Samples(c).out
             n == Len(out) - 1
             diff == [k \in 1..n |-> out[k + 1].ts - out[k].ts]
             twiceAvg == (Calendar!Total(diff) \div n) * 2
             close == [k \in 1..n |-> IF diff[k] <= twiceAvg THEN diff[k] ELSE 0]
             T == {3 * Calendar!Total(close), 1}
  <2>1. Calendar!CalculateNewWidth(c) = Calendar!Max(T)
    BY <1>2 DEF Calendar!CalculateNewWidth
  <2>2. c.qSize >= 2
    BY <1>2 DEF IsCalendar
  <2>3. out \in Seq(Key) /\ Len(out) \in Nat /\ Len(out) >= 2
    BY <2>2, SampleSize, TakeTakes DEF Calendar!Samples, Taken
  <2> HIDE DEF out
  <2>4. n \in Nat /\ \A k \in 1..n : k \in 1..Len(out) /\ k + 1 \in 1..Len(out)
    BY <2>3
  <2>5. \A k \in 1..Len(out) : out[k].ts \in Nat
    BY <2>3, ElementOfSeq, KeysAreAnyKeys DEF AnyKey
  <2> HIDE DEF n
  <2>6. \A k \in 1..n : out[k + 1].ts - out[k].ts \in Int
    BY <2>4, <2>5
  <2>7. diff \in [1..n -> Int]
    BY <2>6
  <2> HIDE DEF diff, twiceAvg
  <2>8. close \in [1..n -> Int]
    BY <2>7
  <2>9. Calendar!Total(close) \in Int
    BY <2>4, <2>8, TotalIsInteger
  <2> DEFINE t == 3 * Calendar!Total(close)
  <2>10. t \in Int
    BY <2>9
  <2> HIDE DEF t, close
  <2>11. T = {t, 1}
    BY DEF t
  <2>12. \E x \in T : \A y \in T : x >= y
    BY <2>10, <2>11
  <2>13. Calendar!Max(T) \in T /\ \A y \in T : Calendar!Max(T) >= y
    BY <2>12 DEF Calendar!Max
  <2>14. Calendar!Max(T) \in Int /\ Calendar!Max(T) >= 1
    BY <2>10, <2>11, <2>13
  <2>. QED BY <2>1, <2>14
<1>. QED BY <1>1, <1>2

-----------------------------------------------------------------------------
(* CalendarScheduler: starting anew.                                        *)

\* The calendar d starts anew at the time ts: it is empty and in position.
StartsAnew(c, d, n, w, ts) ==
  /\ IsCalendar(d) /\ Sound(d) /\ Positioned(d) /\ Calendar!HeldIn(d) = {}
  /\ d.nBuckets = n /\ d.width = w /\ d.lastPrio = ts
  /\ d.qSize = c.qSize /\ d.reverse = c.reverse

\* StartAt does that, from whatever buckets.
LEMMA StartAtStartsAnew ==
  ASSUME NEW c, NEW B,
         c \in [buckets : B, nBuckets : Nat, width : Nat, lastPrio : Nat, lastBucket : Int,
                bucketTop : Int, qSize : Nat, reverse : BOOLEAN],
         NEW n \in Nat, n > 0, NEW w \in Nat, w > 0, NEW ts \in Nat
  PROVE  StartsAnew(c, Calendar!StartAt(c, n, w, ts), n, w, ts)
<1> DEFINE d == Calendar!StartAt(c, n, w, ts)
<1>1. /\ d.buckets = [b \in 0..(n - 1) |-> <<>>] /\ d.nBuckets = n /\ d.width = w
      /\ d.lastPrio = ts /\ d.lastBucket = (ts \div w) % n
      /\ d.bucketTop = (ts \div w + 1) * w /\ d.qSize = c.qSize /\ d.reverse = c.reverse
  BY DEF Calendar!StartAt
<1>2. (ts \div w) \in Nat /\ (ts \div w) % n \in Int /\ (ts \div w + 1) * w \in Int
  <2>1. (ts \div w) \in Nat
    BY Division
  <2> DEFINE q == ts \div w
  <2> HIDE DEF q
  <2>2. q \in Nat => (q % n) \in 0..(n - 1) /\ (q + 1) * w \in Int
    BY Division
  <2>. QED BY <2>1, <2>2 DEF q
<1>3. [b \in 0..(n - 1) |-> <<>>] \in [0..(n - 1) -> Seq(Key)]
  OBVIOUS
<1>4. IsCalendar(d)
  <2>1. d \in [buckets : [0..(n - 1) -> Seq(Key)], nBuckets : Nat, width : Nat,
               lastPrio : Nat, lastBucket : Int, bucketTop : Int, qSize : Nat,
               reverse : BOOLEAN]
    BY <1>2, <1>3 DEF Calendar!StartAt
  <2>. QED BY <1>1, <2>1 DEF IsCalendar
<1> HIDE DEF d
<1>5. \A b \in Bucket(d) : d.buckets[b] = <<>>
  BY <1>1 DEF Bucket
<1>6. \A b \in Bucket(d) : Elements(d.buckets[b]) = {} /\ InOrder(d.reverse, d.buckets[b])
  BY <1>5 DEF Elements, InOrder
<1>7. Calendar!HeldIn(d) = {}
  BY <1>4, <1>6, HeldInBuckets
<1>8. Sound(d)
  BY <1>6 DEF Sound
<1>9. Positioned(d)
  BY <1>1, <1>7 DEF Positioned, Calendar!Hash
<1>. QED BY <1>1, <1>4, <1>7, <1>8, <1>9 DEF d, StartsAnew

-----------------------------------------------------------------------------
(* CalendarScheduler: resizing.                                             *)

\* The first n buckets of old put into c one after the other.
IsMoving(moved, c, old, n) ==
  moved = [m \in 0..n |-> IF m = 0 THEN c
                          ELSE Calendar!PutAll(moved[m - 1], old.buckets[m - 1])]

\* There is such a function, for every number.
LEMMA MovingExists ==
  ASSUME NEW c, NEW old, NEW n \in Nat
  PROVE  \E moved : IsMoving(moved, c, old, n)
<1> DEFINE F == {m \in 0..n : ~ \E moved : IsMoving(moved, c, old, m)}
           After(d, m) == Calendar!PutAll(d, old.buckets[m - 1])
<1> SUFFICES ASSUME n \in F PROVE FALSE
  OBVIOUS
<1>1. 0 \notin F
  <2>1. IsMoving([m \in 0..0 |-> c], c, old, 0)
    BY DEF IsMoving
  <2>. QED BY <2>1
<1>2. PICK m \in 1..n : m \in F /\ m - 1 \in 0..n /\ m - 1 \notin F
  BY <1>1, FirstFailure
<1>3. PICK g : IsMoving(g, c, old, m - 1)
  BY <1>2
<1> DEFINE f == [i \in 0..m |-> IF i = m THEN After(g[m - 1], m) ELSE g[i]]
<1>4. \A i \in 0..(m - 1) : g[i] = IF i = 0 THEN c ELSE After(g[i - 1], i)
  BY <1>3 DEF IsMoving
<1>5. ASSUME NEW i \in 0..m
      PROVE  f[i] = IF i = 0 THEN c ELSE After(f[i - 1], i)
  <2> HIDE DEF After
  <2>1. i # 0 => i - 1 \in 0..m /\ i - 1 # m /\ f[i - 1] = g[i - 1]
    OBVIOUS
  <2>2. CASE i = m
    BY <2>1, <2>2
  <2>3. CASE i # m
    <3>1. i \in 0..(m - 1) /\ f[i] = g[i]
      BY <2>3
    <3>. QED BY <1>4, <2>1, <3>1
  <2>. QED BY <2>2, <2>3
<1>6. IsMoving(f, c, old, m)
  <2>1. f = [i \in 0..m |-> f[i]]
    OBVIOUS
  <2>. HIDE DEF f
  <2>2. [i \in 0..m |-> f[i]] = [i \in 0..m |-> IF i = 0 THEN c ELSE After(f[i - 1], i)]
    BY <1>5
  <2>. QED BY <2>1, <2>2 DEF IsMoving
<1>. QED BY <1>2, <1>6

\* The events of the first n buckets of a calendar.
InFirst(old, n) == UNION {Elements(old.buckets[b]) : b \in 0..(n - 1)}

\* PutBuckets moves all the events of a calendar into an empty one.
LEMMA PutBucketsMoves ==
  ASSUME NEW old, IsCalendar(old), Sound(old),
         NEW c, IsCalendar(c), Sound(c), Calendar!HeldIn(c) = {}
  PROVE  Becomes(c, Calendar!PutBuckets(c, old), Calendar!HeldIn(old))
<1> DEFINE n == old.nBuckets
<1>1. n \in Nat /\ \A b \in Bucket(old) : old.buckets[b] \in Seq(Key)
  BY DEF IsCalendar, Bucket
<1>2. PICK moved : IsMoving(moved, c, old, n) /\ Calendar!PutBuckets(c, old) = moved[n]
  <2> DEFINE P == CHOOSE moved : IsMoving(moved, c, old, n)
  <2>1. IsMoving(P, c, old, n)
    BY <1>1, MovingExists
  <2>2. Calendar!PutBuckets(c, old) = P[n]
    BY DEF Calendar!PutBuckets, IsMoving
  <2>. QED BY <2>1, <2>2
<1>3. /\ moved[0] = c
      /\ \A m \in 1..n : moved[m] = Calendar!PutAll(moved[m - 1], old.buckets[m - 1])
  BY <1>1, <1>2 DEF IsMoving
<1> HIDE DEF n
<1> DEFINE Good(m) == Becomes(c, moved[m], InFirst(old, m))
<1>4. Good(0)
  <2>1. InFirst(old, 0) = {}
    BY DEF InFirst
  <2>. QED BY <1>3, <2>1 DEF Becomes, SameButBuckets
<1>5. ASSUME NEW m \in 1..n, Good(m - 1) PROVE Good(m)
  <2> DEFINE d == moved[m - 1]
             e == moved[m]
             s == old.buckets[m - 1]
  <2>1. /\ IsCalendar(d) /\ Sound(d) /\ SameButBuckets(c, d)
        /\ Calendar!HeldIn(d) = InFirst(old, m - 1)
    BY <1>5 DEF Becomes
  <2>2. m - 1 \in Bucket(old) /\ s \in Seq(Key)
    BY <1>1 DEF Bucket, n
  <2>3. Distinct(s)
    <3> SUFFICES ASSUME NEW i \in 1..Len(s), NEW j \in 1..Len(s), i # j
                 PROVE  s[i] # s[j]
      BY DEF Distinct
    <3>0. Len(s) \in Nat /\ InOrder(old.reverse, s)
      BY <2>2, LenProperties DEF Sound
    <3>1. /\ i < j \/ j < i
          /\ s[i] \in Key /\ s[j] \in Key /\ old.reverse \in BOOLEAN
      <4>1. i < j \/ j < i
        BY <3>0
      <4>2. s[i] \in Key /\ s[j] \in Key
        BY <2>2, ElementOfSeq
      <4>. QED BY <4>1, <4>2 DEF IsCalendar
    <3>2. Before(old.reverse, s[i], s[j]) \/ Before(old.reverse, s[j], s[i])
      BY <3>0, <3>1 DEF InOrder
    <3>3. /\ Before(old.reverse, s[i], s[j]) => s[i] # s[j]
          /\ Before(old.reverse, s[j], s[i]) => s[j] # s[i]
      BY <3>1, BeforeAsymmetric
    <3>. QED BY <3>2, <3>3
  <2>4. Elements(s) \cap Calendar!HeldIn(d) = {}
    <3> SUFFICES ASSUME NEW x \in Elements(s), NEW b \in 0..((m - 1) - 1),
                        x \in Elements(old.buckets[b])
                 PROVE  FALSE
      BY <2>1 DEF InFirst
    <3>1. b \in Bucket(old) /\ b # m - 1
      <4>1. b \in 0..(n - 1) /\ b # m - 1
        BY <1>1
      <4>. QED BY <4>1 DEF Bucket, n
    <3>2. Calendar!Hash(old, x.ts) = b /\ Calendar!Hash(old, x.ts) = m - 1
      BY <2>2, <3>1 DEF Sound
    <3>. QED BY <3>1, <3>2
  <2>5. e = Calendar!PutAll(d, s)
    BY <1>3
  <2>6. InFirst(old, m) = InFirst(old, m - 1) \cup Elements(s)
    <3>1. 0..(m - 1) = 0..((m - 1) - 1) \cup {m - 1}
      BY <1>1
    <3>. QED BY <3>1 DEF InFirst
  <2> HIDE DEF d, e, s
  <2>7. Becomes(d, e, Calendar!HeldIn(d) \cup Elements(s))
    BY <2>1, <2>2, <2>3, <2>4, <2>5, PutAllAdds
  <2>8. SameButBuckets(c, e)
    BY <2>1, <2>7 DEF Becomes, SameButBuckets
  <2>9. Becomes(c, e, InFirst(old, m))
    BY <2>1, <2>6, <2>7, <2>8 DEF Becomes
  <2>. QED BY <2>9 DEF e
<1>6. Good(n)
  <2> DEFINE F == {m \in 0..n : ~Good(m)}
  <2> SUFFICES ASSUME n \in F PROVE FALSE
    BY <1>1
  <2>1. 0 \notin F
    BY <1>4
  <2>2. PICK m \in 1..n : m \in F /\ m - 1 \in 0..n /\ m - 1 \notin F
    <3> HIDE DEF Good
    <3>. QED BY <1>1, <2>1, FirstFailure
  <2>. QED BY <1>5, <2>2
<1>7. InFirst(old, n) = Calendar!HeldIn(old)
  BY HeldInBuckets DEF InFirst, Bucket, n
<1>. QED BY <1>2, <1>6, <1>7

\* The calendar c has become d with another number of buckets.
Resized(c, d, newSize) ==
  /\ IsCalendar(d) /\ Sound(d) /\ Positioned(d)
  /\ Calendar!HeldIn(d) = Calendar!HeldIn(c)
  /\ d.nBuckets = newSize /\ d.lastPrio = c.lastPrio
  /\ d.qSize = c.qSize /\ d.reverse = c.reverse

\* Resize loses no event and puts each where it belongs under the new width.
LEMMA ResizeKeeps ==
  ASSUME NEW c, IsCalendar(c), Sound(c), Positioned(c), Counted(c),
         NEW newSize \in Nat, newSize > 0
  PROVE  Resized(c, Calendar!Resize(c, newSize), newSize)
<1> DEFINE old == Calendar!AfterSampling(c)
           w == Calendar!CalculateNewWidth(c)
           e == Calendar!StartAt(old, newSize, w, old.lastPrio)
           d == Calendar!PutBuckets(e, old)
<1>1. Becomes(c, old, Calendar!HeldIn(c)) /\ Positioned(old)
  BY SamplingKeeps
<1>2. w \in Nat /\ w > 0
  BY NewWidthIsPositive
<1>3. Calendar!Resize(c, newSize) = d
  BY DEF Calendar!Resize
<1> HIDE DEF old, w
<1>4. /\ IsCalendar(old) /\ Sound(old) /\ old.lastPrio \in Nat
      /\ old.lastPrio = c.lastPrio /\ old.qSize = c.qSize /\ old.reverse = c.reverse
      /\ Calendar!HeldIn(old) = Calendar!HeldIn(c)
  BY <1>1 DEF Becomes, SameButBuckets, IsCalendar
<1>5. /\ IsCalendar(e) /\ Sound(e) /\ Positioned(e) /\ Calendar!HeldIn(e) = {}
      /\ e.nBuckets = newSize /\ e.width = w /\ e.lastPrio = old.lastPrio
      /\ e.qSize = old.qSize /\ e.reverse = old.reverse
  <2>1. StartsAnew(old, e, newSize, w, old.lastPrio)
    BY <1>2, <1>4, StartAtStartsAnew DEF IsCalendar
  <2> HIDE DEF e
  <2>. QED BY <2>1 DEF StartsAnew
<1> HIDE DEF e
<1>6. Becomes(e, d, Calendar!HeldIn(old))
  BY <1>4, <1>5, PutBucketsMoves
<1> HIDE DEF d
<1>7. Positioned(d)
  <2>1. \A x \in Calendar!HeldIn(d) : x.ts >= d.lastPrio
    BY <1>1, <1>4, <1>5, <1>6 DEF Positioned, Becomes, SameButBuckets
  <2>. QED BY <1>5, <1>6, <2>1 DEF Positioned, Becomes, SameButBuckets, Calendar!Hash
<1>. QED BY <1>3, <1>4, <1>5, <1>6, <1>7 DEF Resized, Becomes, SameButBuckets

-----------------------------------------------------------------------------
(* CalendarScheduler: what its operations keep, and the two resizes.        *)

Sizes == {1, 2, 4, 8, 16, 32, 64, 128, 256, 512, 1024, 2048, 4096, 8192, 16384, 32768}

\* What every operation of the calendar keeps.
CalendarOK(c) ==
  /\ IsCalendar(c) /\ Sound(c) /\ Positioned(c) /\ Counted(c)
  /\ c.nBuckets \in Sizes /\ c.nBuckets <= MaxBuckets

\* The number of buckets fits the number of events, see FollowsLoad.
Loaded(c) ==
  /\ c.qSize <= 2 * c.nBuckets \/ c.nBuckets = MaxBuckets
  /\ c.nBuckets <= 2 \/ c.nBuckets \div 2 <= c.qSize

\* The calendar with another count.
LEMMA Recounted ==
  ASSUME NEW p, IsCalendar(p), Sound(p), Positioned(p), NEW q \in Nat
  PROVE  LET d == [p EXCEPT !.qSize = q]
         IN  /\ IsCalendar(d) /\ Sound(d) /\ Positioned(d)
             /\ Calendar!HeldIn(d) = Calendar!HeldIn(p)
             /\ d.nBuckets = p.nBuckets /\ d.lastPrio = p.lastPrio /\ d.qSize = q
<1> DEFINE d == [p EXCEPT !.qSize = q]
<1>1. /\ d.buckets = p.buckets /\ d.nBuckets = p.nBuckets /\ d.width = p.width
      /\ d.lastPrio = p.lastPrio /\ d.lastBucket = p.lastBucket
      /\ d.bucketTop = p.bucketTop /\ d.reverse = p.reverse /\ d.qSize = q
  BY DEF IsCalendar
<1>2. IsCalendar(d)
  BY <1>1 DEF IsCalendar
<1>. HIDE DEF d
<1>3. /\ Sound(d) /\ Calendar!HeldIn(d) = Calendar!HeldIn(p)
      /\ \A ts : Calendar!Hash(d, ts) = Calendar!Hash(p, ts)
  <2>1. SameBuckets(p, d)
    BY <1>1 DEF SameBuckets
  <2>. QED BY <2>1, SoundBuckets
<1>4. Positioned(d)
  BY <1>1, <1>3 DEF Positioned
<1>. QED BY <1>1, <1>2, <1>3, <1>4 DEF d

\* A count is zero exactly when nothing is held.
LEMMA CountedIsNatural ==
  ASSUME NEW c, Counted(c)
  PROVE  c.qSize \in Nat /\ (c.qSize = 0 <=> Calendar!HeldIn(c) = {})
BY FS_CardinalityType, FS_EmptySet DEF Counted

\* What ResizeUp and ResizeDown make of the number of buckets.
UpSize(c) == IF c.qSize > 2 * c.nBuckets /\ c.nBuckets < MaxBuckets
             THEN 2 * c.nBuckets ELSE c.nBuckets
DownSize(c) == IF c.qSize < c.nBuckets \div 2 THEN c.nBuckets \div 2 ELSE c.nBuckets

\* ResizeUp keeps the events and a number of buckets within the limit.
LEMMA ResizeUpKeeps ==
  ASSUME NEW c, CalendarOK(c)
  PROVE  /\ Resized(c, Calendar!ResizeUp(c), UpSize(c))
         /\ UpSize(c) \in Sizes /\ UpSize(c) <= MaxBuckets
<1>1. IsCalendar(c) /\ Sound(c) /\ Positioned(c) /\ Counted(c)
  BY DEF CalendarOK
<1>2. CASE c.qSize > 2 * c.nBuckets /\ c.nBuckets < MaxBuckets
  <2>1. 2 * c.nBuckets \in Nat /\ 2 * c.nBuckets > 0
    BY DEF CalendarOK, IsCalendar
  <2>2. Calendar!ResizeUp(c) = Calendar!Resize(c, 2 * c.nBuckets)
    BY <1>2 DEF Calendar!ResizeUp
  <2>3. 2 * c.nBuckets \in Sizes /\ 2 * c.nBuckets <= MaxBuckets
    BY <1>2, MaxBucketsAssumption DEF CalendarOK, Sizes
  <2> DEFINE n == 2 * c.nBuckets
  <2>4. n \in Nat /\ n > 0 /\ UpSize(c) = n
    BY <1>2, <2>1 DEF UpSize
  <2> HIDE DEF n
  <2>5. Resized(c, Calendar!Resize(c, n), n)
    BY <1>1, <2>4, ResizeKeeps
  <2>. QED BY <2>2, <2>3, <2>4, <2>5 DEF n
<1>3. CASE ~(c.qSize > 2 * c.nBuckets /\ c.nBuckets < MaxBuckets)
  BY <1>1, <1>3 DEF Calendar!ResizeUp, UpSize, Resized, CalendarOK
<1>. QED BY <1>2, <1>3

\* ResizeDown likewise, and never goes down to no bucket at all.
LEMMA ResizeDownKeeps ==
  ASSUME NEW c, CalendarOK(c)
  PROVE  /\ Resized(c, Calendar!ResizeDown(c), DownSize(c))
         /\ DownSize(c) \in Sizes /\ DownSize(c) <= MaxBuckets
<1>1. IsCalendar(c) /\ Sound(c) /\ Positioned(c) /\ Counted(c)
  BY DEF CalendarOK
<1>2. CASE c.qSize < c.nBuckets \div 2
  <2> DEFINE n == c.nBuckets \div 2
  <2>1. n \in Sizes /\ n <= MaxBuckets
    <3>1. c.qSize \in Nat /\ c.nBuckets \in Sizes /\ c.nBuckets <= MaxBuckets
      BY DEF CalendarOK, IsCalendar
    <3>. QED BY <1>2, <3>1, MaxBucketsAssumption DEF Sizes
  <2>2. Calendar!ResizeDown(c) = Calendar!Resize(c, n)
    BY <1>2 DEF Calendar!ResizeDown
  <2>3. DownSize(c) = n
    BY <1>2 DEF DownSize
  <2> HIDE DEF n
  <2>4. n \in Nat /\ n > 0
    BY <2>1 DEF Sizes
  <2>5. Resized(c, Calendar!Resize(c, n), n)
    BY <1>1, <2>4, ResizeKeeps
  <2>. QED BY <2>1, <2>2, <2>3, <2>5
<1>3. CASE ~(c.qSize < c.nBuckets \div 2)
  BY <1>1, <1>3 DEF Calendar!ResizeDown, DownSize, Resized, CalendarOK
<1>. QED BY <1>2, <1>3

\* Resized, a calendar is as good as before.
LEMMA ResizedOK ==
  ASSUME NEW c, CalendarOK(c), NEW d, NEW n \in Sizes, n <= MaxBuckets, Resized(c, d, n)
  PROVE  CalendarOK(d)
BY DEF CalendarOK, Resized, Counted

-----------------------------------------------------------------------------
(* CalendarScheduler: its operations.                                       *)

\* The calendar after a call, with the events H and the last time ts.
CalendarNow(H, ts) ==
  CalendarOK(cal') /\ Loaded(cal') /\ Calendar!HeldIn(cal') = H /\ cal'.lastPrio = ts

\* Insert adds its event and keeps the last time.
LEMMA CalendarInsert ==
  ASSUME CalendarOK(cal), Loaded(cal), NEW ev \in Key, Calendar!Insert(ev)
  PROVE  CalendarNow(Calendar!Held \cup {ev}, cal.lastPrio)
<1> DEFINE p == Calendar!DoInsert(cal, ev)
           c == [p EXCEPT !.qSize = cal.qSize + 1]
           H == Calendar!HeldIn(cal)
<1>1. /\ ev \notin H /\ ev.ts >= cal.lastPrio
      /\ cal' = Calendar!ResizeUp([p EXCEPT !.qSize = @ + 1])
  BY DEF Calendar!Insert, Calendar!Held
<1>2. IsCalendar(cal) /\ Sound(cal) /\ Positioned(cal) /\ Counted(cal) /\ cal.qSize \in Nat
  BY DEF CalendarOK, IsCalendar
<1>3. Becomes(cal, p, H \cup {ev})
  BY <1>1, <1>2, DoInsertAdds
<1> HIDE DEF p
<1>4. IsCalendar(p) /\ Sound(p) /\ SameButBuckets(cal, p) /\ Calendar!HeldIn(p) = H \cup {ev}
  BY <1>3 DEF Becomes
<1>5. Positioned(p)
  BY <1>1, <1>2, <1>4 DEF Positioned, SameButBuckets, Calendar!Hash
<1>6. /\ IsCalendar(c) /\ Sound(c) /\ Positioned(c) /\ Calendar!HeldIn(c) = H \cup {ev}
      /\ c.nBuckets = cal.nBuckets /\ c.lastPrio = cal.lastPrio /\ c.qSize = cal.qSize + 1
  <2>1. cal.qSize + 1 \in Nat
    BY <1>2
  <2>. QED BY <1>4, <1>5, <2>1, Recounted DEF SameButBuckets
<1>7. cal' = Calendar!ResizeUp(c)
  BY <1>1, <1>4 DEF SameButBuckets
<1> HIDE DEF c, H
<1>8. Counted(c)
  <2>1. /\ IsFiniteSet(H \cup {ev})
        /\ Cardinality(H \cup {ev}) = Cardinality(H) + 1
    BY <1>1, <1>2, FS_AddElement DEF Counted, H
  <2>. QED BY <1>2, <1>6, <2>1 DEF Counted, H
<1>9. CalendarOK(c)
  BY <1>6, <1>8 DEF CalendarOK
<1>10. /\ Resized(c, cal', UpSize(c))
       /\ UpSize(c) \in Sizes /\ UpSize(c) <= MaxBuckets
  BY <1>7, <1>9, ResizeUpKeeps
<1>11. CalendarOK(cal')
  BY <1>9, <1>10, ResizedOK
<1>12. Loaded(cal')
  <2>1. cal'.nBuckets = UpSize(c) /\ cal'.qSize = cal.qSize + 1
    BY <1>6, <1>10 DEF Resized
  <2> DEFINE n == cal.nBuckets
             q == cal.qSize
  <2>2. /\ n \in Sizes /\ n <= MaxBuckets /\ q \in Nat
        /\ q <= 2 * n \/ n = MaxBuckets
        /\ n <= 2 \/ n \div 2 <= q
    BY <1>2 DEF Loaded, CalendarOK
  <2>3. UpSize(c) = IF q + 1 > 2 * n /\ n < MaxBuckets THEN 2 * n ELSE n
    BY <1>6 DEF UpSize
  <2> DEFINE m == cal'.nBuckets
  <2>4. m = UpSize(c) /\ cal'.qSize = q + 1
    BY <2>1
  <2> HIDE DEF n, q, m
  <2>5. m \in Sizes
    BY <1>10, <2>4
  <2>6. q + 1 <= 2 * m \/ m = MaxBuckets
    BY <2>2, <2>3, <2>4, MaxBucketsAssumption DEF Sizes
  <2>7. m <= 2 \/ m \div 2 <= q + 1
    BY <2>2, <2>3, <2>4, <2>5, MaxBucketsAssumption DEF Sizes
  <2>. QED BY <2>4, <2>6, <2>7 DEF Loaded, m
<1>. QED BY <1>6, <1>10, <1>11, <1>12 DEF CalendarNow, Resized, H, Calendar!Held

\* One event less, and fewer buckets if they are now too many.
LEMMA OneLess ==
  ASSUME CalendarOK(cal), Loaded(cal), NEW ev \in Calendar!Held,
         NEW p, IsCalendar(p), Sound(p), Positioned(p),
         Calendar!HeldIn(p) = Calendar!Held \ {ev},
         p.nBuckets = cal.nBuckets, p.qSize = cal.qSize,
         cal' = Calendar!ResizeDown([p EXCEPT !.qSize = @ - 1])
  PROVE  CalendarNow(Calendar!Held \ {ev}, p.lastPrio)
<1> DEFINE c == [p EXCEPT !.qSize = cal.qSize - 1]
           H == Calendar!HeldIn(cal)
<1>1. IsCalendar(cal) /\ Counted(cal) /\ cal.qSize \in Nat
  BY DEF CalendarOK, IsCalendar
<1>2. ev \in H /\ Calendar!HeldIn(p) = H \ {ev}
  BY DEF Calendar!Held
<1> HIDE DEF H
<1>3. cal.qSize # 0
  BY <1>1, <1>2, CountedIsNatural DEF H
<1>4. /\ IsCalendar(c) /\ Sound(c) /\ Positioned(c) /\ Calendar!HeldIn(c) = H \ {ev}
      /\ c.nBuckets = cal.nBuckets /\ c.lastPrio = p.lastPrio /\ c.qSize = cal.qSize - 1
  <2>1. cal.qSize - 1 \in Nat
    BY <1>1, <1>3
  <2>. QED BY <1>2, <2>1, Recounted
<1>5. cal' = Calendar!ResizeDown(c)
  OBVIOUS
<1> HIDE DEF c
<1>6. Counted(c)
  <2>1. /\ IsFiniteSet(H \ {ev})
        /\ Cardinality(H \ {ev}) = Cardinality(H) - 1
    BY <1>1, <1>2, FS_RemoveElement DEF Counted, H
  <2>. QED BY <1>1, <1>4, <2>1 DEF Counted, H
<1>7. CalendarOK(c)
  BY <1>4, <1>6 DEF CalendarOK
<1>8. /\ Resized(c, cal', DownSize(c))
      /\ DownSize(c) \in Sizes /\ DownSize(c) <= MaxBuckets
  BY <1>5, <1>7, ResizeDownKeeps
<1>9. CalendarOK(cal')
  BY <1>7, <1>8, ResizedOK
<1>10. Loaded(cal')
  <2>1. cal'.nBuckets = DownSize(c) /\ cal'.qSize = cal.qSize - 1
    BY <1>4, <1>8 DEF Resized
  <2> DEFINE n == cal.nBuckets
             q == cal.qSize
  <2>2. /\ n \in Sizes /\ n <= MaxBuckets /\ q \in Nat /\ q # 0
        /\ q <= 2 * n \/ n = MaxBuckets
        /\ n <= 2 \/ n \div 2 <= q
    BY <1>1, <1>3 DEF Loaded, CalendarOK
  <2>3. DownSize(c) = IF q - 1 < n \div 2 THEN n \div 2 ELSE n
    BY <1>4 DEF DownSize
  <2> DEFINE m == cal'.nBuckets
  <2>4. m = DownSize(c) /\ cal'.qSize = q - 1
    BY <2>1
  <2> HIDE DEF n, q, m
  <2>5. m \in Sizes
    BY <1>8, <2>4
  <2>6. q - 1 <= 2 * m \/ m = MaxBuckets
    BY <2>2, <2>3, <2>4, MaxBucketsAssumption DEF Sizes
  <2>7. m <= 2 \/ m \div 2 <= q - 1
    BY <2>2, <2>3, <2>4, <2>5, MaxBucketsAssumption DEF Sizes
  <2>. QED BY <2>4, <2>6, <2>7 DEF Loaded, m
<1>. QED BY <1>4, <1>8, <1>9, <1>10 DEF CalendarNow, Resized, H, Calendar!Held

\* RemoveNext takes out the earliest event, whose time becomes the last.
LEMMA CalendarRemoveNext ==
  ASSUME CalendarOK(cal), Loaded(cal), Calendar!RemoveNext
  PROVE  \E ev \in Calendar!Held :
             /\ ev \in Key /\ IsEarliest(ev, Calendar!Held)
             /\ calCall' = {<<"RemoveNext", ev>>}
             /\ CalendarNow(Calendar!Held \ {ev}, ev.ts)
<1> DEFINE next == Calendar!DoRemoveNext(cal)
           ev == next.ev
           p == next.cal
<1>1. /\ calCall' = {<<"RemoveNext", ev>>}
      /\ cal' = Calendar!ResizeDown([p EXCEPT !.qSize = @ - 1])
      /\ cal.qSize # 0
  BY DEF Calendar!RemoveNext
<1>2. Advanced(cal, ev, p)
  <2>1. Calendar!HeldIn(cal) # {}
    BY <1>1, CountedIsNatural DEF CalendarOK
  <2>. QED BY <2>1, DoRemoveNextAdvances DEF CalendarOK
<1> HIDE DEF next, ev, p
<1>3. /\ ev \in Key /\ ev \in Calendar!Held /\ IsEarliest(ev, Calendar!Held)
      /\ IsCalendar(p) /\ Sound(p) /\ Positioned(p)
      /\ Calendar!HeldIn(p) = Calendar!Held \ {ev}
      /\ p.nBuckets = cal.nBuckets /\ p.qSize = cal.qSize /\ p.lastPrio = ev.ts
  BY <1>2 DEF Advanced, IsEarliest, Calendar!Held
<1>4. CalendarNow(Calendar!Held \ {ev}, p.lastPrio)
  BY <1>1, <1>3, OneLess
<1>. QED BY <1>1, <1>3, <1>4

\* Remove finds its event, and nothing else, in the bucket of the event's time.
LEMMA EraseTakesOut ==
  ASSUME NEW c, IsCalendar(c), Sound(c), NEW ev \in Calendar!HeldIn(c)
  PROVE  Becomes(c, Calendar!Erase(c, ev), Calendar!HeldIn(c) \ {ev})
<1> DEFINE b == Calendar!Hash(c, ev.ts)
           s == c.buckets[b]
           S == {i \in DOMAIN s : s[i].uid = ev.uid}
           k == Calendar!Min(S)
           t == WithoutAt(s, k)
<1>1. /\ ev \in Key /\ b \in Bucket(c) /\ ev \in Elements(s)
      /\ s \in Seq(Key) /\ c.reverse \in BOOLEAN
  <2>1. ev \in Key /\ b \in Bucket(c) /\ ev \in Elements(s)
    BY HeldWhereHashed
  <2>2. c.reverse \in BOOLEAN /\ c.buckets \in [Bucket(c) -> Seq(Key)]
    BY DEF IsCalendar, Bucket
  <2>. QED BY <2>1, <2>2
<1>2. Calendar!Erase(c, ev) = [c EXCEPT !.buckets[b] = t]
  BY DEF Calendar!Erase, Calendar!Seqs!RemoveAt, WithoutAt
<1>3. InOrder(c.reverse, s) /\ \A x \in Elements(s) : Calendar!Hash(c, x.ts) = b
  BY <1>1 DEF Sound
<1>5. DOMAIN s = 1..Len(s) /\ \A i \in 1..Len(s) : s[i] \in Key
  BY <1>1, ElementOfSeq
<1> HIDE DEF b, s
<1>4. Elements(s) = Elements(c.buckets[b]) /\ Elements(s) \subseteq Calendar!HeldIn(c)
  BY <1>1, HeldInBuckets DEF s
<1>6. k \in 1..Len(s) /\ s[k] = ev
  <2>1. PICK i \in 1..Len(s) : s[i] = ev
    BY <1>1 DEF Elements
  <2>2. i \in S /\ S \subseteq Nat
    BY <1>5, <2>1
  <2>3. k \in S
    BY <2>2, MinIsLeast
  <2>4. k \in 1..Len(s) /\ s[k].uid = ev.uid
    BY <1>5, <2>3
  <2>. QED BY <1>1, <1>5, <2>4, KeyAssumption
<1> HIDE DEF k
<1>7. /\ t \in Seq(Key) /\ InOrder(c.reverse, t)
      /\ Elements(t) = Elements(s) \ {ev}
  BY <1>1, <1>3, <1>6, WithoutInOrder
<1> HIDE DEF t
<1>11. \A x \in Elements(t) : Calendar!Hash(c, x.ts) = b
  BY <1>3, <1>7
<1> DEFINE d == [c EXCEPT !.buckets[b] = t]
<1>8. /\ IsCalendar(d) /\ SameButBuckets(c, d) /\ Sound(d)
      /\ Calendar!HeldIn(d) = (Calendar!HeldIn(c) \ Elements(c.buckets[b])) \cup Elements(t)
  <2>1. Exchanged(c, b, t, d)
    BY <1>1, <1>7, <1>11, ExchangedBucket
  <2> HIDE DEF d
  <2>. QED BY <2>1 DEF Exchanged
<1> HIDE DEF d
<1>9. Calendar!HeldIn(d) = Calendar!HeldIn(c) \ {ev}
  BY <1>1, <1>4, <1>7, <1>8
<1>10. Calendar!Erase(c, ev) = d
  BY <1>2 DEF d
<1>. QED BY <1>8, <1>9, <1>10 DEF Becomes

\* Remove takes out its event and keeps the last time.
LEMMA CalendarRemove ==
  ASSUME CalendarOK(cal), Loaded(cal), NEW ev \in Key, Calendar!Remove(ev)
  PROVE  /\ ev \in Calendar!Held /\ calCall' = {<<"Remove", ev>>}
         /\ CalendarNow(Calendar!Held \ {ev}, cal.lastPrio)
<1> DEFINE p == Calendar!Erase(cal, ev)
<1>1. /\ ev \in Calendar!Held /\ calCall' = {<<"Remove", ev>>}
      /\ cal' = Calendar!ResizeDown([p EXCEPT !.qSize = @ - 1])
  BY DEF Calendar!Remove
<1>2. IsCalendar(cal) /\ Sound(cal) /\ Positioned(cal)
  BY DEF CalendarOK
<1>3. Becomes(cal, p, Calendar!Held \ {ev})
  BY <1>1, <1>2, EraseTakesOut DEF Calendar!Held
<1> HIDE DEF p
<1>4. IsCalendar(p) /\ Sound(p) /\ SameButBuckets(cal, p)
  BY <1>3 DEF Becomes
<1>5. Calendar!HeldIn(p) = Calendar!Held \ {ev}
  BY <1>3 DEF Becomes
<1>6. Positioned(p)
  BY <1>2, <1>4, <1>5 DEF Positioned, SameButBuckets, Calendar!Hash, Calendar!Held
<1>7. p.nBuckets = cal.nBuckets /\ p.qSize = cal.qSize /\ p.lastPrio = cal.lastPrio
  BY <1>4 DEF SameButBuckets
<1>8. CalendarNow(Calendar!Held \ {ev}, p.lastPrio)
  BY <1>1, <1>4, <1>5, <1>6, <1>7, OneLess
<1>. QED BY <1>1, <1>7, <1>8

\* A calendar just created is in order and empty.
LEMMA CalendarInit ==
  ASSUME Calendar!Init
  PROVE  /\ CalendarOK(cal) /\ Loaded(cal) /\ Calendar!Held = {}
         /\ cal.lastPrio = 0 /\ calCall = {}
<1>1. PICK reverse \in BOOLEAN :
          cal = Calendar!StartAt([buckets |-> <<>>, nBuckets |-> 0, width |-> 0,
                                  lastPrio |-> 0, lastBucket |-> 0, bucketTop |-> 0,
                                  qSize |-> 0, reverse |-> reverse], 2, 1, 0)
  BY DEF Calendar!Init
<1> DEFINE c == [buckets |-> <<>>, nBuckets |-> 0, width |-> 0,
                 lastPrio |-> 0, lastBucket |-> 0, bucketTop |-> 0,
                 qSize |-> 0, reverse |-> reverse]
<1>2. c.qSize = 0 /\ <<>> \in {<<>>}
  OBVIOUS
<1>3. cal = Calendar!StartAt(c, 2, 1, 0)
  BY <1>1
<1> HIDE DEF c
<1>9. c \in [buckets : {<<>>}, nBuckets : Nat, width : Nat, lastPrio : Nat,
            lastBucket : Int, bucketTop : Int, qSize : Nat, reverse : BOOLEAN]
  BY DEF c
<1>4. StartsAnew(c, Calendar!StartAt(c, 2, 1, 0), 2, 1, 0)
  <2> DEFINE B == {<<>>}
  <2>1. c \in [buckets : B, nBuckets : Nat, width : Nat, lastPrio : Nat,
               lastBucket : Int, bucketTop : Int, qSize : Nat, reverse : BOOLEAN]
    BY <1>9
  <2> HIDE DEF B
  <2>2. 2 \in Nat /\ 2 > 0 /\ 1 \in Nat /\ 1 > 0 /\ 0 \in Nat
    OBVIOUS
  <2>3. ASSUME NEW n \in Nat, n > 0, NEW w \in Nat, w > 0, NEW ts \in Nat
        PROVE  StartsAnew(c, Calendar!StartAt(c, n, w, ts), n, w, ts)
    BY <2>1, <2>3, StartAtStartsAnew
  <2>. QED BY <2>2, <2>3
<1>5. /\ IsCalendar(cal) /\ Sound(cal) /\ Positioned(cal) /\ Calendar!HeldIn(cal) = {}
      /\ cal.nBuckets = 2 /\ cal.lastPrio = 0 /\ cal.qSize = 0
  BY <1>2, <1>3, <1>4 DEF StartsAnew
<1>6. Counted(cal)
  BY <1>5, FS_EmptySet DEF Counted
<1>7. 2 \in Sizes /\ 2 <= MaxBuckets
  BY MaxBucketsAssumption DEF Sizes
<1>8. CalendarOK(cal)
  BY <1>5, <1>6, <1>7 DEF CalendarOK
<1>. QED BY <1>5, <1>8 DEF Loaded, Calendar!Held, Calendar!Init

-----------------------------------------------------------------------------
(* The simulator's event list, and the change from the one to the other.    *)

\* The list is sorted, the calendar in order; of the two only the one in use holds
\* events, except during the move.
SetIInv ==
  /\ IInv
  /\ CalendarOK(cal) /\ Loaded(cal)
  /\ m_events \in {"list", "moving", "calendar"}
  /\ m_events = "list" => Calendar!Held = {}
  /\ m_events = "calendar" => events = <<>>

\* The invariant holds at the beginning.
LEMMA SetInitOK == SetInit => SetIInv
BY ListInit, CalendarInit DEF SetInit, SetIInv, Init

\* What the calendar holds after a step.
LEMMA CalendarHeldNext == Calendar!Held' = Calendar!HeldIn(cal')
BY DEF Calendar!Held

\* An empty list holds nothing.
LEMMA EmptyListHoldsNothing == events = <<>> => Held = {}
BY DEF Held

\* A new event, in the list in use.
LEMMA ScheduleEventAdds ==
  ASSUME SetIInv, NEW ev \in Key, ScheduleEvent(ev)
  PROVE  SetIInv' /\ Whole!Insert(ev)
<1>1. CASE Insert(ev) /\ UseList
  <2>1. IInv' /\ Held' = Held \cup {ev} /\ ev \notin Held /\ userCall' = {<<"Insert", ev>>}
    BY <1>1, InsertKeepsSorted DEF SetIInv, Insert, UseList
  <2>2. /\ m_events = "list" /\ m_events' = m_events
        /\ UNCHANGED calVars /\ Calendar!Held' = Calendar!Held /\ Calendar!Held = {}
    BY <1>1 DEF UseList, ScheduleEvent, calVars, Calendar!Held, SetIInv
  <2>3. SetIInv'
    BY <2>1, <2>2 DEF SetIInv, calVars
  <2>. QED BY <2>1, <2>2, <2>3 DEF Whole!Insert
<1>2. CASE Calendar!Insert(ev) /\ UseCalendar
  <2>1. /\ CalendarNow(Calendar!Held \cup {ev}, cal.lastPrio)
        /\ ev \notin Calendar!Held /\ userCall' = {<<"Insert", ev>>}
    BY <1>2, CalendarInsert DEF SetIInv, Calendar!Insert, UseCalendar
  <2>2. /\ m_events = "calendar" /\ m_events' = m_events
        /\ UNCHANGED listVars /\ Held = {} /\ Held' = Held
    BY <1>2, EmptyListHoldsNothing
       DEF UseCalendar, ScheduleEvent, listVars, Held, SetIInv
  <2>3. /\ CalendarOK(cal') /\ Loaded(cal')
        /\ Calendar!Held' = Calendar!Held \cup {ev}
    BY <2>1, CalendarHeldNext DEF CalendarNow
  <2>4. SetIInv'
    BY <2>2, <2>3 DEF SetIInv, listVars, IInv, TypeOK, Sorted
  <2>. QED BY <2>1, <2>2, <2>3, <2>4 DEF Whole!Insert
<1>. QED BY <1>1, <1>2 DEF ScheduleEvent

\* An event taken out, of the list in use.
LEMMA RemoveEventTakesOut ==
  ASSUME SetIInv, NEW ev \in Key, RemoveEvent(ev)
  PROVE  SetIInv' /\ Whole!Remove(ev)
<1>1. CASE Remove(ev) /\ UseList
  <2>1. IInv' /\ Held' = Held \ {ev} /\ ev \in Held /\ userCall' = {<<"Remove", ev>>}
    BY <1>1, RemoveKeepsSorted DEF SetIInv, Remove, UseList
  <2>2. /\ m_events = "list" /\ m_events' = m_events
        /\ UNCHANGED calVars /\ Calendar!Held' = Calendar!Held /\ Calendar!Held = {}
    BY <1>1 DEF UseList, RemoveEvent, calVars, Calendar!Held, SetIInv
  <2>3. SetIInv'
    BY <2>1, <2>2 DEF SetIInv, calVars
  <2>. QED BY <2>1, <2>2, <2>3 DEF Whole!Remove
<1>2. CASE Calendar!Remove(ev) /\ UseCalendar
  <2>1. /\ CalendarNow(Calendar!Held \ {ev}, cal.lastPrio)
        /\ ev \in Calendar!Held /\ userCall' = {<<"Remove", ev>>}
    BY <1>2, CalendarRemove DEF SetIInv, UseCalendar
  <2>2. /\ m_events = "calendar" /\ m_events' = m_events
        /\ UNCHANGED listVars /\ Held = {} /\ Held' = Held
    BY <1>2, EmptyListHoldsNothing
       DEF UseCalendar, RemoveEvent, listVars, Held, SetIInv
  <2>3. /\ CalendarOK(cal') /\ Loaded(cal')
        /\ Calendar!Held' = Calendar!Held \ {ev}
    BY <2>1, CalendarHeldNext DEF CalendarNow
  <2>4. SetIInv'
    BY <2>2, <2>3 DEF SetIInv, listVars, IInv, TypeOK, Sorted
  <2>. QED BY <2>1, <2>2, <2>3, <2>4 DEF Whole!Remove
<1>. QED BY <1>1, <1>2 DEF RemoveEvent

\* The next event, from the list in use.
LEMMA ProcessOneEventTakesNext ==
  ASSUME SetIInv, ProcessOneEvent
  PROVE  SetIInv' /\ Whole!RemoveNext
<1>0. \A ev, S : Whole!IsEarliest(ev, S) <=> IsEarliest(ev, S)
  BY DEF Whole!IsEarliest, Whole!Less, IsEarliest, Less
<1>1. CASE RemoveNext /\ UseList
  <2> DEFINE ev == Head(events)
  <2>1. /\ IInv' /\ Held' = Held \ {ev} /\ IsEarliest(ev, Held)
        /\ userCall' = {<<"RemoveNext", ev>>}
    BY <1>1, RemoveNextKeepsSorted DEF SetIInv, UseList
  <2>2. /\ m_events = "list" /\ m_events' = m_events
        /\ UNCHANGED calVars /\ Calendar!Held' = Calendar!Held /\ Calendar!Held = {}
    BY <1>1 DEF UseList, ProcessOneEvent, calVars, Calendar!Held, SetIInv
  <2>3. SetIInv'
    BY <2>1, <2>2 DEF SetIInv, calVars
  <2> HIDE DEF ev
  <2>4. Held \cup Calendar!Held = Held /\ ev \in Held
    BY <2>1, <2>2 DEF IsEarliest
  <2>. QED BY <1>0, <2>1, <2>2, <2>3, <2>4 DEF Whole!RemoveNext
<1>2. CASE Calendar!RemoveNext /\ UseCalendar
  <2>1. PICK ev \in Calendar!Held :
            /\ ev \in Key /\ IsEarliest(ev, Calendar!Held)
            /\ calCall' = {<<"RemoveNext", ev>>}
            /\ CalendarNow(Calendar!Held \ {ev}, ev.ts)
    BY <1>2, CalendarRemoveNext DEF SetIInv
  <2>2. /\ m_events = "calendar" /\ m_events' = m_events /\ userCall' = calCall'
        /\ UNCHANGED listVars /\ Held = {} /\ Held' = Held
    BY <1>2, EmptyListHoldsNothing
       DEF UseCalendar, ProcessOneEvent, listVars, Held, SetIInv
  <2>3. /\ CalendarOK(cal') /\ Loaded(cal')
        /\ Calendar!Held' = Calendar!Held \ {ev}
    BY <2>1, CalendarHeldNext DEF CalendarNow
  <2>4. SetIInv'
    BY <2>2, <2>3 DEF SetIInv, listVars, IInv, TypeOK, Sorted
  <2>5. Held \cup Calendar!Held = Calendar!Held
    BY <2>2
  <2>. QED BY <1>0, <2>1, <2>2, <2>3, <2>4, <2>5 DEF Whole!RemoveNext
<1>. QED BY <1>1, <1>2 DEF ProcessOneEvent

\* One event moved from the list to the calendar: the two together hold what they held.
LEMMA MoveKeeps ==
  ASSUME SetIInv, Move
  PROVE  SetIInv' /\ UNCHANGED Whole!vars
<1>1. /\ IInv' /\ Held' = Held \ {PeekNext} /\ PeekNext \in Held /\ PeekNext \in Key
  BY RemoveNextKeepsSorted DEF SetIInv, Move, PeekNext, IsEarliest
<1>2. CalendarNow(Calendar!Held \cup {PeekNext}, cal.lastPrio)
  BY <1>1, CalendarInsert DEF SetIInv, Move
<1>3. /\ CalendarOK(cal') /\ Loaded(cal')
      /\ Calendar!Held' = Calendar!Held \cup {PeekNext}
  BY <1>2, CalendarHeldNext DEF CalendarNow
<1>4. m_events = "moving" /\ m_events' = m_events /\ userCall' = userCall
  BY DEF Move
<1>5. SetIInv'
  BY <1>1, <1>3, <1>4 DEF SetIInv
<1>. QED BY <1>1, <1>3, <1>4, <1>5 DEF Whole!vars

\* Every step keeps the invariant and is a step, or none, of one event list.
LEMMA SetStep ==
  ASSUME SetIInv, [SetNext]_setVars
  PROVE  SetIInv' /\ [Whole!Next]_(Whole!vars)
<1>1. ASSUME NEW ev \in Key, ScheduleEvent(ev)
      PROVE  SetIInv' /\ [Whole!Next]_(Whole!vars)
  BY <1>1, ScheduleEventAdds DEF Whole!Next
<1>2. ASSUME NEW ev \in Key, RemoveEvent(ev)
      PROVE  SetIInv' /\ [Whole!Next]_(Whole!vars)
  BY <1>2, RemoveEventTakesOut DEF Whole!Next
<1>3. CASE ProcessOneEvent
  BY <1>3, ProcessOneEventTakesNext DEF Whole!Next
<1>4. CASE Move
  BY <1>4, MoveKeeps
<1>5. CASE Start \/ Finish \/ UNCHANGED setVars
  <2>1. UNCHANGED <<events, call, cal, userCall>>
    BY <1>5 DEF Start, Finish, setVars, listVars, calVars
  <2>2. Held' = Held /\ Calendar!Held' = Calendar!Held
    BY <2>1 DEF Held, Calendar!Held
  <2>3. SetIInv'
    <3>1. IInv' /\ CalendarOK(cal') /\ Loaded(cal')
      BY <2>1 DEF SetIInv, IInv, TypeOK, Sorted
    <3>2. m_events' \in {"list", "moving", "calendar"}
      BY <1>5 DEF SetIInv, Start, Finish, setVars
    <3>3. m_events' = "list" => Calendar!Held = {}
      BY <1>5 DEF SetIInv, Start, Finish, setVars
    <3>4. m_events' = "calendar" => events = <<>>
      BY <1>5 DEF SetIInv, Start, Finish, setVars, IsEmpty
    <3>. QED BY <2>1, <2>2, <3>1, <3>2, <3>3, <3>4 DEF SetIInv
  <2>. QED BY <2>1, <2>2, <2>3 DEF Whole!vars
<1>. QED BY <1>1, <1>2, <1>3, <1>4, <1>5 DEF SetNext

\* The invariant always holds.
LEMMA SetIInvHolds == SetSpec => []SetIInv
<1>1. SetIInv /\ [SetNext]_setVars => SetIInv'
  BY SetStep
<1>. QED BY <1>1, SetInitOK, PTL DEF SetSpec

\* For every set of events, the calendar's count is the number of its events, through
\* every resize and every sampling (calendar-scheduler.cc m_qSize).
THEOREM CountIsExact == SetSpec => []QSizeIsExact
<1>1. Calendar!Cardinality(Calendar!Held) = Cardinality(Calendar!Held)
  BY DEF Calendar!Cardinality, Cardinality
<1>2. SetIInv => QSizeIsExact
  BY <1>1
     DEF SetIInv, CalendarOK, Counted, QSizeIsExact, Calendar!QSizeIsExact, Calendar!Held
<1>. QED BY <1>2, SetIInvHolds, PTL

\* For every set of events, every event is where Remove looks for it: the assertion
\* at the end of CalendarScheduler::Remove is never reached.
THEOREM EventsStayInTheirBuckets == SetSpec => []InItsBucket
<1>1. SetIInv => InItsBucket
  <2> SUFFICES ASSUME SetIInv, NEW b \in DOMAIN cal.buckets, NEW ev \in Calendar!InBucket(cal, b)
               PROVE  Calendar!Hash(cal, ev.ts) = b
    BY DEF InItsBucket, Calendar!InItsBucket
  <2>1. /\ b \in Bucket(cal) /\ cal.buckets[b] \in Seq(Key) /\ Sound(cal)
    BY DEF SetIInv, CalendarOK, IsCalendar, Bucket
  <2>2. ev \in Elements(cal.buckets[b])
    BY <2>1 DEF Calendar!InBucket, Calendar!Range, Elements
  <2>. QED BY <2>1, <2>2 DEF Sound
<1>. QED BY <1>1, SetIInvHolds, PTL

\* For every set of events and every limit, the number of buckets stays within a
\* factor of the number of events (ResizeUp, ResizeDown).
THEOREM BucketsFollowLoad == SetSpec => []FollowsLoad
<1>1. SetIInv => FollowsLoad
  BY DEF SetIInv, Loaded, FollowsLoad, Calendar!FollowsLoad
<1>. QED BY <1>1, SetIInvHolds, PTL

\* For every set of events, the scan of the calendar's year shows the earliest event
\* held (PeekNext, DoRemoveNext).
THEOREM ScanFindsEarliest == SetSpec => []CalendarPeekIsEarliest
<1>1. SetIInv => CalendarPeekIsEarliest
  <2> SUFFICES ASSUME SetIInv, cal.qSize # 0
               PROVE  IsEarliest(Calendar!PeekNext, Calendar!Held)
    BY SameEarliest DEF CalendarPeekIsEarliest, Calendar!PeekIsEarliest
  <2>1. Calendar!Held # {}
    BY CountedIsNatural DEF SetIInv, CalendarOK, Calendar!Held
  <2>. QED BY <2>1, PeekAdvances DEF SetIInv, CalendarOK
<1>. QED BY <1>1, SetIInvHolds, PTL

\* For every set of events, the simulator has one event list in the sense of
\* scheduler.h, whichever it began with, and before, during and after the exchange
\* (default-simulator-impl.cc SetScheduler, calendar-scheduler.cc, list-scheduler.cc).
THEOREM SimulatorHasOneEventList == SetSpec => SimulatorImplementsScheduler
<1>1. SetInit => Whole!Init
  BY CalendarInit, EmptyListHoldsNothing DEF SetInit, Init, Whole!Init
<1>2. SetIInv /\ [SetNext]_setVars => [Whole!Next]_(Whole!vars)
  BY SetStep
<1>. QED BY <1>1, <1>2, SetIInvHolds, PTL
         DEF SetSpec, SimulatorImplementsScheduler, Whole!Spec

\* The list within the simulator does nothing that the list by itself would not do,
\* so what is proved of the list holds there.
THEOREM ListInSimulator == SetSpec => []PeekIsEarliest /\ ImplementsScheduler
<1>1. SetInit => Init
  BY DEF SetInit
<1>2. [SetNext]_setVars => [Next]_vars
  <2> SUFFICES ASSUME [SetNext]_setVars PROVE [Next]_vars
    OBVIOUS
  <2>1. ASSUME NEW ev \in Key, ScheduleEvent(ev) PROVE [Next]_vars
    BY <2>1 DEF ScheduleEvent, UseCalendar, listVars, Next, vars
  <2>2. ASSUME NEW ev \in Key, RemoveEvent(ev) PROVE [Next]_vars
    BY <2>2 DEF RemoveEvent, UseCalendar, listVars, Next, vars
  <2>3. CASE ProcessOneEvent
    BY <2>3 DEF ProcessOneEvent, UseCalendar, listVars, Next, vars
  <2>4. CASE Move
    BY <2>4 DEF Move, Next
  <2>5. CASE Start \/ Finish \/ UNCHANGED setVars
    BY <2>5 DEF Start, Finish, setVars, listVars, vars
  <2>. QED BY <2>1, <2>2, <2>3, <2>4, <2>5 DEF SetNext
<1>3. SetSpec => Spec
  BY <1>1, <1>2, PTL DEF SetSpec, Spec
<1>. QED BY <1>3, PeekCorrect, ListImplementsScheduler
\* The calendar is not ahead of the clock, and stays at 0 while the list is in use.
BehindClock ==
  /\ m_currentTs \in Nat /\ cal.lastPrio \in Nat /\ cal.lastPrio <= m_currentTs
  /\ m_events # "calendar" => cal.lastPrio = 0

\* The last time that the calendar has seen is never later than the simulator's clock,
\* so that the calendar is asked for no event before its position and its Insert takes
\* all that Schedule gives it (default-simulator-impl.cc Schedule, SetScheduler).
THEOREM CalendarIsBehindClock == SetSpec => [](cal.lastPrio <= m_currentTs)
<1>1. SetInit => BehindClock
  BY CalendarInit DEF SetInit, BehindClock
<1>2. SetIInv /\ BehindClock /\ [SetNext]_setVars => BehindClock'
  <2> SUFFICES ASSUME SetIInv, BehindClock, [SetNext]_setVars PROVE BehindClock'
    OBVIOUS
  <2>1. ASSUME NEW ev \in Key, ScheduleEvent(ev) PROVE BehindClock'
    <3>1. m_events' = m_events /\ m_currentTs' = m_currentTs
      BY <2>1 DEF ScheduleEvent
    <3>2. CASE UseList
      BY <3>1, <3>2 DEF UseList, calVars, BehindClock
    <3>3. CASE Calendar!Insert(ev)
      <4>1. cal'.lastPrio = cal.lastPrio
        BY <3>3, CalendarInsert DEF SetIInv, CalendarNow
      <4>. QED BY <3>1, <4>1 DEF BehindClock
    <3>. QED BY <2>1, <3>2, <3>3 DEF ScheduleEvent
  <2>2. ASSUME NEW ev \in Key, RemoveEvent(ev) PROVE BehindClock'
    <3>1. m_events' = m_events /\ m_currentTs' = m_currentTs
      BY <2>2 DEF RemoveEvent
    <3>2. CASE UseList
      BY <3>1, <3>2 DEF UseList, calVars, BehindClock
    <3>3. CASE Calendar!Remove(ev)
      <4>1. cal'.lastPrio = cal.lastPrio
        BY <3>3, CalendarRemove DEF SetIInv, CalendarNow
      <4>. QED BY <3>1, <4>1 DEF BehindClock
    <3>. QED BY <2>2, <3>2, <3>3 DEF RemoveEvent
  <2>3. CASE ProcessOneEvent
    <3>1. CASE RemoveNext /\ UseList
      <4>1. Head(events) \in Key /\ userCall' = {<<"RemoveNext", Head(events)>>}
        BY <3>1, RemoveNextKeepsSorted DEF SetIInv, UseList
      <4>2. m_currentTs' = Head(events).ts
        BY <2>3, <4>1 DEF ProcessOneEvent
      <4>3. m_currentTs' \in Nat
        BY <4>1, <4>2, KeyAssumption
      <4>4. m_events' = "list" /\ cal' = cal /\ cal.lastPrio = 0
        BY <2>3, <3>1 DEF ProcessOneEvent, UseList, calVars, BehindClock
      <4>. QED BY <4>3, <4>4 DEF BehindClock
    <3>2. CASE Calendar!RemoveNext /\ UseCalendar
      <4>1. PICK ev \in Key : /\ calCall' = {<<"RemoveNext", ev>>}
                              /\ cal'.lastPrio = ev.ts
        BY <3>2, CalendarRemoveNext DEF SetIInv, CalendarNow
      <4>2. m_currentTs' = ev.ts
        BY <2>3, <3>2, <4>1 DEF ProcessOneEvent, UseCalendar
      <4>3. ev.ts \in Nat
        BY <4>1, KeyAssumption
      <4>4. m_events' = "calendar"
        BY <2>3, <3>2 DEF ProcessOneEvent, UseCalendar
      <4>. QED BY <4>1, <4>2, <4>3, <4>4 DEF BehindClock
    <3>. QED BY <2>3, <3>1, <3>2 DEF ProcessOneEvent
  <2>4. CASE Move
    <3>1. PeekNext \in Key
      BY <2>4, RemoveNextKeepsSorted DEF SetIInv, Move, PeekNext, IsEarliest
    <3>2. cal'.lastPrio = cal.lastPrio
      BY <2>4, <3>1, CalendarInsert DEF SetIInv, CalendarNow, Move
    <3>. QED BY <2>4, <3>2 DEF Move, BehindClock
  <2>5. CASE Start \/ Finish \/ UNCHANGED setVars
    BY <2>5 DEF Start, Finish, setVars, calVars, BehindClock
  <2>. QED BY <2>1, <2>2, <2>3, <2>4, <2>5 DEF SetNext
<1>3. BehindClock => cal.lastPrio <= m_currentTs
  BY DEF BehindClock
<1>. QED BY <1>1, <1>2, <1>3, SetIInvHolds, PTL DEF SetSpec
=============================================================================
