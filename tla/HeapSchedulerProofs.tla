------------------------- MODULE HeapSchedulerProofs ------------------------
(***************************************************************************)
(* For every set of keys, HeapScheduler keeps its heap ordered as long as  *)
(* Remove finds a last event that fits into the hole, and therefore is an  *)
(* event list in the sense of Scheduler.                                   *)
(***************************************************************************)
EXTENDS HeapScheduler, SequenceTheorems, WellFoundedInduction, TLAPS

AnyKey == [ts : Nat, uid : Nat]

\* Of two keys at most one is before the other.
LEMMA LessAsymmetric ==
  ASSUME NEW a \in AnyKey, NEW b \in AnyKey, Less(a, b)
  PROVE  ~Less(b, a) /\ a # b
BY DEF Less, AnyKey

\* Not being later is transitive.
LEMMA NotLaterTransitive ==
  ASSUME NEW a \in AnyKey, NEW b \in AnyKey, NEW c \in AnyKey,
         ~Less(b, a), ~Less(c, b)
  PROVE  ~Less(c, a)
BY DEF Less, AnyKey

Distinct == \A i, j \in 1..Len(heap) : heap[i] = heap[j] => i = j

\* The event at i is not later than the one at j.
NotLater(i, j) == ~Less(heap[j], heap[i])

\* Where no loop is at work, a parent is not later than its child.
ParentsFirst ==
    \A i \in 2..Len(heap) :
        (pc = "bottomUp" => i # index) /\ (pc = "topDown" => Parent(i) # index)
            => NotLater(Parent(i), i)

\* Around the place where one is, the grandparent is not later.
GrandparentFirst ==
    \A i \in 2..Len(heap) :
        pc # "ready" /\ Parent(i) = index /\ index # Root
            => NotLater(Parent(index), i)

IndexInHeap == pc = "bottomUp" => index \in 1..Len(heap)

IInv == TypeOK /\ Distinct /\ ParentsFirst /\ GrandparentFirst /\ IndexInHeap

\* The keys of the heap are keys.
LEMMA KeysAreKeys ==
  ASSUME TypeOK
  PROVE  /\ heap \in Seq(Key) /\ Len(heap) \in Nat
         /\ \A i \in 1..Len(heap) : heap[i] \in Key /\ heap[i] \in AnyKey
         /\ Key \subseteq AnyKey
BY KeyAssumption DEF TypeOK, AnyKey

\* The parent of a position is a smaller position, and its children are the
\* two whose parent it is.
LEMMA ParentProperties ==
  ASSUME NEW i \in Nat, i >= 2
  PROVE  /\ Parent(i) \in 1..(i - 1)
         /\ i = LeftChild(Parent(i)) \/ i = RightChild(Parent(i))
BY Z3 DEF Parent, LeftChild, RightChild

LEMMA ChildProperties ==
  ASSUME NEW i \in Nat, i >= 1
  PROVE  /\ Parent(LeftChild(i)) = i /\ Parent(RightChild(i)) = i
         /\ LeftChild(i) \in Nat /\ LeftChild(i) > i
         /\ RightChild(i) = LeftChild(i) + 1
BY Z3 DEF Parent, LeftChild, RightChild

\* A call of an operation with an event has its type.
LEMMA CallIsTyped ==
  ASSUME NEW ev \in Key
  PROVE  \A op \in Operation : {<<op, ev>>} \subseteq Operation \X Key
OBVIOUS

\* An exchange permutes.
LEMMA ExchProperties ==
  ASSUME TypeOK, NEW a \in 1..Len(heap), NEW b \in 1..Len(heap)
  PROVE  /\ Exch(a, b) \in Seq(Key) /\ Len(Exch(a, b)) = Len(heap)
         /\ \A i \in 1..Len(heap) :
                Exch(a, b)[i] = IF i = b THEN heap[a]
                                ELSE IF i = a THEN heap[b] ELSE heap[i]
<1>1. heap \in Seq(Key) /\ heap[a] \in Key /\ heap[b] \in Key
  BY KeysAreKeys
<1> DEFINE h == [heap EXCEPT ![a] = heap[b]]
<1>2. /\ h \in Seq(Key) /\ Len(h) = Len(heap)
      /\ \A i \in 1..Len(heap) : h[i] = IF i = a THEN heap[b] ELSE heap[i]
  BY <1>1, ExceptSeq
<1>3. Exch(a, b) = [h EXCEPT ![b] = heap[a]]
  BY DEF Exch
<1> HIDE DEF h
<1>4. QED
  BY <1>1, <1>2, <1>3, ExceptSeq

\* So does a step that exchanges: what is held stays, each event once.
LEMMA ExchKeepsHeld ==
  ASSUME TypeOK, Distinct, NEW a \in 1..Len(heap), NEW b \in 1..Len(heap),
         heap' = Exch(a, b)
  PROVE  Distinct' /\ Held' = Held
<1>1. /\ Len(heap') = Len(heap) /\ Len(heap) \in Nat
      /\ \A i \in 1..Len(heap) : heap'[i] = IF i = b THEN heap[a]
                                 ELSE IF i = a THEN heap[b] ELSE heap[i]
  BY ExchProperties, KeysAreKeys
<1>2. Distinct'
  BY <1>1 DEF Distinct
<1>3. Held' = {heap'[i] : i \in 1..Len(heap)}
  BY <1>1 DEF Held
<1>4. \A x \in Held' : x \in Held
  BY <1>1, <1>3 DEF Held
<1>5. \A x \in Held : x \in Held'
  <2> SUFFICES ASSUME NEW i \in 1..Len(heap) PROVE heap[i] \in Held'
    BY DEF Held
  <2>1. CASE i = a
    BY <2>1, <1>1, <1>3
  <2>2. CASE i = b
    BY <2>2, <1>1, <1>3
  <2>3. CASE i # a /\ i # b
    BY <2>3, <1>1, <1>3
  <2>4. QED
    BY <2>1, <2>2, <2>3
<1>6. QED
  BY <1>2, <1>4, <1>5

\* The first n elements of a sequence.
LEMMA PrefixProperties ==
  ASSUME NEW S, NEW s, NEW n \in Nat, \A i \in 1..n : s[i] \in S
  PROVE  /\ SubSeq(s, 1, n) \in Seq(S) /\ Len(SubSeq(s, 1, n)) = n
         /\ \A i \in 1..n : SubSeq(s, 1, n)[i] = s[i]
<1>1. /\ SubSeq(s, 1, n) \in Seq(S)
      /\ Len(SubSeq(s, 1, n)) = IF 1 <= n THEN n - 1 + 1 ELSE 0
      /\ \A i \in 1..(n - 1 + 1) : SubSeq(s, 1, n)[i] = s[1 + i - 1]
  BY SubSeqProperties
<1>2. QED
  BY <1>1

\* What Exch(a, Last()) and pop_back leave.
LEMMA PopProperties ==
  ASSUME TypeOK, NEW a \in 1..Len(heap)
  PROVE  /\ ExchAndPop(a) \in Seq(Key)
         /\ Len(heap) \in Nat \ {0}
         /\ Len(ExchAndPop(a)) = Len(heap) - 1
         /\ \A i \in 1..(Len(heap) - 1) :
                ExchAndPop(a)[i] = IF i = a THEN heap[Len(heap)] ELSE heap[i]
<1>1. heap \in Seq(Key) /\ Len(heap) \in Nat \ {0}
  BY EmptySeq DEF TypeOK
<1> DEFINE h == Exch(a, Len(heap))
           n == Len(heap) - 1
<1>2. /\ h \in Seq(Key) /\ Len(h) = Len(heap)
      /\ \A i \in 1..Len(heap) :
             h[i] = IF i = Len(heap) THEN heap[a]
                    ELSE IF i = a THEN heap[Len(heap)] ELSE heap[i]
  BY <1>1, ExchProperties
<1>3. ExchAndPop(a) = SubSeq(h, 1, n)
  BY DEF ExchAndPop
<1>4. n \in Nat /\ Len(heap) = n + 1
  BY <1>1
<1> HIDE DEF h, n
<1>5. \A i \in 1..n : h[i] \in Key
  BY <1>1, <1>2, <1>4
<1>6. /\ SubSeq(h, 1, n) \in Seq(Key) /\ Len(SubSeq(h, 1, n)) = n
      /\ \A i \in 1..n : SubSeq(h, 1, n)[i] = h[i]
  BY <1>4, <1>5, PrefixProperties
<1>7. \A i \in 1..n : h[i] = IF i = a THEN heap[Len(heap)] ELSE heap[i]
  BY <1>2, <1>4
<1>8. QED
  BY <1>1, <1>3, <1>6, <1>7 DEF n

\* The root of an ordered heap is its earliest event: a first position that
\* is earlier than the root would have a parent that is.
LEMMA RootIsEarliest ==
  ASSUME IInv, pc = "ready", heap # <<>>
  PROVE  /\ Root \in 1..Len(heap) /\ IsEarliest(heap[Root], Held)
<1>1. /\ Len(heap) \in Nat \ {0}
      /\ \A i \in 1..Len(heap) : heap[i] \in AnyKey
  BY KeysAreKeys, EmptySeq DEF IInv, TypeOK
<1> DEFINE T == {n \in 1..Len(heap) : Less(heap[n], heap[1])}
<1>2. T = {}
  <2> SUFFICES ASSUME T # {} PROVE FALSE
    OBVIOUS
  <2>1. T \subseteq Nat
    OBVIOUS
  <2> HIDE DEF T
  <2>2. PICK n \in T : \A m \in T : ~(<<m, n>> \in OpToRel(<, Nat))
    BY <2>1, NatLessThanWellFounded, WFMin
  <2>3. \A m \in T : ~(m < n)
    BY <2>1, <2>2 DEF OpToRel
  <2> USE DEF T
  <2>4. n \in 1..Len(heap) /\ Less(heap[n], heap[1])
    BY <2>2
  <2>5. n # 1
    BY <2>4, <1>1, LessAsymmetric
  <2>6. n \in 2..Len(heap) /\ n >= 2 /\ n \in Nat
    BY <2>4, <2>5
  <2>7. Parent(n) \in 1..(n - 1)
    BY <2>6, ParentProperties
  <2>8. Parent(n) \in 1..Len(heap) /\ Parent(n) < n
    BY <2>6, <2>7, <1>1
  <2>9. ~Less(heap[Parent(n)], heap[1])
    BY <2>3, <2>8
  <2>10. ~Less(heap[n], heap[Parent(n)])
    BY <2>6 DEF IInv, ParentsFirst, NotLater
  <2>11. 1 \in 1..Len(heap)
    BY <1>1
  <2>12. ~Less(heap[n], heap[1])
    BY <2>4, <2>8, <2>9, <2>10, <2>11, <1>1, NotLaterTransitive
  <2>13. QED
    BY <2>4, <2>12
<1>3. QED
  BY <1>1, <1>2 DEF Root, IsEarliest, Held

\* Insert appends: only the new place may be out of order.
LEMMA InsertKeeps ==
  ASSUME IInv, NEW ev \in Key, Insert(ev)
  PROVE  IInv' /\ Held' = Held \cup {ev}
<1>1. /\ heap \in Seq(Key) /\ Len(heap) \in Nat
      /\ heap' = Append(heap, ev) /\ heap' \in Seq(Key)
      /\ Len(heap') = Len(heap) + 1
      /\ \A i \in 1..Len(heap) : heap'[i] = heap[i]
      /\ heap'[Len(heap) + 1] = ev
  BY AppendProperties, KeysAreKeys DEF Insert, IInv
<1>2. pc = "ready" /\ pc' = "bottomUp" /\ index' = Len(heap) + 1
  BY DEF Insert
<1>3. TypeOK'
  <2>1. call' \subseteq Operation \X Key
    BY CallIsTyped DEF Insert, Operation
  <2>2. QED
    BY <2>1, <1>1, <1>2 DEF IInv, TypeOK
<1>4. \A i \in 1..Len(heap) : heap[i] # ev
  BY DEF Insert, Held
<1>5. Distinct'
  <2> SUFFICES ASSUME NEW i \in 1..(Len(heap) + 1), NEW j \in 1..(Len(heap) + 1),
                      heap'[i] = heap'[j]
               PROVE  i = j
    BY <1>1 DEF Distinct
  <2>1. CASE i \in 1..Len(heap) /\ j \in 1..Len(heap)
    BY <2>1, <1>1 DEF IInv, Distinct
  <2>2. CASE i = Len(heap) + 1 \/ j = Len(heap) + 1
    BY <2>2, <1>1, <1>4
  <2>3. QED
    BY <2>1, <2>2, <1>1
<1>6. ParentsFirst'
  <2> SUFFICES ASSUME NEW i \in 2..(Len(heap) + 1), i # Len(heap) + 1
               PROVE  NotLater(Parent(i), i)'
    BY <1>1, <1>2 DEF ParentsFirst
  <2>0. i \in 2..Len(heap) /\ i \in Nat /\ i >= 2
    BY <1>1
  <2>1. Parent(i) \in 1..Len(heap)
    BY <2>0, <1>1, ParentProperties
  <2>2. QED
    BY <2>0, <2>1, <1>1, <1>2 DEF IInv, ParentsFirst, NotLater
<1>7. GrandparentFirst'
  <2> SUFFICES ASSUME NEW i \in 2..(Len(heap) + 1), Parent(i) = Len(heap) + 1
               PROVE  FALSE
    BY <1>1, <1>2 DEF GrandparentFirst
  <2>1. QED
    BY <1>1, ParentProperties
<1>8. Held' = Held \cup {ev}
  <2>1. Held' = {heap'[i] : i \in 1..(Len(heap) + 1)}
    BY <1>1 DEF Held
  <2>2. Len(heap) + 1 \in 1..(Len(heap) + 1)
    BY <1>1
  <2>3. ev \in Held'
    BY <2>1, <2>2, <1>1
  <2>4. \A x \in Held : x \in Held'
    BY <2>1, <1>1 DEF Held
  <2>5. \A x \in Held' : x \in Held \cup {ev}
    BY <2>1, <1>1 DEF Held
  <2>6. QED
    BY <2>3, <2>4, <2>5
<1>9. QED
  BY <1>1, <1>2, <1>3, <1>5, <1>6, <1>7, <1>8 DEF IInv, IndexInHeap

\* One exchange upwards: the place that may be out of order moves to the
\* parent, whose children are not earlier than the event that came down.
LEMMA BottomUpExchKeeps ==
  ASSUME IInv, BottomUpExch
  PROVE  IInv' /\ Held' = Held
<1> DEFINE p == Parent(index)
<1>1. /\ pc = "bottomUp" /\ pc' = "bottomUp" /\ index' = p
      /\ index # 1 /\ Less(heap[index], heap[p]) /\ heap' = Exch(index, p)
      /\ call' = call
  BY DEF BottomUpExch, RisesAbove, IsLessStrictly, Root
<1>2. /\ Len(heap) \in Nat /\ index \in 2..Len(heap)
      /\ p \in 1..Len(heap) /\ p < index
      /\ \A i \in 1..Len(heap) : heap[i] \in AnyKey
  BY <1>1, ParentProperties, KeysAreKeys DEF IInv, IndexInHeap
<1> HIDE DEF p
<1>3. /\ heap' \in Seq(Key) /\ Len(heap') = Len(heap)
      /\ \A i \in 1..Len(heap) : heap'[i] = IF i = p THEN heap[index]
                                 ELSE IF i = index THEN heap[p] ELSE heap[i]
  <2>1. TypeOK /\ index \in 1..Len(heap)
    BY <1>2 DEF IInv
  <2>2. p \in 1..Len(heap) /\ heap' = Exch(index, p)
    BY <1>1, <1>2
  <2>3. QED
    BY <2>1, <2>2, ExchProperties
<1>4. Distinct' /\ Held' = Held
  <2>1. TypeOK /\ Distinct /\ index \in 1..Len(heap)
    BY <1>2 DEF IInv
  <2>2. QED
    BY <2>1, <1>1, <1>2, ExchKeepsHeld
<1>5. TypeOK' /\ IndexInHeap'
  BY <1>1, <1>2, <1>3 DEF IInv, TypeOK, IndexInHeap
<1>6. \A i \in 2..Len(heap) : Parent(i) \in 1..Len(heap) /\ Parent(i) < i
  BY <1>2, ParentProperties
<1>7. \A i \in 2..Len(heap) : i # index => ~Less(heap[i], heap[Parent(i)])
  BY <1>1 DEF IInv, ParentsFirst, NotLater
<1>8. \A i \in 2..Len(heap) : Parent(i) = index => ~Less(heap[i], heap[p])
  BY <1>1 DEF IInv, GrandparentFirst, NotLater, Root, p
<1>9. ~Less(heap[p], heap[index])
  BY <1>1, <1>2, LessAsymmetric
<1>10. ParentsFirst'
  <2> SUFFICES ASSUME NEW i \in 2..Len(heap), i # p
               PROVE  ~Less(heap'[i], heap'[Parent(i)])
    BY <1>1, <1>3 DEF ParentsFirst, NotLater
  <2>1. CASE i = index
    BY <2>1, <1>2, <1>3, <1>9 DEF p
  <2>2. CASE i # index /\ Parent(i) = p
    <3>1. ~Less(heap[i], heap[p])
      BY <2>2, <1>7
    <3>2. ~Less(heap[i], heap[index])
      BY <3>1, <1>2, <1>9, NotLaterTransitive
    <3>3. QED
      BY <2>2, <3>2, <1>2, <1>3
  <2>3. CASE Parent(i) = index
    <3>1. i # index
      BY <2>3, <1>6
    <3>2. QED
      BY <2>3, <3>1, <1>2, <1>3, <1>8
  <2>4. CASE i # index /\ Parent(i) # p /\ Parent(i) # index
    BY <2>4, <1>3, <1>6, <1>7
  <2>5. QED
    BY <2>1, <2>2, <2>3, <2>4
<1>11. GrandparentFirst'
  <2> SUFFICES ASSUME NEW i \in 2..Len(heap), Parent(i) = p, p # 1
               PROVE  ~Less(heap'[i], heap'[Parent(p)])
    BY <1>1, <1>3 DEF GrandparentFirst, NotLater, Root
  <2> DEFINE g == Parent(p)
  <2>1. g \in 1..Len(heap) /\ g < p /\ p \in 2..Len(heap) /\ p # index
    BY <1>2, <1>6
  <2>2. ~Less(heap[p], heap[g])
    BY <2>1, <1>7
  <2> HIDE DEF g
  <2>3. heap'[g] = heap[g]
    BY <2>1, <1>2, <1>3
  <2>4. i # p
    BY <1>6
  <2>5. ~Less(heap'[i], heap[p])
    BY <2>4, <1>2, <1>3, <1>7, LessAsymmetric
  <2>6. heap'[i] \in AnyKey
    BY <1>2, <1>3
  <2>7. QED
    BY <2>1, <2>2, <2>3, <2>5, <2>6, <1>2, NotLaterTransitive DEF g
<1>12. QED
  BY <1>4, <1>5, <1>10, <1>11 DEF IInv

\* The loop ends where nothing is out of order.
LEMMA BottomUpReturnKeeps ==
  ASSUME IInv, BottomUpReturn
  PROVE  IInv' /\ UNCHANGED <<heap, call>>
<1>1. /\ pc = "bottomUp" /\ pc' = "ready" /\ index' = 1
      /\ UNCHANGED <<heap, call>>
      /\ index # 1 => ~Less(heap[index], heap[Parent(index)])
  BY DEF BottomUpReturn, Return, RisesAbove, IsLessStrictly, Root
<1>2. TypeOK' /\ Distinct' /\ IndexInHeap' /\ GrandparentFirst'
  BY <1>1 DEF IInv, TypeOK, Distinct, IndexInHeap, GrandparentFirst
<1>3. ParentsFirst'
  BY <1>1 DEF IInv, ParentsFirst, NotLater
<1>4. QED
  BY <1>1, <1>2, <1>3 DEF IInv

\* An event is taken out and the last one put in its place, which is not
\* earlier than the parent there: only with its children may it be out of order.
LEMMA PopKeeps ==
  ASSUME IInv, NEW a \in 1..Len(heap),
         a # Root => ~Less(heap[Len(heap)], heap[Parent(a)]),
         pc = "ready", pc' = "topDown", index' = a, heap' = ExchAndPop(a),
         call' \subseteq Operation \X Key
  PROVE  IInv' /\ Held' = Held \ {heap[a]}
<1> DEFINE n == Len(heap) - 1
<1>1. TypeOK
  BY DEF IInv
<1>2. /\ heap' \in Seq(Key) /\ Len(heap') = n /\ n \in Nat /\ Len(heap) = n + 1
      /\ \A i \in 1..n : heap'[i] = IF i = a THEN heap[n + 1] ELSE heap[i]
  <2>1. /\ heap' \in Seq(Key) /\ Len(heap) \in Nat \ {0} /\ Len(heap') = n
        /\ \A i \in 1..n : heap'[i] = IF i = a THEN heap[Len(heap)] ELSE heap[i]
    BY <1>1, PopProperties
  <2>2. n \in Nat /\ Len(heap) = n + 1
    BY <2>1
  <2> HIDE DEF n
  <2>3. QED
    BY <2>1, <2>2
<1>3. a # 1 => ~Less(heap[n + 1], heap[Parent(a)])
  BY <1>2 DEF Root
<1> HIDE DEF n
<1>4. TypeOK'
  BY <1>1, <1>2 DEF TypeOK
<1>5. \A i, j \in 1..(n + 1) : heap[i] = heap[j] => i = j
  BY <1>2 DEF IInv, Distinct
<1>6. Distinct' /\ IndexInHeap'
  BY <1>1, <1>2, <1>5 DEF Distinct, IndexInHeap
<1>7. \A i \in 2..(n + 1) : Parent(i) \in 1..n /\ Parent(i) < i
  <2> TAKE i \in 2..(n + 1)
  <2>1. i \in Nat /\ i >= 2
    BY <1>2
  <2>2. QED
    BY <2>1, <1>2, ParentProperties
<1>8. \A i \in 2..(n + 1) : ~Less(heap[i], heap[Parent(i)])
  BY <1>2 DEF IInv, ParentsFirst, NotLater
<1>9. ParentsFirst'
  <2> SUFFICES ASSUME NEW i \in 2..n, Parent(i) # a
               PROVE  ~Less(heap'[i], heap'[Parent(i)])
    BY <1>2 DEF ParentsFirst, NotLater
  <2>1. /\ Parent(i) \in 1..n /\ heap'[Parent(i)] = heap[Parent(i)]
        /\ ~Less(heap[i], heap[Parent(i)])
    BY <1>2, <1>7, <1>8
  <2>2. CASE i = a
    BY <2>1, <2>2, <1>2, <1>3
  <2>3. CASE i # a
    BY <2>1, <2>3, <1>2
  <2>4. QED
    BY <2>2, <2>3
<1>10. GrandparentFirst'
  <2> SUFFICES ASSUME NEW i \in 2..n, Parent(i) = a, a # 1
               PROVE  ~Less(heap'[i], heap'[Parent(a)])
    BY <1>2 DEF GrandparentFirst, NotLater, Root
  <2>1. a \in 2..(n + 1) /\ a < i
    BY <1>2, <1>7
  <2>2. Parent(a) \in 1..n /\ Parent(a) < a
    BY <2>1, <1>7
  <2>3. heap'[i] = heap[i] /\ heap'[Parent(a)] = heap[Parent(a)]
    BY <2>1, <2>2, <1>2
  <2>4. ~Less(heap[i], heap[a]) /\ ~Less(heap[a], heap[Parent(a)])
    <3>1. i \in 2..(n + 1)
      BY <1>2
    <3>2. QED
      BY <3>1, <2>1, <1>8
  <2>5. heap[i] \in AnyKey /\ heap[a] \in AnyKey /\ heap[Parent(a)] \in AnyKey
    <3>1. i \in 1..(n + 1) /\ Parent(a) \in 1..(n + 1)
      BY <2>2, <1>2
    <3>2. QED
      BY <3>1, <1>1, <1>2, KeysAreKeys
  <2>6. QED
    BY <2>3, <2>4, <2>5, NotLaterTransitive
<1>11. Held' = Held \ {heap[a]}
  <2>1. Held' = {heap'[i] : i \in 1..n} /\ Held = {heap[i] : i \in 1..(n + 1)}
    BY <1>2 DEF Held
  <2>2. \A x \in Held' : x \in Held \ {heap[a]}
    <3> SUFFICES ASSUME NEW i \in 1..n PROVE heap'[i] \in Held \ {heap[a]}
      BY <2>1
    <3>1. PICK j \in 1..(n + 1) : j # a /\ heap'[i] = heap[j]
      BY <1>2
    <3>2. QED
      BY <3>1, <2>1, <1>2, <1>5
  <2>3. \A x \in Held \ {heap[a]} : x \in Held'
    <3> SUFFICES ASSUME NEW i \in 1..(n + 1), i # a PROVE heap[i] \in Held'
      BY <2>1
    <3>1. CASE i <= n
      BY <3>1, <1>2, <2>1
    <3>2. CASE i = n + 1
      <4>1. a \in 1..n /\ heap'[a] = heap[i]
        BY <3>2, <1>2
      <4>2. QED
        BY <4>1, <2>1
    <3>3. QED
      BY <3>1, <3>2, <1>2
  <2>4. QED
    BY <2>2, <2>3
<1>12. QED
  BY <1>4, <1>6, <1>9, <1>10, <1>11 DEF IInv

\* RemoveNext takes the earliest event out.
LEMMA RemoveNextKeeps ==
  ASSUME IInv, RemoveNext
  PROVE  /\ IInv'
         /\ IsEarliest(heap[Root], Held)
         /\ Held' = Held \ {heap[Root]} /\ call' = {<<"RemoveNext", heap[Root]>>}
<1>1. /\ pc = "ready" /\ heap # <<>> /\ TypeOK
      /\ pc' = "topDown" /\ index' = Root /\ call' = {<<"RemoveNext", heap[Root]>>}
      /\ heap' = ExchAndPop(Root)
  BY DEF RemoveNext, IsEmpty, IInv
<1>2. Root \in 1..Len(heap) /\ IsEarliest(heap[Root], Held)
  BY <1>1, RootIsEarliest
<1>3. call' \subseteq Operation \X Key
  BY <1>1, <1>2, KeysAreKeys, CallIsTyped DEF Operation
<1>4. QED
  BY <1>1, <1>2, <1>3, PopKeeps

\* Remove takes the event out that it is asked for.
LEMMA RemoveKeeps ==
  ASSUME IInv, NEW ev \in Key, LastFits(ev), Remove(ev)
  PROVE  IInv' /\ ev \in Held /\ Held' = Held \ {ev} /\ call' = {<<"Remove", ev>>}
<1>1. PICK a \in 1..Len(heap) : heap[a].uid = ev.uid /\ heap' = ExchAndPop(a)
                                /\ index' = a
  BY DEF Remove
<1>2. pc = "ready" /\ pc' = "topDown" /\ call' = {<<"Remove", ev>>} /\ TypeOK
  BY DEF Remove, IInv
<1>3. heap[a] = ev
  BY <1>1, <1>2, KeysAreKeys, KeyAssumption
<1>4. ev \in Held
  BY <1>3 DEF Held
<1>5. a # Root => ~Less(heap[Len(heap)], heap[Parent(a)])
  BY <1>1, <1>2, KeysAreKeys DEF LastFits, IsLessStrictly, Root
<1>6. call' \subseteq Operation \X Key
  BY <1>2, CallIsTyped DEF Operation
<1>7. IInv' /\ Held' = Held \ {heap[a]}
  BY <1>1, <1>2, <1>5, <1>6, PopKeeps
<1>8. QED
  BY <1>2, <1>3, <1>4, <1>7

\* The child that TopDown looks at is not later than either child.
LEMMA SmallestChildProperties ==
  ASSUME TypeOK, ~IsBottom(LeftChild(index))
  PROVE  /\ index \in 1..Len(heap) /\ SmallestChild(index) \in 2..Len(heap)
         /\ SmallestChild(index) > index
         /\ Parent(SmallestChild(index)) = index
         /\ \A i \in 2..Len(heap) :
                Parent(i) = index => ~Less(heap[i], heap[SmallestChild(index)])
<1> DEFINE l == LeftChild(index)
           r == RightChild(index)
           c == SmallestChild(index)
<1>1. /\ Len(heap) \in Nat /\ index \in Nat /\ index >= 1
      /\ \A i \in 1..Len(heap) : heap[i] \in AnyKey
  BY KeysAreKeys DEF TypeOK
<1>2. /\ Parent(l) = index /\ Parent(r) = index
      /\ l \in Nat /\ l > index /\ r = l + 1
  BY <1>1, ChildProperties
<1>3. \A i \in 2..Len(heap) : Parent(i) = index => i = l \/ i = r
  BY <1>1, ParentProperties
<1>4. l <= Len(heap)
  BY <1>1, <1>2 DEF IsBottom
<1>5. c = IF r > Len(heap) THEN l ELSE IF Less(heap[l], heap[r]) THEN l ELSE r
  BY DEF SmallestChild, Smallest, IsLessStrictly, IsBottom
<1> HIDE DEF l, r, c
<1>6. /\ index \in 1..Len(heap) /\ c \in 2..Len(heap) /\ c > index
      /\ Parent(c) = index
  BY <1>1, <1>2, <1>4, <1>5
<1>7. ASSUME NEW i \in 2..Len(heap), Parent(i) = index
      PROVE  ~Less(heap[i], heap[c])
  <2>1. i = l \/ i = r
    BY <1>7, <1>3
  <2>2. i \in 1..Len(heap) /\ c \in 1..Len(heap)
    BY <1>1, <1>6
  <2>3. CASE i = c
    BY <2>2, <2>3, <1>1, LessAsymmetric
  <2>4. CASE i # c /\ i = r
    <3>1. c = l /\ Less(heap[c], heap[i])
      BY <2>2, <2>4, <1>1, <1>5
    <3>2. QED
      BY <3>1, <2>2, <1>1, LessAsymmetric
  <2>5. CASE i # c /\ i = l
    BY <2>5, <1>1, <1>5
  <2>6. QED
    BY <2>1, <2>3, <2>4, <2>5
<1>8. QED
  BY <1>6, <1>7 DEF c

\* One exchange downwards: the place that may be out of order with its
\* children moves to the child, and its parent is not later than they are.
LEMMA TopDownExchKeeps ==
  ASSUME IInv, TopDownExch
  PROVE  IInv' /\ Held' = Held /\ call' = call
<1> DEFINE c == SmallestChild(index)
<1>1. /\ pc = "topDown" /\ TypeOK /\ Distinct
      /\ ~IsBottom(LeftChild(index)) /\ ~Less(heap[index], heap[c])
      /\ heap' = Exch(index, c) /\ call' = call
      /\ \/ IsBottom(RightChild(index)) /\ pc' = "ready" /\ index' = 1
         \/ ~IsBottom(RightChild(index)) /\ pc' = "topDown" /\ index' = c
  BY DEF TopDownExch, SinksBelow, IsLessStrictly, IInv, Return, Root
<1>2. /\ index \in 1..Len(heap) /\ c \in 2..Len(heap) /\ c > index
      /\ Parent(c) = index
      /\ \A i \in 2..Len(heap) : Parent(i) = index => ~Less(heap[i], heap[c])
  BY <1>1, SmallestChildProperties
<1>3. /\ Len(heap) \in Nat /\ c \in 1..Len(heap)
      /\ \A i \in 1..Len(heap) : heap[i] \in AnyKey
  BY <1>1, <1>2, KeysAreKeys
<1>s. IsBottom(RightChild(index)) => Len(heap) <= c
  <2>1. index \in Nat /\ index >= 1
    BY <1>2
  <2>2. /\ LeftChild(index) \in Nat /\ RightChild(index) = LeftChild(index) + 1
        /\ IsBottom(RightChild(index)) => c = LeftChild(index)
    BY <2>1, ChildProperties DEF SmallestChild
  <2>3. QED
    BY <2>2, <1>3 DEF IsBottom
<1> HIDE DEF c
<1>4. /\ heap' \in Seq(Key) /\ Len(heap') = Len(heap)
      /\ \A i \in 1..Len(heap) : heap'[i] = IF i = c THEN heap[index]
                                 ELSE IF i = index THEN heap[c] ELSE heap[i]
  BY <1>1, <1>2, <1>3, ExchProperties
<1>5. Distinct' /\ Held' = Held
  BY <1>1, <1>2, <1>3, ExchKeepsHeld
<1>6. TypeOK' /\ IndexInHeap'
  <2>1. index' \in Nat \ {0} /\ pc' \in {"ready", "topDown"}
    BY <1>1, <1>3
  <2>2. QED
    BY <2>1, <1>1, <1>4 DEF TypeOK, IndexInHeap
<1>7. \A i \in 2..Len(heap) : Parent(i) \in 1..Len(heap) /\ Parent(i) < i
  <2> TAKE i \in 2..Len(heap)
  <2>1. i \in Nat /\ i >= 2
    BY <1>3
  <2>2. QED
    BY <2>1, <1>3, ParentProperties
<1>8. \A i \in 2..Len(heap) : Parent(i) # index => ~Less(heap[i], heap[Parent(i)])
  BY <1>1 DEF IInv, ParentsFirst, NotLater
<1>9. index # 1 => ~Less(heap[c], heap[Parent(index)])
  BY <1>1, <1>2 DEF IInv, GrandparentFirst, NotLater, Root
<1>10. \A i \in 2..Len(heap) : Parent(i) # c => ~Less(heap'[i], heap'[Parent(i)])
  <2> SUFFICES ASSUME NEW i \in 2..Len(heap), Parent(i) # c
               PROVE  ~Less(heap'[i], heap'[Parent(i)])
    OBVIOUS
  <2>1. CASE i = index
    <3>1. /\ heap'[i] = heap[c] /\ heap'[Parent(i)] = heap[Parent(i)]
      BY <2>1, <1>2, <1>4, <1>7
    <3>2. QED
      BY <2>1, <3>1, <1>9
  <2>2. CASE i = c
    BY <2>2, <1>1, <1>2, <1>4
  <2>3. CASE i # index /\ i # c /\ Parent(i) = index
    BY <2>3, <1>2, <1>4
  <2>4. CASE i # index /\ i # c /\ Parent(i) # index
    BY <2>4, <1>4, <1>7, <1>8
  <2>5. QED
    BY <2>1, <2>2, <2>3, <2>4
<1>11. \A i \in 2..Len(heap) : Parent(i) = c => ~Less(heap'[i], heap'[index])
  <2> SUFFICES ASSUME NEW i \in 2..Len(heap), Parent(i) = c
               PROVE  ~Less(heap'[i], heap'[index])
    OBVIOUS
  <2>1. i > c
    BY <1>7
  <2>2. heap'[i] = heap[i] /\ heap'[index] = heap[c]
    BY <2>1, <1>2, <1>3, <1>4
  <2>3. ~Less(heap[i], heap[Parent(i)])
    BY <1>2, <1>8
  <2>4. QED
    BY <2>2, <2>3
<1>12. ParentsFirst' /\ GrandparentFirst'
  <2>1. CASE pc' = "topDown" /\ index' = c
    BY <2>1, <1>2, <1>4, <1>10, <1>11
       DEF ParentsFirst, GrandparentFirst, NotLater
  <2>2. CASE pc' = "ready" /\ IsBottom(RightChild(index))
    <3>1. \A i \in 2..Len(heap) : Parent(i) # c
      BY <2>2, <1>s, <1>3, <1>7
    <3>2. QED
      BY <2>2, <3>1, <1>4, <1>10 DEF ParentsFirst, GrandparentFirst, NotLater
  <2>3. QED
    BY <1>1, <2>1, <2>2
<1>13. QED
  BY <1>1, <1>5, <1>6, <1>12 DEF IInv

\* TopDown ends where no child is earlier.
LEMMA TopDownReturnKeeps ==
  ASSUME IInv, TopDownReturn
  PROVE  IInv' /\ UNCHANGED <<heap, call>>
<1>1. /\ pc = "topDown" /\ pc' = "ready" /\ index' = 1 /\ TypeOK
      /\ UNCHANGED <<heap, call>> /\ ~SinksBelow(index)
  BY DEF TopDownReturn, Return, Root, IInv
<1>2. TypeOK' /\ Distinct' /\ IndexInHeap' /\ GrandparentFirst'
  BY <1>1 DEF IInv, TypeOK, Distinct, IndexInHeap, GrandparentFirst
<1>3. \A i \in 2..Len(heap) : Parent(i) = index => ~Less(heap[i], heap[index])
  <2> SUFFICES ASSUME NEW i \in 2..Len(heap), Parent(i) = index
               PROVE  ~Less(heap[i], heap[index])
    OBVIOUS
  <2>1. /\ Len(heap) \in Nat /\ index \in Nat /\ index >= 1 /\ i \in Nat /\ i >= 2
        /\ \A j \in 1..Len(heap) : heap[j] \in AnyKey
    BY <1>1, KeysAreKeys DEF TypeOK
  <2>2. ~IsBottom(LeftChild(index))
    <3>1. i = LeftChild(index) \/ i = RightChild(index)
      BY <2>1, ParentProperties
    <3>2. LeftChild(index) \in Nat /\ RightChild(index) = LeftChild(index) + 1
      BY <2>1, ChildProperties
    <3>3. QED
      BY <3>1, <3>2, <2>1 DEF IsBottom
  <2>3. Less(heap[index], heap[SmallestChild(index)])
    BY <2>2, <1>1 DEF SinksBelow, IsLessStrictly
  <2>4. /\ index \in 1..Len(heap) /\ SmallestChild(index) \in 2..Len(heap)
        /\ ~Less(heap[i], heap[SmallestChild(index)])
    BY <2>2, <1>1, SmallestChildProperties
  <2>5. /\ heap[index] \in AnyKey /\ heap[i] \in AnyKey
        /\ heap[SmallestChild(index)] \in AnyKey
    BY <2>1, <2>4
  <2>6. ~Less(heap[SmallestChild(index)], heap[index])
    BY <2>3, <2>5, LessAsymmetric
  <2>7. QED
    BY <2>4, <2>5, <2>6, NotLaterTransitive
<1>4. ParentsFirst'
  BY <1>1, <1>3 DEF IInv, ParentsFirst, NotLater
<1>5. QED
  BY <1>1, <1>2, <1>4 DEF IInv

\* The heap is always well typed and ordered but around the loop's place.
LEMMA IInvHolds == SpecFitting => []IInv
<1>1. Init => IInv
  BY EmptySeq DEF Init, IInv, TypeOK, Distinct, ParentsFirst, GrandparentFirst,
                  IndexInHeap, Root
<1>2. IInv /\ [NextFitting]_vars => IInv'
  <2> SUFFICES ASSUME IInv, [NextFitting]_vars PROVE IInv'
    OBVIOUS
  <2>1. CASE Loops
    BY <2>1, BottomUpExchKeeps, BottomUpReturnKeeps, TopDownExchKeeps,
       TopDownReturnKeeps DEF Loops
  <2>2. CASE RemoveNext
    BY <2>2, RemoveNextKeeps
  <2>3. ASSUME NEW ev \in Key, Insert(ev) PROVE IInv'
    BY <2>3, InsertKeeps
  <2>4. ASSUME NEW ev \in Key, LastFits(ev), Remove(ev) PROVE IInv'
    BY <2>4, RemoveKeeps
  <2>5. CASE UNCHANGED vars
    BY <2>5 DEF vars, IInv, TypeOK, Distinct, ParentsFirst, GrandparentFirst,
                IndexInHeap, NotLater
  <2>6. QED
    BY <2>1, <2>2, <2>3, <2>4, <2>5 DEF NextFitting
<1>3. QED
  BY <1>1, <1>2, PTL DEF SpecFitting

\* For every set of events, what is held and what is called for is events.
THEOREM TypeCorrect == SpecFitting => []TypeOK
<1>1. IInv => TypeOK
  BY DEF IInv
<1>2. QED
  BY <1>1, IInvHolds, PTL

\* For every set of events, a heap out of whose middle nothing is taken unless
\* the last event fits there has its earliest event at its root whenever no
\* operation is under way (heap-scheduler.cc BottomUp, TopDown).
THEOREM PeekCorrect == SpecFitting => []PeekIsEarliest
<1>1. IInv => PeekIsEarliest
  BY RootIsEarliest DEF PeekIsEarliest, PeekNext, IsEmpty
<1>2. QED
  BY <1>1, IInvHolds, PTL

\* Such a heap implements the event list of scheduler.h: Insert, RemoveNext and
\* Remove are its steps of the same name, the exchanges of the loops stutter.
THEOREM HeapImplementsScheduler == SpecFitting => ImplementsScheduler
<1>1. Init => Abstract!Init
  BY DEF Init, Abstract!Init, Held
<1>2. IInv /\ [NextFitting]_vars => [Abstract!Next]_(Abstract!vars)
  <2> SUFFICES ASSUME IInv, [NextFitting]_vars
               PROVE  [Abstract!Next]_(Abstract!vars)
    OBVIOUS
  <2>1. CASE Loops
    <3>1. CASE BottomUpExch
      BY <3>1, BottomUpExchKeeps DEF BottomUpExch, Abstract!vars
    <3>2. CASE TopDownExch
      BY <3>2, TopDownExchKeeps DEF Abstract!vars
    <3>3. CASE BottomUpReturn \/ TopDownReturn
      BY <3>3 DEF BottomUpReturn, TopDownReturn, Held, Abstract!vars
    <3>4. QED
      BY <2>1, <3>1, <3>2, <3>3 DEF Loops
  <2>2. CASE RemoveNext
    <3>1. /\ IsEarliest(heap[Root], Held) /\ heap[Root] \in Held
          /\ Held' = Held \ {heap[Root]} /\ call' = {<<"RemoveNext", heap[Root]>>}
      BY <2>2, RemoveNextKeeps DEF IsEarliest
    <3>2. Abstract!RemoveNext
      BY <3>1 DEF Abstract!RemoveNext, IsEarliest, Less,
                  Abstract!IsEarliest, Abstract!Less
    <3>3. QED
      BY <3>2 DEF Abstract!Next
  <2>3. ASSUME NEW ev \in Key, Insert(ev) PROVE Abstract!Insert(ev)
    BY <2>3, InsertKeeps DEF Insert, Abstract!Insert
  <2>4. ASSUME NEW ev \in Key, LastFits(ev), Remove(ev) PROVE Abstract!Remove(ev)
    BY <2>4, RemoveKeeps DEF Abstract!Remove
  <2>5. CASE UNCHANGED vars
    BY <2>5 DEF vars, Held, Abstract!vars
  <2>6. QED
    BY <2>1, <2>2, <2>3, <2>4, <2>5 DEF NextFitting, Abstract!Next
<1>3. QED
  BY <1>1, <1>2, IInvHolds, PTL DEF SpecFitting, ImplementsScheduler, Abstract!Spec
=============================================================================
