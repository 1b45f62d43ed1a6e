--------------------------- MODULE HeapScheduler ----------------------------
(***************************************************************************)
(* src/core/model/heap-scheduler.cc: the events in a binary heap.  The     *)
(* code leaves slot 0 of its vector unused, so heap[i] here is m_heap[i]   *)
(* and Len(heap) is Last().  One iteration of the loops of BottomUp and of *)
(* TopDown is one step.                                                    *)
(***************************************************************************)
EXTENDS Keys, Sequences

VARIABLES
    heap,       \* m_heap without its slot 0
    call,       \* {} or {<<the last operation called, its event>>}
    pc,         \* "ready", or the loop that runs: "bottomUp", "topDown"
    index       \* its position in the heap

vars == <<heap, call, pc, index>>

Root == 1
Parent(id) == id \div 2
LeftChild(id) == 2 * id
RightChild(id) == 2 * id + 1

Held == {heap[i] : i \in 1..Len(heap)}

IsEmpty == heap = <<>>

PeekNext == heap[Root]

IsBottom(id) == id > Len(heap)

IsLessStrictly(a, b) == Less(heap[a], heap[b])

\* Mutant: always the left child.
Smallest_left(a, b) == a

Smallest(a, b) == IF IsLessStrictly(a, b) THEN a ELSE b

Exch(a, b) == [heap EXCEPT ![a] = heap[b], ![b] = heap[a]]

\* What Exch(a, Last()) and pop_back leave.
ExchAndPop(a) == SubSeq(Exch(a, Len(heap)), 1, Len(heap) - 1)

Init == heap = <<>> /\ call = {} /\ pc = "ready" /\ index = Root

Insert(ev) == /\ pc = "ready"
              /\ ev \notin Held
              /\ heap' = Append(heap, ev)
              /\ pc' = "bottomUp"
              /\ index' = Len(heap) + 1
              /\ call' = {<<"Insert", ev>>}

RisesAbove(id) == id # Root /\ IsLessStrictly(id, Parent(id))

\* Mutant: one exchange and no more.
BottomUpExch_once ==
    /\ pc = "bottomUp"
    /\ RisesAbove(index)
    /\ heap' = Exch(index, Parent(index))
    /\ index' = Root
    /\ UNCHANGED <<call, pc>>

BottomUpExch ==
    /\ pc = "bottomUp"
    /\ RisesAbove(index)
    /\ heap' = Exch(index, Parent(index))
    /\ index' = Parent(index)
    /\ UNCHANGED <<call, pc>>

Return == pc' = "ready" /\ index' = Root

BottomUpReturn ==
    /\ pc = "bottomUp"
    /\ ~RisesAbove(index)
    /\ Return
    /\ UNCHANGED <<heap, call>>

RemoveNext == /\ pc = "ready"
              /\ ~IsEmpty
              /\ call' = {<<"RemoveNext", heap[Root]>>}
              /\ heap' = ExchAndPop(Root)
              /\ pc' = "topDown"
              /\ index' = Root

\* Only TopDown runs afterwards: the event that takes the place is never
\* compared with its parent.
Remove(ev) == /\ pc = "ready"
              /\ \E i \in 1..Len(heap) :
                     /\ heap[i].uid = ev.uid
                     /\ heap' = ExchAndPop(i)
                     /\ index' = i
              /\ pc' = "topDown"
              /\ call' = {<<"Remove", ev>>}

\* The child that TopDown compares with: the smaller of two, or the left one.
SmallestChild(id) == IF IsBottom(RightChild(id))
                     THEN LeftChild(id)
                     ELSE Smallest(LeftChild(id), RightChild(id))

SinksBelow(id) == /\ ~IsBottom(LeftChild(id))
                  /\ ~IsLessStrictly(id, SmallestChild(id))

\* The loop goes on while there are two children; a left child without a
\* right one is the last exchange.
TopDownExch ==
    /\ pc = "topDown"
    /\ SinksBelow(index)
    /\ heap' = Exch(index, SmallestChild(index))
    /\ IF IsBottom(RightChild(index))
       THEN Return
       ELSE index' = SmallestChild(index) /\ UNCHANGED pc
    /\ UNCHANGED call

TopDownReturn ==
    /\ pc = "topDown"
    /\ ~SinksBelow(index)
    /\ Return
    /\ UNCHANGED <<heap, call>>

Loops == BottomUpExch \/ BottomUpReturn \/ TopDownExch \/ TopDownReturn

\* All operations, at any time.
Next == Loops \/ RemoveNext \/ \E ev \in Key : Insert(ev) \/ Remove(ev)

Spec == Init /\ [][Next]_vars

\* The last event may take the place of ev: it is not earlier than the parent
\* of that place.
LastFits(ev) == \A i \in 2..Len(heap) :
                    heap[i].uid = ev.uid => ~IsLessStrictly(Len(heap), Parent(i))

NextFitting == \/ Loops \/ RemoveNext
               \/ \E ev \in Key : Insert(ev) \/ (LastFits(ev) /\ Remove(ev))

SpecFitting == Init /\ [][NextFitting]_vars
-----------------------------------------------------------------------------
TypeOK == /\ heap \in Seq(Key)
          /\ call \subseteq Operation \X Key
          /\ pc \in {"ready", "bottomUp", "topDown"}
          /\ index \in Nat \ {0}

(***************************************************************************)
(* scheduler.h:209 promises "the next earliest event": whenever no         *)
(* operation is under way, nothing in the heap is due before its root      *)
(* (heap-scheduler.cc BottomUp, TopDown).                                  *)
(***************************************************************************)
PeekIsEarliest == pc = "ready" /\ ~IsEmpty => IsEarliest(PeekNext, Held)

Abstract == INSTANCE Scheduler WITH events <- Held

(***************************************************************************)
(* With every Remove such that the last event fits into the hole, the heap *)
(* is an event list in the sense of scheduler.h: its exchanges permute,    *)
(* and each operation adds or takes out the one event that it should.      *)
(***************************************************************************)
ImplementsScheduler == Abstract!Spec
=============================================================================
