------------------------- MODULE CalendarScheduler --------------------------
(***************************************************************************)
(* src/core/model/calendar-scheduler.cc: the events in buckets by time     *)
(* modulo a year of nBuckets * width; the number of buckets follows the    *)
(* number of events, the width the spacing of the next ones.               *)
(*                                                                         *)
(* A calendar is a record of the code's m_ variables.  Its 64-bit times    *)
(* are unbounded here: the code computes beyond the greatest time held     *)
(* only by one year.                                                       *)
(***************************************************************************)
EXTENDS Keys, Sequences, Functions, FiniteSetsExt

Seqs == INSTANCE SequencesExt

CONSTANT MaxBuckets    \* 32768 in ResizeUp

VARIABLES
    cal,        \* [buckets, nBuckets, width, lastPrio, lastBucket, bucketTop, qSize, reverse]
    call        \* {} or {<<the last operation called, its event>>}

vars == <<cal, call>>

InBucket(c, b) == Range(c.buckets[b])
HeldIn(c) == UNION {InBucket(c, b) : b \in DOMAIN c.buckets}
Held == HeldIn(cal)

Hash(c, ts) == (ts \div c.width) % c.nBuckets

\* CalendarScheduler::Init.
StartAt(c, nBuckets, width, startPrio) ==
    [c EXCEPT !.buckets = [b \in 0..(nBuckets - 1) |-> <<>>],
              !.nBuckets = nBuckets,
              !.width = width,
              !.lastPrio = startPrio,
              !.lastBucket = (startPrio \div width) % nBuckets,
              !.bucketTop = (startPrio \div width + 1) * width]

\* SetReverse: the order within a bucket, and the end that NextEvent and Pop use.
Order(c, a, b) == IF c.reverse THEN Less(b, a) ELSE Less(a, b)
NextEvent(c, b) == IF c.reverse THEN Seqs!Last(c.buckets[b]) ELSE Head(c.buckets[b])
Pop(c, b) == [c EXCEPT !.buckets[b] = IF c.reverse THEN Seqs!Front(@) ELSE Tail(@)]

\* Before the first event of the bucket that is later in its order, or last.
DoInsert(c, ev) ==
    LET b == Hash(c, ev.ts)
        k == Min({i \in DOMAIN c.buckets[b] : Order(c, ev, c.buckets[b][i])}
                 \cup {Len(c.buckets[b]) + 1})
    IN  [c EXCEPT !.buckets[b] = Seqs!InsertAt(@, k, ev)]

\* The events of the sequence s, one after the other.
PutAll(c, s) ==
    LET put[n \in 0..Len(s)] == IF n = 0 THEN c ELSE DoInsert(put[n - 1], s[n])
    IN  put[Len(s)]

\* The k-th bucket of the scan of the year, from the last one used.
Scanned(c, k) == (c.lastBucket + k) % c.nBuckets
Top(c, k) == c.bucketTop + k * c.width
NonEmpty(c) == {k \in 0..(c.nBuckets - 1) : c.buckets[Scanned(c, k)] # <<>>}

\* Mutant: whatever is in the bucket counts as this year's.
DueThisYear_any(c) == NonEmpty(c)

\* The buckets whose next event is due before the bucket's end this year.
DueThisYear(c) == {k \in NonEmpty(c) : NextEvent(c, Scanned(c, k)).ts < Top(c, k)}

\* No event this year: the earliest of the buckets' next events.
EarliestBucket(c) ==
    CHOOSE b \in {Scanned(c, k) : k \in NonEmpty(c)} :
        IsEarliest(NextEvent(c, b), {NextEvent(c, Scanned(c, k)) : k \in NonEmpty(c)})

PeekNext == IF DueThisYear(cal) # {}
            THEN NextEvent(cal, Scanned(cal, Min(DueThisYear(cal))))
            ELSE NextEvent(cal, EarliestBucket(cal))

\* The event that DoRemoveNext returns and the calendar that it leaves.
DoRemoveNext(c) ==
    IF DueThisYear(c) # {}
    THEN LET k == Min(DueThisYear(c))
             b == Scanned(c, k)
         IN  [ev  |-> NextEvent(c, b),
              cal |-> [Pop(c, b) EXCEPT !.lastBucket = b,
                                        !.lastPrio = NextEvent(c, b).ts,
                                        !.bucketTop = Top(c, k)]]
    ELSE LET b  == EarliestBucket(c)
             ts == NextEvent(c, b).ts
         IN  [ev  |-> NextEvent(c, b),
              cal |-> [Pop(c, b) EXCEPT !.lastPrio = ts,
                                        !.lastBucket = Hash(c, ts),
                                        !.bucketTop = (ts \div c.width + 1) * c.width]]

(***************************************************************************)
(* CalculateNewWidth takes the next nSamples events out, puts them back,   *)
(* restores the position and derives the width from their separations.     *)
(***************************************************************************)
NumSamples(c) == Min({25, IF c.qSize <= 5 THEN c.qSize ELSE 5 + c.qSize \div 10})

\* The next n events, and the calendar without them.
Take(c, n) ==
    LET take[k \in 0..n] ==
            IF k = 0 THEN [cal |-> c, out |-> <<>>]
            ELSE LET next == DoRemoveNext(take[k - 1].cal)
                 IN  [cal |-> next.cal, out |-> Append(take[k - 1].out, next.ev)]
    IN  take[n]

Samples(c) == Take(c, NumSamples(c))

\* Mutant: the position is not restored.
AfterSampling_moved(c) == PutAll(Samples(c).cal, Samples(c).out)

AfterSampling(c) ==
    IF c.qSize < 2 THEN c
    ELSE [PutAll(Samples(c).cal, Samples(c).out) EXCEPT !.lastBucket = c.lastBucket,
                                                        !.bucketTop = c.bucketTop,
                                                        !.lastPrio = c.lastPrio]

Total(s) ==
    LET sum[k \in 0..Len(s)] == IF k = 0 THEN 0 ELSE sum[k - 1] + s[k]
    IN  sum[Len(s)]

\* Three times the sum of the separations that are not above twice the average.
CalculateNewWidth(c) ==
    IF c.qSize < 2 THEN 1
    ELSE LET out == Samples(c).out
             n == Len(out) - 1
             diff == [k \in 1..n |-> out[k + 1].ts - out[k].ts]
             twiceAvg == (Total(diff) \div n) * 2
             close == [k \in 1..n |-> IF diff[k] <= twiceAvg THEN diff[k] ELSE 0]
         IN  Max({3 * Total(close), 1})

\* DoResize: the events of old, bucket by bucket.
PutBuckets(c, old) ==
    LET moved[n \in 0..old.nBuckets] ==
            IF n = 0 THEN c ELSE PutAll(moved[n - 1], old.buckets[n - 1])
    IN  moved[old.nBuckets]

\* Mutant: the new width is set after the events have been put in.
Resize_widthLast(c, newSize) ==
    LET old == AfterSampling(c)
    IN  [PutBuckets(StartAt(old, newSize, old.width, old.lastPrio), old)
             EXCEPT !.width = CalculateNewWidth(c)]

\* Resize: all events into new buckets, from the last event's time.
Resize(c, newSize) ==
    LET old == AfterSampling(c)
    IN  PutBuckets(StartAt(old, newSize, CalculateNewWidth(c), old.lastPrio), old)

\* Mutant: the calendar grows at three events per bucket.
ResizeUp_late(c) ==
    IF c.qSize > 3 * c.nBuckets /\ c.nBuckets < MaxBuckets
    THEN Resize(c, 2 * c.nBuckets) ELSE c

ResizeUp(c) == IF c.qSize > 2 * c.nBuckets /\ c.nBuckets < MaxBuckets
               THEN Resize(c, 2 * c.nBuckets) ELSE c

ResizeDown(c) == IF c.qSize < c.nBuckets \div 2
                 THEN Resize(c, c.nBuckets \div 2) ELSE c

Init == /\ \E reverse \in BOOLEAN :
               cal = StartAt([buckets |-> <<>>, nBuckets |-> 0, width |-> 0,
                              lastPrio |-> 0, lastBucket |-> 0, bucketTop |-> 0,
                              qSize |-> 0, reverse |-> reverse], 2, 1, 0)
        /\ call = {}

\* The simulators insert no event that is due before the one that runs, and
\* that one is the last that RemoveNext returned.
Insert(ev) == /\ ev \notin Held
              /\ ev.ts >= cal.lastPrio
              /\ cal' = ResizeUp([DoInsert(cal, ev) EXCEPT !.qSize = @ + 1])
              /\ call' = {<<"Insert", ev>>}

RemoveNext == /\ cal.qSize # 0
              /\ LET next == DoRemoveNext(cal)
                 IN  /\ call' = {<<"RemoveNext", next.ev>>}
                     /\ cal' = ResizeDown([next.cal EXCEPT !.qSize = @ - 1])

\* The event is looked for in the bucket of its time, and the first with its id erased.
Erase(c, ev) ==
    LET b == Hash(c, ev.ts)
        k == Min({i \in DOMAIN c.buckets[b] : c.buckets[b][i].uid = ev.uid})
    IN  [c EXCEPT !.buckets[b] = Seqs!RemoveAt(@, k)]

\* Mutant: m_qSize is not decremented.
Remove_notCounted(ev) == /\ ev \in Held
                         /\ cal' = ResizeDown(Erase(cal, ev))
                         /\ call' = {<<"Remove", ev>>}

Remove(ev) == /\ ev \in Held
              /\ cal' = ResizeDown([Erase(cal, ev) EXCEPT !.qSize = @ - 1])
              /\ call' = {<<"Remove", ev>>}

Next == RemoveNext \/ \E ev \in Key : Insert(ev) \/ Remove(ev)

Spec == Init /\ [][Next]_vars
-----------------------------------------------------------------------------
(***************************************************************************)
(* m_qSize, which decides IsEmpty and every resize, is the number of       *)
(* events in the buckets (calendar-scheduler.cc Insert, RemoveNext,        *)
(* Remove, and the sampling that goes around it).                          *)
(***************************************************************************)
QSizeIsExact == cal.qSize = Cardinality(Held)

(***************************************************************************)
(* Every event is in the bucket of its time, whatever resizes have changed *)
(* the width since it was inserted: Remove, which looks only there, never  *)
(* comes to its NS_ASSERT(false).                                          *)
(***************************************************************************)
InItsBucket == \A b \in DOMAIN cal.buckets :
                   \A ev \in InBucket(cal, b) : Hash(cal, ev.ts) = b

(***************************************************************************)
(* The calendar follows its load: no more than two events per bucket while *)
(* it may grow, and no more than two buckets per event beyond the two that *)
(* it starts with and the rounding of the halves (ResizeUp, ResizeDown).   *)
(***************************************************************************)
FollowsLoad == /\ cal.qSize <= 2 * cal.nBuckets \/ cal.nBuckets = MaxBuckets
               /\ cal.nBuckets <= 2 \/ cal.nBuckets \div 2 <= cal.qSize

(***************************************************************************)
(* What PeekNext shows is the earliest event, though it scans from the     *)
(* last event removed and trusts the first bucket with an event of the     *)
(* current year (PeekNext 168-200, the counterpart of DoRemoveNext).       *)
(***************************************************************************)
PeekIsEarliest == cal.qSize # 0 => IsEarliest(PeekNext, Held)
=============================================================================
