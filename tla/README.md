# The ns-3 event engine: models, checks and proofs

The repository is ns-3-dev (`src/ns-3-dev-git-master`) with a private module,
`src/segment-routing` (Mobile IPv6, NEMO and SRv6). Everything in ns-3 is a call
or an event: a simulation is correct only if the event engine keeps its promise,
that events run at their time, in the order of their times, first come first
served among equals, each once, and none after it was cancelled. That promise
rests on code which is short, old, hand-optimised and hard to test: reference
counts kept by hand, a hand-over queue shared with other threads, five
interchangeable event lists, an expiry test that never looks at the list, a loop
that waits for the wall clock while others insert, and two ways to spread one
simulation over processes that only exchange messages. This directory models
that core, checks it with TLC and proves its main properties with TLAPS.

Paths are relative to `src/ns-3-dev-git-master/src/core/model/`, or, for the
distributed simulators, to `src/ns-3-dev-git-master/src/mpi/model/`, unless they
say otherwise.

## 1. The system and its parts

| Part | State | Operations | Hard behaviours | What makes it correct |
|---|---|---|---|---|
| `DefaultSimulatorImpl` (default-simulator-impl.cc) | event list, clock and id of the current event, next id, stop flag, counter of events, list of destroy events, hand-over queue with a mutex and a flag | `Schedule`, `ScheduleNow`, `ScheduleWithContext`, `ScheduleDestroy`, `Cancel`, `Remove`, `Stop`, `Run`, `Destroy`, `SetScheduler` | other threads post while the loop drains; handlers call back; several runs; ids that wrap; references without owners | order of execution, exactness of `IsExpired`, of the counter and of the reference counts, no post lost |
| Event lists (`ListScheduler`, `HeapScheduler`, `CalendarScheduler`, `MapScheduler`, `PriorityQueueScheduler`) | a container of (key, event) | `Insert`, `IsEmpty`, `PeekNext`, `RemoveNext`, `Remove` | loops at the edges of a heap, resizing in the middle of a simulation, removal from the middle | all are the same abstract list: the earliest first, nothing lost |
| `Timer` (timer.cc) | the id of its event, a suspended flag, the delay left, a destroy policy | `Schedule`, `Cancel`, `Remove`, `Suspend`, `Resume`, destructor | calls at the very instant of expiry, in any order | fires exactly when its delay has run; one event at most |
| `Watchdog` (watchdog.cc) | the id of its event, the end | `Ping`, `Expire`, destructor | pings that move the end while an earlier event is pending | fires once, at the last deadline |
| `RealtimeSimulatorImpl` and `WallClockSynchronizer` | the default simulator's list and clock behind a mutex, a condition, the origin of real time | the same calls, from any thread; `Run` that sleeps and spins | every interleaving of insertion, signal and waiting | never ahead of the wall clock, nothing inserted in the past, no signal lost |
| `DistributedSimulatorImpl` and `GrantedTimeWindowMpiInterface` | per rank a list, a look-ahead, a granted time, counts of messages; messages in flight | handlers, sending, receiving, the collective operation | messages in flight when the ranks compare notes | no event in the past of a rank, all ranks leave together, and they do |
| `NullMessageSimulatorImpl`, `NullMessageMpiInterface`, `RemoteChannelBundle` | per rank a list, a safe time, a promise held and a null event per neighbour | handlers, sending with a promise, null messages, blocking and other receives | waiting in a circle, promises that are old, renewed or not kept | promises are kept, no event in the past, everybody reaches the end |
| Event garbage collector, queues and traffic control, neighbour caches, TCP, routing protocols, devices | per object | thousands of files of simulated technology | timers, retransmission | not addressed here, see section 7 |
| `segment-routing` | agents, binding list and cache, tunnels | binding updates and acknowledgements, DAD, hand-over | races between timers and messages | not addressed here, see section 7 |

How they interact: `Timer`, `Watchdog` and all other code call `Simulator`, which
forwards to the one `SimulatorImpl` of the process. That one owns one event list
and calls only the five operations of `scheduler.h` on it. `ProcessOneEvent` takes
the earliest event, moves the clock and calls the event's `Notify`, which calls
back into everything. In the default simulator the only memory that threads share
is the hand-over queue, its mutex and the flag `m_eventsWithContextEmpty`, which is
also read without the mutex. In the realtime simulator they share the event list
under a mutex, and the synchronizer's condition, which its loop reads while
spinning without one. Ranks of a distributed simulation share no memory:
point-to-point links whose ends are on two ranks carry packets as MPI messages,
and the granted time window adds one collective operation.

## 2. Modules

```
EventKey                      the order of events, scheduler.h:259-287
 |- Keys, Scheduler           what an event list promises (scheduler.h)
 |   ^ implemented by ListScheduler, HeapScheduler, CalendarScheduler
 |   ^ implemented by SetScheduler: the simulator with a list, with a calendar,
 |                    or with the one exchanged for the other
 |- DefaultSimulator          the simulator over a set of events
 |   v implements EventLoop   what the comments of simulator.h promise
 |- RealtimeSimulator         simulator and synchronizer, threads and wall clock
 |- GrantedTimeWindow  ---+
 |- NullMessage  ---------+-- implement ParallelSimulation (over LogicalProcesses)
Timer, Watchdog               users of the simulator
MC*                           instances for TLC
DefaultSimulatorProofs, SetSchedulerProofs, HeapSchedulerProofs, TimerProofs,
WatchdogProofs, RealtimeSimulatorProofs, GrantedTimeWindowProofs, NullMessageProofs
                              theorems, checked by TLAPS
```

`Less` of `EventKey` is `operator<` on keys (time, then id), `IsEarliest` is what
`PeekNext` means. Composition: `SetScheduler` puts the event lists into the
simulator that uses them; `DefaultSimulator`, `RealtimeSimulator` and the two
distributed simulators use the abstract list, which the list modules are shown to
implement; `Timer` and `Watchdog` use of the simulator what `DefaultSimulator`
guarantees.

### DefaultSimulator

One action per call of user code (enabled between two runs and inside a handler)
and one per step of the main thread. Because posts of other threads can come
between them, `ProcessEventsWithContext` is cut where they can: the test of the
flag (`DrainTest`, `DrainSkip`), taking the mutex, swapping the queues, setting
the flag and releasing the mutex, inserting one event at a time. A post of
another thread is `PostLock`, `PostPush`, `PostUnlock`. `ProcessOneEvent` is
split by what `Invoke` does: a user's handler starts (`InvokeEvent`, up to
`HandlerReturn`), the handler of `Stop(delay)` runs (`InvokeStop`), or a cancelled
event is skipped (`SkipCancelled`). `Destroy`, `DestroyNext`, `BeginDispose` and
`DoDispose` follow `Simulator::Destroy`; a handler runs in between.

*The data race.* `ProcessEventsWithContext` reads the flag without the mutex under
which threads clear it. The model lets the read return an old TRUE
(`DrainSkip` is enabled whatever the flag is). An old FALSE is impossible, the
main thread having written the last TRUE itself.

*Events* are model values, each given to the simulator once. `ids` is the
`EventId` that user code holds; `refs` counts the references that the simulator
owns by raw pointer: the code never stores that number as such, the variable
follows its `Ref`, `Unref` and transfers. `handed`, `inserted` and `ran` are history
variables for the properties. Abstracted: the context of an event and `m_eventCount`,
which no modelled guard reads; `PeekEventImpl` and other bookkeeping of smart pointers.

`EventLoop` is the abstract promise: an agenda in order, a queue of posts that are
taken over one by one, the events cancelled or removed, no ids, no flag, no mutex.
Nothing leaves the agenda but by running at its turn, by a removal, which shows in
`off`, or at the end. `DefaultSimulator` gives the refinement mapping (`Agenda` is the event
list in key order, an event's `Position` being one more than the number of events before
it; the queue that waits is the swapped-out list followed by the shared one), and
`ImplementsEventLoop` is checked and proved.

### Event lists

`Scheduler` is the abstract list. `MapScheduler` and `PriorityQueueScheduler` are
thin wrappers of `std::map` and `std::priority_queue`, whose promise is that
list, so `Scheduler` is also their model. The variable `call` shows the last operation
and its event, so that an implementation must do what it was asked for: a `Remove` that took
out another event, or an event that vanished in a resize, would not implement it.

* `ListScheduler`: a sequence kept sorted by `Insert`.
* `HeapScheduler`: a sequence, the code's vector without its unused slot 0. One
  iteration of the loops of `BottomUp` and `TopDown` is one step, so the broken
  order in the middle of an operation is part of the state space.
  `Spec` has every operation. `SpecFitting` restricts `Remove` to the calls in
  which the last event, which fills the hole, is not earlier than the parent of
  the hole: the code needs that and does not ensure it (section 6).
* `CalendarScheduler`: the calendar is a record of the code's members; a resize is
  computed as the code does it, including `CalculateNewWidth`, which takes
  events out, puts them back and restores the position. Both directions of `SetReverse`
  are initial states. `Insert` is called with times not before the last event
  taken, as the simulator does.
* `SetScheduler`: a simulator that starts with a list or with a calendar; from the
  list it may, in the middle of the simulation, move every event to a new calendar
  that knows nothing of the past. It instantiates both lists, so that its one run
  checks the list alone, the calendar alone and the exchange.

### Timer and Watchdog

They keep of the simulator what its users see: the clock and the object's own
events still to come. That `EventId::IsRunning` means precisely "still to come" is
`ExpiredIsExact` of `DefaultSimulator`, proved for every instance. `left` (the part
of the delay that has not run, by the calls made), `deadlines` and `owed` are
history variables. NS_FATAL_ERROR and NS_ASSERT end the program, so they are guards.

`Timer` has two constants for its user: `Suspendable` (the destroy policies with
which `Suspend` is called) and `Careless` (whether `Schedule` is called on a suspended
timer). The passing run and the theorems use the timer as meant; the run
`timer_suspend_default` lets the user do everything that the code accepts.

`Destroy` of `Watchdog` cancels the event, as the code does and timer.h denies (section 6).
What was owed stays owed; the properties of the run, `OneEventWhileOwed` and `PingIsAnswered`, are
therefore about a watchdog that is alive, and do not take sides.

### RealtimeSimulator

The main thread inside `Run` is a program counter: `LoopTest`, `CheckEvents` or
`CheckEmpty`, `Look` (the first critical section of `ProcessOneEvent`, which notes
the time, the wait and resets the condition), `Synchronize` with its sleep and its
spin outside the mutex, `Execute` (the second critical section, which takes
whatever is at the head of the list by then) and the handler. An insertion by
another thread is cut into `PostLock` (mutex taken, time read), `PostInsert` and
`PostSignal`, because the unlocked parts of the main thread can see each of them;
a critical section of the main thread in which nothing else can happen is one
step that needs a free mutex.

The synchronizer is in the same module because the two work on each other's state:
`m_condition` is set by `Signal`, reset in `Look`, and ends the sleep and the spin.
`wait_for` returns the predicate, so that `SleepWait` returns TRUE when signalled and
FALSE at its timeout, the opposite of the comment at
wall-clock-synchronizer.cc:226-231. The model does what the code does:
`SleepSignalled` goes on as after a full sleep and finds the condition in the spin,
`SleepTimeout` makes the loop look again. Both orders reach the same place, which
is why the inversion is harmless; `NeverEarly` and `InsertedEventLeaves` show it.

Constants for what is a number in the code: `SpinMargin` (3 jiffies are left to the
spin), `IdleDelay` (the second that an empty loop sleeps), `Epoch` (what the system
clock shows at the beginning, so that an origin that has not been set yet is
visible), `m_hardLimit`. `Careful` is how the program is used: `Run` once, and posts
only after `SetOrigin`. Without it posts may come before the time of the
simulation, see section 6.

### Distributed simulation

`LogicalProcesses` declares ranks and the links between them.
`ParallelSimulation` is the promise of both distributed simulators: each rank has a
clock and a bag of the times still to come, its list and what is on its way to
it; it executes the earliest of *all* of them, so that it never has to roll back,
and what it sends lies at least a link's delay ahead of it.

`GrantedTimeWindow`: a rank executes what is due in its window (`ProcessOneEvent`),
receives what has arrived (`ReceiveMessage`, any message in flight to it, in any
order, while others stay in flight for as long as the network likes) and
contributes to the collective operation. `Allgather` is one step, because no rank
does anything between its contribution and the result: if the counts of all
agree nothing is in flight, and every rank computes a new window or leaves.
`LookAhead` translates `CalculateLookAhead` with its `MPI_Allreduce` and
`BoundLookAhead`.

`NullMessage`: a rank executes what is not later than its safe time, and otherwise
waits for exactly one message (`HandleArrivingMessagesBlocking`); after every event
it takes what has arrived (`HandleArrivingMessagesNonBlocking`, then
`CalculateSafeTime`). `channel[r][q]` is first in, first out, as there is one
receive posted per neighbour. A packet (`TransmitStart`, which reserves the device
until its `complete` event) and a null message both carry a promise computed by
`CalculateGuaranteeTime`; both cancel and reschedule the null event of the
bundle, and a cancelled one is found in the list by its old id (`CancelledEvent`).

## 3. Runs

| Run | Question | Instance | Distinct states |
|---|---|---|---|
| `default_simulator` | order, expiry, counter, references, queue, and the refinement of `EventLoop` | 3 events, 2 threads, delays 0 and 1, ids below 12 of 16 | 529 126 (up to symmetry) |
| `default_simulator_live` | does every `Run` return, is every post executed | 2 events, 2 threads, same delays, no symmetry | 43 545 |
| `set_scheduler` | are a list, a calendar and an exchange of them one event list, across resizes | 7 keys, up to 4 buckets, both directions | 479 422 |
| `heap_scheduler` | is the heap one, for every removal that fits | 8 keys, 4 levels | 40 295 |
| `heap_remove_order` (violation) | is it one with every removal | 8 keys | stops at the counterexample |
| `timer` | does a timer fire when it should | delays 0, 1, 3, clock to 8, 7 events | 3 927 |
| `timer_suspend_default` (violation) | does a suspended timer stay silent | the same, any use | stops at the counterexample |
| `watchdog` | does it fire once, at the last deadline, and surely, while it lives | delays 0, 1, 3, clock to 6, 8 events | 13 116 |
| `realtime` | is the simulation in step with the wall clock, does every insertion reach the loop | 2 threads, delays 0 and 2, 3 events, times to 3 | 1 153 670 |
| `granted_time_window` | are windows safe, do ranks leave together and surely | 3 ranks in a row, link delays 2 and 1, ids to 6, 1 packet per rank | 988 824 |
| `null_message` | are promises kept, is nothing in the past, do all finish | 3 ranks in a row, link delays 2 and 1, stop at 4, 2 calls of handlers | 663 536 |
| `null_message_promise` (violation) | are promises kept with two links between two ranks | 2 ranks, 2 links, 3 calls | stops at the counterexample |

Why the bounds are enough:

* Simulator: with three events one can run while another waits in the list and a third is
  posted or cancelled; delays 0 and 1 give equal and different times, and two threads
  contend for the mutex. `UidLimit` is the bound under which user code
  schedules; 12 is out of reach of three events, so nothing is cut off.
* Heap: six events are the least for a hole and a last event in different branches; eight
  make a fourth level, so that the loops take more than one exchange.
* Calendar: it starts with two buckets, grows when a fifth event comes, to its
  greatest size, and shrinks to one bucket; the keys have ties, neighbours,
  ids that do not follow the times, and a gap of several years. With seven keys the
  calendar also grows during the transfer.
* Timer and watchdog: delays 0, 1 and 3 allow a pause or a ping before, at and
  after an expiry, and a second round after the first.
* Realtime: an event awaited, one that is inserted before it, and a third, from
  two threads or from the main thread; a delay of 2 is beyond `SpinMargin` 1, so that the loop
  sleeps and spins; `IdleDelay` 3 is longer than any delay, so that an empty loop must
  be woken to be in time; `m_hardLimit` 1 is exceeded and not. `MaxUid` and `MaxTime`
  bound insertions and the clock, `MaxTime` also how late the loop can be.
* Granted time window: three ranks in a row give a rank that learns of a message only through
  another, two different look-aheads, and a chain of a message that causes the next.
  `MaxTx` bounds the packets of a rank and `MaxUid` its events, those received
  included. `Bound` is
  `Infinity` in the run, so that `BoundLookAhead` is exercised by the theorems only; so is the
  transmission time, which is 0 in the run, the case in which a message is earliest.
* Null messages: a row of three makes promises depend on promises; the packets overtake
  null messages of other neighbours; `StopTime` 4 is four times the smaller delay, so that each promise is
  renewed several times. All packets of the run have one size and one link has a gap after a packet; the theorems cover
  packets of any sizes. `MaxCalls` bounds what handlers do, not the protocol. Two links
  between two ranks are the business of the other run.

`CHECK_DEADLOCK FALSE` appears where a behaviour ends by a named bound (`MaxTime`,
`MaxEvents`, `MaxUid` in `timer`, `watchdog` and `realtime`) or by design: a hard limit that is
exceeded ends a realtime program, and ranks that have all left `Run` take no further step.
That they do not stop before is `RunEnds` and `EverybodyFinishes`. The default simulator and the
event lists do check for deadlock, with `Terminated` as the one state in which the simulator
may stop. Events and threads are symmetric in the safety run of the default
simulator, whose properties never name one; no other run declares a symmetry.

### Properties worth a word

* `ExpiredIsExact`: `IsExpired` compares two numbers and reads a flag. It must say
  exactly whether the event is in the list and not cancelled, also while other
  events of the same time run, after a `Stop`, and between two runs. `Remove`
  relies on it: were it wrong, a reference would be dropped twice.
* `ReferencesExact`: the simulator owns one reference of an event as long as it
  is in a thread's hand, in a queue, in the list or running, and none after,
  through `Remove`, `Cancel`, `Stop`, and the disposal that races with posts.
* `QueueIsAnnounced` and `PostedEventRuns`: the flag and the queue never disagree
  in the direction that would leave an event behind for good; a drain that misses
  it is followed by one that does not.
* `PostedRunInOrder`: the time of a post is fixed when it is taken over, yet posts
  with equal or growing delays are not reordered by drains at different times.
* `ImplementsScheduler`, for the list and the heap, and `SimulatorImplementsScheduler`, for the
  calendar and the exchange: the one formulation of correctness for every
  event list, under the lists' own removals and resizes.
* `FollowsLoad`, `InItsBucket`, `QSizeIsExact`: the calendar's invariants between
  its buckets, its counter and its width.
* `FiresAfterItsDelay`, `DelayLeftIsExact`: a timer fires exactly when the time not
  spent suspended adds up to its delay, and always says how much is left.
* `InvokedAtLastDeadline`, `OneEventWhileOwed`, `PingIsAnswered`: a ping with a shorter
  delay does not pull the end forward, and there is always one event that
  will bring the answer.
* `NeverEarly` and `NothingInThePast` of the realtime simulator: what is executed after a wait need not be
  what was waited for, and threads take their times from the wall clock, not from the simulation.
* `NoSignalIsLost`: between the reset of the condition and the sleep there is a gap
  without the mutex; an insertion in that gap must end the wait all the same. With
  `InsertedEventLeaves`: whoever inserts, whatever the loop waits for, the event leaves the list.
* `NothingInThePast` and `NobodyLeavesEarly` of the time window: absence of messages in flight is inferred
  from sums of counters that were read at different times.
* `GuaranteeKept` and `PromisesAhead`: a promise is made in the middle of a handler, travels, and is
  relied on when its sender has long gone on.
* `ImplementsParallel`, twice: neither algorithm executes anything that a sequential
  simulation would not have executed next on that rank, and nothing is lost or doubled.
* `RunEnds`, `EverybodyFinishes`: nobody is left alone in a collective operation or in a receive.

## 4. Fairness

`default_simulator_live` uses `RunningSpec`: weak fairness of the main thread inside
`Run`, in the drain, and in the shutdown (a handler returns, and the code goes on), and
of `PostPush` and `PostUnlock` of each thread (a thread in the critical section leaves
it). Nothing is assumed of user code but that it calls `Run` again whenever it has
returned, which is `WF_vars(Run)` and the setting of `PostedEventRuns`. Strong fairness of
`DrainTest` says that a thread's write to the flag is seen at the latest when the flag
is read infinitely often: the cache coherence of the machines ns-3 runs on; the
language standard promises nothing to a racing read. That `RunReturns` holds depends on the finitely many
events of the instance: a simulation whose handlers always schedule further events
need not end.

`Watchdog` uses weak fairness of `Expire` and of the clock: a simulator that runs.
`Timer` has safety properties only.

`RealtimeSimulator`: weak fairness of the steps of the main thread inside `Run`, of a thread
that holds the mutex (it inserts, signals and lets go), and of the wall clock. Whether
user code calls `Run`, and whether anybody posts, is left open. The steps that need the mutex get
weak fairness only; posts are bounded, so that the mutex becomes free for good.

`GrantedTimeWindow`: weak fairness of "some rank goes on, or the collective operation
completes", which is what running processes do, and strong fairness of receiving: MPI delivers
a message in the end to ranks that ask again and again. It may stay in flight
through any number of rounds before.

`NullMessage`: weak fairness of `Loop(r)` for each rank: it executes what is safe, handlers return,
and a message that it waits for in `MPI_Waitany` is delivered. Receiving without blocking
needs no fairness.

## 5. What is proved

All theorems hold for every value of the constants that satisfies the named
assumptions (`ConstantsAssumption`, `KeyAssumption`, `RealtimeAssumption`, `LinkAssumption`,
`WindowAssumption`, `MaxBucketsAssumption` and so on, which TLC evaluates in the runs). They ask for no more than the types of the
code: delays are times and lie in `0..Infinity`, `Infinity` being the largest simulation time; a link has two
ends on different ranks; a rank of a null-message simulation has a neighbour; the tune is a percentage, 1 to 100;
the greatest number of buckets is a power of two from 2 to 32768, the code's.

* **DefaultSimulatorProofs**, under `NoWrap` (user code stops scheduling before `m_uid`
  wraps, in the program 2^32 insertions): `TypeCorrect`, `KeyOrder`, `ExpiredExact`,
  `CountExact`. Each rests on the one before it. Type correctness carries the
  fact that ordinary events never have a reserved id. `KeyInv` adds what the order
  of execution needs and no property states: every event in the list is later than
  the current key, its id is below `m_uid`, and ids are unique. `IdsInv` adds that
  an id held by a user names one event of the list at most, and
  that an event that has left the list is not later than the current key or is cancelled:
  that is what makes `IsExpired` exact. `CountInv` adds that the list is finite.
  `OwnershipIsExact`, also under `NoWrap`, is the exactness of the reference counts: the
  invariant `OwnerInv` says that an event is in one place at most, of a thread's hand, the
  two queues, the list and the handler, and once in it, so that every step that
  moves it takes its one reference along.
  `RunsOnce` follows from `OnceRun`: every event goes one way, and whatever list or queue
  it is in, it has not run; what has not reached the list has no id to cancel it by.
  `FirstInFirstOut` adds `FirstInv`: what was inserted is in the list until it runs, is cancelled
  or is disposed of, and of two listed events the one inserted first has the smaller id.
  `PostsRunInOrder` relates the history of pushes to the two queues: its last posts are
  in them, in their order (`Aligned`), and all before these are in the list or have run, each ahead of
  those behind it that did not ask for a shorter delay (`TakenInv`). The time at which a
  post is taken over only grows, which is why none is overtaken; no post can be
  cancelled, because its user gets no id.
  `PostsAreAnnounced` needs no assumption on ids: `DrainInv` says that the list that is swapped in is empty,
  so that the flag is set over an empty queue, for any number of threads.
  `LoopKeepsItsPromise`, under `NoWrap`, is the refinement of `EventLoop`. The position of an event is
  one more than the number of events before it; because the order of keys is total these
  positions are a bijection from the list to `1..n`, so that the agenda is well defined, and
  an event that enters the list with the largest id enters the agenda behind all others of its
  time. Each insertion is then an insertion into the agenda, each removal takes one element out, the
  earliest event is its head. `EndInv` adds that the events of `ScheduleDestroy` never get into the
  list and others never among the destroy events, which is why the events that `Destroy` runs are not the
  agenda's. The drain, ids, flags, the mutex and counters are stutters.
* **SetSchedulerProofs**, for any set of events. For the list: `TypeCorrect`, `PeekCorrect` and
  `ListImplementsScheduler`; the invariant is a sorted list without repetition, and the work is in
  the lemmas on inserting into and removing from a sequence.
  For the calendar and the simulator that changes to it: `CountIsExact`, `EventsStayInTheirBuckets`,
  `BucketsFollowLoad`, `ScanFindsEarliest`, `CalendarIsBehindClock` and `SimulatorHasOneEventList`; `ListInSimulator` carries the list's theorems over to that simulator. A *day* is a time
  divided by the width, a bucket holds the days that are equal modulo the number of buckets.
  The invariant has four parts: every bucket is in its order and holds only its own days (`Sound`);
  `lastBucket` and `bucketTop` are those of the day of `lastPrio`, and nothing held is earlier than that (`Positioned`);
  `qSize` is the number of events (`Counted`); and the number of buckets follows it (`Loaded`).
  `ScanFindsEarliest` is arithmetic from the first two: the n buckets of a scan stand for the next n days, so that what
  a bucket shows is of the bucket's day or at least a year later (`SameDay`), and the first
  that shows an event of this year shows the earliest day. `Positioned` rests on the
  simulator, which inserts nothing earlier than its clock, and so than what it took out last (`CalendarIsBehindClock`).
  The sampling takes out events one after the other, which are in order, puts the same ones back and restores
  the position, in which they then lie at or after `lastPrio`: this is the step for which all three variables must be restored.
  A resize empties one bucket after the other into buckets of a new width. These loops are recursive functions in the model; that they are defined
  on all of their domain, and what they preserve up to each index, is shown by the least index at
  which it would fail, as the library's induction theorems cannot be instantiated.
  `SetIInv` joins the two lists: except during the move only the one in use holds events. The new calendar
  stays at time 0 during the move, so that it takes every event, and finds its position with the first it gives back.
* **HeapSchedulerProofs**, for `SpecFitting` and heaps of any size: `PeekCorrect` and
  `HeapImplementsScheduler`. The invariant says that parents are not later than their
  children except around the position at which a loop works, and that
  around it the grandparent is not later: without the second part an exchange
  could not be shown to repair more than it breaks. That the root of an ordered
  heap is the earliest event is proved by a least counterexample, whose parent
  is a smaller one. `Remove` and `RemoveNext` share the lemma `PopKeeps`, and the
  fitting condition is the hypothesis that it cannot do without.
* **TimerProofs**, under `UsedAsMeant` (no `Schedule` on a suspended timer, no
  `Suspend` under CHECK_ON_DESTROY): `FiresOnTime`, `SuspendPauses`, `OneEvent`,
  `DelayLeftCorrect`. The invariant `Accounted` says where the time left is at each moment: in
  the one pending event, in `m_delayLeft`, or nowhere.
* **WatchdogProofs**: `OneEvent` and `LastDeadline`, from the invariant that `m_end` is
  the latest deadline ever asked for. `NoCallAfterDestruction` is what the code does at the end, against
  timer.h: no event is left that would call the object that is gone.
* **RealtimeSimulatorProofs**, under `Careful`, for any number of threads:
  `SimulationIsNeverEarly`, `SimulationNeverGoesBack`, `SignalsArriveInTime`. None is inductive alone; the
  invariant adds that a thread about to insert holds the mutex (`Locked`), that the awaited event, or an earlier one, is
  still in the list when the wait ends, because only the main thread removes events (`Awaited`),
  and that an earlier insertion carries the signal also while a thread is in the middle of
  its critical section (`Signalled`).
* **GrantedTimeWindowProofs**, for any ranks, links, delays, transmission times and bounds of the
  look-ahead: `WindowIsSafe` and `HaltsTogether`. The invariant says that there is a base of the window
  which every event to be executed and every message in flight has reached,
  that no rank gets further ahead of it than its look-ahead, which is not more than the delay of any of its links
  (`LookAheadIsSafe`, from the translation of `CalculateLookAhead`), and that the sums of sent and received messages
  differ by the number in flight (`Counts`); so the base moves only when nothing
  is in flight. `Together` says that the ranks begin and leave `Run` at once, and `ListAhead` covers the lists of ranks
  that have been stopped, whose events are not part of the window.
  `TypesAreKept` adds `Fresh`: every list is finite and its ids are below the next one.
  `WindowImplementsParallel` is the refinement of `ParallelSimulation`: bags of times are compared by counting,
  for each time, the events listed and the messages in flight (`Count`). A schedule or a packet
  adds to one count and is a `Call`, execution takes one off a count that is the least by
  `NothingInThePast`, a receive moves one from the messages to the list and is not seen.
* **NullMessageProofs**, for any ranks, delays, transmission times and `SchedulerTune`, under `OneLink` (no two
  ranks are joined by more than one link; without it finding 3 is a counterexample):
  `PromisesAreKept`, `NobodyPassesAPromise` and `NullMessagesImplementParallel`.
  The invariant is about what a rank may still send. Take a promise g that it has given, held by the neighbour
  or on its way (`Given`). Either no event of the rank lies earlier than g less the delay of the link, its running handler
  included (`Settled`), or the device is sending until an event that does not (`OnTheLine`). The second case is the handler that
  has sent a packet, with a promise computed from the rest of the list: it may itself run earlier than g less the delay, and
  cannot break the promise because the device is busy. Events that send the next null message are exempt, for
  they send no packet; `Nulls` says that there is exactly one per neighbour, not more than a period
  away, so that a promise is never limited by it to less than one before. `Line` says the same of the messages on a
  link: promises grow, and no packet arrives before a promise sent ahead of it.
  `Clock` relates a rank's time to its list and its safe time, which no promise held is below: a rank
  waits rather than pass what may come.
  The refinement uses the same counts as above: null messages and their events carry nothing that is pending, so that
  their execution is at most an `Advance` of the clock. A packet whose time of reception is 0 is
  taken for a null message by its receiver, as in the code, and is dropped; this needs a delay and a transmission time of 0.

## 6. Findings

1. `heap_remove_order`: `HeapScheduler::Remove` fills the hole with the last event and
   only moves it down (heap-scheduler.cc:239). If that event is earlier than the parent of
   the hole, the heap order is broken and a later `PeekNext` returns an event that
   is not the earliest. It takes six events: the last one must come from another branch than the hole. With `SpecFitting` the same code is proved
   correct, so that this is the heap's one defect of order.
2. `timer_suspend_default`: `Suspend` drops the event under two of the three destroy
   policies; with CHECK_ON_DESTROY, the default constructor's, the function is called while the
   timer is suspended (timer.cc:186 against timer.h:216). After `Resume` it is called again.
3. `null_message_promise`: `CalculateGuaranteeTime` promises the smaller of the next listed event and the
   safe time, plus the bundle's delay (null-message-simulator-impl.cc:565). It is called in the middle of a handler, which may go on to
   send on a second, faster link to the same rank: that packet arrives before the promise
   (null-message-simulator-impl.h:168-170 says that none should). On the same instance TLC also finds
   `PromisesAhead` and `ImplementsParallel` violated: the late packet lies in its receiver's past. With one link per neighbour, as in
   `null_message`, promises are kept.

Places where the code asks something of its user, met while modelling; no run is kept for them:

* `m_uid` is 32 bits wide and wraps without a check (default-simulator-impl.cc:237): beyond 2^32
  insertions a later event of the same time runs first. The theorems name it as `NoWrap`.
* `Stop(delay)` is an event like any other: events scheduled earlier for the stop time run before it,
  where simulator.h:145-147 says that the run ends when the next event's time is greater than or equal to the stop time.
* `Run` resets `m_stop` after the drain, so that a `Stop` called before `Run` has no effect (default-simulator-impl.cc:193).
* `Schedule` on a suspended timer starts an event and leaves it flagged as suspended (timer.cc:173), so
  that `IsRunning` denies the event, and `Resume` overwrites its id. `Careless` marks it in the model.
* timer.h:43-45 says that a Watchdog "cannot be paused or cancelled once it has been started" and "takes no action
  when it is destroyed"; the destructor cancels the pending event (watchdog.cc:45), so that a watchdog that was pinged and is
  destroyed before its deadline never invokes its function. In the model `owed ~> ~owed` fails for this reason
  (a `Ping`, then `Destroy`), which is why `PingIsAnswered` ends with the watchdog's life. The code does what its
  users need, as the event would call the object that is gone; the documentation is wrong.
* `WallClockSynchronizer::DoSetOrigin` ignores the simulation time that it is given
  (wall-clock-synchronizer.cc:114): on a second `Run` real time counts from zero again while the simulation does not, and a post between
  `m_running` and the origin takes the time since 1970. `Careful` keeps to one `Run`.
* A rank of a null-message simulation that stops earlier than its neighbours leaves them in
  `MPI_Waitany` (null-message-simulator-impl.cc:313-344); all ranks of the model stop at one time.

## 7. What is only model-checked, and what is not modelled

Only model-checked: all liveness properties (liveness under fairness and ENABLED are beyond the
prover); the safety of the null messages with more than one link between two ranks, which does not hold. `TypeOK` is an invariant of
the run `default_simulator`; in the other modules with proofs it is part of the inductive invariant that
is proved, in `NullMessage` as `Typing`. No module uses a RECURSIVE operator.

Abstractions that limit the claims: times are unbounded, so that neither the overflow of
the clock nor the wrap of the calendar's `bucketTop` at 2^64 is seen; delays are not negative
(`Schedule` asserts it, `ScheduleWithContext` does not); the memory model is reduced to the
stale reads described above; a call on a disposed simulator is not made. The realtime and the
distributed simulators are modelled partly: `Destroy`, `SetScheduler`, contexts and (in the
distributed ones) `Cancel` and `Remove` by users are the code of the default simulator once more
and not repeated. MPI is modelled by what its calls promise: no loss, no duplication, order between two ranks where
one receive is posted, any delay. What `NullMessageMpiInterface::Disable` cancels after `Run` (null-message-mpi-interface.cc:488-498)
is not modelled; every rank of the model has then left its loop.

Not modelled:

* Event garbage collector, queues with flow control, neighbour caches, TCP buffers: the first candidates below.
* `segment-routing`: the module's library has no executions to be faithful to.
  sr-mn.cc:92 calls a constructor of `BList` that blist.h:27 does not declare, and
  blist.cc:1047 uses an undeclared name; `Mipv6Agent::SendMessage` asserts the absence of
  what it uses next (sr-agent.cc:141) and dereferences the route only where there is none
  (sr-agent.cc:152-156). A model would have to repair the code first, and would then be a model of
  the repair.
* Attributes, logging, random variables, command line: no protocol and no concurrency.
* Device, channel, mobility and protocol models: several thousand files that run on the core,
  each of the larger ones (lte, wifi, tcp) a system of its own.

## 8. What would come next

1. **Proofs**: every safety property that a passing run checks is stated by a theorem. What is left is their
   reach: what of the realtime simulator holds without `Careful`.
2. **Event garbage collector** (src/core/helper), then **queues** (`NetDeviceQueue` stop and wake
   against `QueueDisc::Run`) and the **neighbour caches** (states, retransmission timers and
   waiting packets of an entry).
3. The remaining operations of the realtime simulator: `Destroy` against posting threads, and a change of
   event list while threads insert.
