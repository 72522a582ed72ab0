------------------------------- MODULE Scheduler -------------------------------
(***************************************************************************)
(* NKScheduler: the timer wheel that every worker thread keeps for itself  *)
(* (thread_local Scheduler), and the way a job gets into one.              *)
(*                                                                         *)
(* A worker turns its wheel once per update: Update moves the index and    *)
(* takes the slot's nodes, HandOver gives one of them to its serializer.   *)
(* A job added outside a worker travels as a JobSlot through the           *)
(* completion port, to whichever worker dequeues it; a worker that has not *)
(* had its first update posts it back.                                     *)
(*                                                                         *)
(* Time passes in milliseconds.  A worker updates when its next update is  *)
(* due, or later, and the one after it is due a unit after that.           *)
(***************************************************************************)
EXTENDS Naturals, Sequences, FiniteSets

CONSTANTS
    Workers,        \* the worker threads of IOCPManager
    Requests,       \* the calls of addJob
    Slots,          \* DEFAULT_JOBSLOT_SHORTTERM_SIZE
    IntervalUnit,   \* SCHEDULER_INTERVAL_UNIT, in milliseconds
    Intervals,      \* the intervals, in milliseconds, callers ask for
    MaxIndex        \* bound of the model: the updates of one worker

ASSUME WheelAssumption ==
    /\ Slots \in Nat /\ Slots > 1
    /\ IntervalUnit \in Nat \ {0}
    /\ Intervals \subseteq Nat
    /\ MaxIndex \in Nat

VARIABLES
    registered,     \* the workers SchedulerCallback is registered with
    inWorker,       \* Scheduler::_in_workerthread of each worker
    index,          \* Scheduler::_execution_index of each worker
    slot,           \* Scheduler::_shortterm_slot of each worker
    node,           \* the nodes left to execute in each worker's update
    events,         \* the JobSlots in the completion port
    wait,           \* the time left until _next_update_time of each worker
    interval,       \* the interval of each request, 0 before its addJob
    left,           \* history: the time left of the interval, until the hand-over
    reserve,        \* history: the index a request was reserved for, 0 before
    handed          \* history: the index a request was handed over at, 0 before

vars == <<registered, inWorker, index, slot, node, events, wait, interval, left,
          reserve, handed>>

SlotNumbers == 0 .. Slots - 1

Elements(s) == {s[i] : i \in DOMAIN s}

Init ==
    /\ registered = {}
    /\ inWorker = [w \in Workers |-> FALSE]
    /\ index = [w \in Workers |-> 0]
    /\ slot = [w \in Workers |-> [k \in SlotNumbers |-> <<>>]]
    /\ node = [w \in Workers |-> <<>>]
    /\ events = <<>>
    /\ wait = [w \in Workers |-> 0]
    /\ interval = [r \in Requests |-> 0]
    /\ left = [r \in Requests |-> 0]
    /\ reserve = [r \in Requests |-> 0]
    /\ handed = [r \in Requests |-> 0]

-------------------------------------------------------------------------------
\* Mutation: milliseconds are taken for slices.
IndexAfterUnscaled(v, i) == v + i

\* ExecutionIndex::add; the last case is the code's assertion failure.
IndexAfter(v, i) ==
    LET slice == i \div IntervalUnit
    IN  IF i < IntervalUnit THEN v + 1
        ELSE IF slice < Slots THEN v + slice ELSE Slots

\* Mutation of Earliness: the margin of the scheduler's test, LOW_TEST_MARGIN, for a
\* job of one unit.  Not so in the code.
EarlinessAsTested(i) ==
    IF i < IntervalUnit THEN i
    ELSE IF i = IntervalUnit THEN IntervalUnit - 2 ELSE IntervalUnit + (i % IntervalUnit)

\* By how much a job of interval i may be early: the slices of ExecutionIndex::add, the
\* first of which may be over at once, and what the interval has beyond a whole slice.
Earliness(i) == IF i < IntervalUnit THEN i ELSE IntervalUnit + (i % IntervalUnit)

\* Mutation: the longest interval is taken as well.
AcceptedInclusive(i) == i > 0 /\ i <= IntervalUnit * Slots

\* The assertions of NKScheduler::addJob: every other interval is refused.
Accepted(i) == i > 0 /\ i < IntervalUnit * Slots

\* TQueue::push to a slot, and popQueue, which takes its nodes all at once
PushQueue(w, k, r) == slot' = [slot EXCEPT ![w][k] = Append(@, r)]
PopQueue(w, k) ==
    /\ node' = [node EXCEPT ![w] = slot[w][k]]
    /\ slot' = [slot EXCEPT ![w][k] = <<>>]

\* Scheduler::addJob, called by worker w itself
Push(w, r, i) ==
    LET at == IndexAfter(index[w], i)
    IN  PushQueue(w, at % Slots, r) /\ reserve' = [reserve EXCEPT ![r] = at]

\* Mutation: a worker that is not ready drops the job.
AddOnDrops(w, r, i, rest) ==
    \/ inWorker[w] /\ Push(w, r, i) /\ events' = rest
    \/ ~ inWorker[w] /\ events' = rest /\ UNCHANGED <<slot, reserve>>

\* internal::addJob on worker w, the events that are left being rest
AddOn(w, r, i, rest) ==
    \/ inWorker[w] /\ Push(w, r, i) /\ events' = rest
    \/ ~ inWorker[w] /\ events' = Append(rest, r) /\ UNCHANGED <<slot, reserve>>

\* registerWorkerEvent reaches worker w, which is running already.
Register(w) ==
    /\ w \notin registered
    /\ registered' = registered \cup {w}
    /\ UNCHANGED <<inWorker, index, slot, node, events, wait, interval, left, reserve, handed>>

\* addJob from a thread that is no worker: the job is posted.
AddOutside(r, i) ==
    /\ interval[r] = 0 /\ Accepted(i)
    /\ interval' = [interval EXCEPT ![r] = i]
    /\ left' = [left EXCEPT ![r] = i]
    /\ events' = Append(events, r)
    /\ UNCHANGED <<registered, inWorker, index, slot, node, wait, reserve, handed>>

\* addJob from code running on worker w: a job in the middle of an update, or
\* the handler of another event.
AddInside(w, r, i) ==
    /\ interval[r] = 0 /\ Accepted(i)
    /\ interval' = [interval EXCEPT ![r] = i]
    /\ left' = [left EXCEPT ![r] = i]
    /\ AddOn(w, r, i, events)
    /\ UNCHANGED <<registered, inWorker, index, node, wait, handed>>

\* WorkerThread::onRun dequeues a JobSlot: JobSlot::onProcess adds it here.
ProcessJobSlot(w) ==
    /\ node[w] = <<>> /\ events # <<>>
    /\ AddOn(w, Head(events), interval[Head(events)], Tail(events))
    /\ UNCHANGED <<registered, inWorker, index, node, wait, interval, left, handed>>

\* Mutation: the callback does not mark its thread.
UpdateUnmarked(w) ==
    /\ node[w] = <<>> /\ w \in registered
    /\ wait[w] = 0 /\ index[w] < MaxIndex
    /\ wait' = [wait EXCEPT ![w] = IntervalUnit]
    /\ index' = [index EXCEPT ![w] = @ + 1]
    /\ PopQueue(w, (index[w] + 1) % Slots)
    /\ UNCHANGED <<registered, inWorker, events, interval, left, reserve, handed>>

\* Mutation: the next update is due a unit after the last one was.
UpdateOnSchedule(w) ==
    /\ node[w] = <<>> /\ w \in registered
    /\ wait[w] = 0 /\ index[w] < MaxIndex
    /\ wait' = [wait EXCEPT ![w] = IntervalUnit - 1]
    /\ inWorker' = [inWorker EXCEPT ![w] = TRUE]
    /\ index' = [index EXCEPT ![w] = @ + 1]
    /\ PopQueue(w, (index[w] + 1) % Slots)
    /\ UNCHANGED <<registered, events, interval, left, reserve, handed>>

\* WorkerThread::onRun finds its update due: onUpdate calls SchedulerCallback,
\* Scheduler::execute turns the wheel.
Update(w) ==
    /\ node[w] = <<>> /\ w \in registered
    /\ wait[w] = 0 /\ index[w] < MaxIndex
    /\ wait' = [wait EXCEPT ![w] = IntervalUnit]
    /\ inWorker' = [inWorker EXCEPT ![w] = TRUE]
    /\ index' = [index EXCEPT ![w] = @ + 1]
    /\ PopQueue(w, (index[w] + 1) % Slots)
    /\ UNCHANGED <<registered, events, interval, left, reserve, handed>>

\* One round of its loop: the serializer's execute is called with the node.
HandOver(w) ==
    /\ node[w] # <<>>
    /\ node' = [node EXCEPT ![w] = Tail(@)]
    /\ handed' = [handed EXCEPT ![Head(node[w])] = index[w]]
    /\ UNCHANGED <<registered, inWorker, index, slot, events, wait, interval, left, reserve>>

\* A millisecond passes.
Tick ==
    /\ wait' = [w \in Workers |-> IF wait[w] > 0 THEN wait[w] - 1 ELSE 0]
    /\ left' = [r \in Requests |->
                  IF handed[r] = 0 /\ left[r] > 0 THEN left[r] - 1 ELSE left[r]]
    /\ UNCHANGED <<registered, inWorker, index, slot, node, events, interval, reserve, handed>>

Next ==
    \/ Tick
    \/ \E r \in Requests, i \in Intervals :
         AddOutside(r, i) \/ \E w \in Workers : AddInside(w, r, i)
    \/ \E w \in Workers :
         Register(w) \/ ProcessJobSlot(w) \/ Update(w) \/ HandOver(w)

Spec == Init /\ [][Next]_vars

-------------------------------------------------------------------------------
TypeOK ==
    /\ registered \subseteq Workers
    /\ inWorker \in [Workers -> BOOLEAN]
    /\ index \in [Workers -> Nat]
    /\ slot \in [Workers -> [SlotNumbers -> Seq(Requests)]]
    /\ node \in [Workers -> Seq(Requests)]
    /\ events \in Seq(Requests)
    /\ wait \in [Workers -> 0 .. IntervalUnit]
    /\ interval \in [Requests -> Nat]
    /\ left \in [Requests -> Nat]
    /\ reserve \in [Requests -> Nat]
    /\ handed \in [Requests -> Nat]

\* A wheel holds less than one turn: whatever a slot holds is due the next time
\* the index reaches that slot, neither now nor a turn later (the bounds of
\* addJob and ExecutionIndex::add, taken modulo the wheel in Scheduler::addJob).
LessThanOneTurn ==
    \A w \in Workers, k \in SlotNumbers : \A r \in Elements(slot[w][k]) :
        /\ reserve[r] % Slots = k
        /\ index[w] < reserve[r] /\ reserve[r] < index[w] + Slots

\* A job leaves the wheel in the update it was reserved for, jobs that were
\* added by other jobs of the same update included (Scheduler::execute).
ExecutedWhenDue ==
    /\ \A w \in Workers : \A r \in Elements(node[w]) : reserve[r] = index[w]
    /\ \A r \in Requests : handed[r] # 0 => handed[r] = reserve[r]

\* A job is early by the first slice of its interval and by what the interval has
\* beyond a whole slice, and never by more.  The slices are counted from the worker's
\* last update, which may be a unit ago and the next one be due (ExecutionIndex::add);
\* but updates never come closer than a unit, so that the other slices do take their
\* time.  The scheduler's test expects less: that a job of 50 ms, one unit, is never
\* early by 49 ms.  It may be early by all of them.
NotTooEarly ==
    \A r \in Requests : handed[r] # 0 => left[r] <= Earliness(interval[r])

\* Where a request is on its way to its serializer: at which places of the posted
\* JobSlots (At(events, r)), of the slots, and of the nodes of an update
At(s, r) == {i \in DOMAIN s : s[i] = r}
InWheel(w, r) == UNION {{k} \X At(slot[w][k], r) : k \in SlotNumbers}
InSlots(r) == UNION {{w} \X InWheel(w, r) : w \in Workers}
InNodes(r) == UNION {{w} \X At(node[w], r) : w \in Workers}

-------------------------------------------------------------------------------
\* A job that was added gets to its serializer: a posted one is not sent round
\* for ever between workers that are not ready (JobSlot::onProcess, postJob), and
\* its slot is not missed - if the worker gets to turn its wheel that far.
AddedIsHandedOver ==
    \A r \in Requests : interval[r] # 0 ~> handed[r] # 0 \/ reserve[r] > MaxIndex
===============================================================================
