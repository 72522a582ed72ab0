------------------------------- MODULE JobSystem -------------------------------
(***************************************************************************)
(* A job from addJob to onExecute: the workers' wheels (Scheduler) and one *)
(* serializer that all the jobs share (Serializer), on the same threads.   *)
(* A worker is inside Serializer::execute until the call returns, and      *)
(* neither turns its wheel nor dequeues an event meanwhile; the job it     *)
(* runs may add jobs.                                                      *)
(***************************************************************************)
EXTENDS Scheduler

VARIABLES count, queue, pc, req, result, chain, arrived, done   \* of Serializer

Serial == INSTANCE Serializer WITH Threads <- Workers

ASSUME NoneIsNoRequest == Serial!None \notin Requests

serialVars == <<count, queue, pc, req, result, chain, arrived, done>>
systemVars == <<vars, serialVars>>

SystemInit == Init /\ Serial!Init

-------------------------------------------------------------------------------
\* What happens to the wheels whatever the serializer is doing
Beside(action) == action /\ UNCHANGED serialVars

\* Scheduler::execute calls execute of the serializer, which counts the call.
StartExecute(w) ==
    /\ pc[w] = "idle"
    /\ HandOver(w)
    /\ Serial!Increment(w, Head(node[w]))

\* A worker inside execute goes on with it.
ContinueExecute(w) == Serial!Continue(w) /\ UNCHANGED vars

\* A worker that is not inside execute updates, or handles an event.
UpdateWorker(w) == pc[w] = "idle" /\ Beside(Update(w))
ProcessEvent(w) == pc[w] = "idle" /\ Beside(ProcessJobSlot(w))

\* addJob from a running job, or from the handler of another event
AddOnWorker(w, r, i) == pc[w] \in {"idle", "run"} /\ Beside(AddInside(w, r, i))

SystemNext ==
    \/ Beside(Tick)
    \/ \E r \in Requests, i \in Intervals :
         Beside(AddOutside(r, i)) \/ \E w \in Workers : AddOnWorker(w, r, i)
    \/ \E w \in Workers :
         \/ Beside(Register(w)) \/ UpdateWorker(w) \/ ProcessEvent(w)
         \/ StartExecute(w) \/ ContinueExecute(w)

SystemSpec == SystemInit /\ [][SystemNext]_systemVars

\* StartEngine registers the callback with every worker; onRun alternates the
\* update, when its time has come, with one event; an update walks all nodes.
\* Threads are scheduled, jobs return, time passes.
FairSpec ==
    /\ SystemSpec /\ WF_systemVars(Beside(Tick))
    /\ \A w \in Workers :
        /\ WF_systemVars(Beside(Register(w)))
        /\ WF_systemVars(UpdateWorker(w))
        /\ WF_systemVars(ProcessEvent(w))
        /\ WF_systemVars(StartExecute(w))
        /\ WF_systemVars(ContinueExecute(w))

-------------------------------------------------------------------------------
\* From addJob to onExecute a job is never lost and never doubled: it is on its
\* way to a slot or in one, or being pushed, or in the serializer, or executed.
Pushing(r) == {w \in Workers : pc[w] = "push" /\ req[w] = r}
Held(r) ==
    Cardinality(At(events, r)) + Cardinality(InSlots(r)) + Cardinality(InNodes(r))
        + Cardinality(Pushing(r)) + Cardinality(At(arrived, r))

HeldOnce == \A r \in Requests : Held(r) = IF interval[r] # 0 THEN 1 ELSE 0

\* Every job that reaches its tick is executed, as the test of the scheduler
\* waits for it.  Not so in the code: a job pushed to a serializer that another
\* worker is just leaving stays there until the next job comes.
DueIsExecuted ==
    \A r \in Requests : reserve[r] \in 1 .. MaxIndex ~> r \in Serial!Elements(done)

-------------------------------------------------------------------------------
\* What those that call addJob see: a job waits until less than 2 * IntervalUnit of
\* its interval is left, at most, and is executed then.
Added == {r \in Requests : interval[r] # 0}
Delay(i) == IF i < 2 * IntervalUnit THEN 0 ELSE i - 2 * IntervalUnit + 1

Executor == INSTANCE TimedExecutor WITH
    Tolerance <- 2 * IntervalUnit,
    added <- Added,
    delay <- [r \in Requests |-> Delay(left[r])],
    current <- IF Serial!Running THEN <<Head(Serial!OwnChain)>> ELSE <<>>,
    finished <- done

\* Wheels, posted events and the serializer together implement the abstract executor:
\* whichever way a job takes, it is executed once, alone, and less than two units
\* early.
ImplementsTimedExecutor == Executor!Spec
===============================================================================
