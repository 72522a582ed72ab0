------------------------------ MODULE Serializer ------------------------------
(***************************************************************************)
(* NKScheduler::Serializer (NKEngine/NKScheduler/Serializer.cpp).          *)
(*                                                                         *)
(* Worker threads call execute(index, job) on one shared serializer.  The  *)
(* caller that raises the atomic _count from 0 to 1 owns the serializer    *)
(* and drains its queue; every other caller leaves its job behind and      *)
(* returns.  Each action is one atomic step of execute or onExecute: the   *)
(* atomic ++ and --, and push and popQueue, which TSpinLockQueue makes     *)
(* atomic under its lock.  A job's onExecute lasts from Fetch to Execute.  *)
(***************************************************************************)
EXTENDS Naturals, Sequences

CONSTANTS
    Threads,    \* the worker threads
    Requests    \* the calls of execute; a job added twice is two requests

VARIABLES
    count,      \* Serializer::_count
    queue,      \* Serializer::_queue
    pc,         \* where each thread is in execute
    req,        \* the job argument of the thread's call, None between calls
    result,     \* the thread's local result_count, 0 between calls
    chain,      \* the nodes from the thread's local iter on
    arrived,    \* history: the requests in the order they were pushed
    done        \* history: the requests in the order their onExecute returned

vars == <<count, queue, pc, req, result, chain, arrived, done>>

None == "none"
ASSUME NoneIsNoRequest == None \notin Requests

\* push: result_count is taken, _queue.push not made; pop: before popQueue;
\* fetch: at the test of iter; run: in a job's onExecute; release: before --_count
Steps == {"idle", "push", "pop", "fetch", "run", "release"}

Elements(s) == {s[i] : i \in DOMAIN s}

Init ==
    /\ count = 0
    /\ queue = <<>>
    /\ pc = [t \in Threads |-> "idle"]
    /\ req = [t \in Threads |-> None]
    /\ result = [t \in Threads |-> 0]
    /\ chain = [t \in Threads |-> <<>>]
    /\ arrived = <<>>
    /\ done = <<>>

-------------------------------------------------------------------------------
\* Mutation: the election is off by one.
IsMyownOffByOne(c) == c > 2

\* The source's name: it holds when another caller owns the serializer.
IsMyown(c) == c # 1

\* A request is one call: it is made once.
Fresh(r) ==
    /\ r \notin Elements(arrived)
    /\ \A t \in Threads : req[t] # r

\* result_count = ++_count
Increment(t, r) ==
    /\ pc[t] = "idle"
    /\ Fresh(r)
    /\ count' = count + 1
    /\ result' = [result EXCEPT ![t] = count + 1]
    /\ req' = [req EXCEPT ![t] = r]
    /\ pc' = [pc EXCEPT ![t] = "push"]
    /\ UNCHANGED <<queue, chain, arrived, done>>

\* The locals of execute and onExecute go out of scope.
Return(t) ==
    /\ pc' = [pc EXCEPT ![t] = "idle"]
    /\ req' = [req EXCEPT ![t] = None]
    /\ result' = [result EXCEPT ![t] = 0]

\* _queue.push(job), then either return false or enter the loop
Push(t) ==
    /\ pc[t] = "push"
    /\ queue' = Append(queue, req[t])
    /\ arrived' = Append(arrived, req[t])
    /\ \/ IsMyown(result[t]) /\ Return(t)
       \/ /\ ~ IsMyown(result[t])
          /\ pc' = [pc EXCEPT ![t] = "pop"]
          /\ UNCHANGED <<req, result>>
    /\ UNCHANGED <<count, chain, done>>

\* Mutation: the queue keeps the nodes that popQueue returned.
PopQueueKeeps(t) ==
    /\ pc[t] = "pop"
    /\ chain' = [chain EXCEPT ![t] = queue]
    /\ pc' = [pc EXCEPT ![t] = "fetch"]
    /\ UNCHANGED <<count, queue, req, result, arrived, done>>

\* iter = _queue.popQueue(): the whole queue at once
PopQueue(t) ==
    /\ pc[t] = "pop"
    /\ chain' = [chain EXCEPT ![t] = queue]
    /\ queue' = <<>>
    /\ pc' = [pc EXCEPT ![t] = "fetch"]
    /\ UNCHANGED <<count, req, result, arrived, done>>

\* Mutation: do ... while where the code has while.
FetchUnchecked(t) ==
    /\ pc[t] = "fetch"
    /\ pc' = [pc EXCEPT ![t] = "run"]
    /\ UNCHANGED <<count, queue, req, result, chain, arrived, done>>

\* while (iter != nullptr)
Fetch(t) ==
    /\ pc[t] = "fetch"
    /\ pc' = [pc EXCEPT ![t] = IF chain[t] = <<>> THEN "release" ELSE "run"]
    /\ UNCHANGED <<count, queue, req, result, chain, arrived, done>>

\* Mutation: the walk stops after the first job of the chain.
ExecuteFirst(t) ==
    /\ pc[t] = "run"
    /\ done' = Append(done, Head(chain[t]))
    /\ chain' = [chain EXCEPT ![t] = Tail(@)]
    /\ pc' = [pc EXCEPT ![t] = "release"]
    /\ UNCHANGED <<count, queue, req, result, arrived>>

\* onExecute of the job returns; iter = iter->getNext()
Execute(t) ==
    /\ pc[t] = "run"
    /\ done' = Append(done, Head(chain[t]))
    /\ chain' = [chain EXCEPT ![t] = Tail(@)]
    /\ pc' = [pc EXCEPT ![t] = "fetch"]
    /\ UNCHANGED <<count, queue, req, result, arrived>>

\* Mutation: while (--_count > 1).
ReleaseEarly(t) ==
    /\ pc[t] = "release"
    /\ count' = count - 1
    /\ \/ /\ count - 1 > 1
          /\ pc' = [pc EXCEPT ![t] = "pop"]
          /\ UNCHANGED <<req, result>>
       \/ ~ (count - 1 > 1) /\ Return(t)
    /\ UNCHANGED <<queue, chain, arrived, done>>

\* Mutation: while (_count > 0).
ReleaseForgets(t) ==
    /\ pc[t] = "release"
    /\ count > 0
    /\ pc' = [pc EXCEPT ![t] = "pop"]
    /\ UNCHANGED <<count, queue, req, result, chain, arrived, done>>

\* while (--_count > 0), then return true
Release(t) ==
    /\ pc[t] = "release"
    /\ count' = count - 1
    /\ \/ /\ count - 1 > 0
          /\ pc' = [pc EXCEPT ![t] = "pop"]
          /\ UNCHANGED <<req, result>>
       \/ ~ (count - 1 > 0) /\ Return(t)
    /\ UNCHANGED <<queue, chain, arrived, done>>

\* What a thread that is inside execute does next.
Continue(t) ==
    Push(t) \/ PopQueue(t) \/ Fetch(t) \/ Execute(t) \/ Release(t)

Next == \E t \in Threads : Continue(t) \/ \E r \in Requests : Increment(t, r)

Spec == Init /\ [][Next]_vars

\* The operating system schedules every thread that is inside execute, and a
\* job's onExecute returns.  Nobody has to call execute.
FairSpec == Spec /\ \A t \in Threads : WF_vars(Continue(t))

-------------------------------------------------------------------------------
TypeOK ==
    /\ count \in Nat
    /\ queue \in Seq(Requests)
    /\ pc \in [Threads -> Steps]
    /\ req \in [Threads -> Requests \cup {None}]
    /\ result \in [Threads -> Nat]
    /\ chain \in [Threads -> Seq(Requests)]
    /\ arrived \in Seq(Requests)
    /\ done \in Seq(Requests)
    /\ \A t \in Threads : pc[t] = "push" => req[t] \in Requests
    /\ \A t \in Threads : pc[t] = "run" => chain[t] # <<>>

\* The thread that took _count from 0 to 1 and has not left the loop.
Owner(t) ==
    \/ pc[t] \in {"pop", "fetch", "run", "release"}
    \/ pc[t] = "push" /\ ~ IsMyown(result[t])

\* Two threads never execute jobs of one serializer at the same time: this is
\* what a serializer is for (Serializer::execute, the election by ++_count).
MutualExclusion ==
    \A t, u \in Threads : pc[t] = "run" /\ pc[u] = "run" => t = u

\* The counter and the threads agree on whether the serializer is owned, and
\* by one thread only: _count is 0 exactly when no thread is responsible for
\* the queue, so that the next caller elects itself (inductive).
Ownership ==
    /\ \A t, u \in Threads : Owner(t) /\ Owner(u) => t = u
    /\ count = 0 <=> \A t \in Threads : ~ Owner(t)

\* No request is lost, duplicated or overtaken: the requests pushed so far are
\* those executed, then the nodes the owner holds, then the queue, in the
\* order of the pushes (push and popQueue under the lock, the walk of iter).
InOrderOnce ==
    /\ \A t \in Threads : Owner(t) => arrived = done \o (chain[t] \o queue)
    /\ (\A t \in Threads : ~ Owner(t)) => arrived = done \o queue

\* A call that returns true has executed its own job, and with it every
\* request that was pushed before it, the ones left behind by others included.
OwnerLeavesNothingOlder ==
    [][\A t \in Threads :
         pc[t] = "release" /\ pc'[t] = "idle" =>
           \E i \in DOMAIN arrived : arrived[i] = req[t] /\ i <= Len(done)]_vars

-------------------------------------------------------------------------------
Queued(r) == r \in Elements(queue)
Done(r) == r \in Elements(done)

\* Every call of execute comes back: the owner's loop ends when the callers do.
EveryCallReturns == \A t \in Threads : pc[t] # "idle" ~> pc[t] = "idle"

\* A queued request is executed whenever the counter still announces a pass to
\* come (_count is at least 2, or the owner has not made its popQueue).
AnnouncedIsExecuted ==
    \A r \in Requests :
      Queued(r) /\ ( \/ count >= 2
                     \/ \E t \in Threads : Owner(t) /\ pc[t] \in {"push", "pop"} )
        ~> Done(r)

-------------------------------------------------------------------------------
\* The abstract executor: its line is what the owner has not started, then the
\* queue; its current request is the one whose onExecute has begun.
OwnChain == IF \E t \in Threads : chain[t] # <<>>
            THEN chain[CHOOSE t \in Threads : chain[t] # <<>>] ELSE <<>>
Running == \E t \in Threads : pc[t] = "run"

Abstract == INSTANCE SerialExecutor WITH
    waiting <- (IF Running THEN Tail(OwnChain) ELSE OwnChain) \o queue,
    current <- IF Running THEN <<Head(OwnChain)>> ELSE <<>>,
    finished <- done

\* The serializer implements the abstract serial executor.
ImplementsSerialExecutor == Abstract!Spec
===============================================================================
