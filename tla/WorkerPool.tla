------------------------------- MODULE WorkerPool -------------------------------
(***************************************************************************)
(* NKNetwork::IOCPManager and its WorkerThreads, from create to close.     *)
(*                                                                         *)
(* create opens the socket library and the port, starts one worker per     *)
(* processor and asks for ConnectEx; it gives up where the system refuses, *)
(* and leaves what it has to close.  A worker loops over onRun until it    *)
(* dequeues an END event or finds its _run false.  close posts an END for  *)
(* every worker, then joins them one after the other, for 500 ms each; a   *)
(* join that times out begins all of it anew.  join itself sets _run to    *)
(* false, and detaches the thread it saw end.                              *)
(***************************************************************************)
EXTENDS Naturals, Sequences

CONSTANTS
    Processors,     \* dwNumberOfProcessors
    Events,         \* the calls of postEvent
    MaxTimeouts,    \* bound of the model: the joins that time out
    MayFail         \* whether the system may refuse what create asks for

ASSUME PoolAssumption ==
    Processors \in Nat \ {0} /\ MaxTimeouts \in Nat /\ MayFail \in BOOLEAN

VARIABLES
    phase,      \* where create and close are
    k,          \* the worker they are at
    timeouts,   \* the joins that timed out
    thread,     \* where each worker's thread is
    run,        \* NKThread::_run of each worker
    attached,   \* whether NKThread::_t of each worker is joinable
    created,    \* whether _completion_port is not null
    port,       \* the completion port
    handling,   \* the event each worker handles
    posted,     \* the events posted
    handled     \* the events handled

vars == <<phase, k, timeouts, thread, run, attached, created, port, handling, posted, handled>>

Workers == 1 .. Processors
End == "END_EVENT"
ASSUME EndIsNoEvent == End \notin Events

Init ==
    /\ phase = "startup" /\ k = 1 /\ timeouts = 0
    /\ thread = [w \in Workers |-> "none"]
    /\ run = [w \in Workers |-> FALSE]
    /\ attached = [w \in Workers |-> FALSE]
    /\ created = FALSE /\ port = <<>>
    /\ handling = [w \in Workers |-> End]
    /\ posted = {} /\ handled = {}

-------------------------------------------------------------------------------
\* The next worker, or the next phase after the last one.
Advance(next) == IF k < Processors THEN k' = k + 1 /\ UNCHANGED phase ELSE k' = 1 /\ phase' = next

\* What create asks the system for, and what it does when it is refused
Asked(next) == phase' \in {next} \cup (IF MayFail THEN {"failed"} ELSE {})

\* WinSockLib::open
OpenWinSock ==
    /\ phase = "startup" /\ Asked("port")
    /\ UNCHANGED <<k, timeouts, thread, run, attached, created, port, handling, posted, handled>>

\* CreateIoCompletionPort
CreatePort ==
    /\ phase = "port" /\ Asked("create")
    /\ created' = (phase' = "create")
    /\ UNCHANGED <<k, timeouts, thread, run, attached, port, handling, posted, handled>>

\* NKThread::create: _run first, then the thread.
CreateWorker ==
    /\ phase = "create"
    /\ run' = [run EXCEPT ![k] = TRUE]
    /\ thread' = [thread EXCEPT ![k] = "start"]
    /\ attached' = [attached EXCEPT ![k] = TRUE]
    /\ Advance("connectex")
    /\ UNCHANGED <<timeouts, created, port, handling, posted, handled>>

\* A socket and WSAIoctl, with the workers running already
FindConnectEx ==
    /\ phase = "connectex" /\ Asked("open")
    /\ UNCHANGED <<k, timeouts, thread, run, attached, created, port, handling, posted, handled>>

\* IOCPManager::postEvent, from any thread
PostEvent(e) ==
    /\ created /\ e \notin posted
    /\ port' = Append(port, e)
    /\ posted' = posted \cup {e}
    /\ UNCHANGED <<phase, k, timeouts, thread, run, attached, handling, handled, created>>

-------------------------------------------------------------------------------
\* NKThread::run calls onStart ...
OnStart(w) ==
    /\ thread[w] = "start"
    /\ thread' = [thread EXCEPT ![w] = "top"]
    /\ UNCHANGED <<phase, k, timeouts, run, attached, created, port, handling, posted, handled>>

\* ... tests _run, and calls onRun, which begins with the update ...
Top(w) ==
    /\ thread[w] = "top"
    /\ thread' = [thread EXCEPT ![w] = IF run[w] THEN "wait" ELSE "end"]
    /\ UNCHANGED <<phase, k, timeouts, run, attached, created, port, handling, posted, handled>>

\* GetQueuedCompletionStatus returns an entry: an END ends the loop ...
DequeueEnd(w) ==
    /\ thread[w] = "wait" /\ port # <<>> /\ Head(port) = End
    /\ port' = Tail(port)
    /\ thread' = [thread EXCEPT ![w] = "end"]
    /\ UNCHANGED <<phase, k, timeouts, run, attached, handling, posted, handled, created>>

\* ... any other is processed.
DequeueEvent(w) ==
    /\ thread[w] = "wait" /\ port # <<>> /\ Head(port) # End
    /\ port' = Tail(port)
    /\ thread' = [thread EXCEPT ![w] = "process"]
    /\ handling' = [handling EXCEPT ![w] = Head(port)]
    /\ UNCHANGED <<phase, k, timeouts, run, attached, posted, handled, created>>

\* Mutation: a timeout ends the loop.
WaitTimeoutEnds(w) ==
    /\ thread[w] = "wait" /\ port = <<>>
    /\ thread' = [thread EXCEPT ![w] = "end"]
    /\ UNCHANGED <<phase, k, timeouts, run, attached, created, port, handling, posted, handled>>

\* It waits until the next update at the most.
WaitTimeout(w) ==
    /\ thread[w] = "wait" /\ port = <<>>
    /\ thread' = [thread EXCEPT ![w] = "top"]
    /\ UNCHANGED <<phase, k, timeouts, run, attached, created, port, handling, posted, handled>>

\* onProcess returns.
Process(w) ==
    /\ thread[w] = "process"
    /\ thread' = [thread EXCEPT ![w] = "top"]
    /\ handled' = handled \cup {handling[w]}
    /\ handling' = [handling EXCEPT ![w] = End]
    /\ UNCHANGED <<phase, k, timeouts, run, attached, created, port, posted>>

\* ... and onEnd after the loop.
OnEnd(w) ==
    /\ thread[w] = "end"
    /\ thread' = [thread EXCEPT ![w] = "ended"]
    /\ UNCHANGED <<phase, k, timeouts, run, attached, created, port, handling, posted, handled>>

Work(w) ==
    \/ OnStart(w) \/ Top(w) \/ OnEnd(w)
    \/ DequeueEnd(w) \/ DequeueEvent(w) \/ WaitTimeout(w) \/ Process(w)

-------------------------------------------------------------------------------
\* _worker_thread_vector
Pool == {w \in Workers : thread[w] # "none"}

\* IOCPManager::close is called by a thread that is no worker, be create through
\* or not; without workers there is nothing to post or to join.
Close ==
    /\ phase \in {"open", "failed"}
    /\ phase' = IF Pool = {} THEN "clear" ELSE "post"
    /\ UNCHANGED <<k, timeouts, thread, run, attached, created, port, handling, posted, handled>>

PostStop ==
    /\ phase = "post"
    /\ port' = Append(port, End)
    /\ Advance("join")
    /\ UNCHANGED <<timeouts, thread, run, attached, handling, posted, handled, created>>

\* Mutation of Join: false for a detached thread, as the other join has it.
JoinDetachedFails ==
    /\ phase = "join"
    /\ run' = [run EXCEPT ![k] = FALSE]
    /\ IF attached[k] THEN phase' = "wait" /\ UNCHANGED <<k, timeouts>>
       ELSE /\ timeouts < MaxTimeouts /\ timeouts' = timeouts + 1
            /\ phase' = "post" /\ k' = 1
    /\ UNCHANGED <<thread, attached, created, port, handling, posted, handled>>

\* NKThread::join(tick) sets _run to false, and waits if _t is joinable.
Join ==
    /\ phase = "join"
    /\ run' = [run EXCEPT ![k] = FALSE]
    /\ IF attached[k] THEN phase' = "wait" /\ UNCHANGED k ELSE Advance("clear")
    /\ UNCHANGED <<timeouts, thread, attached, created, port, handling, posted, handled>>

\* The wait ends because the thread did: _t is detached, the next worker joined.
Joined ==
    /\ phase = "wait" /\ thread[k] = "ended"
    /\ attached' = [attached EXCEPT ![k] = FALSE]
    /\ IF k < Processors THEN phase' = "join" /\ k' = k + 1 ELSE phase' = "clear" /\ k' = 1
    /\ UNCHANGED <<timeouts, thread, run, created, port, handling, posted, handled>>

\* Mutation of JoinTimeout: a timeout counts as joined.
TimeoutJoins ==
    /\ phase = "wait" /\ thread[k] # "ended"
    /\ timeouts < MaxTimeouts /\ timeouts' = timeouts + 1
    /\ attached' = [attached EXCEPT ![k] = FALSE]
    /\ IF k < Processors THEN phase' = "join" /\ k' = k + 1 ELSE phase' = "clear" /\ k' = 1
    /\ UNCHANGED <<thread, run, created, port, handling, posted, handled>>

\* The wait times out: allWorkerThreadsJoinable is false, and close posts again.
JoinTimeout ==
    /\ phase = "wait" /\ thread[k] # "ended"
    /\ timeouts < MaxTimeouts /\ timeouts' = timeouts + 1
    /\ phase' = "post" /\ k' = 1
    /\ UNCHANGED <<thread, run, attached, created, port, handling, posted, handled>>

\* The worker objects are destroyed, and the port is closed.
Clear ==
    /\ phase = "clear" /\ phase' = "closed"
    /\ port' = <<>> /\ created' = FALSE
    /\ UNCHANGED <<k, timeouts, thread, run, attached, handling, posted, handled>>

CreatePool == OpenWinSock \/ CreatePort \/ CreateWorker \/ FindConnectEx

Manage == CreatePool \/ PostStop \/ Join \/ Joined \/ JoinTimeout \/ Clear

Next ==
    \/ Manage \/ Close
    \/ \E e \in Events : PostEvent(e)
    \/ \E w \in Workers : Work(w)

Spec == Init /\ [][Next]_vars

\* Threads are scheduled, handlers return; create and close go on.  Nobody has
\* to call close or postEvent.
FairSpec == Spec /\ WF_vars(Manage) /\ \A w \in Workers : WF_vars(Work(w))

-------------------------------------------------------------------------------
Closing == {"post", "join", "wait", "clear", "closed"}

TypeOK ==
    /\ phase \in {"startup", "port", "create", "connectex", "open", "failed"} \cup Closing
    /\ k \in Workers /\ timeouts \in 0 .. MaxTimeouts
    /\ thread \in [Workers -> {"none", "start", "top", "wait", "process", "end", "ended"}]
    /\ run \in [Workers -> BOOLEAN] /\ attached \in [Workers -> BOOLEAN]
    /\ created \in BOOLEAN /\ port \in Seq(Events \cup {End})
    /\ created \/ (port = <<>> /\ (Pool = {} \/ phase = "closed"))
    /\ handling \in [Workers -> Events \cup {End}]
    /\ posted \subseteq Events /\ handled \subseteq Events

\* The threads span the pool: none ends before close (the thread never sees the
\* _run of before create), and none runs when the worker objects are destroyed,
\* although create may fail with the workers running, joins time out, threads are
\* detached and anyone may take an END.
ThreadsSpanPool ==
    /\ phase \notin Closing => \A w \in Workers : thread[w] \notin {"end", "ended"}
    /\ phase \in {"clear", "closed"} => \A w \in Pool : thread[w] = "ended"

\* close ends, whatever the workers handle and whoever takes the END events, and
\* whatever create had come to.
CloseEnds == phase \in Closing ~> phase = "closed"

\* An event that was posted is handled, unless the pool is closed.
PostedIsHandled ==
    \A e \in Events : e \in posted ~> e \in handled \/ phase \in Closing

-------------------------------------------------------------------------------
\* What the pool comes to for those that post to it: it is open while it has its
\* port, and an event is in the port, with a worker, or through.
StateOfPool == IF created THEN "open" ELSE IF phase = "closed" THEN "closed" ELSE "new"

Waiting(e) == \E i \in DOMAIN port : port[i] = e
RunBy(e, w) == handling[w] = e

Place(e) ==
    IF e \notin posted THEN "unposted"
    ELSE IF e \in handled THEN "handled"
    ELSE IF \E w \in Workers : RunBy(e, w) THEN "running"
    ELSE IF Waiting(e) THEN "waiting"
    ELSE "dropped"

Promise == INSTANCE EventPool WITH
    state <- StateOfPool, place <- [e \in Events |-> Place(e)]

\* The pool implements the abstract one: whichever workers dequeue what, and however
\* create fails and close begins anew, an event is handled once, by one worker, and
\* only those in the port when the workers have all ended are dropped.
ImplementsEventPool == Promise!Spec
===============================================================================
