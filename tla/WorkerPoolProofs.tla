---------------------------- MODULE WorkerPoolProofs ----------------------------
(***************************************************************************)
(* Theorems about WorkerPool, for any number of processors and any events. *)
(***************************************************************************)
EXTENDS WorkerPool, SequenceTheorems, TLAPS

\* Whom create has started: nobody, those before the one it is at, or all.
Started ==
    /\ phase \in {"startup", "port"} => ~ created /\ Pool = {}
    /\ phase = "create" => created /\ Pool = 1 .. k - 1
    /\ phase \in {"connectex", "open", "post", "join", "wait"} => Pool = Workers
    /\ phase \in {"failed", "clear", "closed"} => Pool = {} \/ Pool = Workers
    /\ phase \notin {"create", "post", "join", "wait"} => k = 1

\* Until close begins, nothing tells a worker to end.
NoEnd ==
    phase \notin Closing =>
        /\ \A i \in DOMAIN port : port[i] # End
        /\ \A w \in Pool : run[w] /\ thread[w] \notin {"end", "ended"}

\* A worker is detached only when its thread was seen to end; those before the
\* one that close is at have been.
Ended ==
    /\ \A w \in Pool : attached[w] \/ thread[w] = "ended"
    /\ phase \in {"join", "wait"} => \A w \in 1 .. k - 1 : thread[w] = "ended"
    /\ phase \in {"clear", "closed"} => \A w \in Pool : thread[w] = "ended"

Handling == \A w \in Workers : thread[w] = "process" => handling[w] \in Events

Inv == TypeOK /\ Started /\ NoEnd /\ Ended /\ Handling

LEMMA InitInv == Init => Inv
<1> SUFFICES ASSUME Init PROVE Inv
  OBVIOUS
<1> USE PoolAssumption DEF Init
<1>1. /\ Pool = {} /\ port = <<>> /\ phase = "startup" /\ k = 1 /\ k \in Workers
      /\ port \in Seq(Events \cup {End}) /\ 0 \in 0 .. MaxTimeouts
  BY EmptySeq DEF Pool, Workers
<1>2. TypeOK
  BY <1>1 DEF TypeOK, Closing
<1>3. Started /\ NoEnd /\ Ended /\ Handling
  BY <1>1 DEF Started, NoEnd, Ended, Handling
<1> QED
  BY <1>2, <1>3 DEF Inv

LEMMA OpenWinSockInv == ASSUME Inv, OpenWinSock PROVE Inv'
<1> USE PoolAssumption DEF Inv, OpenWinSock, Asked
<1>1. TypeOK'
  BY DEF TypeOK, Started, Handling, Closing, Pool, Workers
<1>2. Started'
  BY DEF TypeOK, Started, Closing, Pool, Workers
<1>3. NoEnd'
  BY DEF TypeOK, Started, NoEnd, Closing, Pool, Workers
<1>4. Ended'
  BY DEF TypeOK, Started, Ended, Closing, Pool, Workers
<1>5. Handling'
  BY DEF TypeOK, Handling
<1> QED
  BY <1>1, <1>2, <1>3, <1>4, <1>5

LEMMA CreatePortInv == ASSUME Inv, CreatePort PROVE Inv'
<1> USE PoolAssumption DEF Inv, CreatePort, Asked
<1>0. \/ phase' = "create" /\ created' = TRUE
      \/ phase' = "failed" /\ created' = FALSE
  OBVIOUS
<1>1. TypeOK'
  <2>1. Pool = {} /\ phase = "port" /\ Pool' = Pool
    BY DEF Started, Pool
  <2>2. CASE created' = TRUE
    BY <1>0, <2>1, <2>2 DEF TypeOK, Closing
  <2>3. CASE created' = FALSE
    <3>1. ~ created
      BY <2>1 DEF Started
    <3> QED
    BY <1>0, <2>1, <2>3, <3>1 DEF TypeOK, Closing
  <2> QED
    BY <1>0, <2>2, <2>3
<1>2. Started'
  <2>1. Pool' = {} /\ k' = 1
    BY DEF Started, Pool
  <2>2. {} = 1 .. k' - 1
    BY <2>1
  <2> QED
    BY <1>0, <2>1, <2>2, Zenon DEF Started
<1>3. NoEnd'
  BY DEF TypeOK, Started, NoEnd, Closing, Pool, Workers
<1>4. Ended'
  BY DEF TypeOK, Started, Ended, Closing, Pool, Workers
<1>5. Handling'
  BY DEF TypeOK, Handling
<1> QED
  BY <1>1, <1>2, <1>3, <1>4, <1>5

LEMMA CreateWorkerInv == ASSUME Inv, CreateWorker PROVE Inv'
<1> USE PoolAssumption DEF Inv, CreateWorker, Advance
<1>1. TypeOK'
  BY DEF TypeOK, Started, Handling, Closing, Pool, Workers
<1>2. Started'
  BY DEF TypeOK, Started, Closing, Pool, Workers
<1>3. NoEnd'
  BY DEF TypeOK, Started, NoEnd, Closing, Pool, Workers
<1>4. Ended'
  BY DEF TypeOK, Started, Ended, Closing, Pool, Workers
<1>5. Handling'
  BY DEF TypeOK, Handling
<1> QED
  BY <1>1, <1>2, <1>3, <1>4, <1>5

LEMMA FindConnectExInv == ASSUME Inv, FindConnectEx PROVE Inv'
<1> USE PoolAssumption DEF Inv, FindConnectEx, Asked
<1>1. TypeOK'
  BY DEF TypeOK, Started, Handling, Closing, Pool, Workers
<1>2. Started'
  BY DEF TypeOK, Started, Closing, Pool, Workers
<1>3. NoEnd'
  BY DEF TypeOK, Started, NoEnd, Closing, Pool, Workers
<1>4. Ended'
  BY DEF TypeOK, Started, Ended, Closing, Pool, Workers
<1>5. Handling'
  BY DEF TypeOK, Handling
<1> QED
  BY <1>1, <1>2, <1>3, <1>4, <1>5

LEMMA CloseInv == ASSUME Inv, Close PROVE Inv'
<1> USE PoolAssumption DEF Inv, Close
<1>1. TypeOK'
  BY DEF TypeOK, Started, Handling, Closing, Pool, Workers
<1>2. Started'
  BY DEF TypeOK, Started, Closing, Pool, Workers
<1>3. NoEnd'
  BY DEF TypeOK, Started, NoEnd, Closing, Pool, Workers
<1>4. Ended'
  BY DEF TypeOK, Started, Ended, Closing, Pool, Workers
<1>5. Handling'
  BY DEF TypeOK, Handling
<1> QED
  BY <1>1, <1>2, <1>3, <1>4, <1>5

LEMMA PostStopInv == ASSUME Inv, PostStop PROVE Inv'
<1> USE PoolAssumption DEF Inv, PostStop, Advance
<1>1. TypeOK'
  <2>1. Pool = Workers /\ Pool' = Pool /\ k \in Workers /\ Workers # {}
    BY DEF TypeOK, Started, Pool, Workers
  <2>2. created /\ created' = created /\ port' \in Seq(Events \cup {End})
    BY <2>1 DEF TypeOK
  <2>3. k' \in Workers /\ phase' \in {"post", "join"}
    BY <2>1 DEF Workers
  <2> QED
    BY <2>2, <2>3 DEF TypeOK, Closing
<1>2. Started'
  BY DEF TypeOK, Started, Closing, Pool, Workers
<1>3. NoEnd'
  BY DEF TypeOK, Started, NoEnd, Closing, Pool, Workers
<1>4. Ended'
  BY DEF TypeOK, Started, Ended, Closing, Pool, Workers
<1>5. Handling'
  BY DEF TypeOK, Handling
<1> QED
  BY <1>1, <1>2, <1>3, <1>4, <1>5

LEMMA JoinInv == ASSUME Inv, Join PROVE Inv'
<1> USE PoolAssumption DEF Inv, Join, Advance
<1>1. TypeOK'
  BY DEF TypeOK, Started, Handling, Closing, Pool, Workers
<1>2. Started'
  BY DEF TypeOK, Started, Closing, Pool, Workers
<1>3. NoEnd'
  BY DEF TypeOK, Started, NoEnd, Closing, Pool, Workers
<1>4. Ended'
  <2>1. k \in Workers /\ Pool = Workers /\ Pool' = Pool /\ phase = "join"
    BY DEF TypeOK, Started, Pool
  <2>2. \A w \in 1 .. k - 1 : thread[w] = "ended"
    BY <2>1 DEF Ended
  <2>3. CASE attached[k]
    BY <2>1, <2>2, <2>3 DEF Ended
  <2>4. CASE ~ attached[k]
    <3>1. \A w \in 1 .. k : thread[w] = "ended"
      BY <2>1, <2>2, <2>4 DEF Ended, Workers
    <3>2. CASE k < Processors
      BY <2>1, <2>4, <3>1, <3>2 DEF Ended, Workers
    <3>3. CASE ~ k < Processors
      BY <2>1, <2>4, <3>1, <3>3 DEF Ended, Workers
    <3> QED
      BY <3>2, <3>3
  <2> QED
    BY <2>3, <2>4
<1>5. Handling'
  BY DEF TypeOK, Handling
<1> QED
  BY <1>1, <1>2, <1>3, <1>4, <1>5

LEMMA JoinedInv == ASSUME Inv, Joined PROVE Inv'
<1> USE PoolAssumption DEF Inv, Joined
<1>1. TypeOK'
  BY DEF TypeOK, Started, Handling, Closing, Pool, Workers
<1>2. Started'
  BY DEF TypeOK, Started, Closing, Pool, Workers
<1>3. NoEnd'
  BY DEF TypeOK, Started, NoEnd, Closing, Pool, Workers
<1>4. Ended'
  BY DEF TypeOK, Started, Ended, Closing, Pool, Workers
<1>5. Handling'
  BY DEF TypeOK, Handling
<1> QED
  BY <1>1, <1>2, <1>3, <1>4, <1>5

LEMMA JoinTimeoutInv == ASSUME Inv, JoinTimeout PROVE Inv'
<1> USE PoolAssumption DEF Inv, JoinTimeout
<1>1. TypeOK'
  BY DEF TypeOK, Started, Handling, Closing, Pool, Workers
<1>2. Started'
  BY DEF TypeOK, Started, Closing, Pool, Workers
<1>3. NoEnd'
  BY DEF TypeOK, Started, NoEnd, Closing, Pool, Workers
<1>4. Ended'
  BY DEF TypeOK, Started, Ended, Closing, Pool, Workers
<1>5. Handling'
  BY DEF TypeOK, Handling
<1> QED
  BY <1>1, <1>2, <1>3, <1>4, <1>5

LEMMA ClearInv == ASSUME Inv, Clear PROVE Inv'
<1> USE PoolAssumption DEF Inv, Clear
<1>1. TypeOK'
  <2>1. port' \in Seq(Events \cup {End}) /\ port' = <<>> /\ created' = FALSE /\ phase' = "closed"
    BY EmptySeq
  <2> QED
    BY <2>1 DEF TypeOK, Closing
<1>2. Started'
  BY DEF TypeOK, Started, Closing, Pool, Workers
<1>3. NoEnd'
  BY DEF TypeOK, Started, NoEnd, Closing, Pool, Workers
<1>4. Ended'
  BY DEF TypeOK, Started, Ended, Closing, Pool, Workers
<1>5. Handling'
  BY DEF TypeOK, Handling
<1> QED
  BY <1>1, <1>2, <1>3, <1>4, <1>5

LEMMA OnStartInv == ASSUME Inv, NEW w \in Workers, OnStart(w) PROVE Inv'
<1> USE PoolAssumption DEF Inv, OnStart
<1>1. TypeOK'
  BY DEF TypeOK, Started, Handling, Closing, Pool, Workers
<1>2. Started'
  BY DEF TypeOK, Started, Closing, Pool, Workers
<1>3. NoEnd'
  BY DEF TypeOK, Started, NoEnd, Closing, Pool, Workers
<1>4. Ended'
  BY DEF TypeOK, Started, Ended, Closing, Pool, Workers
<1>5. Handling'
  BY DEF TypeOK, Handling
<1> QED
  BY <1>1, <1>2, <1>3, <1>4, <1>5

LEMMA TopInv == ASSUME Inv, NEW w \in Workers, Top(w) PROVE Inv'
<1> USE PoolAssumption DEF Inv, Top
<1>1. TypeOK'
  BY DEF TypeOK, Started, Handling, Closing, Pool, Workers
<1>2. Started'
  BY DEF TypeOK, Started, Closing, Pool, Workers
<1>3. NoEnd'
  BY DEF TypeOK, Started, NoEnd, Closing, Pool, Workers
<1>4. Ended'
  BY DEF TypeOK, Started, Ended, Closing, Pool, Workers
<1>5. Handling'
  BY DEF TypeOK, Handling
<1> QED
  BY <1>1, <1>2, <1>3, <1>4, <1>5

LEMMA OnEndInv == ASSUME Inv, NEW w \in Workers, OnEnd(w) PROVE Inv'
<1> USE PoolAssumption DEF Inv, OnEnd
<1>1. TypeOK'
  BY DEF TypeOK, Started, Handling, Closing, Pool, Workers
<1>2. Started'
  BY DEF TypeOK, Started, Closing, Pool, Workers
<1>3. NoEnd'
  BY DEF TypeOK, Started, NoEnd, Closing, Pool, Workers
<1>4. Ended'
  BY DEF TypeOK, Started, Ended, Closing, Pool, Workers
<1>5. Handling'
  BY DEF TypeOK, Handling
<1> QED
  BY <1>1, <1>2, <1>3, <1>4, <1>5

LEMMA DequeueEndInv == ASSUME Inv, NEW w \in Workers, DequeueEnd(w) PROVE Inv'
<1> USE PoolAssumption DEF Inv, DequeueEnd
<1>1. TypeOK'
  BY DEF TypeOK, Started, Handling, Closing, Pool, Workers
<1>2. Started'
  BY DEF TypeOK, Started, Closing, Pool, Workers
<1>3. NoEnd'
  BY DEF TypeOK, Started, NoEnd, Closing, Pool, Workers
<1>4. Ended'
  BY DEF TypeOK, Started, Ended, Closing, Pool, Workers
<1>5. Handling'
  BY DEF TypeOK, Handling
<1> QED
  BY <1>1, <1>2, <1>3, <1>4, <1>5

LEMMA DequeueEventInv == ASSUME Inv, NEW w \in Workers, DequeueEvent(w) PROVE Inv'
<1> USE PoolAssumption DEF Inv, DequeueEvent
<1>1. TypeOK'
  BY DEF TypeOK, Started, Handling, Closing, Pool, Workers
<1>2. Started'
  BY DEF TypeOK, Started, Closing, Pool, Workers
<1>3. NoEnd'
  BY DEF TypeOK, Started, NoEnd, Closing, Pool, Workers
<1>4. Ended'
  BY DEF TypeOK, Started, Ended, Closing, Pool, Workers
<1>5. Handling'
  BY DEF TypeOK, Handling
<1> QED
  BY <1>1, <1>2, <1>3, <1>4, <1>5

LEMMA WaitTimeoutInv == ASSUME Inv, NEW w \in Workers, WaitTimeout(w) PROVE Inv'
<1> USE PoolAssumption DEF Inv, WaitTimeout
<1>1. TypeOK'
  BY DEF TypeOK, Started, Handling, Closing, Pool, Workers
<1>2. Started'
  BY DEF TypeOK, Started, Closing, Pool, Workers
<1>3. NoEnd'
  BY DEF TypeOK, Started, NoEnd, Closing, Pool, Workers
<1>4. Ended'
  BY DEF TypeOK, Started, Ended, Closing, Pool, Workers
<1>5. Handling'
  BY DEF TypeOK, Handling
<1> QED
  BY <1>1, <1>2, <1>3, <1>4, <1>5

LEMMA ProcessInv == ASSUME Inv, NEW w \in Workers, Process(w) PROVE Inv'
<1> USE PoolAssumption DEF Inv, Process
<1>1. TypeOK'
  BY DEF TypeOK, Started, Handling, Closing, Pool, Workers
<1>2. Started'
  BY DEF TypeOK, Started, Closing, Pool, Workers
<1>3. NoEnd'
  BY DEF TypeOK, Started, NoEnd, Closing, Pool, Workers
<1>4. Ended'
  BY DEF TypeOK, Started, Ended, Closing, Pool, Workers
<1>5. Handling'
  BY DEF TypeOK, Handling
<1> QED
  BY <1>1, <1>2, <1>3, <1>4, <1>5

LEMMA PostEventInv == ASSUME Inv, NEW e \in Events, PostEvent(e) PROVE Inv'
<1> USE PoolAssumption, EndIsNoEvent DEF Inv, PostEvent
<1>1. TypeOK'
  BY DEF TypeOK, Started, Handling, Closing, Pool, Workers
<1>2. Started'
  BY DEF TypeOK, Started, Closing, Pool, Workers
<1>3. NoEnd'
  BY DEF TypeOK, Started, NoEnd, Closing, Pool, Workers
<1>4. Ended'
  BY DEF TypeOK, Started, Ended, Closing, Pool, Workers
<1>5. Handling'
  BY DEF TypeOK, Handling
<1> QED
  BY <1>1, <1>2, <1>3, <1>4, <1>5

\* The next-state relation preserves the invariant.
LEMMA NextInv == Inv /\ [Next]_vars => Inv'
<1> SUFFICES ASSUME Inv, [Next]_vars PROVE Inv'
  OBVIOUS
<1>1. CASE Manage
  BY <1>1, OpenWinSockInv, CreatePortInv, CreateWorkerInv, FindConnectExInv, PostStopInv,
     JoinInv, JoinedInv, JoinTimeoutInv, ClearInv DEF Manage, CreatePool
<1>2. CASE Close
  BY <1>2, CloseInv
<1>3. ASSUME NEW e \in Events, PostEvent(e) PROVE Inv'
  BY <1>3, PostEventInv
<1>4. ASSUME NEW w \in Workers, Work(w) PROVE Inv'
  BY <1>4, OnStartInv, TopInv, OnEndInv, DequeueEndInv, DequeueEventInv, WaitTimeoutInv,
     ProcessInv DEF Work
<1>5. CASE UNCHANGED vars
  BY <1>5 DEF vars, Inv, TypeOK, Started, NoEnd, Ended, Handling, Pool
<1> QED
  BY <1>1, <1>2, <1>3, <1>4, <1>5 DEF Next

LEMMA AlwaysInv == Spec => []Inv
BY InitInv, NextInv, PTL DEF Spec

\* The state of the pool is well formed: nothing is in a port that there is not.
THEOREM TypeCorrect == Spec => []TypeOK
<1>1. Inv => TypeOK
  BY DEF Inv
<1> QED
  BY <1>1, AlwaysInv, PTL

\* However many workers there are, whatever create fails at, and however often
\* joins time out and close begins anew (NKThread::join, IOCPManager::close), no
\* thread ends before close and none outlives its worker object.
THEOREM ThreadsOfPool == Spec => []ThreadsSpanPool
<1>1. Inv => ThreadsSpanPool
  <2> SUFFICES ASSUME Inv PROVE ThreadsSpanPool
    OBVIOUS
  <2>1. phase \notin Closing => \A w \in Workers : thread[w] \notin {"end", "ended"}
    BY DEF Inv, NoEnd, Pool
  <2>2. phase \in {"clear", "closed"} => \A w \in Pool : thread[w] = "ended"
    BY DEF Inv, Ended
  <2> QED
    BY <2>1, <2>2 DEF ThreadsSpanPool
<1> QED
  BY <1>1, AlwaysInv, PTL

-------------------------------------------------------------------------------
\* An event is in one place: it is handled, or with one worker that processes it,
\* or in the port, once.
EventsOnce ==
    /\ handled \subseteq posted
    /\ \A w \in Workers : thread[w] # "process" => handling[w] = End
    /\ \A w \in Workers : handling[w] # End => handling[w] \in posted \ handled
    /\ \A v, w \in Workers : handling[v] = handling[w] /\ handling[v] # End => v = w
    /\ \A i \in DOMAIN port : port[i] # End =>
         port[i] \in posted \ handled /\ \A w \in Workers : handling[w] # port[i]
    /\ \A i, j \in DOMAIN port : port[i] = port[j] /\ port[i] # End => i = j

LEMMA InitOnce == Init => EventsOnce
BY DEF Init, EventsOnce

LEMMA StepOnce == Inv /\ EventsOnce /\ [Next]_vars => EventsOnce'
<1> SUFFICES ASSUME Inv, EventsOnce, [Next]_vars PROVE EventsOnce'
  OBVIOUS
<1>0. /\ port \in Seq(Events \cup {End}) /\ handling \in [Workers -> Events \cup {End}]
      /\ thread \in [Workers -> {"none", "start", "top", "wait", "process", "end", "ended"}]
      /\ posted \subseteq Events
  BY DEF Inv, TypeOK
<1>1. CASE \/ OpenWinSock \/ CreatePort \/ FindConnectEx \/ Join \/ Joined \/ JoinTimeout
           \/ Close
  BY <1>1 DEF OpenWinSock, CreatePort, FindConnectEx, Join, Joined, JoinTimeout, Close, EventsOnce
<1>2. CASE CreateWorker
  <2>1. thread[k] = "none"
    BY <1>2 DEF CreateWorker, Inv, TypeOK, Started, Pool, Workers
  <2> QED
    BY <2>1, <1>0, <1>2 DEF CreateWorker, EventsOnce
<1>3. CASE PostStop
  BY <1>3, <1>0 DEF PostStop, EventsOnce
<1>4. CASE Clear
  BY <1>4, <1>0 DEF Clear, EventsOnce
<1>5. ASSUME NEW e \in Events, PostEvent(e) PROVE EventsOnce'
  <2>1. /\ UNCHANGED <<thread, handling, handled>> /\ posted' = posted \cup {e} /\ e \notin posted
        /\ port' = Append(port, e)
    BY <1>5 DEF PostEvent
  <2>2. e \notin handled /\ \A w \in Workers : handling[w] # e
    BY <2>1, EndIsNoEvent, Zenon DEF EventsOnce
  <2>3. \A i \in DOMAIN port : port[i] # e
    BY <2>1, EndIsNoEvent, Zenon DEF EventsOnce
  <2>4. \A i \in DOMAIN port' : (i \in DOMAIN port /\ port'[i] = port[i]) \/ (i = Len(port) + 1 /\ port'[i] = e)
    BY <2>1, <1>0
  <2>5. \A i, j \in DOMAIN port' : port'[i] = port'[j] /\ port'[i] # End => i = j
    BY <2>3, <2>4, Zenon DEF EventsOnce
  <2>6. \A i \in DOMAIN port' : port'[i] # End =>
          port'[i] \in posted' \ handled /\ \A w \in Workers : handling[w] # port'[i]
    BY <2>1, <2>2, <2>4 DEF EventsOnce
  <2> QED
    BY <2>1, <2>5, <2>6 DEF EventsOnce
<1>6. ASSUME NEW w \in Workers, OnStart(w) \/ Top(w) \/ OnEnd(w) \/ WaitTimeout(w)
      PROVE  EventsOnce'
  BY <1>6, <1>0 DEF OnStart, Top, OnEnd, WaitTimeout, EventsOnce
<1>7. ASSUME NEW w \in Workers, DequeueEnd(w) PROVE EventsOnce'
  BY <1>7, <1>0 DEF DequeueEnd, EventsOnce
<1>8. ASSUME NEW w \in Workers, DequeueEvent(w) PROVE EventsOnce'
  <2>1. /\ UNCHANGED <<posted, handled>> /\ thread[w] = "wait" /\ port # <<>> /\ port[1] # End
        /\ handling' = [handling EXCEPT ![w] = port[1]]
        /\ thread' = [thread EXCEPT ![w] = "process"]
        /\ port' = Tail(port)
    BY <1>8, <1>0 DEF DequeueEvent
  <2>2. 1 \in DOMAIN port /\ \A i \in DOMAIN port' : i + 1 \in DOMAIN port /\ port'[i] = port[i + 1] /\ i \in Nat \ {0}
    BY <2>1, <1>0
  <2>3. \A v \in Workers : handling'[v] = IF v = w THEN port[1] ELSE handling[v]
    BY <2>1, <1>0
  <2>4. \A i \in DOMAIN port' : port'[i] # End => port'[i] # port[1]
    BY <2>2 DEF EventsOnce
  <2>5. \A i, j \in DOMAIN port' : port'[i] = port'[j] /\ port'[i] # End => i = j
    BY <2>2 DEF EventsOnce
  <2>6. \A i \in DOMAIN port' : port'[i] # End =>
          port'[i] \in posted \ handled /\ \A v \in Workers : handling'[v] # port'[i]
    BY <2>2, <2>3, <2>4 DEF EventsOnce
  <2>7. \A v, u \in Workers : handling'[v] = handling'[u] /\ handling'[v] # End => v = u
    BY <2>1, <2>2, <2>3 DEF EventsOnce
  <2>8. \A v \in Workers : /\ thread'[v] # "process" => handling'[v] = End
                           /\ handling'[v] # End => handling'[v] \in posted \ handled
    BY <2>1, <2>2, <2>3, <1>0 DEF EventsOnce
  <2> QED
    BY <2>1, <2>5, <2>6, <2>7, <2>8 DEF EventsOnce
<1>9. ASSUME NEW w \in Workers, Process(w) PROVE EventsOnce'
  <2>1. /\ UNCHANGED <<posted, port>> /\ thread[w] = "process"
        /\ handled' = handled \cup {handling[w]}
        /\ \A v \in Workers : /\ handling'[v] = IF v = w THEN End ELSE handling[v]
                              /\ v # w => thread'[v] = thread[v]
    BY <1>9, <1>0 DEF Process
  <2>2. handling[w] \in posted /\ handling[w] # End
    BY <2>1, EndIsNoEvent DEF Inv, Handling, EventsOnce
  <2> QED
    BY <2>1, <2>2 DEF EventsOnce
<1>10. CASE UNCHANGED vars
  BY <1>10 DEF vars, EventsOnce
<1> QED
  BY <1>1, <1>2, <1>3, <1>4, <1>5, <1>6, <1>7, <1>8, <1>9, <1>10
  DEF Next, Manage, CreatePool, Work

-------------------------------------------------------------------------------
\* The steps of the abstract pool, said of the places of the events
LEMMA Stutters ==
  ASSUME StateOfPool' = StateOfPool, \A e \in Events : Place(e)' = Place(e)
  PROVE  UNCHANGED Promise!vars
BY DEF Promise!vars

LEMMA MovesOne ==
  ASSUME NEW e \in Events, NEW from, NEW to,
         Place(e) = from, Place(e)' = to,
         \A f \in Events : f # e => Place(f)' = Place(f)
  PROVE  Promise!Move(e, from, to)
<1>1. [f \in Events |-> Place(f)]' = [[f \in Events |-> Place(f)] EXCEPT ![e] = to]
  OBVIOUS
<1> QED
  BY <1>1 DEF Promise!Move

\* What is in the port but the END events, and with whom, decides the places.
LEMMA SamePlaces ==
  ASSUME UNCHANGED <<posted, handled, handling>>,
         \A e \in Events : Waiting(e)' <=> Waiting(e)
  PROVE  \A e \in Events : Place(e)' = Place(e)
BY DEF Place, RunBy

LEMMA RefinesStep ==
  ASSUME Inv, EventsOnce, EventsOnce', [Next]_vars
  PROVE  [Promise!Next]_(Promise!vars)
<1>0. /\ port \in Seq(Events \cup {End}) /\ handling \in [Workers -> Events \cup {End}]
      /\ posted \subseteq Events
  BY DEF Inv, TypeOK
<1>1. CASE OpenWinSock \/ CreateWorker \/ FindConnectEx \/ Join \/ Joined \/ JoinTimeout \/ Close
  <2>1. UNCHANGED <<posted, handled, handling, port, created>> /\ phase # "closed" /\ phase' # "closed"
    BY <1>1 DEF OpenWinSock, CreateWorker, FindConnectEx, Join, Joined, JoinTimeout, Close,
       Asked, Advance
  <2>2. StateOfPool' = StateOfPool
    BY <2>1 DEF StateOfPool
  <2>3. \A e \in Events : Place(e)' = Place(e)
    BY <2>1, SamePlaces DEF Waiting
  <2> QED
    BY <2>2, <2>3, Stutters
<1>2. CASE CreatePort
  <2>1. /\ UNCHANGED <<posted, handled, handling, port>> /\ phase = "port" /\ ~ created
        /\ phase' # "closed"
    BY <1>2 DEF CreatePort, Asked, Inv, Started
  <2>2. \A e \in Events : Place(e)' = Place(e)
    BY <2>1, SamePlaces DEF Waiting
  <2>3. CASE created'
    BY <2>1, <2>2, <2>3 DEF StateOfPool, Promise!Next, Promise!Open
  <2>4. CASE ~ created'
    <3>1. StateOfPool' = StateOfPool
      BY <2>1, <2>4 DEF StateOfPool
    <3> QED
      BY <2>2, <3>1, Stutters
  <2> QED
    BY <2>3, <2>4
<1>3. CASE PostStop
  <2>1. /\ UNCHANGED <<posted, handled, handling, created>> /\ phase # "closed" /\ phase' # "closed"
        /\ port' = Append(port, End)
    BY <1>3 DEF PostStop, Advance
  <2>2. \A e \in Events : Waiting(e)' <=> Waiting(e)
    BY <2>1, <1>0, EndIsNoEvent DEF Waiting
  <2>3. StateOfPool' = StateOfPool
    BY <2>1 DEF StateOfPool
  <2> QED
    BY <2>1, <2>2, <2>3, SamePlaces, Stutters
<1>4. CASE Clear
  <2>1. /\ UNCHANGED <<posted, handled, handling, thread>> /\ phase = "clear" /\ phase' = "closed"
        /\ port' = <<>> /\ ~ created'
    BY <1>4 DEF Clear
  <2>2. \A w \in Workers : thread[w] # "process"
    BY <2>1 DEF Inv, Ended, Pool
  <2>3. \A e \in Events, w \in Workers : ~ RunBy(e, w)
    BY <2>2, EndIsNoEvent DEF RunBy, EventsOnce
  <2>4. \A e \in Events : ~ Waiting(e)' /\ (\A w \in Workers : ~ RunBy(e, w)')
    BY <2>1, <2>3 DEF Waiting, RunBy
  <2>5. \A e \in Events : /\ Place(e) # "running"
                          /\ Place(e)' = IF Place(e) = "waiting" THEN "dropped" ELSE Place(e)
    BY <2>1, <2>3, <2>4 DEF Place
  <2>6. StateOfPool # "closed" /\ StateOfPool' = "closed"
    BY <2>1 DEF StateOfPool
  <2>7. Promise!Close
    BY <2>5, <2>6 DEF Promise!Close
  <2> QED
    BY <2>7 DEF Promise!Next
<1>5. ASSUME NEW e \in Events, PostEvent(e) PROVE Promise!Post(e)
  <2>1. /\ UNCHANGED <<handling, handled, created, phase>> /\ created
        /\ posted' = posted \cup {e} /\ e \notin posted
        /\ port' = Append(port, e)
    BY <1>5 DEF PostEvent
  <2>2. /\ e \notin handled /\ \A w \in Workers : ~ RunBy(e, w)
    BY <2>1, EndIsNoEvent DEF EventsOnce, RunBy
  <2>3. \A f \in Events : Waiting(f)' <=> (Waiting(f) \/ f = e)
    BY <2>1, <1>0 DEF Waiting
  <2>4. Place(e) = "unposted" /\ Place(e)' = "waiting"
    BY <2>1, <2>2, <2>3 DEF Place, RunBy
  <2>5. \A f \in Events : f # e => Place(f)' = Place(f)
    BY <2>1, <2>3 DEF Place, RunBy
  <2>6. StateOfPool = "open" /\ StateOfPool' = StateOfPool
    BY <2>1 DEF StateOfPool
  <2> QED
    BY <2>4, <2>5, <2>6, MovesOne DEF Promise!Post
<1>6. ASSUME NEW w \in Workers, OnStart(w) \/ Top(w) \/ OnEnd(w) \/ WaitTimeout(w)
      PROVE  UNCHANGED Promise!vars
  <2>1. UNCHANGED <<posted, handled, handling, port, created, phase>>
    BY <1>6 DEF OnStart, Top, OnEnd, WaitTimeout
  <2>2. StateOfPool' = StateOfPool
    BY <2>1 DEF StateOfPool
  <2>3. \A e \in Events : Place(e)' = Place(e)
    BY <2>1, SamePlaces DEF Waiting
  <2> QED
    BY <2>2, <2>3, Stutters
<1>7. ASSUME NEW w \in Workers, DequeueEnd(w) PROVE UNCHANGED Promise!vars
  <2>1. /\ UNCHANGED <<posted, handled, handling, created, phase>>
        /\ port # <<>> /\ port[1] = End /\ port' = Tail(port)
    BY <1>7, <1>0 DEF DequeueEnd
  <2>2. \A e \in Events : Waiting(e)' <=> Waiting(e)
    <3> SUFFICES ASSUME NEW e \in Events PROVE Waiting(e)' <=> Waiting(e)
      OBVIOUS
    <3>1. ASSUME NEW i \in DOMAIN port, port[i] = e PROVE i - 1 \in DOMAIN port' /\ port'[i - 1] = e
      BY <2>1, <3>1, <1>0, EndIsNoEvent
    <3>2. ASSUME NEW i \in DOMAIN port', port'[i] = e PROVE i + 1 \in DOMAIN port /\ port[i + 1] = e
      BY <2>1, <3>2, <1>0
    <3> QED
      BY <3>1, <3>2 DEF Waiting
  <2>3. StateOfPool' = StateOfPool
    BY <2>1 DEF StateOfPool
  <2> QED
    BY <2>1, <2>2, <2>3, SamePlaces, Stutters
<1>8. ASSUME NEW w \in Workers, DequeueEvent(w)
      PROVE  \E e \in Events : Promise!Begin(e)
  <2>0. PICK e : e = port[1]
    OBVIOUS
  <2>1. /\ UNCHANGED <<posted, handled, created, phase>>
        /\ port # <<>> /\ e # End /\ port' = Tail(port) /\ thread[w] = "wait"
        /\ \A v \in Workers : handling'[v] = IF v = w THEN e ELSE handling[v]
    BY <2>0, <1>8, <1>0 DEF DequeueEvent
  <2>2. 1 \in DOMAIN port /\ e \in Events
    BY <2>0, <2>1, <1>0
  <2>3. /\ e \in posted /\ e \notin handled /\ Waiting(e)
        /\ \A v \in Workers : ~ RunBy(e, v)
    BY <2>0, <2>1, <2>2 DEF EventsOnce, Waiting, RunBy
  <2>4. handling[w] = End
    BY <2>1 DEF EventsOnce
  <2>5. Place(e) = "waiting"
    BY <2>3 DEF Place
  <2>6. Place(e)' = "running"
    BY <2>1, <2>3 DEF Place, RunBy
  <2>7. ASSUME NEW f \in Events, f # e PROVE Place(f)' = Place(f)
    <3>1. ASSUME NEW i \in DOMAIN port, port[i] = f PROVE i - 1 \in DOMAIN port' /\ port'[i - 1] = f
      BY <2>0, <2>1, <2>7, <3>1, <1>0
    <3>2. ASSUME NEW i \in DOMAIN port', port'[i] = f PROVE i + 1 \in DOMAIN port /\ port[i + 1] = f
      BY <2>1, <3>2, <1>0
    <3>3. Waiting(f)' <=> Waiting(f)
      BY <3>1, <3>2 DEF Waiting
    <3>4. \A v \in Workers : RunBy(f, v)' <=> RunBy(f, v)
      BY <2>1, <2>4, <2>7, EndIsNoEvent DEF RunBy
    <3> QED
      BY <2>1, <3>3, <3>4 DEF Place
  <2>8. StateOfPool = "open" /\ StateOfPool' = StateOfPool
    <3>1. created
      BY <2>1, <2>2, <1>0 DEF Inv, TypeOK
    <3> QED
      BY <2>1, <3>1 DEF StateOfPool
  <2>9. Promise!Begin(e)
    BY <2>2, <2>5, <2>6, <2>7, <2>8, MovesOne DEF Promise!Begin
  <2> QED
    BY <2>2, <2>9
<1>9. ASSUME NEW w \in Workers, Process(w)
      PROVE  \E e \in Events : Promise!End(e)
  <2>0. PICK e : e = handling[w]
    OBVIOUS
  <2>1. /\ UNCHANGED <<posted, port, created, phase>> /\ thread[w] = "process"
        /\ handled' = handled \cup {e}
        /\ \A v \in Workers : handling'[v] = IF v = w THEN End ELSE handling[v]
    BY <2>0, <1>9, <1>0 DEF Process
  <2>2. e \in Events /\ e # End
    BY <2>0, <2>1, EndIsNoEvent DEF Inv, Handling
  <2>3. e \in posted /\ e \notin handled /\ RunBy(e, w)
    BY <2>0, <2>2 DEF EventsOnce, RunBy
  <2>4. Place(e) = "running" /\ Place(e)' = "handled"
    BY <2>1, <2>3 DEF Place
  <2>5. ASSUME NEW f \in Events, f # e PROVE Place(f)' = Place(f)
    <3>1. \A v \in Workers : RunBy(f, v)' <=> RunBy(f, v)
      BY <2>0, <2>1, <2>5, EndIsNoEvent DEF RunBy
    <3> QED
      BY <2>1, <2>5, <3>1 DEF Place, Waiting
  <2>6. StateOfPool = "open" /\ StateOfPool' = StateOfPool
    <3>1. created
      BY <2>1 DEF Inv, TypeOK, Ended, Pool, Closing
    <3> QED
      BY <2>1, <3>1 DEF StateOfPool
  <2>7. Promise!End(e)
    BY <2>2, <2>4, <2>5, <2>6, MovesOne DEF Promise!End
  <2> QED
    BY <2>2, <2>7
<1>10. CASE UNCHANGED vars
  BY <1>10, Stutters DEF vars, StateOfPool, Place, Waiting, RunBy
<1> QED
  BY <1>1, <1>2, <1>3, <1>4, <1>5, <1>6, <1>7, <1>8, <1>9, <1>10
  DEF Next, Manage, CreatePool, Work, Promise!Next

LEMMA RefinesInit == Init => Promise!Init
<1> SUFFICES ASSUME Init PROVE Promise!Init
  OBVIOUS
<1>1. StateOfPool = "new" /\ \A e \in Events : Place(e) = "unposted"
  BY DEF Init, StateOfPool, Place
<1> QED
  BY <1>1 DEF Promise!Init

\* The pool of threads, port and joins keeps what it promises to those that post: an
\* event is handled once, by one worker (WorkerThread::onRun), whatever create fails
\* at and however often close begins anew, and only those are dropped that nobody
\* had taken when the last worker had ended (IOCPManager::close).
THEOREM Refines == Spec => ImplementsEventPool
<1>1. Inv /\ EventsOnce /\ EventsOnce' /\ [Next]_vars => [Promise!Next]_(Promise!vars)
  BY RefinesStep
<1>2. Spec => []EventsOnce
  BY InitOnce, StepOnce, AlwaysInv, PTL DEF Spec
<1> QED
  BY <1>1, <1>2, RefinesInit, AlwaysInv, PTL DEF Spec, Promise!Spec, ImplementsEventPool
===============================================================================
