--------------------------- MODULE SerializerProofs ---------------------------
(***************************************************************************)
(* Theorems about Serializer, for any set of threads and any set of        *)
(* requests, finite or not.                                                *)
(***************************************************************************)
EXTENDS Serializer, SequenceTheorems, TLAPS

\* What every step preserves: the types need the ownership (-- on a counter
\* that is not 0), and mutual exclusion is read off the ownership.
Inv == TypeOK /\ Ownership

\* Only the owner holds nodes, and only while it walks them.
ChainOwned ==
    \A t \in Threads : pc[t] \notin {"fetch", "run"} => chain[t] = <<>>

LEMMA InitInv == Init => Inv
  BY NoneIsNoRequest DEF Init, Inv, TypeOK, Ownership, Owner, Steps, None

LEMMA IncrementInv ==
  ASSUME NEW t \in Threads, NEW r \in Requests, Inv, Increment(t, r)
  PROVE  Inv'
<1> USE DEF Inv, Increment, IsMyown, Owner
<1>1. TypeOK'
  BY DEF TypeOK, Steps
<1>2. \A u \in Threads : u # t => (Owner(u)' <=> Owner(u))
  BY DEF TypeOK
<1>3. Owner(t)' <=> count = 0
  BY DEF TypeOK, Ownership
<1>4. ~ Owner(t)
  BY DEF TypeOK
<1>5. Ownership'
  <2> HIDE DEF Owner
  <2>1. count' # 0
    BY DEF TypeOK
  <2>2. \E u \in Threads : Owner(u)'
    BY <1>2, <1>3, <1>4 DEF Ownership
  <2>3. \A u, v \in Threads : Owner(u)' /\ Owner(v)' => u = v
    BY <1>2, <1>3, <1>4 DEF Ownership
  <2> QED
    BY <2>1, <2>2, <2>3 DEF Ownership
<1> QED
  BY <1>1, <1>5

\* The owner never changes while it works, and the counter only counts.
LEMMA SameOwnerInv ==
  ASSUME Ownership, count' = count, \A u \in Threads : Owner(u)' <=> Owner(u)
  PROVE  Ownership'
BY DEF Ownership

\* A return leaves the locals of every thread well typed.
LEMMA ReturnTypes ==
  ASSUME NEW t \in Threads, TypeOK, Return(t)
  PROVE  /\ pc' \in [Threads -> Steps]
         /\ req' \in [Threads -> Requests \cup {None}]
         /\ result' \in [Threads -> Nat]
         /\ \A u \in Threads : pc'[u] = "push" => req'[u] \in Requests
         /\ \A u \in Threads : pc'[u] = "run" => chain[u] # <<>>
<1> USE DEF TypeOK, Return
<1>1. pc' \in [Threads -> Steps]
  BY DEF Steps
<1>2. req' \in [Threads -> Requests \cup {None}]
  OBVIOUS
<1>3. result' \in [Threads -> Nat]
  OBVIOUS
<1>4. \A u \in Threads : pc'[u] \in {"push", "run"} => u # t /\ pc'[u] = pc[u] /\ req'[u] = req[u]
  OBVIOUS
<1> QED
  BY <1>1, <1>2, <1>3, <1>4

LEMMA PushInv ==
  ASSUME NEW t \in Threads, Inv, Push(t)
  PROVE  Inv'
<1> USE DEF Inv, Push, Return, IsMyown
<1>1. TypeOK'
  <2>1. Append(queue, req[t]) \in Seq(Requests) /\ Append(arrived, req[t]) \in Seq(Requests)
    BY DEF TypeOK
  <2>2. CASE IsMyown(result[t])
    <3>1. Return(t) /\ UNCHANGED <<count, chain, done>>
      BY <2>2
    <3> QED
      BY <2>1, <3>1, ReturnTypes DEF TypeOK
  <2>3. CASE ~ IsMyown(result[t])
    BY <2>1, <2>3 DEF TypeOK, Steps
  <2> QED
    BY <2>2, <2>3
<1>2. \A u \in Threads : Owner(u)' <=> Owner(u)
  BY DEF TypeOK, Owner
<1> QED
  BY <1>1, <1>2, SameOwnerInv

LEMMA PopQueueInv ==
  ASSUME NEW t \in Threads, Inv, PopQueue(t)
  PROVE  Inv'
<1> USE DEF Inv, PopQueue
<1>1. TypeOK'
  BY DEF TypeOK, Steps
<1>2. \A u \in Threads : Owner(u)' <=> Owner(u)
  BY DEF TypeOK, Owner, IsMyown
<1> QED
  BY <1>1, <1>2, SameOwnerInv

LEMMA FetchInv ==
  ASSUME NEW t \in Threads, Inv, Fetch(t)
  PROVE  Inv'
<1> USE DEF Inv, Fetch
<1>1. TypeOK'
  BY DEF TypeOK, Steps
<1>2. \A u \in Threads : Owner(u)' <=> Owner(u)
  BY DEF TypeOK, Owner, IsMyown
<1> QED
  BY <1>1, <1>2, SameOwnerInv

LEMMA ExecuteInv ==
  ASSUME NEW t \in Threads, Inv, Execute(t)
  PROVE  Inv'
<1> USE DEF Inv, Execute
<1>1. chain[t] \in Seq(Requests) /\ chain[t] # <<>>
  BY DEF TypeOK
<1>2. Head(chain[t]) \in Requests /\ Tail(chain[t]) \in Seq(Requests)
  BY <1>1
<1>3. TypeOK'
  BY <1>2 DEF TypeOK, Steps
<1>4. \A u \in Threads : Owner(u)' <=> Owner(u)
  BY DEF TypeOK, Owner, IsMyown
<1> QED
  BY <1>3, <1>4, SameOwnerInv

\* The owner leaves exactly when the counter reaches 0, and no other is left.
LEMMA ReleaseInv ==
  ASSUME NEW t \in Threads, Inv, Release(t)
  PROVE  Inv'
<1> USE DEF Inv, Release, Return
<1>1. Owner(t)
  BY DEF Owner
<1>2. count # 0
  BY <1>1 DEF Ownership
<1>3. TypeOK'
  <2>1. count - 1 \in Nat
    BY <1>2 DEF TypeOK
  <2>2. CASE count - 1 > 0
    BY <2>1, <2>2 DEF TypeOK, Steps
  <2>3. CASE ~ (count - 1 > 0)
    <3>1. Return(t) /\ UNCHANGED <<queue, chain, arrived, done>>
      BY <2>3
    <3> QED
      BY <2>1, <3>1, ReturnTypes DEF TypeOK
  <2> QED
    BY <2>2, <2>3
<1>4. \A u \in Threads : u # t => ~ Owner(u) /\ ~ Owner(u)'
  <2>1. \A u \in Threads : u # t => ~ Owner(u)
    BY <1>1 DEF Ownership
  <2>2. \A u \in Threads : u # t => (Owner(u)' <=> Owner(u))
    BY DEF TypeOK, Owner, IsMyown
  <2> QED
    BY <2>1, <2>2
<1>5. Owner(t)' <=> count' # 0
  BY <1>2 DEF TypeOK, Owner, IsMyown
<1>6. Ownership'
  BY <1>4, <1>5 DEF Ownership
<1> QED
  BY <1>3, <1>6

LEMMA NextInv == Inv /\ [Next]_vars => Inv'
<1> SUFFICES ASSUME Inv, [Next]_vars PROVE Inv'
  OBVIOUS
<1>1. ASSUME NEW t \in Threads, NEW r \in Requests, Increment(t, r) PROVE Inv'
  BY <1>1, IncrementInv
<1>2. ASSUME NEW t \in Threads, Push(t) PROVE Inv'
  BY <1>2, PushInv
<1>3. ASSUME NEW t \in Threads, PopQueue(t) PROVE Inv'
  BY <1>3, PopQueueInv
<1>4. ASSUME NEW t \in Threads, Fetch(t) PROVE Inv'
  BY <1>4, FetchInv
<1>5. ASSUME NEW t \in Threads, Execute(t) PROVE Inv'
  BY <1>5, ExecuteInv
<1>6. ASSUME NEW t \in Threads, Release(t) PROVE Inv'
  BY <1>6, ReleaseInv
<1>7. CASE UNCHANGED vars
  BY <1>7 DEF vars, Inv, TypeOK, Ownership, Owner, IsMyown
<1> QED
  BY <1>1, <1>2, <1>3, <1>4, <1>5, <1>6, <1>7 DEF Next, Continue

LEMMA AlwaysInv == Spec => []Inv
<1>1. Init => Inv
  BY InitInv
<1>2. Inv /\ [Next]_vars => Inv'
  BY NextInv
<1> QED
  BY <1>1, <1>2, PTL DEF Spec

\* The state of the serializer and of the threads inside execute is well formed.
THEOREM TypeCorrect == Spec => []TypeOK
<1>1. Inv => TypeOK
  BY DEF Inv
<1> QED
  BY <1>1, AlwaysInv, PTL

\* Serializer::_count is 0 exactly when no thread is bound to drain the queue,
\* and never are two.
THEOREM OneOwner == Spec => []Ownership
<1>1. Inv => Ownership
  BY DEF Inv
<1> QED
  BY <1>1, AlwaysInv, PTL

\* However many workers call execute, two never run jobs of one serializer
\* at the same time.
THEOREM JobsExclude == Spec => []MutualExclusion
<1>1. Inv => MutualExclusion
  BY DEF Inv, Ownership, Owner, MutualExclusion
<1> QED
  BY <1>1, AlwaysInv, PTL

-------------------------------------------------------------------------------
\* A request appended to the last of three lines is appended to all of them.
LEMMA AppendLast ==
  ASSUME NEW a \in Seq(Requests), NEW b \in Seq(Requests), NEW c \in Seq(Requests),
         NEW r \in Requests
  PROVE  a \o (b \o Append(c, r)) = Append(a \o (b \o c), r)
<1>1. /\ Append(c, r) = c \o <<r>> /\ <<r>> \in Seq(Requests)
      /\ b \o c \in Seq(Requests) /\ a \o (b \o c) \in Seq(Requests)
  BY AppendIsConcat, ConcatProperties
<1>2. a \o (b \o (c \o <<r>>)) = (a \o (b \o c)) \o <<r>>
  BY <1>1, ConcatAssociative
<1> QED
  BY <1>1, <1>2, AppendIsConcat

\* Moving the head of the second line to the end of the first changes no order.
LEMMA MoveHead ==
  ASSUME NEW a \in Seq(Requests), NEW b \in Seq(Requests), NEW c \in Seq(Requests),
         b # <<>>
  PROVE  Append(a, Head(b)) \o (Tail(b) \o c) = a \o (b \o c)
<1>1. /\ Head(b) \in Requests /\ Tail(b) \in Seq(Requests)
      /\ <<Head(b)>> \in Seq(Requests) /\ b = <<Head(b)>> \o Tail(b)
  BY HeadTailProperties, ConcatProperties
<1>2. Append(a, Head(b)) = a \o <<Head(b)>>
  BY <1>1, AppendIsConcat
<1>3. Tail(b) \o c \in Seq(Requests)
  BY <1>1, ConcatProperties
<1>4. (a \o <<Head(b)>>) \o (Tail(b) \o c) = a \o (<<Head(b)>> \o (Tail(b) \o c))
  BY <1>1, <1>3, ConcatAssociative
<1>5. <<Head(b)>> \o (Tail(b) \o c) = (<<Head(b)>> \o Tail(b)) \o c
  BY <1>1, ConcatAssociative
<1> QED
  BY <1>1, <1>2, <1>4, <1>5

-------------------------------------------------------------------------------
LEMMA ChainOwnedStep == Inv /\ ChainOwned /\ [Next]_vars => ChainOwned'
<1> SUFFICES ASSUME Inv, ChainOwned, [Next]_vars PROVE ChainOwned'
  OBVIOUS
<1> USE DEF Inv, TypeOK, ChainOwned
<1>1. ASSUME NEW t \in Threads, NEW r \in Requests, Increment(t, r) PROVE ChainOwned'
  BY <1>1 DEF Increment
<1>2. ASSUME NEW t \in Threads, Push(t) PROVE ChainOwned'
  BY <1>2 DEF Push, Return
<1>3. ASSUME NEW t \in Threads, PopQueue(t) PROVE ChainOwned'
  BY <1>3 DEF PopQueue
<1>4. ASSUME NEW t \in Threads, Fetch(t) PROVE ChainOwned'
  BY <1>4 DEF Fetch
<1>5. ASSUME NEW t \in Threads, Execute(t) PROVE ChainOwned'
  BY <1>5 DEF Execute
<1>6. ASSUME NEW t \in Threads, Release(t) PROVE ChainOwned'
  BY <1>6 DEF Release, Return
<1>7. CASE UNCHANGED vars
  BY <1>7 DEF vars
<1> QED
  BY <1>1, <1>2, <1>3, <1>4, <1>5, <1>6, <1>7 DEF Next, Continue

\* The line of all requests not yet executed, as InOrderOnce reads it: with an
\* owner its chain and the queue, without one the queue alone.
LEMMA OrderStep ==
  Inv /\ ChainOwned /\ InOrderOnce /\ [Next]_vars => InOrderOnce'
<1> SUFFICES ASSUME Inv, ChainOwned, InOrderOnce, [Next]_vars PROVE InOrderOnce'
  OBVIOUS
<1>t. /\ queue \in Seq(Requests) /\ arrived \in Seq(Requests) /\ done \in Seq(Requests)
      /\ \A t \in Threads : chain[t] \in Seq(Requests)
  BY DEF Inv, TypeOK
<1>e. \A s \in Seq(Requests) : <<>> \o s = s /\ s \o <<>> = s
  BY ConcatEmptySeq
<1>1. ASSUME NEW t \in Threads, NEW r \in Requests, Increment(t, r) PROVE InOrderOnce'
  <2>1. chain[t] = <<>> /\ ~ Owner(t)
    BY <1>1 DEF Increment, ChainOwned, Owner
  <2>2. \A u \in Threads : u # t => (Owner(u)' <=> Owner(u))
    BY <1>1 DEF Increment, Owner, IsMyown, Inv, TypeOK
  <2>3. (Owner(t))' => \A u \in Threads : ~ Owner(u)
    BY <1>1 DEF Increment, Owner, IsMyown, Inv, TypeOK, Ownership
  <2>4. arrived = done \o queue => arrived = done \o (chain[t] \o queue)
    BY <2>1, <1>t, <1>e
  <2>5. UNCHANGED <<arrived, done, chain, queue>>
    BY <1>1 DEF Increment
  <2> QED
    BY <2>1, <2>2, <2>3, <2>4, <2>5 DEF InOrderOnce
<1>2. ASSUME NEW t \in Threads, Push(t) PROVE InOrderOnce'
  <2>1. /\ req[t] \in Requests /\ UNCHANGED <<done, chain>>
        /\ queue' = Append(queue, req[t]) /\ arrived' = Append(arrived, req[t])
    BY <1>2 DEF Push, Inv, TypeOK
  <2>2. \A u \in Threads : Owner(u)' <=> Owner(u)
    BY <1>2 DEF Push, Return, Owner, IsMyown, Inv, TypeOK
  <2>3. ASSUME NEW u \in Threads, Owner(u)
        PROVE  arrived' = done \o (chain[u] \o queue')
    <3>1. arrived = done \o (chain[u] \o queue)
      BY <2>3 DEF InOrderOnce
    <3>2. done \o (chain[u] \o Append(queue, req[t])) = Append(done \o (chain[u] \o queue), req[t])
      BY <2>1, <1>t, AppendLast
    <3> QED
      BY <2>1, <3>1, <3>2
  <2>4. (\A u \in Threads : ~ Owner(u)) => arrived' = done \o queue'
    <3> SUFFICES ASSUME \A u \in Threads : ~ Owner(u) PROVE arrived' = done \o queue'
      OBVIOUS
    <3>1. arrived = done \o (<<>> \o queue)
      BY <1>t, <1>e DEF InOrderOnce
    <3>2. done \o (<<>> \o queue') = Append(done \o (<<>> \o queue), req[t])
      BY <2>1, <1>t, AppendLast
    <3>3. queue' \in Seq(Requests)
      BY <2>1, <1>t
    <3> QED
      BY <2>1, <3>1, <3>2, <3>3, <1>e
  <2> QED
    BY <2>1, <2>2, <2>3, <2>4 DEF InOrderOnce
<1>3. ASSUME NEW t \in Threads, PopQueue(t) PROVE InOrderOnce'
  <2>1. Owner(t) /\ chain[t] = <<>>
    BY <1>3 DEF PopQueue, Owner, ChainOwned
  <2>2. \A u \in Threads : u # t => ~ Owner(u)'
    BY <1>3, <2>1 DEF PopQueue, Owner, Inv, TypeOK, Ownership
  <2>3. Owner(t)' /\ chain'[t] = queue /\ queue' = <<>> /\ UNCHANGED <<arrived, done>>
    BY <1>3 DEF PopQueue, Owner, Inv, TypeOK
  <2>4. arrived = done \o (queue \o <<>>)
    BY <2>1, <1>t, <1>e DEF InOrderOnce
  <2> QED
    BY <2>2, <2>3, <2>4 DEF InOrderOnce
<1>4. ASSUME NEW t \in Threads, Fetch(t) PROVE InOrderOnce'
  <2>1. \A u \in Threads : Owner(u)' <=> Owner(u)
    BY <1>4 DEF Fetch, Owner, Inv, TypeOK
  <2>2. UNCHANGED <<arrived, done, chain, queue>>
    BY <1>4 DEF Fetch
  <2> QED
    BY <2>1, <2>2 DEF InOrderOnce
<1>5. ASSUME NEW t \in Threads, Execute(t) PROVE InOrderOnce'
  <2>1. Owner(t) /\ chain[t] # <<>>
    BY <1>5 DEF Execute, Owner, Inv, TypeOK
  <2>2. \A u \in Threads : u # t => ~ Owner(u)'
    BY <1>5, <2>1 DEF Execute, Owner, Inv, TypeOK, Ownership
  <2>3. Owner(t)' /\ chain'[t] = Tail(chain[t]) /\ done' = Append(done, Head(chain[t]))
        /\ UNCHANGED <<arrived, queue>>
    BY <1>5 DEF Execute, Owner, Inv, TypeOK
  <2>4. arrived = done' \o (chain'[t] \o queue)
    <3>1. arrived = done \o (chain[t] \o queue)
      BY <2>1 DEF InOrderOnce
    <3>2. Append(done, Head(chain[t])) \o (Tail(chain[t]) \o queue) = done \o (chain[t] \o queue)
      BY <2>1, <1>t, MoveHead
    <3> QED
      BY <2>3, <3>1, <3>2
  <2> QED
    BY <2>2, <2>3, <2>4 DEF InOrderOnce
<1>6. ASSUME NEW t \in Threads, Release(t) PROVE InOrderOnce'
  <2>1. Owner(t) /\ chain[t] = <<>>
    BY <1>6 DEF Release, Owner, ChainOwned
  <2>2. arrived = done \o (chain[t] \o queue) /\ arrived = done \o queue
    <3>1. arrived = done \o (chain[t] \o queue)
      BY <2>1 DEF InOrderOnce
    <3>2. chain[t] \o queue = queue
      BY <2>1, <1>t, <1>e
    <3> QED
      BY <3>1, <3>2
  <2>3. \A u \in Threads : u # t => ~ Owner(u)'
    BY <1>6, <2>1 DEF Release, Return, Owner, Inv, TypeOK, Ownership
  <2>4. UNCHANGED <<arrived, done, chain, queue>>
    BY <1>6 DEF Release
  <2> QED
    BY <2>2, <2>3, <2>4 DEF InOrderOnce
<1>7. CASE UNCHANGED vars
  BY <1>7 DEF vars, InOrderOnce, Owner
<1> QED
  BY <1>1, <1>2, <1>3, <1>4, <1>5, <1>6, <1>7 DEF Next, Continue

\* No request handed to a serializer is lost, executed twice or overtaken, in
\* any interleaving of any number of callers (it may still have to wait for
\* another call to be executed: see AnnouncedIsExecuted).
THEOREM OrderKept == Spec => []InOrderOnce
<1>1. Init => ChainOwned /\ InOrderOnce
  BY ConcatEmptySeq DEF Init, ChainOwned, InOrderOnce, Owner
<1>2. Inv /\ ChainOwned /\ [Next]_vars => ChainOwned'
  BY ChainOwnedStep
<1>3. Inv /\ ChainOwned /\ InOrderOnce /\ [Next]_vars => InOrderOnce'
  BY OrderStep
<1> QED
  BY <1>1, <1>2, <1>3, AlwaysInv, PTL DEF Spec

-------------------------------------------------------------------------------
\* The refinement: what the abstract executor sees of the state

Waiting == (IF Running THEN Tail(OwnChain) ELSE OwnChain) \o queue
Current == IF Running THEN <<Head(OwnChain)>> ELSE <<>>

\* A request that is about to be pushed was never pushed, nor is by another.
PushFresh ==
    \A t \in Threads : pc[t] = "push" =>
        /\ req[t] \notin Elements(arrived)
        /\ \A u \in Threads : pc[u] = "push" /\ req[u] = req[t] => u = t

RInv == Inv /\ ChainOwned /\ InOrderOnce /\ PushFresh

LEMMA PushFreshStep == Inv /\ PushFresh /\ [Next]_vars => PushFresh'
<1> SUFFICES ASSUME Inv, PushFresh, [Next]_vars PROVE PushFresh'
  OBVIOUS
<1> USE DEF Inv, TypeOK, PushFresh
<1>1. ASSUME NEW t \in Threads, NEW r \in Requests, Increment(t, r) PROVE PushFresh'
  BY <1>1 DEF Increment, Fresh, Elements
<1>2. ASSUME NEW t \in Threads, Push(t) PROVE PushFresh'
  <2>1. /\ pc[t] = "push" /\ pc'[t] # "push" /\ arrived' = Append(arrived, req[t])
        /\ \A u \in Threads : u # t => pc'[u] = pc[u] /\ req'[u] = req[u]
    BY <1>2 DEF Push, Return
  <2>2. \A x \in Elements(arrived') : x \in Elements(arrived) \/ x = req[t]
    BY <2>1 DEF Elements
  <2> QED
    BY <2>1, <2>2
<1>3. ASSUME NEW t \in Threads,
             PopQueue(t) \/ Fetch(t) \/ Execute(t) \/ Release(t)
      PROVE  PushFresh'
  <2>1. /\ pc'[t] # "push" /\ arrived' = arrived
        /\ \A u \in Threads : u # t => pc'[u] = pc[u] /\ req'[u] = req[u]
    BY <1>3 DEF PopQueue, Fetch, Execute, Release, Return
  <2> QED
    BY <2>1 DEF Elements
<1>4. CASE UNCHANGED vars
  BY <1>4 DEF vars, Elements
<1> QED
  BY <1>1, <1>2, <1>3, <1>4 DEF Next, Continue

\* The chain of the owner is the only one there is.
LEMMA OneChain ==
  ASSUME Inv, ChainOwned
  PROVE  /\ \A t \in Threads : Owner(t) => OwnChain = chain[t] /\ (Running <=> pc[t] = "run")
         /\ (\A t \in Threads : ~ Owner(t)) => OwnChain = <<>> /\ ~ Running
<1>1. ASSUME NEW t \in Threads, chain[t] # <<>> PROVE Owner(t)
  BY <1>1 DEF ChainOwned, Owner
<1>2. ASSUME NEW t \in Threads, pc[t] = "run" PROVE Owner(t)
  BY <1>2 DEF Owner
<1>3. ASSUME NEW t \in Threads, Owner(t) PROVE OwnChain = chain[t] /\ (Running <=> pc[t] = "run")
  <2>1. \A u \in Threads : u # t => ~ Owner(u)
    BY <1>3 DEF Inv, Ownership
  <2>2. \A u \in Threads : u # t => chain[u] = <<>> /\ pc[u] # "run"
    BY <1>1, <1>2, <2>1
  <2> QED
    BY <1>3, <2>2 DEF OwnChain, Running
<1> QED
  BY <1>1, <1>2, <1>3 DEF OwnChain, Running

\* Nobody but the owner has a chain, or runs a job.
LEMMA Others ==
  ASSUME Inv, ChainOwned
  PROVE  \A t, u \in Threads : Owner(t) /\ u # t => chain[u] = <<>> /\ pc[u] # "run"
BY DEF ChainOwned, Owner, Inv, Ownership

\* All requests that were pushed, as the abstract executor sees them
LEMMA AllArrived ==
  ASSUME RInv
  PROVE  /\ OwnChain \in Seq(Requests)
         /\ Running => OwnChain # <<>>
         /\ arrived = done \o (OwnChain \o queue)
<1> USE DEF RInv
<1>t. /\ queue \in Seq(Requests) /\ arrived \in Seq(Requests) /\ done \in Seq(Requests)
      /\ \A t \in Threads : chain[t] \in Seq(Requests)
  BY DEF Inv, TypeOK
<1>1. ASSUME NEW t \in Threads, Owner(t)
      PROVE  /\ OwnChain \in Seq(Requests)
             /\ Running => OwnChain # <<>>
             /\ arrived = done \o (OwnChain \o queue)
  <2>1. OwnChain = chain[t] /\ (Running <=> pc[t] = "run")
    BY <1>1, OneChain
  <2>2. arrived = done \o (chain[t] \o queue)
    BY <1>1 DEF InOrderOnce
  <2>3. pc[t] = "run" => chain[t] # <<>>
    BY DEF Inv, TypeOK
  <2> QED
    BY <1>t, <2>1, <2>2, <2>3
<1>2. CASE \A t \in Threads : ~ Owner(t)
  <2>1. OwnChain = <<>> /\ ~ Running /\ arrived = done \o queue
    BY <1>2, OneChain DEF InOrderOnce
  <2>2. <<>> \o queue = queue /\ <<>> \in Seq(Requests)
    BY <1>t, ConcatEmptySeq
  <2> QED
    BY <2>1, <2>2
<1> QED
  BY <1>1, <1>2

\* A step that only moves the count, or nodes from the queue to the chain, is
\* none of the abstract executor.
LEMMA Stutter ==
  ASSUME OwnChain' \o queue' = OwnChain \o queue, ~ Running, ~ Running', done' = done
  PROVE  UNCHANGED Abstract!vars
BY DEF Abstract!vars

\* The nodes of a sequence of which the first is taken
LEMMA HeadOfBoth ==
  ASSUME NEW b \in Seq(Requests), NEW c \in Seq(Requests), b # <<>>
  PROVE  /\ Head(b \o c) = Head(b) /\ Tail(b \o c) = Tail(b) \o c /\ b \o c # <<>>
         /\ Tail(b) \in Seq(Requests) /\ Head(b) \in Requests
<1>1. /\ Head(b) \in Requests /\ Tail(b) \in Seq(Requests)
      /\ <<Head(b)>> \in Seq(Requests) /\ b = <<Head(b)>> \o Tail(b)
      /\ Len(b) \in Nat /\ Len(b) > 0 /\ Len(c) \in Nat
  BY HeadTailProperties, ConcatProperties, LenProperties, EmptySeq
<1>2. /\ b \o c \in Seq(Requests) /\ Len(b \o c) = Len(b) + Len(c)
      /\ (b \o c)[1] = b[1]
  BY <1>1, ConcatProperties
<1>3. b \o c # <<>> /\ Head(b \o c) = Head(b)
  BY <1>1, <1>2, HeadTailProperties, EmptySeq
<1>4. b \o c = <<Head(b)>> \o (Tail(b) \o c) /\ Tail(b) \o c \in Seq(Requests)
  BY <1>1, ConcatAssociative, ConcatProperties
<1>5. b \o c = <<Head(b \o c)>> \o Tail(b \o c) /\ Tail(b \o c) \in Seq(Requests)
  BY <1>2, <1>3, HeadTailProperties, ConcatProperties
<1>6. Tail(b \o c) = Tail(b) \o c
  BY <1>1, <1>3, <1>4, <1>5, ConcatSimplifications
<1> QED
  BY <1>1, <1>3, <1>6

\* The requests the abstract executor holds are those that were pushed.
LEMMA HeldArrived ==
  ASSUME RInv
  PROVE  \A s \in {Waiting, Current, done} : \A i \in DOMAIN s : s[i] \in Elements(arrived)
<1>1. /\ OwnChain \in Seq(Requests) /\ (Running => OwnChain # <<>>)
      /\ arrived = done \o (OwnChain \o queue)
  BY AllArrived
<1>2. queue \in Seq(Requests) /\ done \in Seq(Requests) /\ arrived \in Seq(Requests)
  BY DEF RInv, Inv, TypeOK
<1>3. OwnChain \o queue \in Seq(Requests)
  BY <1>1, <1>2, ConcatProperties
<1>4. ASSUME NEW i \in DOMAIN done PROVE done[i] \in Elements(arrived)
  <2>1. i \in 1 .. Len(done) /\ Len(done) \in Nat /\ Len(OwnChain \o queue) \in Nat
    BY <1>2, <1>3, <1>4, LenProperties
  <2>2. /\ Len(arrived) = Len(done) + Len(OwnChain \o queue)
        /\ arrived[i] = done[i]
    BY <1>1, <1>2, <1>3, <2>1, ConcatProperties
  <2>3. i \in DOMAIN arrived
    BY <1>2, <2>1, <2>2, LenProperties
  <2> QED
    BY <2>2, <2>3 DEF Elements
<1>5. ASSUME NEW i \in DOMAIN (OwnChain \o queue)
      PROVE  (OwnChain \o queue)[i] \in Elements(arrived)
  <2> DEFINE b == OwnChain \o queue
             n == Len(done)
  <2>1. i \in 1 .. Len(b) /\ n \in Nat /\ Len(b) \in Nat
    BY <1>2, <1>3, <1>5, LenProperties
  <2>2. \A j \in 1 .. n + Len(b) : arrived[j] = IF j <= n THEN done[j] ELSE b[j - n]
    BY <1>1, <1>2, <1>3, ConcatProperties
  <2>3. Len(arrived) = n + Len(b) /\ DOMAIN arrived = 1 .. Len(arrived)
    BY <1>1, <1>2, <1>3, ConcatProperties, LenProperties
  <2> HIDE DEF b, n
  <2>4. n + i \in DOMAIN arrived /\ arrived[n + i] = b[i]
    BY <2>1, <2>2, <2>3
  <2>5. b[i] \in Elements(arrived)
    BY <2>4 DEF Elements
  <2> QED
    BY <2>5 DEF b
<1>6. CASE ~ Running
  BY <1>4, <1>5, <1>6 DEF Waiting, Current
<1>7. CASE Running
  <2>1. /\ Head(OwnChain \o queue) = Head(OwnChain) /\ OwnChain \o queue # <<>>
        /\ Tail(OwnChain \o queue) = Tail(OwnChain) \o queue
    BY <1>1, <1>2, <1>7, HeadOfBoth
  <2> DEFINE b == OwnChain \o queue
  <2>2. /\ Len(b) \in Nat /\ Len(b) > 0 /\ DOMAIN b = 1 .. Len(b)
        /\ Tail(b) \in Seq(Requests) /\ Len(Tail(b)) = Len(b) - 1
        /\ \A i \in 1 .. Len(Tail(b)) : Tail(b)[i] = b[i + 1]
        /\ Head(b) = b[1]
    BY <1>3, <2>1, HeadTailProperties, LenProperties, EmptySeq
  <2>3. \A i \in DOMAIN b : b[i] \in Elements(arrived)
    BY <1>5
  <2> HIDE DEF b
  <2>4. \A i \in DOMAIN Tail(b) : Tail(b)[i] \in Elements(arrived)
    <3>1. DOMAIN Tail(b) = 1 .. Len(b) - 1
      BY <2>2, LenProperties
    <3> QED
      BY <2>2, <2>3, <3>1
  <2>5. \A i \in DOMAIN <<Head(b)>> : <<Head(b)>>[i] \in Elements(arrived)
    BY <2>2, <2>3
  <2> QED
    BY <1>4, <1>7, <2>1, <2>4, <2>5 DEF Waiting, Current, b
<1> QED
  BY <1>6, <1>7

LEMMA RefinesStep == RInv /\ [Next]_vars => [Abstract!Next]_Abstract!vars
<1> SUFFICES ASSUME RInv, [Next]_vars PROVE [Abstract!Next]_Abstract!vars
  OBVIOUS
<1> USE DEF RInv
<1>t. /\ queue \in Seq(Requests) /\ done \in Seq(Requests)
      /\ OwnChain \in Seq(Requests) /\ (Running => OwnChain # <<>>)
  BY AllArrived DEF Inv, TypeOK
<1>1. ASSUME NEW t \in Threads, NEW r \in Requests, Increment(t, r) PROVE UNCHANGED Abstract!vars
  <2>1. UNCHANGED <<chain, queue, done>> /\ (Running' <=> Running)
    BY <1>1 DEF Increment, Running, Inv, TypeOK
  <2>2. OwnChain' = OwnChain
    BY <2>1 DEF OwnChain
  <2> QED
    BY <2>1, <2>2 DEF Abstract!vars
<1>2. ASSUME NEW t \in Threads, Push(t) PROVE Abstract!Accept(req[t])
  <2>1. /\ req[t] \in Requests /\ queue' = Append(queue, req[t]) /\ UNCHANGED <<chain, done>>
        /\ (Running' <=> Running) /\ req[t] \notin Elements(arrived)
    BY <1>2 DEF Push, Return, Running, Inv, TypeOK, PushFresh
  <2>2. OwnChain' = OwnChain
    BY <2>1 DEF OwnChain
  <2> DEFINE b == IF Running THEN Tail(OwnChain) ELSE OwnChain
  <2>3. b \in Seq(Requests)
    BY <1>t
  <2>4. b \o Append(queue, req[t]) = Append(b \o queue, req[t])
    <3>1. \A c \in Seq(Requests) : <<>> \o c = c /\ Append(c, req[t]) \in Seq(Requests)
      BY <2>1, ConcatEmptySeq
    <3>e. <<>> \in Seq(Requests)
      OBVIOUS
    <3> HIDE DEF b
    <3>2. <<>> \o (b \o Append(queue, req[t])) = Append(<<>> \o (b \o queue), req[t])
      BY <1>t, <2>1, <2>3, <3>e, AppendLast
    <3>3. b \o queue \in Seq(Requests) /\ b \o Append(queue, req[t]) \in Seq(Requests)
      BY <1>t, <2>1, <2>3, <3>1, ConcatProperties
    <3> QED
      BY <3>1, <3>2, <3>3
  <2>5. Waiting' = Append(Waiting, req[t]) /\ Current' = Current
    BY <2>1, <2>2, <2>4 DEF Waiting, Current
  <2>6. \A s \in {Waiting, Current, done} : \A i \in DOMAIN s : s[i] # req[t]
    BY <2>1, HeldArrived
  <2> QED
    BY <2>1, <2>5, <2>6 DEF Abstract!Accept, Waiting, Current
<1>3. ASSUME NEW t \in Threads, PopQueue(t) PROVE UNCHANGED Abstract!vars
  <2>1. Owner(t) /\ chain[t] = <<>> /\ pc[t] = "pop"
    BY <1>3 DEF PopQueue, Owner, ChainOwned
  <2>2. OwnChain = <<>> /\ ~ Running
    BY <2>1, OneChain
  <2>3. /\ queue' = <<>> /\ done' = done /\ chain'[t] = queue /\ pc'[t] = "fetch"
        /\ \A u \in Threads : u # t => chain'[u] = chain[u] /\ pc'[u] = pc[u]
    BY <1>3 DEF PopQueue, Inv, TypeOK
  <2>4. ~ Running' /\ OwnChain' = queue
    BY <2>1, <2>2, <2>3, Others DEF Running, OwnChain
  <2>5. queue \o <<>> = <<>> \o queue
    BY <1>t, ConcatEmptySeq
  <2> QED
    BY <2>2, <2>3, <2>4, <2>5, Stutter
<1>4. ASSUME NEW t \in Threads, Fetch(t) PROVE Abstract!Start \/ UNCHANGED Abstract!vars
  <2>1. Owner(t) /\ pc[t] = "fetch" /\ UNCHANGED <<chain, queue, done>>
    BY <1>4 DEF Fetch, Owner
  <2>2. OwnChain = chain[t] /\ ~ Running /\ OwnChain' = OwnChain
    BY <2>1, OneChain DEF OwnChain
  <2>3. \A u \in Threads : u # t => pc'[u] = pc[u]
    BY <1>4 DEF Fetch, Inv, TypeOK
  <2>4. CASE chain[t] = <<>>
    <3>1. ~ Running'
      BY <1>4, <2>2, <2>3, <2>4 DEF Running, Fetch, Inv, TypeOK
    <3> QED
      BY <2>1, <2>2, <3>1, Stutter
  <2>5. CASE chain[t] # <<>>
    <3>1. Running'
      BY <1>4, <2>5 DEF Running, Fetch, Inv, TypeOK
    <3>2. /\ Head(OwnChain \o queue) = Head(OwnChain) /\ OwnChain \o queue # <<>>
          /\ Tail(OwnChain \o queue) = Tail(OwnChain) \o queue
      BY <1>t, <2>2, <2>5, HeadOfBoth
    <3> QED
      BY <2>1, <2>2, <3>1, <3>2 DEF Abstract!Start
  <2> QED
    BY <2>4, <2>5
<1>5. ASSUME NEW t \in Threads, Execute(t) PROVE Abstract!Finish
  <2>1. Owner(t) /\ pc[t] = "run" /\ chain[t] # <<>>
    BY <1>5 DEF Execute, Owner, Inv, TypeOK
  <2>2. OwnChain = chain[t] /\ Running
    BY <2>1, OneChain
  <2>3. /\ queue' = queue /\ done' = Append(done, Head(chain[t]))
        /\ chain'[t] = Tail(chain[t]) /\ pc'[t] = "fetch"
        /\ \A u \in Threads : u # t => chain'[u] = chain[u] /\ pc'[u] = pc[u]
    BY <1>5 DEF Execute, Inv, TypeOK
  <2>4. ~ Running' /\ OwnChain' = Tail(chain[t])
    BY <2>1, <2>3, Others DEF Running, OwnChain
  <2>5. Append(done, Head(chain[t])) = done \o <<Head(chain[t])>>
    BY <1>t, <2>1, <2>2, HeadTailProperties, AppendIsConcat
  <2> QED
    BY <2>2, <2>3, <2>4, <2>5 DEF Abstract!Finish
<1>6. ASSUME NEW t \in Threads, Release(t) PROVE UNCHANGED Abstract!vars
  <2>1. UNCHANGED <<chain, queue, done>> /\ (Running' <=> Running)
    BY <1>6 DEF Release, Return, Running, Inv, TypeOK
  <2>2. OwnChain' = OwnChain
    BY <2>1 DEF OwnChain
  <2> QED
    BY <2>1, <2>2 DEF Abstract!vars
<1>7. CASE UNCHANGED vars
  BY <1>7 DEF vars, Abstract!vars, OwnChain, Running
<1>8. ASSUME NEW t \in Threads, Push(t) PROVE Abstract!Next
  <2>1. req[t] \in Requests
    BY <1>8 DEF Push, Inv, TypeOK
  <2> QED
    BY <1>2, <1>8, <2>1 DEF Abstract!Next
<1> QED
  BY <1>1, <1>3, <1>4, <1>5, <1>6, <1>7, <1>8 DEF Next, Continue, Abstract!Next

LEMMA AlwaysRInv == Spec => []RInv
<1>1. Init => ChainOwned /\ PushFresh
  BY DEF Init, ChainOwned, PushFresh
<1>2. Inv /\ ChainOwned /\ [Next]_vars => ChainOwned'
  BY ChainOwnedStep
<1>3. Inv /\ PushFresh /\ [Next]_vars => PushFresh'
  BY PushFreshStep
<1>4. Inv /\ ChainOwned /\ InOrderOnce /\ PushFresh => RInv
  BY DEF RInv
<1> QED
  BY <1>1, <1>2, <1>3, <1>4, AlwaysInv, OrderKept, PTL DEF Spec

\* What a serializer promises: whatever the callers and the owner do, a user sees
\* requests wait in one line and be executed one at a time, in its order
\* (Serializer::execute and onExecute implement SerialExecutor).
THEOREM Refines == Spec => ImplementsSerialExecutor
<1>1. Init => Abstract!Init
  BY ConcatEmptySeq DEF Init, Abstract!Init, OwnChain, Running
<1> QED
  BY <1>1, AlwaysRInv, RefinesStep, PTL DEF Spec, ImplementsSerialExecutor, Abstract!Spec

\* The same, said of one step: at most one request is started, the next in the line,
\* or finished.
LEMMA OneAtATime ==
  ASSUME RInv, [Next]_vars
  PROVE  \/ UNCHANGED <<Current, done>>
         \/ /\ Current = <<>> /\ Waiting # <<>>
            /\ Current' = <<Head(Waiting)>> /\ done' = done
         \/ Current # <<>> /\ Current' = <<>> /\ done' = done \o Current
<1>1. [Abstract!Next]_Abstract!vars
  BY RefinesStep
<1> QED
  BY <1>1 DEF Abstract!Next, Abstract!vars, Abstract!Accept, Abstract!Start, Abstract!Finish,
              Waiting, Current

\* The next in the line is the first that was pushed and is not finished.
LEMMA NextInLine ==
  ASSUME RInv, Current = <<>>, Waiting # <<>>
  PROVE  /\ Len(done) \in Nat /\ DOMAIN done = 1 .. Len(done)
         /\ \A i \in DOMAIN done : i \in DOMAIN arrived /\ arrived[i] = done[i]
         /\ Len(done) + 1 \in DOMAIN arrived
         /\ arrived[Len(done) + 1] = Head(Waiting)
<1>1. PICK b : b = OwnChain \o queue
  OBVIOUS
<1>2. ~ Running /\ Waiting = b /\ b # <<>>
  BY <1>1 DEF Current, Waiting
<1>3. /\ done \in Seq(Requests) /\ b \in Seq(Requests) /\ arrived \in Seq(Requests)
      /\ arrived = done \o b
  BY <1>1, AllArrived, ConcatProperties DEF RInv, Inv, TypeOK
<1>4. /\ Len(done) \in Nat /\ DOMAIN done = 1 .. Len(done)
      /\ Len(b) \in Nat \ {0} /\ Head(b) = b[1]
  BY <1>2, <1>3, LenProperties, HeadTailProperties, EmptySeq
<1>5. /\ DOMAIN arrived = 1 .. Len(done) + Len(b)
      /\ \A i \in 1 .. Len(done) + Len(b) :
           arrived[i] = IF i <= Len(done) THEN done[i] ELSE b[i - Len(done)]
  BY <1>3, ConcatProperties, LenProperties
<1>6. \A i \in DOMAIN done : i \in DOMAIN arrived /\ arrived[i] = done[i]
  BY <1>4, <1>5
<1>7. Len(done) + 1 \in DOMAIN arrived /\ arrived[Len(done) + 1] = b[1]
  <2> DEFINE n == Len(done)
             m == Len(b)
  <2>1. n \in Nat /\ m \in Nat \ {0} /\ DOMAIN arrived = 1 .. n + m
        /\ \A i \in 1 .. n + m : arrived[i] = IF i <= n THEN done[i] ELSE b[i - n]
    BY <1>4, <1>5
  <2> HIDE DEF n, m
  <2>2. n + 1 \in 1 .. n + m /\ ~ (n + 1 <= n) /\ (n + 1) - n = 1
    BY <2>1
  <2>3. arrived[n + 1] = b[1]
    BY <2>1, <2>2
  <2> QED
    BY <2>1, <2>2, <2>3 DEF n
<1> QED
  BY <1>2, <1>4, <1>6, <1>7

-------------------------------------------------------------------------------
\* The place of a thread's own request in the order of the pushes: among the
\* first n
Within(t, n) == \E i \in 1 .. Len(arrived) : i <= n /\ arrived[i] = req[t]

\* An owner's request was pushed before it reads the queue, so that it is in the
\* first chain it gets, if it has not been executed by then.
OwnRequest ==
    \A t \in Threads :
      /\ pc[t] = "pop" => Within(t, Len(arrived))
      /\ pc[t] \in {"fetch", "run", "release"} => Within(t, Len(done) + Len(chain[t]))

LEMMA OwnRequestStep ==
  Inv /\ ChainOwned /\ InOrderOnce /\ OwnRequest /\ [Next]_vars => OwnRequest'
<1> SUFFICES ASSUME Inv, ChainOwned, InOrderOnce, OwnRequest, [Next]_vars PROVE OwnRequest'
  OBVIOUS
<1>t. /\ queue \in Seq(Requests) /\ arrived \in Seq(Requests) /\ done \in Seq(Requests)
      /\ \A t \in Threads : chain[t] \in Seq(Requests)
      /\ Len(arrived) \in Nat /\ Len(queue) \in Nat /\ Len(done) \in Nat
      /\ \A t \in Threads : Len(chain[t]) \in Nat
  BY LenProperties DEF Inv, TypeOK
<1>1. ASSUME NEW t \in Threads, NEW r \in Requests, Increment(t, r) PROVE OwnRequest'
  BY <1>1, <1>t DEF OwnRequest, Within, Increment, Inv, TypeOK
<1>2. ASSUME NEW t \in Threads, Push(t) PROVE OwnRequest'
  <2>1. /\ arrived' = Append(arrived, req[t]) /\ req[t] \in Requests
        /\ UNCHANGED <<done, chain>>
    BY <1>2 DEF Push, Inv, TypeOK
  <2>2. /\ Len(arrived') = Len(arrived) + 1 /\ arrived'[Len(arrived) + 1] = req[t]
        /\ \A i \in 1 .. Len(arrived) : arrived'[i] = arrived[i]
    BY <2>1, <1>t, AppendProperties
  <2>3. \A u \in Threads : u # t => pc'[u] = pc[u] /\ req'[u] = req[u]
    BY <1>2 DEF Push, Return, Inv, TypeOK
  <2>4. pc'[t] = "idle" \/ (pc'[t] = "pop" /\ req'[t] = req[t])
    BY <1>2 DEF Push, Return, Inv, TypeOK
  <2>5. pc'[t] = "pop" => \E i \in 1 .. Len(arrived') : i <= Len(arrived') /\ arrived'[i] = req'[t]
    BY <2>2, <2>4, <1>t
  <2>6. ASSUME NEW u \in Threads, u # t
        PROVE  /\ pc'[u] = "pop" =>
                    \E i \in 1 .. Len(arrived') : i <= Len(arrived') /\ arrived'[i] = req'[u]
               /\ pc'[u] \in {"fetch", "run", "release"} =>
                    \E i \in 1 .. Len(arrived') :
                      i <= Len(done') + Len(chain'[u]) /\ arrived'[i] = req'[u]
    BY <2>1, <2>2, <2>3, <2>6, <1>t DEF OwnRequest, Within
  <2> QED
    BY <2>4, <2>5, <2>6 DEF OwnRequest, Within
<1>3. ASSUME NEW t \in Threads, PopQueue(t) PROVE OwnRequest'
  <2>1. Owner(t) /\ chain[t] = <<>> /\ Within(t, Len(arrived))
    BY <1>3 DEF PopQueue, Owner, ChainOwned, OwnRequest
  <2>2. Len(arrived) = Len(done) + Len(queue)
    <3>1. arrived = done \o (<<>> \o queue) /\ <<>> \o queue = queue
      BY <2>1, <1>t, ConcatEmptySeq DEF InOrderOnce
    <3> QED
      BY <3>1, <1>t, ConcatProperties
  <2>3. /\ \A u \in Threads : /\ u # t => pc'[u] = pc[u] /\ chain'[u] = chain[u]
                              /\ req'[u] = req[u]
        /\ pc'[t] = "fetch" /\ chain'[t] = queue /\ arrived' = arrived /\ done' = done
    BY <1>3 DEF PopQueue, Inv, TypeOK
  <2> QED
    BY <2>1, <2>2, <2>3 DEF OwnRequest, Within
<1>4. ASSUME NEW t \in Threads, Fetch(t) PROVE OwnRequest'
  BY <1>4, <1>t DEF OwnRequest, Within, Fetch, Inv, TypeOK
<1>5. ASSUME NEW t \in Threads, Execute(t) PROVE OwnRequest'
  <2>1. chain[t] # <<>> /\ chain[t] \in Seq(Requests)
    BY <1>5 DEF Execute, Inv, TypeOK
  <2>2. /\ done' = Append(done, Head(chain[t])) /\ chain'[t] = Tail(chain[t])
        /\ \A u \in Threads : /\ u # t => pc'[u] = pc[u] /\ chain'[u] = chain[u]
                              /\ req'[u] = req[u]
        /\ pc[t] = "run" /\ pc'[t] = "fetch" /\ arrived' = arrived
    BY <1>5 DEF Execute, Inv, TypeOK
  <2>3. Head(chain[t]) \in Requests /\ Len(Tail(chain[t])) = Len(chain[t]) - 1
    BY <2>1, HeadTailProperties
  <2>4. Len(done') = Len(done) + 1
    BY <2>2, <2>3, <1>t, AppendProperties
  <2>5. PICK n \in Nat, m \in Nat : n = Len(done) /\ m = Len(chain[t])
    BY <1>t
  <2>6. Len(done') = n + 1 /\ Len(chain'[t]) = m - 1
    BY <2>2, <2>3, <2>4, <2>5
  <2>7. ASSUME NEW u \in Threads
        PROVE  /\ pc'[u] = "pop" => Within(u, Len(arrived))'
               /\ pc'[u] \in {"fetch", "run", "release"} => Within(u, Len(done) + Len(chain[u]))'
    <3>1. CASE u = t
      <4>1. \E i \in 1 .. Len(arrived) : i <= n + m /\ arrived[i] = req[t]
        BY <2>2, <2>5 DEF OwnRequest, Within
      <4>2. \E i \in 1 .. Len(arrived) : i <= (n + 1) + (m - 1) /\ arrived[i] = req[t]
        BY <4>1
      <4> QED
        BY <2>2, <2>6, <3>1, <4>2 DEF Within
    <3>2. CASE u # t
      <4>1. PICK k \in Nat : k = Len(chain[u])
        BY <1>t
      <4>2. pc[u] \in {"fetch", "run", "release"} =>
              \E i \in 1 .. Len(arrived) : i <= n + k /\ arrived[i] = req[u]
        BY <2>5, <4>1 DEF OwnRequest, Within
      <4>3. pc[u] \in {"fetch", "run", "release"} =>
              \E i \in 1 .. Len(arrived) : i <= n + 1 + k /\ arrived[i] = req[u]
        BY <1>t, <4>2
      <4>4. pc[u] = "pop" =>
              \E i \in 1 .. Len(arrived) : i <= Len(arrived) /\ arrived[i] = req[u]
        BY DEF OwnRequest, Within
      <4> QED
        BY <2>2, <2>6, <3>2, <4>1, <4>3, <4>4 DEF Within
    <3> QED
      BY <3>1, <3>2
  <2> QED
    BY <2>7 DEF OwnRequest
<1>6. ASSUME NEW t \in Threads, Release(t) PROVE OwnRequest'
  <2>1. /\ UNCHANGED <<arrived, done, chain>> /\ pc[t] = "release"
        /\ \A u \in Threads : u # t => pc'[u] = pc[u] /\ req'[u] = req[u]
        /\ pc'[t] = "idle" \/ (pc'[t] = "pop" /\ req'[t] = req[t])
    BY <1>6 DEF Release, Return, Inv, TypeOK
  <2>2. \E i \in 1 .. Len(arrived) : i <= Len(arrived) /\ arrived[i] = req[t]
    BY <2>1, <1>t DEF OwnRequest, Within
  <2> QED
    BY <2>1, <2>2 DEF OwnRequest, Within
<1>7. CASE UNCHANGED vars
  BY <1>7 DEF OwnRequest, Within, vars
<1> QED
  BY <1>1, <1>2, <1>3, <1>4, <1>5, <1>6, <1>7 DEF Next, Continue

LEMMA OwnerReturns ==
  Inv /\ ChainOwned /\ OwnRequest /\ [Next]_vars =>
    [\A t \in Threads :
       pc[t] = "release" /\ pc'[t] = "idle" =>
         \E i \in DOMAIN arrived : arrived[i] = req[t] /\ i <= Len(done)]_vars
<1> SUFFICES ASSUME Inv, ChainOwned, OwnRequest, NEW t \in Threads, pc[t] = "release"
             PROVE  \E i \in DOMAIN arrived : arrived[i] = req[t] /\ i <= Len(done)
  OBVIOUS
<1>1. chain[t] = <<>> /\ Len(<<>>) = 0
  BY DEF ChainOwned
<1>2. Len(done) \in Nat /\ DOMAIN arrived = 1 .. Len(arrived)
  BY LenProperties DEF Inv, TypeOK
<1>3. Within(t, Len(done) + Len(chain[t]))
  BY DEF OwnRequest
<1> QED
  BY <1>1, <1>2, <1>3 DEF Within

\* A call of execute that returns true has executed its own job, and with it
\* every request that was pushed before, those of callers that were too late
\* for the owner before it included.
THEOREM OwnerClearsTheLine == Spec => OwnerLeavesNothingOlder
<1>1. Init => ChainOwned /\ OwnRequest
  BY DEF Init, ChainOwned, OwnRequest
<1>2. Inv /\ ChainOwned /\ [Next]_vars => ChainOwned'
  BY ChainOwnedStep
<1> QED
  BY <1>1, <1>2, OwnRequestStep, OwnerReturns, AlwaysInv, OrderKept, PTL
  DEF Spec, OwnerLeavesNothingOlder
===============================================================================
