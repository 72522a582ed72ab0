----------------------------- MODULE ServiceProofs -----------------------------
(***************************************************************************)
(* Theorems about Service, for any workers and clients, with peers that    *)
(* reset their connections, users that close them and a system that runs   *)
(* out of sockets, or not.                                                 *)
(***************************************************************************)
EXTENDS Service, SequenceTheorems, FiniteSetTheorems, TLAPS

NoneInPort == \A i \in 1 .. Len(port) : port[i].kind \in Aside
NoneBusy == \A w \in Workers : at[w] \in Aside

\* The chain has one place at most: the system, a completion in the port, or a
\* worker.  It begins in FirstAccept, and ends when the owner has been told.
OnePlace ==
    /\ accepts \in {0, 1} /\ told \in {0, 1}
    /\ accepts = 1 => NoneInPort /\ NoneBusy
    /\ NoneInPort \/ NoneBusy
    /\ \A i, j \in 1 .. Len(port) : port[i].kind \notin Aside /\ port[j].kind \notin Aside => i = j
    /\ \A v, w \in Workers : at[v] \notin Aside /\ at[w] \notin Aside => v = w
    /\ told = 1 => accepts = 0 /\ NoneInPort /\ NoneBusy
    /\ owner \in {"new", "opened"} => accepts = 0 /\ told = 0 /\ NoneInPort /\ NoneBusy

\* It is lost only with a first receive, without sockets or with the listener.
Alive ==
    owner = "started" /\ listener = "open" /\ ~ starved /\ (\A c \in Clients : conn[c] # "dropped")
      => accepts = 1 \/ ~ NoneInPort \/ ~ NoneBusy

\* Where the receive of a connection is handled, and what is known of it there
Awaits(e, c) == e.kind \in {"received", "closed"} /\ e.client = c
Handles(w, c) == at[w] \in {"received", "again", "closed"} /\ on[w] = c

OneReceiver ==
    \A c \in Clients :
      /\ \A i, j \in 1 .. Len(port) : Awaits(port[i], c) /\ Awaits(port[j], c) => i = j
      /\ \A v, w \in Workers : Handles(v, c) /\ Handles(w, c) => v = w
      /\ \A i \in 1 .. Len(port), w \in Workers : ~ (Awaits(port[i], c) /\ Handles(w, c))

\* What a completion and a worker know about a connection is still so.
Fresh ==
    /\ \A i \in 1 .. Len(port) :
         /\ port[i].kind = "accepted" => conn[port[i].client] = "accepted"
         /\ port[i].kind = "received" => conn[port[i].client] = "received"
         /\ port[i].kind = "closed" => conn[port[i].client] = "closing"
    /\ \A w \in Workers :
         /\ at[w] \in {"accepted", "recv"} => conn[on[w]] = "accepted"
         /\ at[w] = "recv" => on[w] \in map
         /\ at[w] \in {"received", "again"} => conn[on[w]] = "received"
         /\ at[w] = "closed" => conn[on[w]] = "closing"

Inv == TypeOK /\ OnePlace /\ Alive /\ OneReceiver /\ Fresh /\ ErasedAfterInserted

LEMMA InitInv == Init => Inv
<1> SUFFICES ASSUME Init PROVE Inv
  OBVIOUS
<1> USE DEF Init
<1>1. <<>> \in Seq(Completions) /\ Len(<<>>) = 0
  BY EmptySeq, LenProperties
<1>2. TypeOK
  BY <1>1 DEF TypeOK, Fates, Steps
<1>3. OnePlace /\ Alive /\ OneReceiver /\ Fresh /\ ErasedAfterInserted
  BY <1>1 DEF OnePlace, Alive, OneReceiver, Awaits, Handles, Fresh, ErasedAfterInserted, NoneInPort, NoneBusy, Aside
<1> QED
  BY <1>2, <1>3 DEF Inv

\* The port after a completion has arrived, ...
LEMMA Arrives ==
  ASSUME port \in Seq(Completions), NEW e \in Completions, port' = Append(port, e)
  PROVE  /\ port' \in Seq(Completions) /\ Len(port) \in Nat /\ Len(port') = Len(port) + 1
         /\ \A i \in 1 .. Len(port) : port'[i] = port[i]
         /\ port'[Len(port) + 1] = e
BY AppendProperties, LenProperties

\* ... and after one was taken from it
LEMMA Taken ==
  ASSUME port \in Seq(Completions), port # <<>>, port' = Tail(port)
  PROVE  /\ port' \in Seq(Completions) /\ Len(port) \in Nat \ {0} /\ Len(port') = Len(port) - 1
         /\ \A i \in 1 .. Len(port') : port'[i] = port[i + 1]
         /\ Head(port) \in Completions /\ Head(port) = port[1]
BY HeadTailProperties, LenProperties, EmptySeq

\* No worker takes up a receive, and nothing arrives: still one receiver
LEMMA SameReceivers ==
  ASSUME OneReceiver, port' = port,
         \A w \in Workers, c \in Clients : Handles(w, c)' => Handles(w, c)
  PROVE  OneReceiver'
BY DEF OneReceiver, Awaits

\* What arrives is no end and no data: still one receiver
LEMMA OtherArrives ==
  ASSUME OneReceiver, port \in Seq(Completions), UNCHANGED <<at, on>>,
         NEW e \in Completions, e.kind \notin {"received", "closed"}, port' = Append(port, e)
  PROVE  OneReceiver'
BY Arrives DEF OneReceiver, Awaits, Handles

\* A receive that was armed completes: it has no receiver yet.
LEMMA ReceiveArrives ==
  ASSUME Inv, UNCHANGED <<at, on>>, NEW c \in Clients, conn[c] = "armed",
         NEW k \in {"received", "closed"}, port' = Append(port, [kind |-> k, client |-> c])
  PROVE  OneReceiver'
<1>1. [kind |-> k, client |-> c] \in Completions /\ port \in Seq(Completions)
  BY DEF Inv, TypeOK, Completions
<1>2. /\ Len(port) \in Nat /\ Len(port') = Len(port) + 1
      /\ \A i \in 1 .. Len(port) : port'[i] = port[i]
      /\ port'[Len(port) + 1] = [kind |-> k, client |-> c]
  BY <1>1, Arrives
<1>3. /\ \A i \in 1 .. Len(port) : ~ Awaits(port[i], c)
      /\ \A w \in Workers : ~ Handles(w, c)
  BY DEF Inv, Fresh, Awaits, Handles
<1>4. \A w \in Workers, d \in Clients : Handles(w, d)' <=> Handles(w, d)
  BY DEF Handles
<1>5. \A i \in 1 .. Len(port'), d \in Clients :
        Awaits(port[i], d)'
          => (i \in 1 .. Len(port) /\ Awaits(port[i], d)) \/ (i = Len(port) + 1 /\ d = c)
  BY <1>2 DEF Awaits
<1> QED
  BY <1>2, <1>3, <1>4, <1>5 DEF Inv, OneReceiver

LEMMA StartInv == ASSUME Inv, Start PROVE Inv'
<1> USE EnvironmentAssumption, NoneIsNoClient DEF Inv, Fates, Steps, Start
<1>1. TypeOK'
  BY DEF TypeOK
<1>2. OnePlace'
  BY DEF TypeOK, OnePlace, NoneInPort, NoneBusy, Aside
<1>3. Alive'
  BY DEF TypeOK, OnePlace, Alive, NoneInPort, NoneBusy, Aside
<1>4. Fresh'
  BY DEF TypeOK, Fresh, OnePlace, NoneInPort, NoneBusy, Aside
<1>5. ErasedAfterInserted'
  BY DEF TypeOK, Fresh, ErasedAfterInserted
<1>6. OneReceiver'
  BY SameReceivers DEF TypeOK, Handles
<1> QED
  BY <1>1, <1>2, <1>3, <1>4, <1>5, <1>6

LEMMA FirstAcceptInv == ASSUME Inv, FirstAccept PROVE Inv'
<1> USE EnvironmentAssumption, NoneIsNoClient DEF Inv, Fates, Steps, FirstAccept, Accept
<1>1. TypeOK'
  BY DEF TypeOK
<1>2. OnePlace'
  BY DEF TypeOK, OnePlace, NoneInPort, NoneBusy, Aside
<1>3. Alive'
  BY DEF TypeOK, OnePlace, Alive, NoneInPort, NoneBusy, Aside
<1>4. Fresh'
  BY DEF TypeOK, Fresh, OnePlace, NoneInPort, NoneBusy, Aside
<1>5. ErasedAfterInserted'
  BY DEF TypeOK, Fresh, ErasedAfterInserted
<1>6. OneReceiver'
  BY SameReceivers DEF TypeOK, Handles
<1> QED
  BY <1>1, <1>2, <1>3, <1>4, <1>5, <1>6

LEMMA OnAcceptedInv == ASSUME Inv, NEW w \in Workers, OnAccepted(w) PROVE Inv'
<1> USE EnvironmentAssumption, NoneIsNoClient DEF Inv, Fates, Steps, OnAccepted, InsertConnection, Goto
<1>1. TypeOK'
  BY DEF TypeOK
<1>2. OnePlace'
  BY DEF TypeOK, OnePlace, NoneInPort, NoneBusy, Aside
<1>3. Alive'
  BY DEF TypeOK, OnePlace, Alive, NoneInPort, NoneBusy, Aside
<1>4. Fresh'
  BY DEF TypeOK, Fresh, OnePlace, NoneInPort, NoneBusy, Aside
<1>5. ErasedAfterInserted'
  BY DEF TypeOK, Fresh, ErasedAfterInserted
<1>6. OneReceiver'
  BY SameReceivers DEF TypeOK, Handles
<1> QED
  BY <1>1, <1>2, <1>3, <1>4, <1>5, <1>6

LEMMA FirstRecvInv == ASSUME Inv, NEW w \in Workers, FirstRecv(w) PROVE Inv'
<1> USE EnvironmentAssumption, NoneIsNoClient DEF Inv, Fates, Steps, FirstRecv, Armed, NotArmed, Goto
<1>1. TypeOK'
  BY DEF TypeOK
<1>2. OnePlace'
  BY DEF TypeOK, OnePlace, NoneInPort, NoneBusy, Aside
<1>3. Alive'
  BY DEF TypeOK, OnePlace, Alive, NoneInPort, NoneBusy, Aside
<1>4. Fresh'
  <2>1. /\ at[w] = "recv" /\ at' = [at EXCEPT ![w] = at'[w]] /\ at'[w] \in {"accept", "idle"}
        /\ port' = port /\ map' = map
        /\ \A v \in Workers : v # w => at'[v] = at[v] /\ on'[v] = on[v]
        /\ \A c \in Clients : c # on[w] => conn'[c] = conn[c]
    BY DEF TypeOK
  <2>2. /\ conn[on[w]] = "accepted"
        /\ NoneInPort /\ \A v \in Workers : v # w => at[v] \in Aside
    BY <2>1 DEF Fresh, OnePlace, NoneBusy, Aside
  <2>3. \A i \in 1 .. Len(port) : port[i] \in Completions
    BY LenProperties DEF TypeOK
  <2> QED
    BY <2>1, <2>2, <2>3 DEF Fresh, TypeOK, NoneInPort, Aside, Completions
<1>5. ErasedAfterInserted'
  BY DEF TypeOK, Fresh, ErasedAfterInserted
<1>6. OneReceiver'
  BY SameReceivers DEF TypeOK, Handles
<1> QED
  BY <1>1, <1>2, <1>3, <1>4, <1>5, <1>6

LEMMA AcceptNextInv == ASSUME Inv, NEW w \in Workers, AcceptNext(w) PROVE Inv'
<1> USE EnvironmentAssumption, NoneIsNoClient DEF Inv, Fates, Steps, AcceptNext, Accept, Goto
<1>1. TypeOK'
  BY DEF TypeOK
<1>2. OnePlace'
  BY DEF TypeOK, OnePlace, NoneInPort, NoneBusy, Aside
<1>3. Alive'
  BY DEF TypeOK, OnePlace, Alive, NoneInPort, NoneBusy, Aside
<1>4. Fresh'
  BY DEF TypeOK, Fresh, OnePlace, NoneInPort, NoneBusy, Aside
<1>5. ErasedAfterInserted'
  BY DEF TypeOK, Fresh, ErasedAfterInserted
<1>6. OneReceiver'
  BY SameReceivers DEF TypeOK, Handles
<1> QED
  BY <1>1, <1>2, <1>3, <1>4, <1>5, <1>6

LEMMA OnFailedInv == ASSUME Inv, NEW w \in Workers, OnFailed(w) PROVE Inv'
<1> USE EnvironmentAssumption, NoneIsNoClient DEF Inv, Fates, Steps, OnFailed, Goto
<1>1. TypeOK'
  BY DEF TypeOK
<1>2. OnePlace'
  BY DEF TypeOK, OnePlace, NoneInPort, NoneBusy, Aside
<1>3. Alive'
  BY DEF TypeOK, OnePlace, Alive, NoneInPort, NoneBusy, Aside
<1>4. Fresh'
  BY DEF TypeOK, Fresh, OnePlace, NoneInPort, NoneBusy, Aside
<1>5. ErasedAfterInserted'
  BY DEF TypeOK, Fresh, ErasedAfterInserted
<1>6. OneReceiver'
  BY SameReceivers DEF TypeOK, Handles
<1> QED
  BY <1>1, <1>2, <1>3, <1>4, <1>5, <1>6

\* A step of a worker aside of the accept loop leaves the chain alone, ...
LEMMA SameChain ==
  ASSUME OnePlace, Alive, UNCHANGED <<port, accepts, told, owner, listener, starved>>,
         \A v \in Workers : at'[v] \in Aside <=> at[v] \in Aside,
         \A c \in Clients : conn'[c] # "dropped" => conn[c] # "dropped"
  PROVE  OnePlace' /\ Alive'
<1>1. (NoneInPort' <=> NoneInPort) /\ (NoneBusy' <=> NoneBusy)
  BY DEF NoneInPort, NoneBusy
<1> QED
  BY <1>1 DEF OnePlace, Alive

\* ... and what others know: nobody else knows of the connection it handles.
LEMMA FreshAside ==
  ASSUME Inv, NEW w \in Workers, at[w] \in {"received", "again", "closed"}, port' = port,
         \A v \in Workers : v # w => at'[v] = at[v] /\ on'[v] = on[v],
         \A c \in Clients : c # on[w] => conn'[c] = conn[c] /\ (c \in map => c \in map'),
         \/ at'[w] = "idle"
         \/ at'[w] = "again" /\ on'[w] = on[w] /\ conn'[on[w]] = "received"
         \/ at'[w] = "closed" /\ on'[w] = on[w] /\ conn'[on[w]] = "closing"
  PROVE  Fresh'
<1>1. /\ on[w] \in Clients /\ conn[on[w]] \in {"received", "closing"}
      /\ \A i \in 1 .. Len(port) : port[i] \in Completions
  BY LenProperties DEF Inv, TypeOK, Fresh
<1>2. Handles(w, on[w])
  BY DEF Handles
<1>3. ASSUME NEW i \in 1 .. Len(port), port[i].kind \in {"accepted", "received", "closed"}
      PROVE  port[i].client \in Clients /\ port[i].client # on[w]
  BY <1>1, <1>2, <1>3 DEF Inv, Fresh, OneReceiver, Awaits, Completions
<1>4. ASSUME NEW v \in Workers, v # w,
             at[v] \in {"accepted", "recv", "received", "again", "closed"}
      PROVE  on[v] \in Clients /\ on[v] # on[w]
  BY <1>1, <1>2, <1>4 DEF Inv, TypeOK, Fresh, OneReceiver, Handles
<1>5. \A i \in 1 .. Len(port') :
        /\ port'[i].kind = "accepted" => conn'[port'[i].client] = "accepted"
        /\ port'[i].kind = "received" => conn'[port'[i].client] = "received"
        /\ port'[i].kind = "closed" => conn'[port'[i].client] = "closing"
  BY <1>3 DEF Inv, Fresh
<1>6. ASSUME NEW v \in Workers
      PROVE  /\ at'[v] \in {"accepted", "recv"} => conn'[on'[v]] = "accepted"
             /\ at'[v] = "recv" => on'[v] \in map'
             /\ at'[v] \in {"received", "again"} => conn'[on'[v]] = "received"
             /\ at'[v] = "closed" => conn'[on'[v]] = "closing"
  <2>1. CASE v = w
    BY <2>1
  <2>2. CASE v # w
    BY <1>4, <2>2 DEF Inv, Fresh
  <2> QED
    BY <2>1, <2>2
<1> QED
  BY <1>5, <1>6 DEF Fresh

LEMMA OnReceivedInv == ASSUME Inv, NEW w \in Workers, OnReceived(w) PROVE Inv'
<1> USE EnvironmentAssumption, NoneIsNoClient DEF Inv, Fates, Steps, OnReceived, Goto
<1>1. TypeOK'
  BY DEF TypeOK
<1>2. OnePlace' /\ Alive'
  <2>1. /\ at[w] \in Aside /\ at'[w] \in Aside
        /\ \A v \in Workers : v # w => at'[v] = at[v]
    BY DEF TypeOK, Aside
  <2>2. \A c \in Clients : conn'[c] # "dropped" => conn[c] # "dropped"
    BY DEF TypeOK, Fresh
  <2> QED
    BY <2>1, <2>2, SameChain
<1>4. Fresh'
  BY FreshAside DEF TypeOK, Fresh
<1>5. ErasedAfterInserted'
  BY DEF TypeOK, Fresh, ErasedAfterInserted
<1>6. OneReceiver'
  BY SameReceivers DEF TypeOK, Handles
<1> QED
  BY <1>1, <1>2, <1>4, <1>5, <1>6

LEMMA RecvAgainInv == ASSUME Inv, NEW w \in Workers, RecvAgain(w) PROVE Inv'
<1> USE EnvironmentAssumption, NoneIsNoClient DEF Inv, Fates, Steps, RecvAgain, Goto, Armed, NotArmed
<1>1. TypeOK'
  BY DEF TypeOK
<1>2. OnePlace' /\ Alive'
  <2>1. /\ at[w] \in Aside /\ at'[w] \in Aside
        /\ \A v \in Workers : v # w => at'[v] = at[v]
    BY DEF TypeOK, Aside
  <2>2. \A c \in Clients : conn'[c] # "dropped" => conn[c] # "dropped"
    BY DEF TypeOK, Fresh
  <2> QED
    BY <2>1, <2>2, SameChain
<1>4. Fresh'
  BY FreshAside DEF TypeOK, Fresh
<1>5. ErasedAfterInserted'
  BY DEF TypeOK, Fresh, ErasedAfterInserted
<1>6. OneReceiver'
  BY SameReceivers DEF TypeOK, Handles
<1> QED
  BY <1>1, <1>2, <1>4, <1>5, <1>6

LEMMA OnClosedInv == ASSUME Inv, NEW w \in Workers, OnClosed(w) PROVE Inv'
<1> USE EnvironmentAssumption, NoneIsNoClient DEF Inv, Fates, Steps, OnClosed, EraseConnection, Goto
<1>1. TypeOK'
  BY DEF TypeOK
<1>2. OnePlace' /\ Alive'
  <2>1. /\ at[w] \in Aside /\ at'[w] \in Aside
        /\ \A v \in Workers : v # w => at'[v] = at[v]
    BY DEF TypeOK, Aside
  <2>2. \A c \in Clients : conn'[c] # "dropped" => conn[c] # "dropped"
    BY DEF TypeOK, Fresh
  <2> QED
    BY <2>1, <2>2, SameChain
<1>4. Fresh'
  BY FreshAside DEF TypeOK, Fresh
<1>5. ErasedAfterInserted'
  BY DEF TypeOK, Fresh, ErasedAfterInserted
<1>6. OneReceiver'
  BY SameReceivers DEF TypeOK, Handles
<1> QED
  BY <1>1, <1>2, <1>4, <1>5, <1>6

LEMMA DequeueInv == ASSUME Inv, NEW w \in Workers, Dequeue(w) PROVE Inv'
<1> USE EnvironmentAssumption, NoneIsNoClient DEF Inv, Fates, Steps, Dequeue, Goto
<1>0. /\ port' \in Seq(Completions) /\ Len(port) \in Nat \ {0} /\ Len(port') = Len(port) - 1
      /\ \A i \in 1 .. Len(port') : port'[i] = port[i + 1]
      /\ Head(port) \in Completions /\ Head(port) = port[1]
  BY Taken DEF TypeOK
<1>1. TypeOK'
  <2>1. /\ Head(port).kind \in {"accepted", "aborted", "failed", "received", "closed"}
        /\ Head(port).client \in Clients \cup {None}
        /\ Head(port).kind # "aborted" => Head(port).client \in Clients
    BY <1>0 DEF Completions
  <2> QED
    BY <1>0, <2>1 DEF TypeOK
<1>2. OnePlace'
  <2>1. /\ NoneInPort => NoneInPort'
        /\ Head(port).kind \notin Aside => NoneInPort'
    BY <1>0 DEF OnePlace, NoneInPort
  <2>2. /\ at[w] = "idle" /\ "idle" \in Aside
        /\ \A v \in Workers : at'[v] = IF v = w THEN Head(port).kind ELSE at[v]
        /\ UNCHANGED <<accepts, told, owner>>
    BY DEF TypeOK, Aside
  <2>3. \A i, j \in 1 .. Len(port') : port'[i].kind \notin Aside /\ port'[j].kind \notin Aside => i = j
    BY <1>0 DEF OnePlace
  <2>4. CASE Head(port).kind \in Aside
    <3>1. (NoneBusy => NoneBusy')
          /\ \A v \in Workers : at'[v] \notin Aside <=> at[v] \notin Aside
      BY <2>2, <2>4 DEF NoneBusy
    <3> QED
      BY <2>1, <2>2, <2>3, <3>1 DEF OnePlace
  <2>5. CASE Head(port).kind \notin Aside
    <3>1. ~ NoneInPort
      BY <1>0, <2>5 DEF NoneInPort
    <3>2. NoneBusy /\ accepts = 0 /\ told = 0 /\ owner \notin {"new", "opened"}
      BY <3>1 DEF OnePlace
    <3>3. \A v \in Workers : at'[v] \notin Aside => v = w
      BY <2>2, <3>2 DEF NoneBusy
    <3> QED
      BY <2>1, <2>2, <2>3, <2>5, <3>2, <3>3 DEF OnePlace
  <2> QED
    BY <2>4, <2>5
<1>3. Alive'
  <2>1. \A v \in Workers : at'[v] = IF v = w THEN Head(port).kind ELSE at[v]
    BY DEF TypeOK
  <2>2. ~ NoneBusy => ~ NoneBusy'
    BY <2>1 DEF NoneBusy, Aside
  <2>3. ASSUME NEW i \in 1 .. Len(port), port[i].kind \notin Aside
        PROVE  ~ NoneInPort' \/ ~ NoneBusy'
    <3>1. CASE i = 1
      <4>1. at'[w] \notin Aside
        BY <1>0, <2>1, <2>3, <3>1
      <4> QED
        BY <4>1 DEF NoneBusy
    <3>2. CASE i # 1
      <4>1. i - 1 \in 1 .. Len(port') /\ port'[i - 1] = port[i]
        BY <1>0, <3>2
      <4> QED
        BY <2>3, <4>1 DEF NoneInPort
    <3> QED
      BY <3>1, <3>2
  <2>4. ~ NoneInPort => ~ NoneInPort' \/ ~ NoneBusy'
    BY <2>3 DEF NoneInPort
  <2>5. UNCHANGED <<owner, listener, starved, accepts, conn>>
    OBVIOUS
  <2> QED
    BY <2>2, <2>4, <2>5 DEF Alive
<1>4. Fresh'
  <2>1. \A v \in Workers :
          /\ at'[v] = IF v = w THEN Head(port).kind ELSE at[v]
          /\ on'[v] = IF v = w THEN Head(port).client ELSE on[v]
    BY DEF TypeOK
  <2>2. conn' = conn /\ map' = map /\ Head(port).kind \notin {"recv", "again"}
    BY <1>0 DEF Completions
  <2>3. /\ Head(port).kind = "accepted" => conn[Head(port).client] = "accepted"
        /\ Head(port).kind = "received" => conn[Head(port).client] = "received"
        /\ Head(port).kind = "closed" => conn[Head(port).client] = "closing"
    BY <1>0 DEF Fresh
  <2>4. \A v \in Workers :
          /\ at'[v] \in {"accepted", "recv"} => conn'[on'[v]] = "accepted"
          /\ at'[v] = "recv" => on'[v] \in map'
          /\ at'[v] \in {"received", "again"} => conn'[on'[v]] = "received"
          /\ at'[v] = "closed" => conn'[on'[v]] = "closing"
    BY <2>1, <2>2, <2>3 DEF Fresh
  <2>5. \A i \in 1 .. Len(port') :
          /\ port'[i].kind = "accepted" => conn'[port'[i].client] = "accepted"
          /\ port'[i].kind = "received" => conn'[port'[i].client] = "received"
          /\ port'[i].kind = "closed" => conn'[port'[i].client] = "closing"
    BY <1>0, <2>2 DEF Fresh
  <2> QED
    BY <2>4, <2>5 DEF Fresh
<1>5. ErasedAfterInserted'
  BY <1>0 DEF TypeOK, Fresh, ErasedAfterInserted
<1>6. OneReceiver'
  <2>1. \A i \in 1 .. Len(port') : i + 1 \in 1 .. Len(port) /\ i + 1 # 1 /\ port'[i] = port[i + 1]
    BY <1>0
  <2>2. \A i \in 1 .. Len(port'), c \in Clients : Awaits(port[i], c)' => Awaits(port[i + 1], c)
    BY <2>1 DEF Awaits
  <2>3. 1 \in 1 .. Len(port)
    BY <1>0
  <2>4. \A v \in Workers, c \in Clients :
          Handles(v, c)' => IF v = w THEN Awaits(port[1], c) ELSE Handles(v, c)
    BY <1>0 DEF TypeOK, Completions, Handles, Awaits
  <2>5. ASSUME NEW c \in Clients, NEW i \in 1 .. Len(port'), NEW j \in 1 .. Len(port'),
               Awaits(port[i], c)', Awaits(port[j], c)'
        PROVE  i = j
    <3>1. i + 1 = j + 1
      BY <2>1, <2>2, <2>5 DEF OneReceiver
    <3> QED
      BY <3>1, <1>0
  <2>6. ASSUME NEW c \in Clients, NEW v \in Workers, NEW u \in Workers, Handles(v, c)', Handles(u, c)'
        PROVE  v = u
    BY <2>3, <2>4, <2>6 DEF OneReceiver
  <2>7. ASSUME NEW c \in Clients, NEW i \in 1 .. Len(port'), NEW v \in Workers,
               Awaits(port[i], c)', Handles(v, c)'
        PROVE  FALSE
    BY <2>1, <2>2, <2>3, <2>4, <2>7 DEF OneReceiver
  <2> QED
    BY <2>5, <2>6, <2>7 DEF OneReceiver
<1> QED
  BY <1>1, <1>2, <1>3, <1>4, <1>5, <1>6

LEMMA CloseSocketInv == ASSUME Inv, CloseSocket PROVE Inv'
<1> USE EnvironmentAssumption, NoneIsNoClient DEF Inv, Fates, Steps, CloseSocket
<1>0. \/ port' = port /\ accepts = 0
      \/ /\ accepts > 0
         /\ port' \in Seq(Completions) /\ Len(port) \in Nat /\ Len(port') = Len(port) + 1
         /\ \A i \in 1 .. Len(port) : port'[i] = port[i]
         /\ port'[Len(port) + 1] = [kind |-> "aborted", client |-> None]
  BY Arrives DEF TypeOK, Completions
<1>1. TypeOK'
  BY <1>0 DEF TypeOK, Completions
<1>2. OnePlace'
  BY <1>0 DEF TypeOK, OnePlace, NoneInPort, NoneBusy, Aside
<1>3. Alive'
  BY <1>0 DEF TypeOK, OnePlace, Alive, NoneInPort, NoneBusy, Aside
<1>4. Fresh'
  BY <1>0 DEF TypeOK, Fresh, OnePlace, NoneInPort, NoneBusy, Aside
<1>5. ErasedAfterInserted'
  BY <1>0 DEF TypeOK, Fresh, ErasedAfterInserted
<1>6. OneReceiver'
  <2>1. CASE port' = port
    BY <2>1, SameReceivers DEF Handles
  <2>2. CASE port' = Append(port, [kind |-> "aborted", client |-> None])
    BY <2>2, OtherArrives DEF TypeOK, Completions
  <2> QED
    BY <2>1, <2>2
<1> QED
  BY <1>1, <1>2, <1>3, <1>4, <1>5, <1>6

LEMMA InvalidateInv == ASSUME Inv, Invalidate PROVE Inv'
<1> USE EnvironmentAssumption, NoneIsNoClient DEF Inv, Fates, Steps, Invalidate
<1>1. TypeOK'
  BY DEF TypeOK
<1>2. OnePlace'
  BY DEF TypeOK, OnePlace, NoneInPort, NoneBusy, Aside
<1>3. Alive'
  BY DEF TypeOK, OnePlace, Alive, NoneInPort, NoneBusy, Aside
<1>4. Fresh'
  BY DEF TypeOK, Fresh, OnePlace, NoneInPort, NoneBusy, Aside
<1>5. ErasedAfterInserted'
  BY DEF TypeOK, Fresh, ErasedAfterInserted
<1>6. OneReceiver'
  BY SameReceivers DEF TypeOK, Handles
<1> QED
  BY <1>1, <1>2, <1>3, <1>4, <1>5, <1>6

LEMMA ConnectInv == ASSUME Inv, NEW c \in Clients, Connect(c) PROVE Inv'
<1> USE EnvironmentAssumption, NoneIsNoClient DEF Inv, Fates, Steps, Connect
<1>1. TypeOK'
  BY DEF TypeOK
<1>2. OnePlace'
  BY DEF TypeOK, OnePlace, NoneInPort, NoneBusy, Aside
<1>3. Alive'
  BY DEF TypeOK, OnePlace, Alive, NoneInPort, NoneBusy, Aside
<1>4. Fresh'
  BY DEF TypeOK, Fresh, OnePlace, NoneInPort, NoneBusy, Aside
<1>5. ErasedAfterInserted'
  BY DEF TypeOK, Fresh, ErasedAfterInserted
<1>6. OneReceiver'
  BY SameReceivers DEF TypeOK, Handles
<1> QED
  BY <1>1, <1>2, <1>3, <1>4, <1>5, <1>6

LEMMA LeaveInv == ASSUME Inv, NEW c \in Clients, Leave(c) PROVE Inv'
<1> USE EnvironmentAssumption, NoneIsNoClient DEF Inv, Fates, Steps, Leave
<1>1. TypeOK'
  BY DEF TypeOK
<1>2. OnePlace'
  BY DEF TypeOK, OnePlace, NoneInPort, NoneBusy, Aside
<1>3. Alive'
  BY DEF TypeOK, OnePlace, Alive, NoneInPort, NoneBusy, Aside
<1>4. Fresh'
  BY DEF TypeOK, Fresh, OnePlace, NoneInPort, NoneBusy, Aside
<1>5. ErasedAfterInserted'
  BY DEF TypeOK, Fresh, ErasedAfterInserted
<1>6. OneReceiver'
  BY SameReceivers DEF TypeOK, Handles
<1> QED
  BY <1>1, <1>2, <1>3, <1>4, <1>5, <1>6

LEMMA CompleteAcceptInv == ASSUME Inv, NEW c \in Clients, CompleteAccept(c) PROVE Inv'
<1> USE EnvironmentAssumption, NoneIsNoClient DEF Inv, Fates, Steps, CompleteAccept
<1>0. PICK e \in Completions :
        /\ e = [kind |-> "accepted", client |-> c]
        /\ port' \in Seq(Completions) /\ Len(port) \in Nat /\ Len(port') = Len(port) + 1
        /\ \A i \in 1 .. Len(port) : port'[i] = port[i]
        /\ port'[Len(port) + 1] = e
  BY Arrives DEF TypeOK, Completions
<1>1. TypeOK'
  BY <1>0 DEF TypeOK, Completions
<1>2. OnePlace'
  <2>1. accepts = 1 /\ accepts' = 0 /\ NoneInPort /\ NoneBusy
    BY DEF OnePlace, TypeOK
  <2>2. NoneBusy' /\ (\A i \in 1 .. Len(port) : port'[i].kind \in Aside)
    BY <1>0, <2>1 DEF NoneInPort, NoneBusy, Aside
  <2>3. \A i, j \in 1 .. Len(port') : port'[i].kind \notin Aside /\ port'[j].kind \notin Aside => i = j
    BY <1>0, <2>2
  <2>4. told = 0 /\ told' = 0 /\ owner' \notin {"new", "opened"}
    BY <2>1 DEF OnePlace
  <2> QED
    BY <2>1, <2>2, <2>3, <2>4 DEF OnePlace, NoneBusy, Aside
<1>3. Alive'
  BY <1>0 DEF TypeOK, OnePlace, Alive, NoneInPort, NoneBusy, Aside
<1>4. Fresh'
  <2>1. /\ conn[c] = "none" /\ conn'[c] = "accepted"
        /\ \A d \in Clients : d # c => conn'[d] = conn[d]
        /\ UNCHANGED <<at, on, map>>
    BY DEF TypeOK
  <2>2. ASSUME NEW i \in 1 .. Len(port)
        PROVE  /\ port'[i].client # c \/ port'[i].kind \notin {"accepted", "received", "closed"}
               /\ port'[i] = port[i]
               /\ port'[i].client \in Clients \/ port'[i].kind \notin {"accepted", "received", "closed"}
    <3>1. port[i] \in Completions /\ port'[i] = port[i]
      BY <1>0, ElementOfSeq DEF TypeOK
    <3> QED
      BY <2>1, <3>1 DEF Fresh, Completions
  <2>3. ASSUME NEW w \in Workers, at[w] \in {"accepted", "recv", "received", "again", "closed"}
        PROVE  on[w] \in Clients /\ on[w] # c
    BY <2>1, <2>3 DEF Fresh, TypeOK
  <2>4. \A i \in 1 .. Len(port') : i \in 1 .. Len(port) \/ i = Len(port) + 1
    BY <1>0
  <2>5. /\ e.kind = "accepted" /\ e.client = c
    BY <1>0
  <2>6. \A i \in 1 .. Len(port') :
          /\ port'[i].kind = "accepted" => conn'[port'[i].client] = "accepted"
          /\ port'[i].kind = "received" => conn'[port'[i].client] = "received"
          /\ port'[i].kind = "closed" => conn'[port'[i].client] = "closing"
    BY <1>0, <2>1, <2>2, <2>4, <2>5 DEF Fresh
  <2>7. \A w \in Workers :
          /\ at'[w] \in {"accepted", "recv"} => conn'[on'[w]] = "accepted"
          /\ at'[w] = "recv" => on'[w] \in map'
          /\ at'[w] \in {"received", "again"} => conn'[on'[w]] = "received"
          /\ at'[w] = "closed" => conn'[on'[w]] = "closing"
    BY <2>1, <2>3 DEF Fresh
  <2> QED
    BY <2>6, <2>7 DEF Fresh
<1>5. ErasedAfterInserted'
  BY <1>0 DEF TypeOK, Fresh, ErasedAfterInserted
<1>6. OneReceiver'
  BY OtherArrives DEF TypeOK, Completions
<1> QED
  BY <1>1, <1>2, <1>3, <1>4, <1>5, <1>6

LEMMA FailAcceptInv == ASSUME Inv, NEW c \in Clients, FailAccept(c) PROVE Inv'
<1> USE EnvironmentAssumption, NoneIsNoClient DEF Inv, Fates, Steps, FailAccept
<1>0. PICK e \in Completions :
        /\ e = [kind |-> "failed", client |-> c]
        /\ port' \in Seq(Completions) /\ Len(port) \in Nat /\ Len(port') = Len(port) + 1
        /\ \A i \in 1 .. Len(port) : port'[i] = port[i]
        /\ port'[Len(port) + 1] = e
  BY Arrives DEF TypeOK, Completions
<1>1. TypeOK'
  BY <1>0 DEF TypeOK, Completions
<1>2. OnePlace'
  <2>1. accepts = 1 /\ accepts' = 0 /\ NoneInPort /\ NoneBusy
    BY DEF OnePlace, TypeOK
  <2>2. NoneBusy' /\ (\A i \in 1 .. Len(port) : port'[i].kind \in Aside)
    BY <1>0, <2>1 DEF NoneInPort, NoneBusy, Aside
  <2>3. \A i, j \in 1 .. Len(port') : port'[i].kind \notin Aside /\ port'[j].kind \notin Aside => i = j
    BY <1>0, <2>2
  <2>4. told = 0 /\ told' = 0 /\ owner' \notin {"new", "opened"}
    BY <2>1 DEF OnePlace
  <2> QED
    BY <2>1, <2>2, <2>3, <2>4 DEF OnePlace, NoneBusy, Aside
<1>3. Alive'
  BY <1>0 DEF TypeOK, OnePlace, Alive, NoneInPort, NoneBusy, Aside
<1>4. Fresh'
  BY <1>0 DEF TypeOK, Fresh, OnePlace, NoneInPort, NoneBusy, Aside
<1>5. ErasedAfterInserted'
  BY <1>0 DEF TypeOK, Fresh, ErasedAfterInserted
<1>6. OneReceiver'
  BY OtherArrives DEF TypeOK, Completions
<1> QED
  BY <1>1, <1>2, <1>3, <1>4, <1>5, <1>6

LEMMA CompleteDataInv == ASSUME Inv, NEW c \in Clients, CompleteData(c) PROVE Inv'
<1> USE EnvironmentAssumption, NoneIsNoClient DEF Inv, Fates, Steps, CompleteData
<1>0. PICK e \in Completions :
        /\ e = [kind |-> "received", client |-> c]
        /\ port' \in Seq(Completions) /\ Len(port) \in Nat /\ Len(port') = Len(port) + 1
        /\ \A i \in 1 .. Len(port) : port'[i] = port[i]
        /\ port'[Len(port) + 1] = e
  BY Arrives DEF TypeOK, Completions
<1>1. TypeOK'
  BY <1>0 DEF TypeOK, Completions
<1>2. OnePlace'
  BY <1>0 DEF TypeOK, OnePlace, NoneInPort, NoneBusy, Aside
<1>3. Alive'
  BY <1>0 DEF TypeOK, OnePlace, Alive, NoneInPort, NoneBusy, Aside
<1>4. Fresh'
  BY <1>0 DEF TypeOK, Fresh, OnePlace, NoneInPort, NoneBusy, Aside
<1>5. ErasedAfterInserted'
  BY <1>0 DEF TypeOK, Fresh, ErasedAfterInserted
<1>6. OneReceiver'
  BY ReceiveArrives
<1> QED
  BY <1>1, <1>2, <1>3, <1>4, <1>5, <1>6

LEMMA CompleteCloseInv == ASSUME Inv, NEW c \in Clients, CompleteClose(c) PROVE Inv'
<1> USE EnvironmentAssumption, NoneIsNoClient DEF Inv, Fates, Steps, CompleteClose
<1>0. PICK e \in Completions :
        /\ e = [kind |-> "closed", client |-> c]
        /\ port' \in Seq(Completions) /\ Len(port) \in Nat /\ Len(port') = Len(port) + 1
        /\ \A i \in 1 .. Len(port) : port'[i] = port[i]
        /\ port'[Len(port) + 1] = e
  BY Arrives DEF TypeOK, Completions
<1>1. TypeOK'
  BY <1>0 DEF TypeOK, Completions
<1>2. OnePlace'
  BY <1>0 DEF TypeOK, OnePlace, NoneInPort, NoneBusy, Aside
<1>3. Alive'
  BY <1>0 DEF TypeOK, OnePlace, Alive, NoneInPort, NoneBusy, Aside
<1>4. Fresh'
  BY <1>0 DEF TypeOK, Fresh, OnePlace, NoneInPort, NoneBusy, Aside
<1>5. ErasedAfterInserted'
  BY <1>0 DEF TypeOK, Fresh, ErasedAfterInserted
<1>6. OneReceiver'
  BY ReceiveArrives
<1> QED
  BY <1>1, <1>2, <1>3, <1>4, <1>5, <1>6

LEMMA CloseConnectionInv == ASSUME Inv, NEW c \in Clients, CloseConnection(c) PROVE Inv'
<1> USE EnvironmentAssumption, NoneIsNoClient DEF Inv, Fates, Steps, CloseConnection
<1>1. CASE conn[c] = "armed"
  <2>0. PICK e \in Completions :
          /\ e = [kind |-> "closed", client |-> c]
          /\ port' \in Seq(Completions) /\ Len(port) \in Nat /\ Len(port') = Len(port) + 1
          /\ \A i \in 1 .. Len(port) : port'[i] = port[i]
          /\ port'[Len(port) + 1] = e
    BY <1>1, Arrives DEF TypeOK, Completions
  <2>1. TypeOK'
    BY <1>1, <2>0 DEF TypeOK, Completions
  <2>2. OnePlace'
    <3>1. (NoneInPort' <=> NoneInPort) /\ (NoneBusy' <=> NoneBusy)
      BY <2>0 DEF NoneInPort, NoneBusy, Aside
    <3>2. \A i \in 1 .. Len(port') : port'[i].kind \notin Aside
                                    => i \in 1 .. Len(port) /\ port[i].kind \notin Aside
      BY <2>0 DEF Aside
    <3> QED
      BY <3>1, <3>2 DEF OnePlace
  <2>3. Alive'
    BY <1>1, <2>0 DEF TypeOK, OnePlace, Alive, NoneInPort, NoneBusy, Aside
  <2>4. Fresh'
    <3>1. /\ conn'[c] = "closing" /\ \A d \in Clients : d # c => conn'[d] = conn[d]
          /\ UNCHANGED <<map, at, on>>
      BY <1>1 DEF TypeOK
    <3>2. \A i \in 1 .. Len(port) : port[i] \in Completions
      BY LenProperties DEF TypeOK
    <3>3. \A i \in 1 .. Len(port') :
            /\ port'[i].kind = "accepted" => conn'[port'[i].client] = "accepted"
            /\ port'[i].kind = "received" => conn'[port'[i].client] = "received"
            /\ port'[i].kind = "closed" => conn'[port'[i].client] = "closing"
      BY <1>1, <2>0, <3>1, <3>2 DEF Fresh, Completions
    <3>4. \A w \in Workers :
            /\ at'[w] \in {"accepted", "recv"} => conn'[on'[w]] = "accepted"
            /\ at'[w] = "recv" => on'[w] \in map'
            /\ at'[w] \in {"received", "again"} => conn'[on'[w]] = "received"
            /\ at'[w] = "closed" => conn'[on'[w]] = "closing"
      BY <1>1, <3>1 DEF TypeOK, Fresh
    <3> QED
      BY <3>3, <3>4 DEF Fresh
  <2>5. ErasedAfterInserted'
    BY <1>1, <2>0 DEF TypeOK, Fresh, ErasedAfterInserted
  <2>6. OneReceiver'
    BY <1>1, ReceiveArrives
  <2> QED
    BY <2>1, <2>2, <2>3, <2>4, <2>5, <2>6
<1>2. CASE conn[c] # "armed"
  <2>1. UNCHANGED <<listener, owner, accepts, starved, port, peer, conn, map, at, on, told>>
    BY <1>2
  <2>2. TypeOK' /\ OnePlace' /\ Alive'
    BY <2>1 DEF TypeOK, OnePlace, Alive, NoneInPort, NoneBusy
  <2>3. OneReceiver' /\ Fresh' /\ ErasedAfterInserted'
    BY <2>1 DEF OneReceiver, Awaits, Handles, Fresh, ErasedAfterInserted
  <2> QED
    BY <2>2, <2>3
<1> QED
  BY <1>1, <1>2

LEMMA StarveInv == ASSUME Inv, Starve PROVE Inv'
<1> USE EnvironmentAssumption, NoneIsNoClient DEF Inv, Fates, Steps, Starve
<1>1. TypeOK'
  BY DEF TypeOK
<1>2. OnePlace'
  BY DEF TypeOK, OnePlace, NoneInPort, NoneBusy, Aside
<1>3. Alive'
  BY DEF TypeOK, OnePlace, Alive, NoneInPort, NoneBusy, Aside
<1>4. Fresh'
  BY DEF TypeOK, Fresh, OnePlace, NoneInPort, NoneBusy, Aside
<1>5. ErasedAfterInserted'
  BY DEF TypeOK, Fresh, ErasedAfterInserted
<1>6. OneReceiver'
  BY SameReceivers DEF TypeOK, Handles
<1> QED
  BY <1>1, <1>2, <1>3, <1>4, <1>5, <1>6

LEMMA NextInv == Inv /\ [Next]_vars => Inv'
<1> SUFFICES ASSUME Inv, [Next]_vars PROVE Inv'
  OBVIOUS
<1>1. ASSUME NEW w \in Workers, Handle(w) PROVE Inv'
  BY <1>1, OnAcceptedInv, FirstRecvInv, AcceptNextInv, OnFailedInv,
         OnReceivedInv, RecvAgainInv, OnClosedInv, DequeueInv
     DEF Handle
<1>2. ASSUME NEW c \in Clients, Connect(c) \/ Leave(c) \/ CloseConnection(c) \/ System(c)
      PROVE  Inv'
  BY <1>2, ConnectInv, LeaveInv, CompleteAcceptInv, FailAcceptInv,
         CompleteDataInv, CompleteCloseInv, CloseConnectionInv
     DEF System
<1>3. CASE Start \/ FirstAccept \/ CloseSocket \/ Invalidate \/ Starve
  BY <1>3, StartInv, FirstAcceptInv, CloseSocketInv, InvalidateInv, StarveInv
<1>4. CASE UNCHANGED vars
  BY <1>4 DEF vars, Inv, TypeOK, OnePlace, Alive, OneReceiver, Awaits, Handles, Fresh,
              ErasedAfterInserted, NoneInPort, NoneBusy, Aside
<1> QED
  BY <1>1, <1>2, <1>3, <1>4 DEF Next

LEMMA AlwaysInv == Spec => []Inv
BY InitInv, NextInv, PTL DEF Spec

\* The state of the server, its connections and its workers is well formed.
THEOREM TypeCorrect == Spec => []TypeOK
<1>1. Inv => TypeOK
  BY DEF Inv
<1> QED
  BY <1>1, AlwaysInv, PTL

\* Whatever worker handles the accept of a connection and whatever worker its
\* close (Service::insertConnection and eraseConnection): inserted before it is
\* erased, and then out of the map for good.
THEOREM InsertedFirst == Spec => []ErasedAfterInserted
<1>1. Inv => ErasedAfterInserted
  BY DEF Inv
<1> QED
  BY <1>1, AlwaysInv, PTL

-------------------------------------------------------------------------------
\* The places of the chain, counted
LEMMA AtMostOne ==
  ASSUME NEW S, \A x, y \in S : x = y
  PROVE  Cardinality(S) = IF S = {} THEN 0 ELSE 1
<1>1. CASE S = {}
  BY <1>1, FS_EmptySet
<1>2. ASSUME NEW x \in S PROVE Cardinality(S) = 1
  <2>1. S = {x}
    OBVIOUS
  <2> QED
    BY <2>1, FS_Singleton
<1> QED
  BY <1>1, <1>2

LEMMA ChainCounted ==
  ASSUME Inv
  PROVE  Chain = accepts + (IF NoneInPort THEN 0 ELSE 1) + (IF NoneBusy THEN 0 ELSE 1)
<1> DEFINE P == {i \in DOMAIN port : port[i].kind \notin Aside}
           B == {w \in Workers : at[w] \notin Aside}
<1>1. DOMAIN port = 1 .. Len(port)
  BY LenProperties DEF Inv, TypeOK
<1>2. /\ \A x, y \in P : x = y
      /\ P = {} <=> NoneInPort
  BY <1>1 DEF Inv, OnePlace, NoneInPort
<1>3. /\ \A x, y \in B : x = y
      /\ B = {} <=> NoneBusy
  BY DEF Inv, OnePlace, NoneBusy
<1>4. /\ Cardinality(P) = IF NoneInPort THEN 0 ELSE 1
      /\ Cardinality(B) = IF NoneBusy THEN 0 ELSE 1
  <2> HIDE DEF P, B
  <2> QED
    BY <1>2, <1>3, AtMostOne
<1> QED
  BY <1>4 DEF Chain

\* However the accepts, their failures and the close of the owner fall, on any
\* number of workers: never two accepts at a time, and one onClosed at most, the
\* last of all.
THEOREM OneAcceptAtATime == Spec => []OneAccept
<1>1. Inv => OneAccept
  BY ChainCounted DEF Inv, OnePlace, OneAccept
<1> QED
  BY <1>1, AlwaysInv, PTL

\* A server that listens accepts on, as long as there are sockets and no first
\* receive failed, for a reset or for a close in onAccepted - whatever else becomes of
\* the connections (AsyncServerSocket::onProcess and accept).
THEOREM ServerKeepsAccepting == Spec => []KeepsAccepting
<1>1. Inv => KeepsAccepting
  BY ChainCounted DEF Inv, OnePlace, Alive, KeepsAccepting
<1> QED
  BY <1>1, AlwaysInv, PTL

-------------------------------------------------------------------------------
\* An accept that completed, or is being handled, is of a connection that is new to
\* the map.
Newcomers ==
    /\ \A i \in 1 .. Len(port) : port[i].kind = "accepted" => port[i].client \notin map
    /\ \A w \in Workers : at[w] = "accepted" => on[w] \notin map

LEMMA InitNewcomers == Init => Newcomers
BY EmptySeq, LenProperties DEF Init, Newcomers

LEMMA NewcomersStep == Inv /\ Newcomers /\ [Next]_vars => Newcomers'
<1> SUFFICES ASSUME Inv, Newcomers, [Next]_vars PROVE Newcomers'
  OBVIOUS
<1>t. /\ TypeOK /\ port \in Seq(Completions)
      /\ at \in [Workers -> Steps]
      /\ on \in [Workers -> Clients \cup {None}]
  BY DEF Inv, TypeOK
<1>1. CASE Start \/ FirstAccept \/ Invalidate \/ Starve
  BY <1>1 DEF Start, FirstAccept, Invalidate, Starve, Newcomers
<1>2. CASE CloseSocket
  <2>1. UNCHANGED <<map, at, on>>
    BY <1>2 DEF CloseSocket
  <2>2. \/ port' = port
        \/ /\ Len(port) \in Nat /\ Len(port') = Len(port) + 1
           /\ \A i \in 1 .. Len(port) : port'[i] = port[i]
           /\ port'[Len(port) + 1] = [kind |-> "aborted", client |-> None]
    BY <1>2, <1>t, Arrives DEF CloseSocket, Completions
  <2> QED
    BY <2>1, <2>2 DEF Newcomers
<1>3. ASSUME NEW c \in Clients, Connect(c) \/ Leave(c) PROVE Newcomers'
  BY <1>3 DEF Connect, Leave, Newcomers
<1>4. ASSUME NEW c \in Clients, NEW k \in {"accepted", "failed", "received", "closed"},
             UNCHANGED <<map, at, on>>, port' = Append(port, [kind |-> k, client |-> c]),
             k = "accepted" => conn[c] = "none"
      PROVE  Newcomers'
  <2>1. k = "accepted" => c \notin map
    BY <1>4 DEF Inv, ErasedAfterInserted
  <2>2. /\ Len(port) \in Nat /\ Len(port') = Len(port) + 1
        /\ \A i \in 1 .. Len(port) : port'[i] = port[i]
        /\ port'[Len(port) + 1] = [kind |-> k, client |-> c]
    BY <1>4, <1>t, Arrives DEF Completions
  <2> QED
    BY <1>4, <2>1, <2>2 DEF Newcomers
<1>5. ASSUME NEW c \in Clients, System(c) PROVE Newcomers'
  BY <1>4, <1>5 DEF System, CompleteAccept, FailAccept, CompleteData, CompleteClose
<1>11. ASSUME NEW c \in Clients, CloseConnection(c) PROVE Newcomers'
  <2>1. CASE conn[c] = "armed"
    BY <1>4, <1>11, <2>1 DEF CloseConnection
  <2>2. CASE conn[c] # "armed"
    BY <1>11, <2>2 DEF CloseConnection, Newcomers
  <2> QED
    BY <2>1, <2>2
<1>6. ASSUME NEW w \in Workers, OnAccepted(w) PROVE Newcomers'
  <2>1. /\ at[w] = "accepted" /\ port' = port /\ map' = map \cup {on[w]}
        /\ \A v \in Workers : at'[v] = (IF v = w THEN "recv" ELSE at[v]) /\ on'[v] = on[v]
    BY <1>6, <1>t DEF OnAccepted, InsertConnection, Goto
  <2>2. NoneInPort /\ \A v \in Workers : v # w => at[v] \in Aside
    BY <2>1 DEF Inv, OnePlace, NoneBusy, Aside
  <2> QED
    BY <2>1, <2>2 DEF Newcomers, NoneInPort, Aside
<1>7. ASSUME NEW w \in Workers,
             FirstRecv(w) \/ AcceptNext(w) \/ OnFailed(w) \/ OnReceived(w) \/ RecvAgain(w)
      PROVE  Newcomers'
  <2>1. /\ port' = port /\ map' = map /\ at'[w] # "accepted"
        /\ \A v \in Workers : v # w => at'[v] = at[v] /\ on'[v] = on[v]
    BY <1>7, <1>t DEF FirstRecv, AcceptNext, OnFailed, OnReceived, RecvAgain, Goto
  <2> QED
    BY <2>1 DEF Newcomers
<1>8. ASSUME NEW w \in Workers, OnClosed(w) PROVE Newcomers'
  <2>1. /\ port' = port /\ map' \subseteq map /\ at'[w] # "accepted"
        /\ \A v \in Workers : v # w => at'[v] = at[v] /\ on'[v] = on[v]
    BY <1>8, <1>t DEF OnClosed, EraseConnection, Goto
  <2> QED
    BY <2>1 DEF Newcomers
<1>9. ASSUME NEW w \in Workers, Dequeue(w) PROVE Newcomers'
  <2>1. /\ map' = map /\ Len(port) \in Nat \ {0} /\ Len(port') = Len(port) - 1
        /\ \A i \in 1 .. Len(port') : port'[i] = port[i + 1]
        /\ Head(port) = port[1]
    BY <1>9, <1>t, Taken DEF Dequeue
  <2>2. \A v \in Workers : /\ at'[v] = IF v = w THEN port[1].kind ELSE at[v]
                           /\ on'[v] = IF v = w THEN port[1].client ELSE on[v]
    BY <1>9, <1>t, <2>1 DEF Dequeue, Goto
  <2> QED
    BY <2>1, <2>2 DEF Newcomers
<1>10. CASE UNCHANGED vars
  BY <1>10 DEF vars, Newcomers
<1> QED
  BY <1>1, <1>2, <1>3, <1>5, <1>6, <1>7, <1>8, <1>9, <1>10, <1>11 DEF Next, Handle

\* The one callback that runs is that of the worker that has the chain.
LEMMA CallOf ==
  ASSUME Inv, NEW w \in Workers, at[w] \in {"accepted", "aborted"}
  PROVE  Call = IF at[w] = "accepted" THEN "onAccepted" ELSE "onClosed"
BY DEF Inv, OnePlace, Call, Aside

LEMMA SameCall ==
  ASSUME \A w \in Workers : /\ at'[w] = "accepted" <=> at[w] = "accepted"
                            /\ at'[w] = "aborted" <=> at[w] = "aborted"
  PROVE  Call' = Call
BY DEF Call

LEMMA SameMembers ==
  ASSUME map' = map, \A c \in Clients : conn'[c] = "closed" <=> conn[c] = "closed"
  PROVE  \A c \in Clients : Member(c)' = Member(c)
BY DEF Member

LEMMA Stutters ==
  ASSUME Call' = Call, \A c \in Clients : Member(c)' = Member(c), told' = told
  PROVE  UNCHANGED Callbacks!vars
BY DEF Callbacks!vars

LEMMA RefinesStep ==
  ASSUME Inv, Newcomers, [Next]_vars
  PROVE  [Callbacks!Next]_(Callbacks!vars)
<1>t. /\ TypeOK /\ port \in Seq(Completions)
      /\ at \in [Workers -> Steps]
      /\ on \in [Workers -> Clients \cup {None}]
      /\ conn \in [Clients -> Fates]
      /\ map \subseteq Clients
  BY DEF Inv, TypeOK
<1>1. ASSUME UNCHANGED <<at, map, told>>,
             \A c \in Clients : conn'[c] = "closed" <=> conn[c] = "closed"
      PROVE  UNCHANGED Callbacks!vars
  <2>1. Call' = Call
    BY <1>1 DEF Call
  <2> QED
    BY <1>1, <2>1, SameMembers, Stutters
<1>2. CASE Start \/ FirstAccept \/ Invalidate \/ Starve \/ CloseSocket
  BY <1>1, <1>2 DEF Start, FirstAccept, Invalidate, Starve, CloseSocket
<1>3. ASSUME NEW c \in Clients, Connect(c) \/ Leave(c) \/ CloseConnection(c) \/ System(c)
      PROVE  UNCHANGED Callbacks!vars
  <2>1. UNCHANGED <<at, map, told>>
    BY <1>3 DEF Connect, Leave, CloseConnection, System, CompleteAccept, FailAccept,
                       CompleteData, CompleteClose
  <2>2. \A d \in Clients : conn'[d] = "closed" <=> conn[d] = "closed"
    BY <1>3, <1>t DEF Connect, Leave, CloseConnection, System, CompleteAccept, FailAccept,
                       CompleteData, CompleteClose
  <2> QED
    BY <1>1, <2>1, <2>2
<1>4. ASSUME NEW w \in Workers, OnAccepted(w) PROVE \E c \in Clients : Callbacks!Accepted(c)
  <2>0. PICK c : c = on[w]
    OBVIOUS
  <2>1. /\ at[w] = "accepted" /\ map' = map \cup {c} /\ UNCHANGED <<conn, told>>
        /\ \A v \in Workers : at'[v] = IF v = w THEN "recv" ELSE at[v]
    BY <2>0, <1>4, <1>t DEF OnAccepted, InsertConnection, Goto
  <2>2. c \in Clients
    BY <2>0, <2>1, <1>t DEF TypeOK
  <2>3. Call = "onAccepted"
    BY <2>1, CallOf
  <2>4. Call' = "none"
    <3>1. \A v \in Workers : v # w => at[v] \in Aside
      BY <2>1 DEF Inv, OnePlace, Aside
    <3> QED
      BY <2>1, <3>1 DEF Call, Aside
  <2>5. Member(c) = "new" /\ Member(c)' = "in"
    BY <2>0, <2>1 DEF Member, Newcomers, Inv, Fresh
  <2>6. \A d \in Clients : d # c => Member(d)' = Member(d)
    BY <2>1 DEF Member
  <2>7. [d \in Clients |-> Member(d)]' = [[d \in Clients |-> Member(d)] EXCEPT ![c] = "in"]
    BY <2>5, <2>6
  <2> QED
    BY <2>1, <2>2, <2>3, <2>4, <2>5, <2>7 DEF Callbacks!Accepted
<1>5. ASSUME NEW w \in Workers, FirstRecv(w) \/ AcceptNext(w) \/ OnReceived(w) \/ RecvAgain(w)
      PROVE  UNCHANGED Callbacks!vars
  <2>1. /\ UNCHANGED <<map, told>>
        /\ at[w] \in {"recv", "accept", "received", "again"}
        /\ at'[w] \in {"accept", "idle", "again", "closed"}
        /\ \A v \in Workers : v # w => at'[v] = at[v]
    BY <1>5, <1>t DEF FirstRecv, AcceptNext, OnReceived, RecvAgain, Goto
  <2>2. Call' = Call
    BY <2>1, SameCall
  <2>3. \A d \in Clients : conn'[d] = "closed" <=> conn[d] = "closed"
    BY <1>5, <1>t DEF FirstRecv, AcceptNext, OnReceived, RecvAgain, Armed, NotArmed, Inv, Fresh
  <2> QED
    BY <2>1, <2>2, <2>3, SameMembers, Stutters
<1>6. ASSUME NEW w \in Workers, OnFailed(w)
      PROVE  Callbacks!Closed \/ UNCHANGED Callbacks!vars
  <2>1. /\ UNCHANGED <<map, conn>> /\ at[w] \in {"aborted", "failed"}
        /\ told' = IF at[w] = "aborted" THEN told + 1 ELSE told
        /\ \A v \in Workers : at'[v] = IF v = w THEN "idle" ELSE at[v]
    BY <1>6, <1>t DEF OnFailed, Goto
  <2>2. \A c \in Clients : Member(c)' = Member(c)
    BY <2>1, SameMembers
  <2>3. CASE at[w] = "aborted"
    <3>1. \A v \in Workers : v # w => at[v] \in Aside
      BY <2>1 DEF Inv, OnePlace, Aside
    <3>2. Call = "onClosed" /\ Call' = "none"
      BY <2>1, <2>3, <3>1, CallOf DEF Call, Aside
    <3>3. [c \in Clients |-> Member(c)]' = [c \in Clients |-> Member(c)]
      BY <2>2
    <3> QED
      BY <2>1, <2>3, <3>2, <3>3 DEF Callbacks!Closed
  <2>4. CASE at[w] = "failed"
    <3>1. Call' = Call
      BY <2>1, <2>4, SameCall
    <3> QED
      BY <2>1, <2>2, <2>4, <3>1, Stutters
  <2> QED
    BY <2>1, <2>3, <2>4
<1>7. ASSUME NEW w \in Workers, OnClosed(w)
      PROVE  \E c \in Clients : Callbacks!Leave(c)
  <2>0. PICK c : c = on[w]
    OBVIOUS
  <2>1. /\ at[w] = "closed" /\ map' = map \ {c} /\ told' = told
        /\ conn' = [conn EXCEPT ![c] = "closed"]
        /\ \A v \in Workers : at'[v] = IF v = w THEN "idle" ELSE at[v]
    BY <2>0, <1>7, <1>t DEF OnClosed, EraseConnection, Goto
  <2>2. c \in Clients /\ conn[c] = "closing"
    BY <2>0, <2>1, <1>t DEF TypeOK, Inv, Fresh
  <2>3. Call' = Call
    BY <2>1, SameCall
  <2>4. \A d \in Clients : d # c => Member(d)' = Member(d)
    BY <2>1, <1>t DEF Member
  <2>5. Member(c) = "in" /\ Member(c)' = "gone"
    BY <2>1, <2>2, <1>t DEF Inv, ErasedAfterInserted, Member
  <2>6. [d \in Clients |-> Member(d)]' = [[d \in Clients |-> Member(d)] EXCEPT ![c] = "gone"]
    BY <2>4, <2>5
  <2> QED
    BY <2>1, <2>2, <2>3, <2>5, <2>6 DEF Callbacks!Leave
<1>8. ASSUME NEW w \in Workers, Dequeue(w)
      PROVE  \/ Callbacks!Call("onAccepted") \/ Callbacks!Call("onClosed")
             \/ UNCHANGED Callbacks!vars
  <2>0. PICK k : k = Head(port).kind
    OBVIOUS
  <2>1. /\ UNCHANGED <<map, conn, told>> /\ at[w] = "idle"
        /\ \A v \in Workers : at'[v] = IF v = w THEN k ELSE at[v]
        /\ 1 \in 1 .. Len(port) /\ k = port[1].kind
    BY <2>0, <1>8, <1>t, Taken DEF Dequeue, Goto
  <2>2. \A c \in Clients : Member(c)' = Member(c)
    BY <2>1, SameMembers
  <2>3. CASE k \in {"accepted", "aborted"}
    <3>1. NoneBusy /\ told = 0
      BY <2>1, <2>3 DEF Inv, OnePlace, NoneInPort, Aside
    <3>2. Call = "none"
      BY <3>1 DEF NoneBusy, Call, Aside
    <3>3. Call' = IF k = "accepted" THEN "onAccepted" ELSE "onClosed"
      BY <2>1, <2>3, <3>1 DEF NoneBusy, Call, Aside
    <3>4. [c \in Clients |-> Member(c)]' = [c \in Clients |-> Member(c)]
      BY <2>2
    <3> QED
      BY <2>1, <2>3, <3>1, <3>2, <3>3, <3>4 DEF Callbacks!Call
  <2>4. CASE k \notin {"accepted", "aborted"}
    <3>1. Call' = Call
      BY <2>1, <2>4, SameCall
    <3> QED
      BY <2>1, <2>2, <3>1, Stutters
  <2> QED
    BY <2>3, <2>4
<1>9. CASE UNCHANGED vars
  BY <1>1, <1>9 DEF vars
<1> QED
  BY <1>2, <1>3, <1>4, <1>5, <1>6, <1>7, <1>8, <1>9 DEF Next, Handle, Callbacks!Next

LEMMA RefinesInit == Init => Callbacks!Init
BY DEF Init, Call, Member, Callbacks!Init

\* Whatever the clients and the system do, however many workers handle it and whenever
\* the owner closes, the users of a server are called as ServerCallbacks says: one
\* call at a time (AsyncServerSocket::onProcess, onProcessFailed), a connection enters
\* the service in its onAccepted, once, and leaves it once, and nothing is accepted
\* after onClosed.
THEOREM Refines == Spec => ImplementsServerCallbacks
<1>1. Inv /\ Newcomers /\ [Next]_vars => [Callbacks!Next]_(Callbacks!vars)
  BY RefinesStep
<1>2. Spec => []Newcomers
  BY InitNewcomers, NewcomersStep, AlwaysInv, PTL DEF Spec
<1> QED
  BY <1>1, <1>2, RefinesInit, AlwaysInv, PTL DEF Spec, Callbacks!Spec, ImplementsServerCallbacks
===============================================================================
