--------------------------- MODULE AsyncSocketProofs ---------------------------
(***************************************************************************)
(* Theorems about AsyncSocket, for any number of workers and sends and any *)
(* calls of the users.                                                     *)
(***************************************************************************)
EXTENDS AsyncSocket, SequenceTheorems, FiniteSetTheorems, TLAPS

\* What carries the receive of an end, in the port and in the hands of a worker
Carries(c, s) == c.sock = s /\ c.kind \in {"connected", "data", "ended"}
HeldAt == {"connected", "data", "recv", "ended", "closed"}
HeldBy(s, w) == on[w] = s /\ at[w] \in HeldAt

NoneIn(p, s) == \A i \in 1 .. Len(p) : ~ Carries(p[i], s)
OneIn(p, s) == \A i, j \in 1 .. Len(p) : Carries(p[i], s) /\ Carries(p[j], s) => i = j
NoneHeld(s) == \A w \in Workers : ~ HeldBy(s, w)
OneHeld(s) == \A v, w \in Workers : HeldBy(s, v) /\ HeldBy(s, w) => v = w

Nowhere(s) == recvs[s] = 0 /\ NoneIn(port, s) /\ NoneHeld(s)

\* The receive of an end has one place at most: the system, a completion in the
\* port, or a worker.
OnePlace(s) ==
    /\ recvs[s] \in {0, 1}
    /\ recvs[s] = 1 => NoneIn(port, s) /\ NoneHeld(s)
    /\ NoneIn(port, s) \/ NoneHeld(s)
    /\ OneIn(port, s) /\ OneHeld(s)

\* It begins with the connection and ends with the handle closed, onClosed last.
Lifetime(s) ==
    /\ link # "up" => told[s] = 0 /\ Nowhere(s)
    /\ link = "up" /\ handle[s] = "open" => ~ Nowhere(s)
    /\ told[s] > 0 => told[s] = 1 /\ handle[s] = "closed" /\ Nowhere(s)

ClosedFirst == \A w \in Workers : at[w] = "closed" => handle[on[w]] = "closed"

Inv ==
    /\ TypeOK /\ ClosedFirst
    /\ \A s \in Ends : OnePlace(s)
    /\ \A s \in Ends : Lifetime(s)

LEMMA PeerIsOther ==
  ASSUME NEW s \in Ends PROVE Peer(s) \in Ends /\ Peer(s) # s /\ Ends = {s, Peer(s)}
<1>1. \E p \in Ends : p # s
  BY TwoEnds
<1>2. Peer(s) \in Ends /\ Peer(s) # s
  BY <1>1 DEF Peer
<1> QED
  BY <1>2, TwoEnds

LEMMA ClientIsEnd == Client \in Ends
<1>1. \E s \in Ends : TRUE
  BY TwoEnds
<1> QED
  BY <1>1 DEF Client

LEMMA InitInv == Init => Inv
<1> SUFFICES ASSUME Init PROVE Inv
  OBVIOUS
<1> USE ConnectionAssumption DEF Init
<1>1. <<>> \in Seq(Completions) /\ Len(<<>>) = 0
  BY EmptySeq, LenProperties
<1>2. (CHOOSE s \in Ends : TRUE) \in Ends
  BY ClientIsEnd DEF Client
<1>3. TypeOK
  BY <1>1, <1>2 DEF TypeOK, HandlerSteps
<1>4. ClosedFirst
  BY DEF ClosedFirst
<1>5. ASSUME NEW s \in Ends PROVE OnePlace(s) /\ Lifetime(s)
  BY <1>1 DEF OnePlace, Lifetime, Nowhere, NoneIn, OneIn, NoneHeld, OneHeld, HeldBy, HeldAt
<1> QED
  BY <1>3, <1>4, <1>5 DEF Inv

-------------------------------------------------------------------------------
\* What a completion that arrives at the port means to an end, ...
LEMMA Arrives ==
  ASSUME NEW p \in Seq(Completions), NEW c \in Completions, NEW e
  PROVE  /\ Append(p, c) \in Seq(Completions)
         /\ ~ Carries(c, e) => /\ NoneIn(Append(p, c), e) <=> NoneIn(p, e)
                               /\ OneIn(Append(p, c), e) <=> OneIn(p, e)
         /\ Carries(c, e) => /\ ~ NoneIn(Append(p, c), e)
                             /\ NoneIn(p, e) => OneIn(Append(p, c), e)
<1> DEFINE q == Append(p, c)
<1>1. /\ q \in Seq(Completions) /\ Len(p) \in Nat /\ Len(q) = Len(p) + 1
      /\ \A i \in 1 .. Len(p) : q[i] = p[i]
      /\ q[Len(p) + 1] = c
  BY AppendProperties, LenProperties
<1> HIDE DEF q
<1>2. ~ Carries(c, e) => (NoneIn(q, e) <=> NoneIn(p, e)) /\ (OneIn(q, e) <=> OneIn(p, e))
  BY <1>1 DEF NoneIn, OneIn
<1>3. Carries(c, e) => ~ NoneIn(q, e) /\ (NoneIn(p, e) => OneIn(q, e))
  BY <1>1 DEF NoneIn, OneIn
<1> QED
  BY <1>1, <1>2, <1>3 DEF q

\* ... and one that is taken from it
LEMMA Taken ==
  ASSUME NEW p \in Seq(Completions), p # <<>>, NEW e
  PROVE  /\ Tail(p) \in Seq(Completions) /\ Head(p) \in Completions
         /\ ~ Carries(Head(p), e) => NoneIn(Tail(p), e) <=> NoneIn(p, e)
         /\ OneIn(p, e) => OneIn(Tail(p), e)
         /\ Carries(Head(p), e) => ~ NoneIn(p, e) /\ (OneIn(p, e) => NoneIn(Tail(p), e))
<1> DEFINE q == Tail(p)
<1>1. /\ q \in Seq(Completions) /\ Len(p) \in Nat \ {0} /\ Len(q) = Len(p) - 1
      /\ \A i \in 1 .. Len(q) : q[i] = p[i + 1]
      /\ Head(p) \in Completions /\ Head(p) = p[1]
  BY HeadTailProperties, LenProperties, EmptySeq
<1> HIDE DEF q
<1>2. OneIn(p, e) => OneIn(q, e)
  BY <1>1 DEF OneIn
<1>3. ASSUME ~ Carries(Head(p), e) PROVE NoneIn(q, e) <=> NoneIn(p, e)
  <2>1. ASSUME NoneIn(q, e), NEW i \in 1 .. Len(p) PROVE ~ Carries(p[i], e)
    <3>1. CASE i = 1
      BY <1>1, <1>3, <3>1
    <3>2. CASE i # 1
      <4>1. i - 1 \in 1 .. Len(q) /\ q[i - 1] = p[i]
        BY <1>1, <3>2
      <4> QED
        BY <2>1, <4>1 DEF NoneIn
    <3> QED
      BY <3>1, <3>2
  <2>2. NoneIn(p, e) => NoneIn(q, e)
    BY <1>1 DEF NoneIn
  <2> QED
    BY <2>1, <2>2 DEF NoneIn
<1>4. Carries(Head(p), e) => ~ NoneIn(p, e) /\ (OneIn(p, e) => NoneIn(q, e))
  BY <1>1 DEF NoneIn, OneIn
<1> QED
  BY <1>1, <1>2, <1>3, <1>4 DEF q

LEMMA CompletionType ==
  ASSUME NEW k \in Kinds, NEW s \in Ends
  PROVE  /\ Completion(k, s) \in Completions
         /\ \A e : Carries(Completion(k, s), e) <=> e = s /\ k \in {"connected", "data", "ended"}
BY DEF Completion, Completions, Carries

\* What a close does to the receive of its end: one that the system holds ends,
\* and one that is elsewhere goes on.
LEMMA CloseMoves ==
  ASSUME TypeOK, NEW s \in Ends, Close(s)
  PROVE  /\ handle' \in [Ends -> {"open", "closed"}] /\ recvs' \in [Ends -> Nat]
         /\ reset' \in [Ends -> BOOLEAN] /\ port' \in Seq(Completions)
         /\ \A e \in Ends : handle'[e] = IF e = s THEN "closed" ELSE handle[e]
         /\ \A e \in Ends : recvs'[e] = IF e = s THEN 0 ELSE recvs[e]
         /\ port' = IF recvs[s] > 0 THEN Append(port, Completion("ended", s)) ELSE port
<1> USE DEF Close, TypeOK
<1>1. CASE handle[s] = "closed"
  BY <1>1
<1>2. CASE handle[s] # "closed"
  <2>1. PICK b \in BOOLEAN : b = (reset[Peer(s)] \/ inbox[s] > 0)
    OBVIOUS
  <2>2. reset' = [reset EXCEPT ![Peer(s)] = b]
    BY <1>2, <2>1
  <2>3. reset' \in [Ends -> BOOLEAN]
    BY <2>2, PeerIsOther
  <2>4. "ended" \in Kinds
    BY DEF Kinds
  <2>5. port' = IF recvs[s] > 0 THEN Append(port, Completion("ended", s)) ELSE port
    BY <1>2
  <2>6. port' \in Seq(Completions)
    <3>1. Completion("ended", s) \in Completions /\ port \in Seq(Completions)
      BY <2>4, CompletionType
    <3> QED
      BY <2>5, <3>1, Arrives
  <2>7. handle' = [handle EXCEPT ![s] = "closed"] /\ recvs' = [recvs EXCEPT ![s] = 0]
    BY <1>2
  <2>8. /\ handle' \in [Ends -> {"open", "closed"}]
        /\ \A e \in Ends : handle'[e] = IF e = s THEN "closed" ELSE handle[e]
    BY <2>7
  <2>9. /\ recvs' \in [Ends -> Nat]
        /\ \A e \in Ends : recvs'[e] = IF e = s THEN 0 ELSE recvs[e]
    BY <2>7
  <2> QED
    BY <2>3, <2>5, <2>6, <2>8, <2>9
<1> QED
  BY <1>1, <1>2

\* Whether an end's receive stays where it is
Unmoved(e) ==
    /\ recvs'[e] = recvs[e]
    /\ NoneIn(port', e) <=> NoneIn(port, e)
    /\ OneIn(port, e) => OneIn(port', e)
    /\ \A w \in Workers : on'[w] = e /\ at'[w] \in HeldAt <=> on[w] = e /\ at[w] \in HeldAt

LEMMA UnmovedKeeps ==
  ASSUME Inv, NEW e \in Ends, Unmoved(e), told'[e] = told[e],
         handle'[e] \in {handle[e], "closed"}, link' = "up" <=> link = "up"
  PROVE  OnePlace(e)' /\ Lifetime(e)'
<1>1. (NoneHeld(e)' <=> NoneHeld(e)) /\ (OneHeld(e)' <=> OneHeld(e))
  BY DEF Unmoved, NoneHeld, OneHeld, HeldBy
<1>2. OnePlace(e) /\ Lifetime(e)
  BY DEF Inv
<1> QED
  BY <1>1, <1>2 DEF OnePlace, Lifetime, Nowhere, Unmoved

\* A close by anyone who does not let go of a receive
LEMMA CloseKeeps ==
  ASSUME Inv, NEW s \in Ends, Close(s), UNCHANGED <<told, on>>, link' = "up" <=> link = "up",
         \A w \in Workers : at'[w] \in HeldAt <=> at[w] \in HeldAt,
         NEW e \in Ends
  PROVE  OnePlace(e)' /\ Lifetime(e)'
<1>1. TypeOK
  BY DEF Inv
<1>2. /\ \A d \in Ends : handle'[d] = IF d = s THEN "closed" ELSE handle[d]
      /\ \A d \in Ends : recvs'[d] = IF d = s THEN 0 ELSE recvs[d]
      /\ port' = IF recvs[s] > 0 THEN Append(port, Completion("ended", s)) ELSE port
  BY <1>1, CloseMoves
<1>3. port \in Seq(Completions) /\ "ended" \in Kinds /\ recvs[s] \in Nat
  BY <1>1 DEF TypeOK, Kinds
<1>4. CASE e # s \/ recvs[s] = 0
  <2>1. (NoneIn(port', e) <=> NoneIn(port, e)) /\ (OneIn(port, e) => OneIn(port', e))
    BY <1>2, <1>3, <1>4, CompletionType, Arrives
  <2>2. Unmoved(e)
    BY <1>2, <1>4, <2>1 DEF Unmoved
  <2> QED
    BY <1>2, <2>2, UnmovedKeeps
<1>5. CASE e = s /\ recvs[s] > 0
  <2>1. OnePlace(s) /\ Lifetime(s) /\ NoneIn(port, s) /\ NoneHeld(s)
    BY <1>5 DEF Inv, OnePlace
  <2>2. ~ NoneIn(port', s) /\ OneIn(port', s)
    BY <1>2, <1>3, <1>5, <2>1, CompletionType, Arrives
  <2>3. NoneHeld(s)' /\ OneHeld(s)'
    BY <2>1 DEF NoneHeld, OneHeld, HeldBy
  <2>4. recvs'[s] = 0 /\ handle'[s] = "closed" /\ told'[s] = told[s]
    BY <1>2
  <2> QED
    BY <1>5, <2>1, <2>2, <2>3, <2>4 DEF OnePlace, Lifetime, Nowhere
<1> QED
  BY <1>3, <1>4, <1>5

\* A step that moves no receive and closes nothing
LEMMA NothingMoves ==
  ASSUME Inv, UNCHANGED <<recvs, port, told, on, handle>>, link' = "up" <=> link = "up",
         \A w \in Workers : at'[w] \in HeldAt <=> at[w] \in HeldAt,
         NEW e \in Ends
  PROVE  OnePlace(e)' /\ Lifetime(e)'
<1>1. Unmoved(e)
  BY DEF Unmoved
<1> QED
  BY <1>1, UnmovedKeeps

-------------------------------------------------------------------------------
LEMMA OnConnectedInv == ASSUME Inv, NEW w \in Workers, OnConnected(w) PROVE Inv'
<1> USE ConnectionAssumption DEF OnConnected, Goto
<1>1. TypeOK'
  BY DEF Inv, TypeOK, HandlerSteps, Kinds
<1>2. ClosedFirst'
  BY DEF Inv, TypeOK, ClosedFirst
<1>3. ASSUME NEW e \in Ends PROVE OnePlace(e)' /\ Lifetime(e)'
  <2>1. \A v \in Workers : at'[v] \in HeldAt <=> at[v] \in HeldAt
    BY DEF Inv, TypeOK, HeldAt
  <2> QED
    BY <2>1, NothingMoves
<1> QED
  BY <1>1, <1>2, <1>3 DEF Inv

LEMMA OnConnectFailedInv == ASSUME Inv, NEW w \in Workers, OnConnectFailed(w) PROVE Inv'
<1> USE ConnectionAssumption DEF OnConnectFailed, Goto
<1>1. TypeOK'
  BY DEF Inv, TypeOK, HandlerSteps, Kinds
<1>2. ClosedFirst'
  BY DEF Inv, TypeOK, ClosedFirst
<1>3. ASSUME NEW e \in Ends PROVE OnePlace(e)' /\ Lifetime(e)'
  <2>1. \A v \in Workers : at'[v] \in HeldAt <=> at[v] \in HeldAt
    BY DEF Inv, TypeOK, HeldAt
  <2> QED
    BY <2>1, NothingMoves
<1> QED
  BY <1>1, <1>2, <1>3 DEF Inv

LEMMA OnReceivedInv == ASSUME Inv, NEW w \in Workers, OnReceived(w) PROVE Inv'
<1> USE ConnectionAssumption DEF OnReceived, Goto
<1>1. TypeOK'
  BY DEF Inv, TypeOK, HandlerSteps, Kinds
<1>2. ClosedFirst'
  BY DEF Inv, TypeOK, ClosedFirst
<1>3. ASSUME NEW e \in Ends PROVE OnePlace(e)' /\ Lifetime(e)'
  <2>1. \A v \in Workers : at'[v] \in HeldAt <=> at[v] \in HeldAt
    BY DEF Inv, TypeOK, HeldAt
  <2> QED
    BY <2>1, NothingMoves
<1> QED
  BY <1>1, <1>2, <1>3 DEF Inv

LEMMA RecvInv == ASSUME Inv, NEW w \in Workers, Recv(w) PROVE Inv'
<1> USE ConnectionAssumption DEF Recv, Goto
<1>0. /\ on[w] \in Ends
      /\ Close(on[w]) =>
           /\ handle' \in [Ends -> {"open", "closed"}] /\ recvs' \in [Ends -> Nat]
           /\ reset' \in [Ends -> BOOLEAN] /\ port' \in Seq(Completions)
           /\ \A e \in Ends : handle'[e] = IF e = on[w] THEN "closed" ELSE handle[e]
           /\ \A e \in Ends : recvs'[e] = IF e = on[w] THEN 0 ELSE recvs[e]
           /\ port' = IF recvs[on[w]] > 0 THEN Append(port, Completion("ended", on[w])) ELSE port
  <2>1. on[w] \in Ends /\ TypeOK
    BY DEF Inv, TypeOK
  <2> QED
    BY <2>1, CloseMoves
<1>1. TypeOK'
  <2>1. at' \in [Workers -> HandlerSteps] /\ on' \in [Workers -> Ends]
    BY DEF Inv, TypeOK, HandlerSteps
  <2>2. CASE Close(on[w])
    BY <1>0, <2>1, <2>2 DEF Inv, TypeOK
  <2>3. CASE handle[on[w]] = "open" /\ recvs' = [recvs EXCEPT ![on[w]] = @ + 1]
             /\ UNCHANGED <<handle, reset, port>>
    <3>1. recvs' \in [Ends -> Nat]
      BY <2>3 DEF Inv, TypeOK
    <3>2. \A s \in Ends : handle'[s] = "closed" => recvs'[s] = 0
      BY <1>0, <2>3 DEF Inv, TypeOK
    <3> QED
      BY <2>1, <2>3, <3>1, <3>2 DEF Inv, TypeOK
  <2> QED
    BY <2>2, <2>3
<1>2. ClosedFirst'
  BY <1>0 DEF Inv, TypeOK, ClosedFirst
<1>3. ASSUME NEW e \in Ends PROVE OnePlace(e)' /\ Lifetime(e)'
  <2>1. /\ HeldBy(on[w], w) /\ ~ NoneHeld(on[w])
        /\ \A v \in Workers : at'[v] = IF v = w THEN "idle" ELSE at[v]
        /\ UNCHANGED <<link, told, on>>
    BY DEF Inv, TypeOK, HeldBy, HeldAt, NoneHeld
  <2>2. /\ OnePlace(on[w]) /\ Lifetime(on[w])
        /\ recvs[on[w]] = 0 /\ NoneIn(port, on[w]) /\ told[on[w]] = 0 /\ link = "up"
    BY <1>0, <2>1 DEF Inv, TypeOK, OnePlace, Lifetime, Nowhere
  <2>3. port' = port
    BY <1>0, <2>2
  <2>4. CASE e # on[w]
    <3>1. recvs'[e] = recvs[e] /\ handle'[e] = handle[e]
      BY <1>0, <2>4 DEF Inv, TypeOK
    <3>2. Unmoved(e)
      BY <2>1, <2>3, <2>4, <3>1 DEF Unmoved
    <3> QED
      BY <2>1, <3>1, <3>2, UnmovedKeeps
  <2>5. CASE e = on[w]
    <3>1. NoneHeld(e)' /\ OneHeld(e)'
      BY <2>1, <2>2, <2>5 DEF OnePlace, OneHeld, NoneHeld, HeldBy, HeldAt
    <3>2. OneIn(port, e)
      BY <2>2, <2>5 DEF OnePlace
    <3>3. recvs'[e] = 1 \/ (recvs'[e] = 0 /\ handle'[e] = "closed")
      BY <1>0, <2>2, <2>5 DEF Inv, TypeOK
    <3> QED
      BY <2>1, <2>2, <2>3, <2>5, <3>1, <3>2, <3>3 DEF OnePlace, Lifetime, Nowhere
  <2> QED
    BY <2>4, <2>5
<1> QED
  BY <1>1, <1>2, <1>3 DEF Inv

LEMMA RaiseCloseInv == ASSUME Inv, NEW w \in Workers, RaiseClose(w) PROVE Inv'
<1> USE ConnectionAssumption DEF RaiseClose, Goto
<1>0. /\ on[w] \in Ends
      /\ Close(on[w]) =>
           /\ handle' \in [Ends -> {"open", "closed"}] /\ recvs' \in [Ends -> Nat]
           /\ reset' \in [Ends -> BOOLEAN] /\ port' \in Seq(Completions)
           /\ \A e \in Ends : handle'[e] = IF e = on[w] THEN "closed" ELSE handle[e]
           /\ \A e \in Ends : recvs'[e] = IF e = on[w] THEN 0 ELSE recvs[e]
           /\ port' = IF recvs[on[w]] > 0 THEN Append(port, Completion("ended", on[w])) ELSE port
  <2>1. on[w] \in Ends /\ TypeOK
    BY DEF Inv, TypeOK
  <2> QED
    BY <2>1, CloseMoves
<1>1. TypeOK'
  BY <1>0, PeerIsOther DEF Inv, TypeOK, HandlerSteps, Kinds
<1>2. ClosedFirst'
  BY <1>0 DEF Inv, TypeOK, ClosedFirst
<1>3. ASSUME NEW e \in Ends PROVE OnePlace(e)' /\ Lifetime(e)'
  <2>1. \A v \in Workers : at'[v] \in HeldAt <=> at[v] \in HeldAt
    BY DEF Inv, TypeOK, HeldAt
  <2> QED
    BY <1>0, <2>1, CloseKeeps
<1> QED
  BY <1>1, <1>2, <1>3 DEF Inv

LEMMA OnClosedInv == ASSUME Inv, NEW w \in Workers, OnClosed(w) PROVE Inv'
<1> USE ConnectionAssumption DEF OnClosed, Goto
<1>1. TypeOK'
  BY DEF Inv, TypeOK, HandlerSteps, Kinds
<1>2. ClosedFirst'
  BY DEF Inv, TypeOK, ClosedFirst
<1>3. ASSUME NEW e \in Ends PROVE OnePlace(e)' /\ Lifetime(e)'
  <2>1. /\ on[w] \in Ends /\ handle[on[w]] = "closed"
        /\ HeldBy(on[w], w) /\ ~ NoneHeld(on[w])
        /\ \A v \in Workers : at'[v] = IF v = w THEN "idle" ELSE at[v]
        /\ \A d \in Ends : told'[d] = IF d = on[w] THEN told[d] + 1 ELSE told[d]
        /\ UNCHANGED <<link, recvs, port, handle, on>>
    BY DEF Inv, TypeOK, ClosedFirst, HeldBy, HeldAt, NoneHeld
  <2>2. /\ OnePlace(on[w]) /\ Lifetime(on[w])
        /\ recvs[on[w]] = 0 /\ NoneIn(port, on[w]) /\ told[on[w]] = 0 /\ link = "up"
    BY <2>1 DEF Inv, TypeOK, OnePlace, Lifetime, Nowhere
  <2>3. CASE e # on[w]
    <3>1. Unmoved(e)
      BY <2>1, <2>3 DEF Unmoved
    <3> QED
      BY <2>1, <2>3, <3>1, UnmovedKeeps
  <2>4. CASE e = on[w]
    <3>1. NoneHeld(e)' /\ OneHeld(e)'
      BY <2>1, <2>2, <2>4 DEF OnePlace, OneHeld, NoneHeld, HeldBy, HeldAt
    <3>2. told'[e] = 1
      BY <2>1, <2>2, <2>4
    <3> QED
      BY <2>1, <2>2, <2>4, <3>1, <3>2 DEF OnePlace, Lifetime, Nowhere
  <2> QED
    BY <2>3, <2>4
<1> QED
  BY <1>1, <1>2, <1>3 DEF Inv

LEMMA OnSendInv == ASSUME Inv, NEW w \in Workers, OnSend(w) PROVE Inv'
<1> USE ConnectionAssumption DEF OnSend, Goto
<1>0. /\ on[w] \in Ends
      /\ Close(on[w]) =>
           /\ handle' \in [Ends -> {"open", "closed"}] /\ recvs' \in [Ends -> Nat]
           /\ reset' \in [Ends -> BOOLEAN] /\ port' \in Seq(Completions)
           /\ \A e \in Ends : handle'[e] = IF e = on[w] THEN "closed" ELSE handle[e]
           /\ \A e \in Ends : recvs'[e] = IF e = on[w] THEN 0 ELSE recvs[e]
           /\ port' = IF recvs[on[w]] > 0 THEN Append(port, Completion("ended", on[w])) ELSE port
  <2>1. on[w] \in Ends /\ TypeOK
    BY DEF Inv, TypeOK
  <2> QED
    BY <2>1, CloseMoves
<1>1. TypeOK'
  BY <1>0, PeerIsOther DEF Inv, TypeOK, HandlerSteps, Kinds
<1>2. ClosedFirst'
  BY <1>0 DEF Inv, TypeOK, ClosedFirst
<1>3. ASSUME NEW e \in Ends PROVE OnePlace(e)' /\ Lifetime(e)'
  <2>1. \A v \in Workers : at'[v] \in HeldAt <=> at[v] \in HeldAt
    BY DEF Inv, TypeOK, HeldAt
  <2>2. CASE Close(on[w])
    BY <1>0, <2>1, <2>2, CloseKeeps
  <2>3. CASE UNCHANGED <<handle, recvs, reset, port>>
    BY <2>1, <2>3, NothingMoves
  <2> QED
    BY <2>2, <2>3
<1> QED
  BY <1>1, <1>2, <1>3 DEF Inv

LEMMA DequeueInv == ASSUME Inv, NEW w \in Workers, Dequeue(w) PROVE Inv'
<1> USE ConnectionAssumption DEF Dequeue
<1>1. PICK c \in Completions : c = Head(port) /\ c.kind \in Kinds /\ c.sock \in Ends
  <2>1. Head(port) \in Completions
    BY Taken DEF Inv, TypeOK
  <2> QED
    BY <2>1 DEF Completions
<1>2. /\ at' = [at EXCEPT ![w] = c.kind] /\ on' = [on EXCEPT ![w] = c.sock]
      /\ \A v \in Workers : /\ at'[v] = IF v = w THEN c.kind ELSE at[v]
                            /\ on'[v] = IF v = w THEN c.sock ELSE on[v]
      /\ at[w] = "idle" /\ port' = Tail(port) /\ port # <<>> /\ port \in Seq(Completions)
      /\ UNCHANGED <<link, handle, recvs, told>>
  BY <1>1 DEF Inv, TypeOK
<1>3. TypeOK'
  <2>1. port' \in Seq(Completions)
    BY <1>2, Taken
  <2>2. at' \in [Workers -> HandlerSteps] /\ on' \in [Workers -> Ends]
    BY <1>1, <1>2 DEF Inv, TypeOK, HandlerSteps
  <2> QED
    BY <2>1, <2>2 DEF Inv, TypeOK
<1>4. ClosedFirst'
  BY <1>1, <1>2 DEF Inv, ClosedFirst, Kinds
<1>5. ASSUME NEW e \in Ends PROVE OnePlace(e)' /\ Lifetime(e)'
  <2>1. \A v \in Workers : v # w => (HeldBy(e, v)' <=> HeldBy(e, v))
    BY <1>2 DEF HeldBy
  <2>2. ~ HeldBy(e, w) /\ (HeldBy(e, w)' <=> Carries(c, e))
    BY <1>1, <1>2 DEF HeldBy, HeldAt, Carries, Kinds
  <2>3. CASE ~ Carries(c, e)
    <3>1. (NoneIn(port', e) <=> NoneIn(port, e)) /\ (OneIn(port, e) => OneIn(port', e))
      BY <1>1, <1>2, <2>3, Taken
    <3>2. Unmoved(e)
      BY <1>2, <2>1, <2>2, <2>3, <3>1 DEF Unmoved, HeldBy
    <3> QED
      BY <1>2, <3>2, UnmovedKeeps
  <2>4. CASE Carries(c, e)
    <3>1. OnePlace(e) /\ Lifetime(e)
      BY DEF Inv
    <3>2. ~ NoneIn(port, e) /\ NoneIn(port', e) /\ OneIn(port', e)
      BY <1>1, <1>2, <2>4, <3>1, Taken DEF OnePlace
    <3>3. NoneHeld(e) /\ recvs[e] = 0
      BY <3>1, <3>2 DEF OnePlace
    <3>4. OneHeld(e)' /\ ~ NoneHeld(e)'
      BY <2>1, <2>2, <2>4, <3>3 DEF OneHeld, NoneHeld
    <3> QED
      BY <1>2, <3>1, <3>2, <3>3, <3>4 DEF OnePlace, Lifetime, Nowhere
  <2> QED
    BY <2>3, <2>4
<1> QED
  BY <1>3, <1>4, <1>5 DEF Inv

LEMMA BindInv == ASSUME Inv, Bind PROVE Inv'
<1> USE ConnectionAssumption DEF Bind
<1>0. /\ Client \in Ends
      /\ Close(Client) =>
           /\ handle' \in [Ends -> {"open", "closed"}] /\ recvs' \in [Ends -> Nat]
           /\ reset' \in [Ends -> BOOLEAN] /\ port' \in Seq(Completions)
           /\ \A e \in Ends : handle'[e] = IF e = Client THEN "closed" ELSE handle[e]
           /\ \A e \in Ends : recvs'[e] = IF e = Client THEN 0 ELSE recvs[e]
           /\ port' = IF recvs[Client] > 0 THEN Append(port, Completion("ended", Client)) ELSE port
  <2>1. Client \in Ends /\ TypeOK
    BY ClientIsEnd DEF Inv, TypeOK
  <2> QED
    BY <2>1, CloseMoves
<1>1. TypeOK'
  BY <1>0, PeerIsOther DEF Inv, TypeOK, HandlerSteps, Kinds
<1>2. ClosedFirst'
  BY <1>0 DEF Inv, TypeOK, ClosedFirst
<1>3. ASSUME NEW e \in Ends PROVE OnePlace(e)' /\ Lifetime(e)'
  <2>1. CASE Close(Client)
    BY <1>0, <2>1, CloseKeeps
  <2>2. CASE UNCHANGED <<handle, recvs, reset, port>>
    BY <2>2, NothingMoves
  <2> QED
    BY <2>1, <2>2
<1> QED
  BY <1>1, <1>2, <1>3 DEF Inv

LEMMA ConnectInv == ASSUME Inv, Connect PROVE Inv'
<1> USE ConnectionAssumption DEF Connect
<1>1. TypeOK'
  BY DEF Inv, TypeOK, HandlerSteps, Kinds
<1>2. ClosedFirst'
  BY DEF Inv, TypeOK, ClosedFirst
<1>3. ASSUME NEW e \in Ends PROVE OnePlace(e)' /\ Lifetime(e)'
  <2>1. \A v \in Workers : at'[v] \in HeldAt <=> at[v] \in HeldAt
    BY DEF Inv, TypeOK, HeldAt
  <2> QED
    BY <2>1, NothingMoves
<1> QED
  BY <1>1, <1>2, <1>3 DEF Inv

LEMMA EstablishedInOrder ==
  ASSUME port \in Seq(Completions), NEW s \in Ends,
         port' = port \o <<Completion("connected", s), Completion("connected", Peer(s))>>
  PROVE  /\ Completion("connected", s) \in Completions
         /\ Completion("connected", Peer(s)) \in Completions
         /\ port' = Append(Append(port, Completion("connected", s)), Completion("connected", Peer(s)))
<1>1. PICK c \in Completions, d \in Completions :
        c = Completion("connected", s) /\ d = Completion("connected", Peer(s))
  <2>1. "connected" \in Kinds /\ Peer(s) \in Ends
    BY PeerIsOther DEF Kinds
  <2> QED
    BY <2>1, CompletionType
<1>2. /\ <<c>> \in Seq(Completions) /\ <<d>> \in Seq(Completions)
      /\ Append(port, c) = port \o <<c>> /\ Append(port, c) \in Seq(Completions)
  BY AppendIsConcat, AppendProperties
<1>3. <<c>> \o <<d>> = <<c, d>>
  <2>1. <<c, d>> = Append(<<c>>, d)
    OBVIOUS
  <2> QED
    BY <1>2, <2>1, AppendIsConcat
<1>4. Append(Append(port, c), d) = (port \o <<c>>) \o <<d>>
  BY <1>2, AppendIsConcat
<1>5. (port \o <<c>>) \o <<d>> = port \o (<<c>> \o <<d>>)
  BY <1>2, ConcatAssociative
<1> QED
  BY <1>1, <1>2, <1>3, <1>4, <1>5

LEMMA EstablishInv == ASSUME Inv, Establish PROVE Inv'
<1> USE ConnectionAssumption DEF Establish
<1>0. PICK s \in Ends :
        port' = port \o <<Completion("connected", s), Completion("connected", Peer(s))>>
  OBVIOUS
<1>1. PICK c \in Completions, d \in Completions :
        /\ c = Completion("connected", s) /\ d = Completion("connected", Peer(s))
        /\ \A e : Carries(c, e) <=> e = s
        /\ \A e : Carries(d, e) <=> e = Peer(s)
  <2>1. "connected" \in Kinds /\ Peer(s) \in Ends
    BY PeerIsOther DEF Kinds
  <2> QED
    BY <2>1, CompletionType
<1>2. port \in Seq(Completions)
  BY DEF Inv, TypeOK
<1>3. port' = Append(Append(port, c), d)
  BY <1>0, <1>1, <1>2, EstablishedInOrder
<1>4. Append(port, c) \in Seq(Completions) /\ port' \in Seq(Completions)
  BY <1>2, <1>3, Arrives
<1>5. TypeOK'
  BY <1>4 DEF Inv, TypeOK
<1>6. ClosedFirst'
  BY DEF Inv, ClosedFirst
<1>7. ASSUME NEW e \in Ends PROVE OnePlace(e)' /\ Lifetime(e)'
  <2>1. OnePlace(e) /\ told[e] = 0 /\ recvs[e] = 0 /\ NoneIn(port, e) /\ NoneHeld(e)
    BY DEF Inv, Lifetime, Nowhere
  <2>2. NoneHeld(e)' /\ OneHeld(e)'
    BY <2>1 DEF NoneHeld, OneHeld, HeldBy
  <2>3. CASE e = s
    <3>1. ~ NoneIn(Append(port, c), e) /\ OneIn(Append(port, c), e)
      BY <1>1, <1>2, <2>1, <2>3, Arrives
    <3>2. ~ NoneIn(port', e) /\ OneIn(port', e)
      BY <1>1, <1>3, <1>4, <2>3, <3>1, PeerIsOther, Arrives
    <3> QED
      BY <2>1, <2>2, <3>2 DEF OnePlace, Lifetime, Nowhere
  <2>4. CASE e = Peer(s)
    <3>1. NoneIn(Append(port, c), e)
      BY <1>1, <1>2, <2>1, <2>4, PeerIsOther, Arrives
    <3>2. ~ NoneIn(port', e) /\ OneIn(port', e)
      BY <1>1, <1>3, <1>4, <2>4, <3>1, Arrives
    <3> QED
      BY <2>1, <2>2, <3>2 DEF OnePlace, Lifetime, Nowhere
  <2> QED
    BY <2>3, <2>4, PeerIsOther
<1> QED
  BY <1>5, <1>6, <1>7 DEF Inv

LEMMA RefuseInv == ASSUME Inv, Refuse PROVE Inv'
<1> USE ConnectionAssumption DEF Refuse, Complete
<1>0. /\ port' \in Seq(Completions) /\ port \in Seq(Completions)
      /\ port' = Append(port, Completion("refused", Client))
      /\ Completion("refused", Client) \in Completions
      /\ \A e : Carries(Completion("refused", Client), e) <=> e = Client /\ FALSE
  <2>1. port \in Seq(Completions) /\ "refused" \in Kinds /\ Client \in Ends
    BY ClientIsEnd DEF Inv, TypeOK, Kinds
  <2> QED
    BY <2>1, CompletionType, Arrives
<1>1. TypeOK'
  BY <1>0, PeerIsOther DEF Inv, TypeOK, HandlerSteps, Kinds
<1>2. ClosedFirst'
  BY <1>0 DEF Inv, TypeOK, ClosedFirst
<1>3. ASSUME NEW e \in Ends PROVE OnePlace(e)' /\ Lifetime(e)'
  <2>1. Unmoved(e)
    BY <1>0, Arrives DEF Unmoved
  <2> QED
    BY <2>1, UnmovedKeeps
<1> QED
  BY <1>1, <1>2, <1>3 DEF Inv

LEMMA CallCloseInv == ASSUME Inv, NEW s \in Ends, CallClose(s) PROVE Inv'
<1> USE ConnectionAssumption DEF CallClose
<1>0. /\ s \in Ends
      /\ Close(s) =>
           /\ handle' \in [Ends -> {"open", "closed"}] /\ recvs' \in [Ends -> Nat]
           /\ reset' \in [Ends -> BOOLEAN] /\ port' \in Seq(Completions)
           /\ \A e \in Ends : handle'[e] = IF e = s THEN "closed" ELSE handle[e]
           /\ \A e \in Ends : recvs'[e] = IF e = s THEN 0 ELSE recvs[e]
           /\ port' = IF recvs[s] > 0 THEN Append(port, Completion("ended", s)) ELSE port
  <2>1. s \in Ends /\ TypeOK
    BY DEF Inv, TypeOK
  <2> QED
    BY <2>1, CloseMoves
<1>1. TypeOK'
  BY <1>0, PeerIsOther DEF Inv, TypeOK, HandlerSteps, Kinds
<1>2. ClosedFirst'
  BY <1>0 DEF Inv, TypeOK, ClosedFirst
<1>3. ASSUME NEW e \in Ends PROVE OnePlace(e)' /\ Lifetime(e)'
  <2>1. \A v \in Workers : at'[v] \in HeldAt <=> at[v] \in HeldAt
    BY DEF Inv, TypeOK, HeldAt
  <2> QED
    BY <2>1, CloseKeeps DEF Usable
<1> QED
  BY <1>1, <1>2, <1>3 DEF Inv

LEMMA DisconnectInv == ASSUME Inv, NEW s \in Ends, Disconnect(s) PROVE Inv'
<1> USE ConnectionAssumption DEF Disconnect
<1>0. /\ s \in Ends
      /\ Close(s) =>
           /\ handle' \in [Ends -> {"open", "closed"}] /\ recvs' \in [Ends -> Nat]
           /\ reset' \in [Ends -> BOOLEAN] /\ port' \in Seq(Completions)
           /\ \A e \in Ends : handle'[e] = IF e = s THEN "closed" ELSE handle[e]
           /\ \A e \in Ends : recvs'[e] = IF e = s THEN 0 ELSE recvs[e]
           /\ port' = IF recvs[s] > 0 THEN Append(port, Completion("ended", s)) ELSE port
  <2>1. s \in Ends /\ TypeOK
    BY DEF Inv, TypeOK
  <2> QED
    BY <2>1, CloseMoves
<1>1. TypeOK'
  BY <1>0, PeerIsOther DEF Inv, TypeOK, HandlerSteps, Kinds
<1>2. ClosedFirst'
  BY <1>0 DEF Inv, TypeOK, ClosedFirst
<1>3. ASSUME NEW e \in Ends PROVE OnePlace(e)' /\ Lifetime(e)'
  <2>1. CASE Close(s)
    BY <1>0, <2>1, CloseKeeps
  <2>2. CASE UNCHANGED <<handle, recvs, reset, port>>
    BY <2>2, NothingMoves
  <2> QED
    BY <2>1, <2>2
<1> QED
  BY <1>1, <1>2, <1>3 DEF Inv

LEMMA SendInv == ASSUME Inv, NEW s \in Ends, Send(s) PROVE Inv'
<1> USE ConnectionAssumption DEF Send
<1>1. TypeOK'
  BY DEF Inv, TypeOK, HandlerSteps, Kinds
<1>2. ClosedFirst'
  BY DEF Inv, TypeOK, ClosedFirst
<1>3. ASSUME NEW e \in Ends PROVE OnePlace(e)' /\ Lifetime(e)'
  <2>1. \A v \in Workers : at'[v] \in HeldAt <=> at[v] \in HeldAt
    BY DEF Inv, TypeOK, HeldAt
  <2> QED
    BY <2>1, NothingMoves
<1> QED
  BY <1>1, <1>2, <1>3 DEF Inv

LEMMA CompleteSendInv == ASSUME Inv, NEW s \in Ends, CompleteSend(s) PROVE Inv'
<1> USE ConnectionAssumption DEF CompleteSend, Complete
<1>0. PICK k \in {"sent", "sendfailed"} : port' = Append(port, Completion(k, s))
  OBVIOUS
<1>1. /\ port \in Seq(Completions) /\ Completion(k, s) \in Completions
      /\ \A e : ~ Carries(Completion(k, s), e)
  <2>1. k \in Kinds /\ port \in Seq(Completions)
    BY DEF Inv, TypeOK, Kinds
  <2> QED
    BY <2>1, CompletionType
<1>2. TypeOK'
  <2>1. port' \in Seq(Completions)
    BY <1>0, <1>1, Arrives
  <2>2. reset' \in [Ends -> BOOLEAN]
    BY DEF Inv, TypeOK
  <2>3. inbox' \in [Ends -> Nat]
    <3>1. inbox' = inbox \/ inbox' = [inbox EXCEPT ![Peer(s)] = @ + 1]
      OBVIOUS
    <3>2. inbox \in [Ends -> Nat] /\ Peer(s) \in Ends
      BY PeerIsOther DEF Inv, TypeOK
    <3> QED
      BY ONLY <3>1, <3>2
  <2>4. sending' \in [Ends -> Nat]
    BY DEF Inv, TypeOK
  <2> QED
    BY <2>1, <2>2, <2>3, <2>4 DEF Inv, TypeOK
<1>3. ClosedFirst'
  BY DEF Inv, ClosedFirst
<1>4. ASSUME NEW e \in Ends PROVE OnePlace(e)' /\ Lifetime(e)'
  <2>1. Unmoved(e)
    BY <1>0, <1>1, Arrives DEF Unmoved
  <2> QED
    BY <2>1, UnmovedKeeps
<1> QED
  BY <1>2, <1>3, <1>4 DEF Inv

LEMMA CompleteReceiveInv == ASSUME Inv, NEW s \in Ends, CompleteReceive(s) PROVE Inv'
<1> USE ConnectionAssumption DEF CompleteReceive, Complete
<1>0. /\ port' \in Seq(Completions) /\ port \in Seq(Completions)
      /\ port' = Append(port, Completion("data", s))
      /\ Completion("data", s) \in Completions
      /\ \A e : Carries(Completion("data", s), e) <=> e = s
  <2>1. port \in Seq(Completions) /\ "data" \in Kinds /\ s \in Ends
    BY DEF Inv, TypeOK, Kinds
  <2> QED
    BY <2>1, CompletionType, Arrives
<1>1. TypeOK'
  BY <1>0, PeerIsOther DEF Inv, TypeOK, HandlerSteps, Kinds
<1>2. ClosedFirst'
  BY <1>0 DEF Inv, TypeOK, ClosedFirst
<1>3. ASSUME NEW e \in Ends PROVE OnePlace(e)' /\ Lifetime(e)'
  <2>1. /\ \A d \in Ends : recvs'[d] = IF d = s THEN recvs[d] - 1 ELSE recvs[d]
        /\ UNCHANGED <<link, handle, told, at, on>>
    BY DEF Inv, TypeOK
  <2>2. CASE e # s
    <3>1. Unmoved(e)
      BY <1>0, <2>1, <2>2, Arrives DEF Unmoved
    <3> QED
      BY <2>1, <3>1, UnmovedKeeps
  <2>3. CASE e = s
    <3>1. /\ OnePlace(s) /\ Lifetime(s) /\ recvs[s] = 1 /\ recvs'[s] = 0
          /\ NoneIn(port, s) /\ NoneHeld(s)
      BY <2>1 DEF Inv, OnePlace
    <3>2. ~ NoneIn(port', s) /\ OneIn(port', s)
      BY <1>0, <3>1, Arrives
    <3>3. NoneHeld(s)' /\ OneHeld(s)'
      BY <2>1, <3>1 DEF NoneHeld, OneHeld, HeldBy
    <3> QED
      BY <2>1, <2>3, <3>1, <3>2, <3>3 DEF OnePlace, Lifetime, Nowhere
  <2> QED
    BY <2>2, <2>3
<1> QED
  BY <1>1, <1>2, <1>3 DEF Inv

LEMMA EndReceiveInv == ASSUME Inv, NEW s \in Ends, EndReceive(s) PROVE Inv'
<1> USE ConnectionAssumption DEF EndReceive, Complete
<1>0. /\ port' \in Seq(Completions) /\ port \in Seq(Completions)
      /\ port' = Append(port, Completion("ended", s))
      /\ Completion("ended", s) \in Completions
      /\ \A e : Carries(Completion("ended", s), e) <=> e = s
  <2>1. port \in Seq(Completions) /\ "ended" \in Kinds /\ s \in Ends
    BY DEF Inv, TypeOK, Kinds
  <2> QED
    BY <2>1, CompletionType, Arrives
<1>1. TypeOK'
  BY <1>0, PeerIsOther DEF Inv, TypeOK, HandlerSteps, Kinds
<1>2. ClosedFirst'
  BY <1>0 DEF Inv, TypeOK, ClosedFirst
<1>3. ASSUME NEW e \in Ends PROVE OnePlace(e)' /\ Lifetime(e)'
  <2>1. /\ \A d \in Ends : recvs'[d] = IF d = s THEN recvs[d] - 1 ELSE recvs[d]
        /\ UNCHANGED <<link, handle, told, at, on>>
    BY DEF Inv, TypeOK
  <2>2. CASE e # s
    <3>1. Unmoved(e)
      BY <1>0, <2>1, <2>2, Arrives DEF Unmoved
    <3> QED
      BY <2>1, <3>1, UnmovedKeeps
  <2>3. CASE e = s
    <3>1. /\ OnePlace(s) /\ Lifetime(s) /\ recvs[s] = 1 /\ recvs'[s] = 0
          /\ NoneIn(port, s) /\ NoneHeld(s)
      BY <2>1 DEF Inv, OnePlace
    <3>2. ~ NoneIn(port', s) /\ OneIn(port', s)
      BY <1>0, <3>1, Arrives
    <3>3. NoneHeld(s)' /\ OneHeld(s)'
      BY <2>1, <3>1 DEF NoneHeld, OneHeld, HeldBy
    <3> QED
      BY <2>1, <2>3, <3>1, <3>2, <3>3 DEF OnePlace, Lifetime, Nowhere
  <2> QED
    BY <2>2, <2>3
<1> QED
  BY <1>1, <1>2, <1>3 DEF Inv

LEMMA ResetInv == ASSUME Inv, NEW s \in Ends, Reset(s) PROVE Inv'
<1> USE ConnectionAssumption DEF Reset
<1>1. TypeOK'
  BY DEF Inv, TypeOK, HandlerSteps, Kinds
<1>2. ClosedFirst'
  BY DEF Inv, TypeOK, ClosedFirst
<1>3. ASSUME NEW e \in Ends PROVE OnePlace(e)' /\ Lifetime(e)'
  <2>1. \A v \in Workers : at'[v] \in HeldAt <=> at[v] \in HeldAt
    BY DEF Inv, TypeOK, HeldAt
  <2> QED
    BY <2>1, NothingMoves
<1> QED
  BY <1>1, <1>2, <1>3 DEF Inv

LEMMA NextInv == Inv /\ [Next]_vars => Inv'
<1> SUFFICES ASSUME Inv, [Next]_vars PROVE Inv'
  OBVIOUS
<1>1. ASSUME NEW w \in Workers, Handle(w) PROVE Inv'
  BY <1>1, OnConnectedInv, OnConnectFailedInv, OnReceivedInv, RecvInv, RaiseCloseInv, OnClosedInv,
     OnSendInv, DequeueInv DEF Handle
<1>2. ASSUME NEW s \in Ends, CallClose(s) \/ Disconnect(s) \/ Send(s) \/ System(s) \/ Reset(s)
      PROVE  Inv'
  BY <1>2, CallCloseInv, DisconnectInv, SendInv, CompleteSendInv, CompleteReceiveInv,
     EndReceiveInv, ResetInv DEF System
<1>3. CASE Bind \/ Connect \/ Establish \/ Refuse
  BY <1>3, BindInv, ConnectInv, EstablishInv, RefuseInv
<1>4. CASE UNCHANGED vars
  <2>1. TypeOK' /\ ClosedFirst'
    BY <1>4 DEF vars, Inv, TypeOK, ClosedFirst
  <2>2. ASSUME NEW e \in Ends PROVE OnePlace(e)' /\ Lifetime(e)'
    BY <1>4, NothingMoves DEF vars
  <2> QED
    BY <2>1, <2>2 DEF Inv
<1> QED
  BY <1>1, <1>2, <1>3, <1>4 DEF Next

LEMMA AlwaysInv == Spec => []Inv
BY InitInv, NextInv, PTL DEF Spec

\* The state of the connection, its operations and their handlers is well formed.
THEOREM TypeCorrect == Spec => []TypeOK
<1>1. Inv => TypeOK
  BY DEF Inv
<1> QED
  BY <1>1, AlwaysInv, PTL

-------------------------------------------------------------------------------
\* The places of a receive, counted
LEMMA AtMostOne ==
  ASSUME NEW S, \A x, y \in S : x = y
  PROVE  Cardinality(S) = IF S = {} THEN 0 ELSE 1
<1>1. CASE S = {}
  BY <1>1, FS_EmptySet
<1>2. ASSUME NEW x \in S PROVE Cardinality(S) = 1
  <2>1. S = {x}
    OBVIOUS
  <2> QED
    BY <2>1, FS_Singleton
<1> QED
  BY <1>1, <1>2

LEMMA ReceivesCounted ==
  ASSUME Inv, NEW s \in Ends
  PROVE  Receives(s) = IF Nowhere(s) THEN 0 ELSE 1
<1> DEFINE P == {i \in DOMAIN port : /\ port[i].sock = s
                                    /\ port[i].kind \in {"connected", "data", "ended"}}
           H == {w \in Workers : /\ on[w] = s
                                 /\ at[w] \in {"connected", "data", "recv", "ended", "closed"}}
<1>1. DOMAIN port = 1 .. Len(port)
  BY LenProperties DEF Inv, TypeOK
<1>2. /\ \A x, y \in P : x = y
      /\ P = {} <=> NoneIn(port, s)
  BY <1>1 DEF Inv, OnePlace, NoneIn, OneIn, Carries
<1>3. /\ \A x, y \in H : x = y
      /\ H = {} <=> NoneHeld(s)
  BY DEF Inv, OnePlace, NoneHeld, OneHeld, HeldBy, HeldAt
<1>4. /\ Cardinality(P) = IF NoneIn(port, s) THEN 0 ELSE 1
      /\ Cardinality(H) = IF NoneHeld(s) THEN 0 ELSE 1
  <2> HIDE DEF P, H
  <2> QED
    BY <1>2, <1>3, AtMostOne
<1>5. Receives(s) = recvs[s] + Cardinality(P) + Cardinality(H)
  BY DEF Receives
<1> HIDE DEF P, H
<1> QED
  BY <1>4, <1>5 DEF Inv, OnePlace, Nowhere

\* However many workers handle the completions of a socket, and whoever closes it
\* when (AsyncSocket::recv, close and the handlers): there is one receive at a
\* time, so that its callbacks never overlap.
THEOREM OneReceiveAtATime == Spec => []OneReceive
<1>1. Inv => OneReceive
  BY ReceivesCounted DEF OneReceive
<1> QED
  BY <1>1, AlwaysInv, PTL

\* onClosed (AsyncSocket::raiseCloseEvent) comes once at most, with the handle
\* closed, and no other callback of the receives after it.
THEOREM OnClosedComesLast == Spec => []ClosedIsLast
<1>1. Inv => ClosedIsLast
  BY ReceivesCounted DEF Inv, Lifetime, ClosedIsLast
<1> QED
  BY <1>1, AlwaysInv, PTL

\* A connected socket that is open has its receive, with the system or on its way
\* (AsyncSocket::recv closes the socket if it cannot arm it).
THEOREM OpenIsNeverDeaf == Spec => []NeverDeaf
<1>1. Inv => NeverDeaf
  BY ReceivesCounted DEF Inv, Lifetime, NeverDeaf
<1> QED
  BY <1>1, AlwaysInv, PTL

-------------------------------------------------------------------------------
\* Where a completion is in the port
Absent(p, c) == \A i \in 1 .. Len(p) : p[i] # c
Once(p, c) == \A i, j \in 1 .. Len(p) : p[i] = c /\ p[j] = c => i = j

\* A connection that is refused is refused once, to the end that connects.
Refusal ==
    /\ \A s \in Ends : \/ link = "refused" /\ s = Client
                       \/ Absent(port, Completion("refused", s)) /\ ~ In(s, "refused")
    /\ \A s \in Ends : /\ Once(port, Completion("refused", s))
                       /\ Absent(port, Completion("refused", s)) \/ ~ In(s, "refused")
    /\ \A v, w \in Workers : at[v] = "refused" /\ at[w] = "refused" => v = w

LEMMA AbsentArrives ==
  ASSUME NEW p \in Seq(Completions), NEW d \in Completions, NEW c
  PROVE  /\ d # c => /\ Absent(Append(p, d), c) <=> Absent(p, c)
                     /\ Once(p, c) => Once(Append(p, d), c)
         /\ d = c => /\ ~ Absent(Append(p, d), c)
                     /\ Absent(p, c) => Once(Append(p, d), c)
<1> DEFINE q == Append(p, d)
<1>1. /\ Len(p) \in Nat /\ Len(q) = Len(p) + 1
      /\ \A i \in 1 .. Len(p) : q[i] = p[i]
      /\ q[Len(p) + 1] = d
  BY AppendProperties, LenProperties
<1> HIDE DEF q
<1>2. d # c => (Absent(q, c) <=> Absent(p, c)) /\ (Once(p, c) => Once(q, c))
  BY <1>1 DEF Absent, Once
<1>3. d = c => ~ Absent(q, c) /\ (Absent(p, c) => Once(q, c))
  BY <1>1 DEF Absent, Once
<1> QED
  BY <1>2, <1>3 DEF q

LEMMA AbsentTaken ==
  ASSUME NEW p \in Seq(Completions), p # <<>>, NEW c
  PROVE  /\ Head(p) # c => (Absent(Tail(p), c) <=> Absent(p, c))
         /\ Once(p, c) => Once(Tail(p), c)
         /\ Head(p) = c => ~ Absent(p, c) /\ (Once(p, c) => Absent(Tail(p), c))
<1> DEFINE q == Tail(p)
<1>1. /\ Len(p) \in Nat \ {0} /\ Len(q) = Len(p) - 1
      /\ \A i \in 1 .. Len(q) : q[i] = p[i + 1]
      /\ Head(p) = p[1]
  BY HeadTailProperties, LenProperties, EmptySeq
<1> HIDE DEF q
<1>2. Once(p, c) => Once(q, c)
  BY <1>1 DEF Once
<1>3. ASSUME Head(p) # c PROVE Absent(q, c) <=> Absent(p, c)
  <2>1. ASSUME Absent(q, c), NEW i \in 1 .. Len(p) PROVE p[i] # c
    <3>1. CASE i = 1
      BY <1>1, <1>3, <3>1
    <3>2. CASE i # 1
      <4>1. i - 1 \in 1 .. Len(q) /\ q[i - 1] = p[i]
        BY <1>1, <3>2
      <4> QED
        BY <2>1, <4>1 DEF Absent
    <3> QED
      BY <3>1, <3>2
  <2>2. Absent(p, c) => Absent(q, c)
    BY <1>1 DEF Absent
  <2> QED
    BY <2>1, <2>2 DEF Absent
<1>4. Head(p) = c => ~ Absent(p, c) /\ (Once(p, c) => Absent(q, c))
  BY <1>1 DEF Absent, Once
<1> QED
  BY <1>2, <1>3, <1>4 DEF q

LEMMA DueAbsent ==
  ASSUME port \in Seq(Completions), port' \in Seq(Completions), NEW k, NEW s
  PROVE  /\ Due(k, s) <=> ~ Absent(port, Completion(k, s))
         /\ Due(k, s)' <=> ~ Absent(port', Completion(k, s))
<1>1. DOMAIN port = 1 .. Len(port) /\ DOMAIN port' = 1 .. Len(port')
  BY LenProperties
<1> QED
  BY <1>1 DEF Due, Absent

\* A step that tells the ends neither of a connection nor of a refusal
Quiet ==
    /\ \/ port' = port
       \/ \E c \in Completions : c.kind \notin {"connected", "refused"} /\ port' = Append(port, c)
    /\ link' = "refused" <=> link = "refused"
    /\ link' = "up" <=> link = "up"
    /\ on' = on
    /\ \A w \in Workers : at'[w] = "refused" => at[w] = "refused"

LEMMA CloseIsQuiet ==
  ASSUME TypeOK, NEW s \in Ends, Close(s)
  PROVE  \/ port' = port
         \/ \E c \in Completions : c.kind \notin {"connected", "refused"} /\ port' = Append(port, c)
<1>1. "ended" \in Kinds
  BY DEF Kinds
<1>2. Completion("ended", s) \in Completions /\ Completion("ended", s).kind = "ended"
  BY <1>1, CompletionType DEF Completion
<1>3. port' = port \/ port' = Append(port, Completion("ended", s))
  BY CloseMoves
<1> QED
  BY <1>2, <1>3

LEMMA HandlersAreQuiet ==
  ASSUME Inv, NEW w \in Workers, Handle(w), ~ Dequeue(w)
  PROVE  Quiet
<1>t. TypeOK /\ at \in [Workers -> HandlerSteps] /\ on[w] \in Ends
  BY DEF Inv, TypeOK
<1>1. CASE OnConnected(w) \/ OnConnectFailed(w) \/ OnReceived(w) \/ OnClosed(w)
  BY <1>1, <1>t DEF OnConnected, OnConnectFailed, OnReceived, OnClosed, Goto, Quiet
<1>2. CASE Recv(w) \/ RaiseClose(w) \/ OnSend(w)
  <2>1. port' = port \/ Close(on[w])
    BY <1>2 DEF Recv, RaiseClose, OnSend
  <2>2. /\ link' = link /\ on' = on
        /\ \A v \in Workers : at'[v] = "refused" => at[v] = "refused"
    BY <1>2, <1>t DEF Recv, RaiseClose, OnSend, Goto
  <2> QED
    BY <1>t, <2>1, <2>2, CloseIsQuiet DEF Quiet
<1> QED
  BY <1>1, <1>2 DEF Handle

LEMMA CallsAreQuiet ==
  ASSUME Inv, \/ Bind \/ Connect
              \/ \E s \in Ends : CallClose(s) \/ Disconnect(s) \/ Send(s) \/ Reset(s)
  PROVE  Quiet
<1>1. PICK s \in Ends : port' = port \/ Close(s)
  BY ClientIsEnd DEF Bind, Connect, CallClose, Disconnect, Send, Reset
<1>2. /\ link' = "refused" <=> link = "refused"
      /\ link' = "up" <=> link = "up"
      /\ UNCHANGED <<at, on>>
  BY DEF Bind, Connect, CallClose, Disconnect, Send, Reset
<1> QED
  BY <1>1, <1>2, CloseIsQuiet DEF Quiet, Inv

LEMMA SystemIsQuiet ==
  ASSUME Inv, NEW s \in Ends, System(s)
  PROVE  Quiet
<1>1. PICK k \in {"sent", "sendfailed", "data", "ended"} : port' = Append(port, Completion(k, s))
  BY DEF System, CompleteSend, CompleteReceive, EndReceive, Complete
<1>2. Completion(k, s) \in Completions /\ Completion(k, s).kind = k
  <2>1. k \in Kinds
    BY DEF Kinds
  <2> QED
    BY <2>1, CompletionType DEF Completion
<1>3. UNCHANGED <<link, at, on>>
  BY DEF System, CompleteSend, CompleteReceive, EndReceive
<1> QED
  BY <1>1, <1>2, <1>3 DEF Quiet

LEMMA QuietDue ==
  ASSUME Inv, Quiet, NEW k \in {"connected", "refused"}, NEW s \in Ends
  PROVE  /\ Absent(port', Completion(k, s)) <=> Absent(port, Completion(k, s))
         /\ Once(port, Completion(k, s)) => Once(port', Completion(k, s))
<1>1. port \in Seq(Completions) /\ Completion(k, s).kind = k
  BY DEF Inv, TypeOK, Completion
<1>2. CASE port' = port
  BY <1>2
<1>3. CASE port' # port
  <2>1. PICK c \in Completions : c.kind \notin {"connected", "refused"} /\ port' = Append(port, c)
    BY <1>3 DEF Quiet
  <2>2. c # Completion(k, s)
    BY <1>1, <2>1
  <2> QED
    BY <1>1, <2>1, <2>2, AbsentArrives
<1> QED
  BY <1>2, <1>3

LEMMA InitRefusal == Init => Refusal
<1> SUFFICES ASSUME Init PROVE Refusal
  OBVIOUS
<1>1. Len(port) = 0
  BY EmptySeq DEF Init
<1> QED
  BY <1>1 DEF Init, Refusal, Absent, Once, In

\* What is taken from the port, and who has it then
LEMMA DequeueMoves ==
  ASSUME Inv, NEW w \in Workers, Dequeue(w)
  PROVE  \E c \in Completions :
           /\ c = Head(port) /\ c.kind \in Kinds /\ c.sock \in Ends
           /\ c = Completion(c.kind, c.sock)
           /\ at[w] = "idle" /\ port \in Seq(Completions) /\ port # <<>> /\ port' = Tail(port)
           /\ \A v \in Workers : /\ at'[v] = IF v = w THEN c.kind ELSE at[v]
                                 /\ on'[v] = IF v = w THEN c.sock ELSE on[v]
           /\ UNCHANGED <<link, told>>
<1>1. port \in Seq(Completions) /\ port # <<>> /\ port' = Tail(port)
  BY DEF Inv, TypeOK, Dequeue
<1>2. PICK c \in Completions : c = Head(port)
  BY <1>1, Taken
<1>3. c.kind \in Kinds /\ c.sock \in Ends /\ c = Completion(c.kind, c.sock)
  BY DEF Completions, Completion
<1>4. /\ at[w] = "idle" /\ UNCHANGED <<link, told>>
      /\ \A v \in Workers : /\ at'[v] = IF v = w THEN c.kind ELSE at[v]
                            /\ on'[v] = IF v = w THEN c.sock ELSE on[v]
  BY <1>2 DEF Dequeue, Inv, TypeOK
<1> QED
  BY <1>1, <1>2, <1>3, <1>4

LEMMA RefusalStep ==
  ASSUME Inv, Refusal, [Next]_vars
  PROVE  Refusal'
<1>t. port \in Seq(Completions)
  BY DEF Inv, TypeOK
<1>1. ASSUME Quiet PROVE Refusal'
  <2>1. \A s \in Ends : In(s, "refused")' => In(s, "refused")
    BY <1>1 DEF Quiet, In
  <2>2. \A s \in Ends :
          /\ Absent(port', Completion("refused", s)) <=> Absent(port, Completion("refused", s))
          /\ Once(port, Completion("refused", s)) => Once(port', Completion("refused", s))
    BY <1>1, QuietDue
  <2> QED
    BY <1>1, <2>1, <2>2 DEF Refusal, Quiet
<1>2. CASE Refuse
  <2>1. /\ port' = Append(port, Completion("refused", Client)) /\ link # "refused"
        /\ link' = "refused" /\ UNCHANGED <<at, on>>
    BY <1>2 DEF Refuse, Complete
  <2>2. Completion("refused", Client) \in Completions /\ Client \in Ends
    BY CompletionType, ClientIsEnd DEF Kinds
  <2>3. \A s \in Ends : Absent(port, Completion("refused", s)) /\ ~ In(s, "refused")
    BY <2>1 DEF Refusal
  <2>4. ASSUME NEW s \in Ends, s # Client
        PROVE  Absent(port', Completion("refused", s)) /\ Once(port', Completion("refused", s))
    <3>1. Completion("refused", Client) # Completion("refused", s)
      BY <2>4 DEF Completion
    <3> QED
      BY <1>t, <2>1, <2>2, <2>3, <3>1, AbsentArrives DEF Refusal
  <2>5. Once(port', Completion("refused", Client))
    BY <1>t, <2>1, <2>2, <2>3, AbsentArrives
  <2>6. \A s \in Ends : ~ In(s, "refused")'
    BY <2>1, <2>3 DEF In
  <2> QED
    BY <2>1, <2>4, <2>5, <2>6 DEF Refusal
<1>3. CASE Establish
  <2>1. PICK s \in Ends :
          port' = port \o <<Completion("connected", s), Completion("connected", Peer(s))>>
    BY <1>3 DEF Establish
  <2>2. /\ Completion("connected", s) \in Completions /\ Completion("connected", Peer(s)) \in Completions
        /\ port' = Append(Append(port, Completion("connected", s)), Completion("connected", Peer(s)))
    BY <1>t, <2>1, EstablishedInOrder
  <2>3. Append(port, Completion("connected", s)) \in Seq(Completions)
    BY <1>t, <2>2, Arrives
  <2>4. \A e \in Ends : /\ Completion("connected", s) # Completion("refused", e)
                        /\ Completion("connected", Peer(s)) # Completion("refused", e)
    BY DEF Completion
  <2>5. \A e \in Ends :
          /\ Absent(port', Completion("refused", e)) <=> Absent(port, Completion("refused", e))
          /\ Once(port, Completion("refused", e)) => Once(port', Completion("refused", e))
    BY <1>t, <2>2, <2>3, <2>4, AbsentArrives
  <2>6. \A e \in Ends : In(e, "refused")' <=> In(e, "refused")
    BY <1>3 DEF Establish, In
  <2>7. link # "refused" /\ UNCHANGED <<at, on>>
    BY <1>3 DEF Establish
  <2> QED
    BY <2>5, <2>6, <2>7 DEF Refusal
<1>4. ASSUME NEW w \in Workers, Dequeue(w) PROVE Refusal'
  <2>1. PICK c \in Completions :
          /\ c = Head(port) /\ c.kind \in Kinds /\ c.sock \in Ends
          /\ c = Completion(c.kind, c.sock)
          /\ at[w] = "idle" /\ port # <<>> /\ port' = Tail(port)
          /\ \A v \in Workers : /\ at'[v] = IF v = w THEN c.kind ELSE at[v]
                                /\ on'[v] = IF v = w THEN c.sock ELSE on[v]
          /\ UNCHANGED <<link, told>>
    BY <1>4, DequeueMoves
  <2>2. \A s \in Ends :
          /\ Once(port', Completion("refused", s))
          /\ c # Completion("refused", s) =>
               (Absent(port', Completion("refused", s)) <=> Absent(port, Completion("refused", s)))
          /\ c = Completion("refused", s) =>
               /\ ~ Absent(port, Completion("refused", s))
               /\ Absent(port', Completion("refused", s))
    BY <1>t, <2>1, AbsentTaken DEF Refusal
  <2>3. \A s \in Ends : c = Completion("refused", s) <=> c.kind = "refused" /\ c.sock = s
    BY <2>1 DEF Completion
  <2>4. \A s \in Ends : In(s, "refused")' <=> In(s, "refused") \/ (c.kind = "refused" /\ c.sock = s)
    BY <2>1 DEF In
  <2>5. CASE c.kind # "refused"
    BY <2>1, <2>2, <2>3, <2>4, <2>5 DEF Refusal
  <2>6. CASE c.kind = "refused"
    <3>1. c.sock = Client /\ link = "refused" /\ ~ In(Client, "refused")
      BY <2>1, <2>2, <2>3, <2>6 DEF Refusal
    <3>2. \A v \in Workers : at[v] # "refused"
      BY <1>t, <2>1, <3>1 DEF Refusal, In, Inv, TypeOK
    <3>3. \A s \in Ends : s # Client => /\ Absent(port', Completion("refused", s))
                                        /\ ~ In(s, "refused")'
      BY <2>2, <2>3, <2>4, <3>1 DEF Refusal
    <3>4. Absent(port', Completion("refused", Client))
      BY <2>1, <2>2, <2>6, <3>1
    <3>5. \A u, v \in Workers : at'[u] = "refused" /\ at'[v] = "refused" => u = v
      BY <2>1, <3>2
    <3>6. \A s \in Ends : /\ Once(port', Completion("refused", s))
                          /\ Absent(port', Completion("refused", s)) \/ ~ In(s, "refused")'
      BY <2>2, <3>3, <3>4
    <3>7. \A s \in Ends : \/ link' = "refused" /\ s = Client
                          \/ Absent(port', Completion("refused", s)) /\ ~ In(s, "refused")'
      BY <2>1, <3>1, <3>3
    <3> QED
      BY <3>5, <3>6, <3>7 DEF Refusal
  <2> QED
    BY <2>5, <2>6
<1>5. CASE UNCHANGED vars
  BY <1>5 DEF vars, Refusal, In
<1> QED
  BY <1>1, <1>2, <1>3, <1>4, <1>5, HandlersAreQuiet, CallsAreQuiet, SystemIsQuiet DEF Next

-------------------------------------------------------------------------------
\* The steps of a handler at which it calls the users
CallsAt == {"connected", "refused", "data", "closed"}

\* The worker that calls a user is alone with the receive of its end.
LEMMA Alone ==
  ASSUME Inv, Refusal, NEW v \in Workers, NEW w \in Workers, on[v] = on[w],
         at[v] \in HeldAt \cup {"refused"}, at[w] \in HeldAt \cup {"refused"}
  PROVE  v = w
<1>0. on[v] \in Ends
  BY DEF Inv, TypeOK
<1>1. CASE at[v] \in HeldAt /\ at[w] \in HeldAt
  BY <1>0, <1>1 DEF Inv, OnePlace, OneHeld, HeldBy
<1>2. CASE at[v] = "refused" /\ at[w] = "refused"
  BY <1>2 DEF Refusal
<1>3. ASSUME NEW u \in Workers, at[u] = "refused", on[u] = on[v],
             NEW x \in Workers, at[x] \in HeldAt, on[x] = on[v]
      PROVE  FALSE
  <2>1. link = "refused"
    BY <1>0, <1>3 DEF Refusal, In
  <2>2. NoneHeld(on[v])
    BY <1>0, <2>1 DEF Inv, Lifetime, Nowhere
  <2> QED
    BY <1>3, <2>2 DEF NoneHeld, HeldBy
<1> QED
  BY <1>1, <1>2, <1>3

\* A connected end is at work on its receive, and was not told of its end.
LEMMA HeldMeans ==
  ASSUME Inv, Refusal, NEW w \in Workers, at[w] \in HeldAt
  PROVE  /\ on[w] \in Ends /\ link = "up" /\ told[on[w]] = 0
         /\ Absent(port, Completion("connected", on[w]))
<1>1. on[w] \in Ends /\ ~ NoneHeld(on[w])
  BY DEF Inv, TypeOK, NoneHeld, HeldBy
<1>2. NoneIn(port, on[w]) /\ link = "up" /\ ~ (told[on[w]] > 0) /\ told[on[w]] \in Nat
  BY <1>1 DEF Inv, TypeOK, OnePlace, Lifetime, Nowhere
<1>3. Carries(Completion("connected", on[w]), on[w])
  BY DEF Carries, Completion
<1> QED
  BY <1>1, <1>2, <1>3 DEF NoneIn, Absent

\* The call at an end
LEMMA CallsThere ==
  ASSUME Inv, Refusal, NEW w \in Workers, at[w] \in CallsAt
  PROVE  /\ Call(on[w]) = CASE at[w] = "connected" -> "onConnected"
                            [] at[w] = "refused" -> "onConnectFailed"
                            [] at[w] = "data" -> "onReceived"
                            [] at[w] = "closed" -> "onClosed"
         /\ In(on[w], "closed") <=> at[w] = "closed"
<1>1. \A v \in Workers : on[v] = on[w] /\ at[v] \in CallsAt => v = w
  BY Alone DEF CallsAt, HeldAt
<1> QED
  BY <1>1 DEF CallsAt, Call, In

LEMMA CallsNowhere ==
  ASSUME NEW s \in Ends, \A w \in Workers : on[w] = s => at[w] \notin CallsAt
  PROVE  Call(s) = "none" /\ ~ In(s, "closed")
BY DEF CallsAt, Call, In

\* An end with the same calls, the same things due to it, is as before.
LEMMA SameEnd ==
  ASSUME port \in Seq(Completions), port' \in Seq(Completions), NEW e \in Ends,
         told'[e] = told[e], \A k \in CallsAt : In(e, k)' <=> In(e, k),
         \A k \in {"connected", "refused"} :
           Absent(port', Completion(k, e)) <=> Absent(port, Completion(k, e)),
         link' = "refused" <=> link = "refused", link' = "up" <=> link = "up"
  PROVE  Call(e)' = Call(e) /\ Stage(e)' = Stage(e)
<1>1. \A k \in {"connected", "refused"} : Due(k, e)' <=> Due(k, e)
  BY DueAbsent
<1>2. /\ In(e, "connected")' <=> In(e, "connected")
      /\ In(e, "refused")' <=> In(e, "refused")
      /\ In(e, "data")' <=> In(e, "data")
      /\ In(e, "closed")' <=> In(e, "closed")
  BY DEF CallsAt
<1>3. Call(e)' = Call(e)
  BY <1>2 DEF Call
<1>4. Stage(e)' = Stage(e)
  BY <1>1, <1>2 DEF Stage
<1> QED
  BY <1>3, <1>4

LEMMA QuietEnd ==
  ASSUME Inv, Quiet, port' \in Seq(Completions), NEW e \in Ends, told'[e] = told[e],
         \A v \in Workers : on[v] = e => (at'[v] = at[v] \/ {at[v], at'[v]} \cap CallsAt = {})
  PROVE  Call(e)' = Call(e) /\ Stage(e)' = Stage(e)
<1>1. \A k \in CallsAt : In(e, k)' <=> In(e, k)
  BY DEF Quiet, In
<1> QED
  BY <1>1, SameEnd, QuietDue DEF Quiet, Inv, TypeOK

LEMMA Stutters ==
  ASSUME \A e \in Ends : Call(e)' = Call(e) /\ Stage(e)' = Stage(e)
  PROVE  UNCHANGED Callbacks!vars
BY DEF Callbacks!vars

LEMMA Calls ==
  ASSUME NEW s \in Ends, NEW callback, NEW from, NEW to,
         Stage(s) = from, Stage(s)' = to, Call(s) = "none", Call(s)' = callback,
         \A e \in Ends : e # s => Call(e)' = Call(e) /\ Stage(e)' = Stage(e)
  PROVE  Callbacks!Call(s, callback, from, to)
<1>1. [e \in Ends |-> Stage(e)]' = [[e \in Ends |-> Stage(e)] EXCEPT ![s] = to]
  OBVIOUS
<1>2. [e \in Ends |-> Call(e)]' = [[e \in Ends |-> Call(e)] EXCEPT ![s] = callback]
  OBVIOUS
<1> QED
  BY <1>1, <1>2 DEF Callbacks!Call

LEMMA Returns ==
  ASSUME NEW s \in Ends, Stage(s)' = Stage(s), Call(s) # "none", Call(s)' = "none",
         \A e \in Ends : e # s => Call(e)' = Call(e) /\ Stage(e)' = Stage(e)
  PROVE  Callbacks!Return(s)
<1>1. [e \in Ends |-> Stage(e)]' = [e \in Ends |-> Stage(e)]
  OBVIOUS
<1>2. [e \in Ends |-> Call(e)]' = [[e \in Ends |-> Call(e)] EXCEPT ![s] = "none"]
  OBVIOUS
<1> QED
  BY <1>1, <1>2 DEF Callbacks!Return

LEMMA RefinesStep ==
  ASSUME Inv, Inv', Refusal, Refusal', [Next]_vars
  PROVE  [Callbacks!Next]_(Callbacks!vars)
<1>t. /\ port \in Seq(Completions) /\ port' \in Seq(Completions)
      /\ at \in [Workers -> HandlerSteps] /\ on \in [Workers -> Ends] /\ told \in [Ends -> Nat]
  BY DEF Inv, TypeOK
\* Where no handler comes to a call or returns from one, nothing is seen.
<1>1. ASSUME Quiet, told' = told,
             \A v \in Workers : at'[v] = at[v] \/ {at[v], at'[v]} \cap CallsAt = {}
      PROVE  UNCHANGED Callbacks!vars
  BY <1>1, <1>t, QuietEnd, Stutters
<1>2. CASE \/ Bind \/ Connect
           \/ \E s \in Ends : CallClose(s) \/ Disconnect(s) \/ Send(s) \/ Reset(s)
  <2>1. UNCHANGED <<at, told>>
    BY <1>2 DEF Bind, Connect, CallClose, Disconnect, Send, Reset
  <2> QED
    BY <1>1, <1>2, <2>1, CallsAreQuiet
<1>3. ASSUME NEW s \in Ends, System(s) PROVE UNCHANGED Callbacks!vars
  <2>1. UNCHANGED <<at, told>>
    BY <1>3 DEF System, CompleteSend, CompleteReceive, EndReceive
  <2> QED
    BY <1>1, <1>3, <2>1, SystemIsQuiet
<1>4. ASSUME NEW w \in Workers, Recv(w) \/ OnSend(w) PROVE UNCHANGED Callbacks!vars
  <2>1. /\ at[w] \notin CallsAt /\ at'[w] = "idle" /\ told' = told
        /\ \A v \in Workers : v # w => at'[v] = at[v]
    BY <1>4, <1>t DEF Recv, OnSend, Goto, CallsAt
  <2>2. Quiet
    BY <1>4, <2>1, HandlersAreQuiet DEF Handle, Dequeue, Recv, OnSend
  <2> QED
    BY <1>1, <2>1, <2>2 DEF CallsAt
\* What a worker does at one end is not seen at the other.
<1>5. ASSUME NEW w \in Workers, Quiet, \A v \in Workers : v # w => at'[v] = at[v],
             NEW e \in Ends, e # on[w], told'[e] = told[e]
      PROVE  Call(e)' = Call(e) /\ Stage(e)' = Stage(e)
  BY <1>5, <1>t, QuietEnd
\* A handler leaves the callback that it was in, ...
<1>6. ASSUME NEW w \in Workers, NEW s, s = on[w], Quiet, at[w] \in CallsAt, at'[w] \notin CallsAt,
             \A v \in Workers : v # w => at'[v] = at[v]
      PROVE  Call(s) # "none" /\ Call(s)' = "none" /\ ~ In(s, "closed")'
  <2>1. Call(s) # "none"
    BY <1>6, CallsThere DEF CallsAt
  <2>2. \A v \in Workers : on[v] = s /\ at[v] \in CallsAt => v = w
    BY <1>6, Alone DEF CallsAt, HeldAt
  <2>3. \A v \in Workers : on'[v] = s => at'[v] \notin CallsAt
    BY <1>6, <2>2 DEF Quiet
  <2>4. Call(s)' = "none" /\ ~ In(s, "closed")'
    BY <2>3 DEF CallsAt, Call, In
  <2> QED
    BY <2>1, <2>4
<1>7. ASSUME NEW w \in Workers, OnConnected(w) \/ OnConnectFailed(w) \/ OnReceived(w)
      PROVE  Callbacks!Return(on[w])
  <2>0. PICK s \in Ends : s = on[w]
    BY <1>t
  <2>1. /\ at[w] \in CallsAt /\ at[w] # "closed" /\ at'[w] \notin CallsAt
        /\ \A v \in Workers : v # w => at'[v] = at[v]
        /\ UNCHANGED <<link, port, told, on>>
    BY <1>7, <1>t DEF OnConnected, OnConnectFailed, OnReceived, Goto, CallsAt
  <2>2. Quiet
    BY <1>7, <2>1, HandlersAreQuiet
       DEF Handle, Dequeue, OnConnected, OnConnectFailed, OnReceived
  <2>3. ~ In(s, "closed")
    BY <2>0, <2>1, CallsThere
  <2>4. Call(s) # "none" /\ Call(s)' = "none" /\ ~ In(s, "closed")'
    BY <1>6, <2>0, <2>1, <2>2
  <2>5. Stage(s)' = Stage(s)
    BY <2>0, <2>1, <2>3, <2>4 DEF Stage, Due
  <2> QED
    BY <1>5, <2>0, <2>1, <2>2, <2>4, <2>5, Returns
<1>8. ASSUME NEW w \in Workers, OnClosed(w) PROVE Callbacks!Return(on[w])
  <2>0. PICK s \in Ends : s = on[w]
    BY <1>t
  <2>1. /\ at[w] = "closed" /\ at'[w] = "idle"
        /\ \A v \in Workers : v # w => at'[v] = at[v]
        /\ \A e \in Ends : told'[e] = IF e = s THEN told[e] + 1 ELSE told[e]
    BY <1>8, <1>t, <2>0 DEF OnClosed, Goto
  <2>2. Quiet
    BY <1>8, <2>1, HandlersAreQuiet DEF Handle, Dequeue, OnClosed
  <2>3. In(s, "closed") /\ told'[s] > 0
    BY <2>0, <2>1, <1>t DEF In
  <2>4. Call(s) # "none" /\ Call(s)' = "none"
    BY <1>6, <2>0, <2>1, <2>2 DEF CallsAt
  <2>5. Stage(s) = "over" /\ Stage(s)' = "over"
    BY <2>3 DEF Stage
  <2> QED
    BY <1>5, <2>0, <2>1, <2>2, <2>4, <2>5, Returns
\* ... or raises onClosed, the end being connected and in no call.
<1>9. ASSUME NEW w \in Workers, RaiseClose(w) PROVE Callbacks!OnClosed(on[w])
  <2>0. PICK s \in Ends : s = on[w]
    BY <1>t
  <2>1. /\ at[w] = "ended" /\ at'[w] = "closed" /\ on' = on /\ told' = told
        /\ \A v \in Workers : v # w => at'[v] = at[v]
    BY <1>9, <1>t DEF RaiseClose, Goto
  <2>2. Quiet
    BY <1>9, <2>1, HandlersAreQuiet DEF Handle, Dequeue, RaiseClose
  <2>3. \A v \in Workers : on[v] = s => at[v] \notin CallsAt
    BY <2>0, <2>1, Alone DEF CallsAt, HeldAt
  <2>4. Call(s) = "none" /\ ~ In(s, "closed")
    BY <2>0, <2>1, <2>3, CallsNowhere
  <2>5. Stage(s) = "connected"
    <3>1. link = "up" /\ told[s] = 0 /\ Absent(port, Completion("connected", s))
      BY <2>0, <2>1, HeldMeans DEF HeldAt
    <3> QED
      BY <1>t, <2>4, <3>1, DueAbsent DEF Stage
  <2>6. In(s, "closed")' /\ ~ In(s, "connected")' /\ ~ In(s, "refused")'
        /\ ~ In(s, "data")'
    BY <2>0, <2>1, <2>3 DEF In, CallsAt
  <2>7. Call(s)' = "onClosed" /\ Stage(s)' = "over"
    BY <2>6 DEF Call, Stage
  <2> QED
    BY <1>5, <2>0, <2>1, <2>2, <2>4, <2>5, <2>7, Calls DEF Callbacks!OnClosed
\* A completion that is taken from the port is seen by its end only, ...
<1>10. ASSUME NEW w \in Workers, Dequeue(w)
       PROVE  \E s \in Ends :
                \/ Callbacks!OnConnected(s) \/ Callbacks!OnConnectFailed(s)
                \/ Callbacks!OnReceived(s) \/ UNCHANGED Callbacks!vars
  <2>1. PICK c \in Completions :
          /\ c = Head(port) /\ c.kind \in Kinds /\ c.sock \in Ends
          /\ c = Completion(c.kind, c.sock)
          /\ at[w] = "idle" /\ port # <<>> /\ port' = Tail(port)
          /\ \A v \in Workers : /\ at'[v] = IF v = w THEN c.kind ELSE at[v]
                                /\ on'[v] = IF v = w THEN c.sock ELSE on[v]
          /\ UNCHANGED <<link, told>>
    BY <1>10, DequeueMoves
  <2>2. PICK s \in Ends, k \in Kinds : s = c.sock /\ k = c.kind /\ c = Completion(k, s)
    BY <2>1
  <2>3. \A e \in Ends, j \in CallsAt : In(e, j)' <=> In(e, j) \/ (j = k /\ e = s)
    BY <2>1, <2>2 DEF In, CallsAt
  <2>4. \A e \in Ends, j \in {"connected", "refused"} :
          e # s \/ j # k =>
            (Absent(port', Completion(j, e)) <=> Absent(port, Completion(j, e)))
    <3>1. \A e \in Ends, j \in {"connected", "refused"} :
            e # s \/ j # k => c # Completion(j, e)
      BY <2>2 DEF Completion
    <3> QED
      BY <1>t, <2>1, <3>1, AbsentTaken
  <2>5. ASSUME NEW e \in Ends, e # s \/ k \notin CallsAt
        PROVE  Call(e)' = Call(e) /\ Stage(e)' = Stage(e)
    <3>1. \A j \in CallsAt : In(e, j)' <=> In(e, j)
      BY <2>3, <2>5
    <3>2. \A j \in {"connected", "refused"} :
            Absent(port', Completion(j, e)) <=> Absent(port, Completion(j, e))
      BY <2>4, <2>5 DEF CallsAt
    <3> QED
      BY <1>t, <2>1, <3>1, <3>2, SameEnd
  <2>6. CASE k \notin CallsAt
    BY <2>5, <2>6, Stutters
\* ... for which it is the first that it hears of the connection, ...
  <2>7. ASSUME k \in {"connected", "data"}
        PROVE  /\ link = "up" /\ told[s] = 0 /\ Call(s) = "none"
               /\ Call(s)' = (IF k = "connected" THEN "onConnected" ELSE "onReceived")
               /\ Stage(s) = (IF k = "connected" THEN "new" ELSE "connected")
               /\ Stage(s)' = "connected"
    <3>1. ~ NoneIn(port, s) /\ NoneIn(port', s)
      <4>1. Carries(c, s)
        BY <2>2, <2>7, CompletionType
      <4> QED
        BY <1>t, <2>1, <4>1, Taken DEF Inv, OnePlace
    <3>2. link = "up" /\ told[s] = 0 /\ NoneHeld(s)
      BY <1>t, <3>1 DEF Inv, OnePlace, Lifetime, Nowhere
    <3>3. \A j \in CallsAt : ~ In(s, j)
      BY <3>2 DEF Refusal, NoneHeld, HeldBy, HeldAt, In, CallsAt
    <3>4. Call(s) = "none" /\ ~ In(s, "closed")
      BY <3>3 DEF Call, CallsAt
    <3>5. \A j \in CallsAt : In(s, j)' <=> j = k
      BY <2>3, <3>3
    <3>6. /\ Call(s)' = (IF k = "connected" THEN "onConnected" ELSE "onReceived")
          /\ ~ In(s, "closed")'
      BY <2>7, <3>5 DEF Call, CallsAt
    <3>7. Absent(port', Completion("connected", s))
      <4>1. Carries(Completion("connected", s), s)
        BY CompletionType DEF Kinds
      <4> QED
        BY <3>1, <4>1 DEF NoneIn, Absent
    <3>8. Absent(port, Completion("connected", s)) <=> k # "connected"
      BY <1>t, <2>1, <2>2, <2>4, <3>7, AbsentTaken
    <3>9. Stage(s) = (IF k = "connected" THEN "new" ELSE "connected")
      BY <1>t, <3>2, <3>4, <3>8, DueAbsent DEF Stage
    <3>10. Stage(s)' = "connected"
      BY <1>t, <2>1, <3>2, <3>6, <3>7, DueAbsent DEF Stage
    <3> QED
      BY <3>2, <3>4, <3>6, <3>9, <3>10
  <2>8. CASE k = "connected"
    BY <2>5, <2>7, <2>8, Calls DEF Callbacks!OnConnected
  <2>9. CASE k = "data"
    BY <2>5, <2>7, <2>9, Calls DEF Callbacks!OnReceived
\* ... or that there is none.
  <2>10. CASE k = "refused"
    <3>1. /\ ~ Absent(port, Completion("refused", s))
          /\ Absent(port', Completion("refused", s))
      BY <1>t, <2>1, <2>2, <2>10, AbsentTaken DEF Refusal
    <3>2. link = "refused" /\ s = Client /\ ~ In(s, "refused")
      BY <3>1 DEF Refusal
    <3>3. told[s] = 0 /\ NoneHeld(s)
      BY <3>2 DEF Inv, Lifetime, Nowhere
    <3>4. \A j \in CallsAt : ~ In(s, j)
      BY <3>2, <3>3 DEF NoneHeld, HeldBy, HeldAt, In, CallsAt
    <3>5. Call(s) = "none" /\ ~ In(s, "closed")
      BY <3>4 DEF Call, CallsAt
    <3>6. \A j \in CallsAt : In(s, j)' <=> j = "refused"
      BY <2>3, <2>10, <3>4
    <3>7. Call(s)' = "onConnectFailed" /\ ~ In(s, "closed")'
      BY <3>6 DEF Call, CallsAt
    <3>8. Stage(s) = "new"
      BY <1>t, <3>1, <3>2, <3>3, <3>5, DueAbsent DEF Stage
    <3>9. Stage(s)' = "over"
      BY <1>t, <2>1, <3>1, <3>2, DueAbsent DEF Stage
    <3> QED
      BY <2>5, <3>5, <3>7, <3>8, <3>9, Calls DEF Callbacks!OnConnectFailed
  <2> QED
    BY <2>6, <2>8, <2>9, <2>10 DEF CallsAt, Kinds
\* The ends of a connection that is made or refused learn of it later.
<1>11. CASE Establish
  <2>1. PICK s \in Ends :
          port' = port \o <<Completion("connected", s), Completion("connected", Peer(s))>>
    BY <1>11 DEF Establish
  <2>2. /\ Completion("connected", s) \in Completions /\ Completion("connected", Peer(s)) \in Completions
        /\ port' = Append(Append(port, Completion("connected", s)), Completion("connected", Peer(s)))
    BY <1>t, <2>1, EstablishedInOrder
  <2>3. Append(port, Completion("connected", s)) \in Seq(Completions)
    BY <1>t, <2>2, Arrives
  <2>4. \A e \in Ends : ~ Absent(port', Completion("connected", e))
    <3>1. ~ Absent(Append(port, Completion("connected", s)), Completion("connected", s))
      BY <1>t, <2>2, AbsentArrives
    <3>2. Peer(s) # s /\ Ends = {s, Peer(s)}
      BY PeerIsOther
    <3>3. Completion("connected", Peer(s)) # Completion("connected", s)
      BY <3>2 DEF Completion
    <3> QED
      BY <2>2, <2>3, <3>1, <3>2, <3>3, AbsentArrives
  <2>5. link # "up" /\ link # "refused" /\ link' = "up" /\ UNCHANGED <<at, on, told>>
    BY <1>11 DEF Establish
  <2>6. ASSUME NEW e \in Ends PROVE Call(e)' = Call(e) /\ Stage(e)' = Stage(e)
    <3>1. \A j \in CallsAt : In(e, j)' <=> In(e, j)
      BY <2>5 DEF In
    <3>2. Call(e)' = Call(e)
      BY <3>1 DEF Call, CallsAt
    <3>3. Due("connected", e)'
      BY <1>t, <2>4, DueAbsent
    <3> QED
      BY <2>5, <3>1, <3>2, <3>3 DEF Stage, CallsAt
  <2> QED
    BY <2>6, Stutters
<1>12. CASE Refuse
  <2>1. /\ port' = Append(port, Completion("refused", Client)) /\ link = "connecting"
        /\ link' = "refused" /\ UNCHANGED <<at, on, told>>
    BY <1>12 DEF Refuse, Complete
  <2>2. ~ Absent(port', Completion("refused", Client))
    <3>1. Completion("refused", Client) \in Completions
      BY CompletionType, ClientIsEnd DEF Kinds
    <3> QED
      BY <1>t, <2>1, <3>1, AbsentArrives
  <2>3. Due("refused", Client)'
    BY <1>t, <2>2, DueAbsent
  <2>4. ASSUME NEW e \in Ends PROVE Call(e)' = Call(e) /\ Stage(e)' = Stage(e)
    <3>1. \A j \in CallsAt : In(e, j)' <=> In(e, j)
      BY <2>1 DEF In
    <3>2. Call(e)' = Call(e)
      BY <3>1 DEF Call, CallsAt
    <3> QED
      BY <2>1, <2>3, <3>1, <3>2 DEF Stage, CallsAt
  <2> QED
    BY <2>4, Stutters
<1>13. CASE UNCHANGED vars
  <2>1. Quiet /\ told' = told /\ at' = at
    BY <1>13 DEF vars, Quiet
  <2> QED
    BY <1>1, <2>1
<1>14. \A w \in Workers : on[w] \in Ends
  BY <1>t
<1> QED
  BY <1>2, <1>3, <1>4, <1>7, <1>8, <1>9, <1>10, <1>11, <1>12, <1>13, <1>14
     DEF Next, Handle, Callbacks!Next

LEMMA RefinesInit == Init => Callbacks!Init
<1> SUFFICES ASSUME Init PROVE Callbacks!Init
  OBVIOUS
<1>1. \A s \in Ends, k \in CallsAt : ~ In(s, k)
  BY DEF Init, In, CallsAt
<1>2. \A s \in Ends : Call(s) = "none" /\ Stage(s) = "new"
  BY <1>1 DEF Init, Call, Stage, CallsAt
<1> QED
  BY <1>2 DEF Callbacks!Init

\* Whatever the users of a connection call, from whichever thread, however many workers
\* handle its completions and whatever the network does, both ends are called as
\* ClientCallbacks says (AsyncSocket::onProcess, onProcessFailed, raiseCloseEvent): one
\* call at a time at each end, onConnected first, onReceived before onClosed, which comes
\* once and last; or onConnectFailed alone.
THEOREM Refines == Spec => ImplementsClientCallbacks
<1>1. Inv /\ Inv' /\ Refusal /\ Refusal' /\ [Next]_vars => [Callbacks!Next]_(Callbacks!vars)
  BY RefinesStep
<1>2. Spec => []Refusal
  BY InitRefusal, RefusalStep, AlwaysInv, PTL DEF Spec
<1> QED
  BY <1>1, <1>2, RefinesInit, AlwaysInv, PTL DEF Spec, Callbacks!Spec, ImplementsClientCallbacks
===============================================================================
