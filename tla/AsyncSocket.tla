------------------------------ MODULE AsyncSocket ------------------------------
(***************************************************************************)
(* NKNetwork::AsyncSocket: both ends of one connection from connect to     *)
(* close, each an AsyncSocket of the engine, with the completions of their *)
(* operations handled by the worker threads.                               *)
(*                                                                         *)
(* Every end keeps one receive armed.  Its completion is handled by the    *)
(* worker that dequeues it, which calls onReceived and arms the next one;  *)
(* a receive that ends with no data, or fails, raises onClosed.  The user  *)
(* calls send, disconnect and close from any thread, callbacks included.   *)
(***************************************************************************)
EXTENDS Naturals, Sequences, FiniteSets

CONSTANTS
    Workers,        \* the worker threads
    Ends,           \* the two ends of the connection
    UserCalls,      \* the calls users make: of "send", "disconnect", "close"
    BadPackets,     \* whether data may hold a packet of a wrong size
    MayReset,       \* whether the network may reset the connection
    MaxSends        \* bound of the model: the sends of one end

ASSUME ConnectionAssumption ==
    /\ UserCalls \subseteq {"send", "disconnect", "close"}
    /\ {BadPackets, MayReset} \subseteq BOOLEAN
    /\ MaxSends \in Nat

ASSUME TwoEnds == \E a, b \in Ends : a # b /\ Ends = {a, b}

VARIABLES
    link,       \* how far the connection is, from createConnection on
    handle,     \* _socket of each end: an open handle, or closed and invalid
    shut,       \* whether the end shut down its sending direction
    reset,      \* whether the end's connection was reset
    recvs,      \* the receives of the end that the system holds
    sending,    \* the sends of the end that the system holds
    sends,      \* the calls of send, MaxSends at most
    inbox,      \* the data on its way to the end
    port,       \* the completion port
    at,         \* where each worker is in its handler
    on,         \* the end its handler is about
    told        \* the calls of onClosed of each end

vars == <<link, handle, shut, reset, recvs, sending, sends, inbox, port, at, on, told>>

Peer(s) == CHOOSE p \in Ends : p # s

\* The end that connects; the other one is accepted.
Client == CHOOSE s \in Ends : TRUE

Completion(k, s) == [kind |-> k, sock |-> s]

\* connected, refused: CONNECT, or the accept of the other end; data: RECEIVE with data;
\* ended: RECEIVE with none, or failed
Kinds == {"connected", "refused", "data", "ended", "sent", "sendfailed"}

Completions == [kind : Kinds, sock : Ends]

Init ==
    /\ handle = [s \in Ends |-> "open"]
    /\ shut = [s \in Ends |-> FALSE]
    /\ reset = [s \in Ends |-> FALSE]
    /\ recvs = [s \in Ends |-> 0]
    /\ sending = [s \in Ends |-> 0]
    /\ sends = [s \in Ends |-> 0]
    /\ inbox = [s \in Ends |-> 0]
    /\ link = "new" /\ port = <<>>
    /\ at = [w \in Workers |-> "idle"]
    /\ on = [w \in Workers |-> CHOOSE s \in Ends : TRUE]
    /\ told = [s \in Ends |-> 0]

-------------------------------------------------------------------------------
Goto(w, step) == at' = [at EXCEPT ![w] = step] /\ UNCHANGED on

\* AsyncSocket::close: nothing if the handle is invalid already.  The system
\* fails the armed receive, and resets the connection if data was not read.
Close(s) ==
    IF handle[s] = "closed" THEN UNCHANGED <<handle, recvs, reset, port>>
    ELSE /\ handle' = [handle EXCEPT ![s] = "closed"]
         /\ recvs' = [recvs EXCEPT ![s] = 0]
         /\ port' = IF recvs[s] > 0 THEN Append(port, Completion("ended", s)) ELSE port
         /\ reset' = [reset EXCEPT ![Peer(s)] = @ \/ inbox[s] > 0]

\* Mutation of OnConnected: a callback arms a receive, too.
OnConnectedArms(w) ==
    /\ at[w] = "connected"
    /\ handle[on[w]] = "open"
    /\ recvs' = [recvs EXCEPT ![on[w]] = @ + 1]
    /\ Goto(w, "recv")
    /\ UNCHANGED <<link, handle, shut, reset, sending, sends, inbox, port, told>>

\* The callbacks of onProcess(CONNECT) return.
OnConnected(w) ==
    /\ at[w] = "connected"
    /\ Goto(w, "recv")
    /\ UNCHANGED <<link, handle, shut, reset, recvs, sending, sends, inbox, port, told>>

\* Mutation of OnReceived: the loop goes on after the wrong packet's onClosed.
OnReceivedGoesOn(w) ==
    /\ at[w] = "data"
    /\ \/ Goto(w, "recv") /\ UNCHANGED <<handle, recvs, reset, port, told>>
       \/ /\ BadPackets /\ Goto(w, "recv")
          /\ Close(on[w]) /\ told' = [told EXCEPT ![on[w]] = @ + 1]
    /\ UNCHANGED <<link, shut, sending, sends, inbox>>

\* The loop over the packets and its onReceived callbacks end, all data read,
\* or a packet has a wrong size.
OnReceived(w) ==
    /\ at[w] = "data"
    /\ \/ Goto(w, "recv")
       \/ BadPackets /\ Goto(w, "ended")
    /\ UNCHANGED <<link, handle, shut, reset, recvs, sending, sends, inbox, port, told>>

\* Mutation of Recv: a receive that cannot be armed leaves the socket as it is.
RecvGivesUp(w) ==
    LET s == on[w] IN
    /\ at[w] = "recv"
    /\ \/ handle[s] = "open" /\ recvs' = [recvs EXCEPT ![s] = @ + 1]
       \/ (handle[s] = "closed" \/ reset[s]) /\ UNCHANGED recvs
    /\ Goto(w, "idle")
    /\ UNCHANGED <<link, handle, reset, port, shut, sending, sends, inbox, told>>

\* AsyncSocket::recv: a receive that cannot be armed closes the socket, and
\* that is all.
Recv(w) ==
    LET s == on[w] IN
    /\ at[w] = "recv"
    /\ \/ /\ handle[s] = "open"
          /\ recvs' = [recvs EXCEPT ![s] = @ + 1]
          /\ UNCHANGED <<handle, reset, port>>
       \/ (handle[s] = "closed" \/ reset[s]) /\ Close(s)
    /\ Goto(w, "idle")
    /\ UNCHANGED <<link, shut, sending, sends, inbox, told>>

\* Mutations of RaiseClose: it leaves the close to the user; it returns if the
\* socket is closed already.
RaiseCloseOnly(w) ==
    /\ at[w] = "ended"
    /\ Goto(w, "closed")
    /\ UNCHANGED <<link, handle, reset, recvs, port, shut, sending, sends, inbox, told>>

RaiseCloseOnce(w) ==
    /\ at[w] = "ended"
    /\ Goto(w, IF handle[on[w]] = "closed" THEN "idle" ELSE "closed")
    /\ Close(on[w])
    /\ UNCHANGED <<link, shut, sending, sends, inbox, told>>

\* AsyncSocket::raiseCloseEvent, the close ...
RaiseClose(w) ==
    /\ at[w] = "ended"
    /\ Close(on[w])
    /\ Goto(w, "closed")
    /\ UNCHANGED <<link, shut, sending, sends, inbox, told>>

\* ... and the onClosed callbacks.
OnClosed(w) ==
    /\ at[w] = "closed"
    /\ told' = [told EXCEPT ![on[w]] = @ + 1]
    /\ Goto(w, "idle")
    /\ UNCHANGED <<link, handle, shut, reset, recvs, sending, sends, inbox, port>>

\* onProcess(SEND) calls onSent, onProcessFailed(SEND) closes the socket.
OnSend(w) ==
    /\ \/ at[w] = "sent" /\ UNCHANGED <<handle, recvs, reset, port>>
       \/ at[w] = "sendfailed" /\ Close(on[w])
    /\ Goto(w, "idle")
    /\ UNCHANGED <<link, shut, sending, sends, inbox, told>>

\* WorkerThread::onRun
Dequeue(w) ==
    /\ at[w] = "idle" /\ port # <<>>
    /\ at' = [at EXCEPT ![w] = Head(port).kind]
    /\ on' = [on EXCEPT ![w] = Head(port).sock]
    /\ port' = Tail(port)
    /\ UNCHANGED <<link, handle, shut, reset, recvs, sending, sends, inbox, told>>

\* onProcessFailed(CONNECT) calls onConnectFailed, and the socket stays open.
OnConnectFailed(w) ==
    /\ at[w] = "refused"
    /\ Goto(w, "idle")
    /\ UNCHANGED <<link, handle, shut, reset, recvs, sending, sends, inbox, port, told>>

Handle(w) ==
    OnConnected(w) \/ OnConnectFailed(w) \/ OnReceived(w) \/ Recv(w) \/ RaiseClose(w) \/ OnClosed(w)
    \/ OnSend(w) \/ Dequeue(w)

-------------------------------------------------------------------------------
\* The calls of users.  createConnection binds the socket; if that fails, the
\* socket is closed, and returned all the same.
Bind ==
    /\ link = "new" /\ link' = "bound"
    /\ Close(Client) \/ UNCHANGED <<handle, recvs, reset, port>>
    /\ UNCHANGED <<shut, sending, sends, inbox, at, on, told>>

\* connect is called once; on a closed socket it fails.
Connect ==
    /\ link = "bound" /\ handle[Client] = "open"
    /\ link' = "connecting"
    /\ UNCHANGED <<handle, shut, reset, recvs, sending, sends, inbox, port, at, on, told>>

\* The accepted end is the user's once it is connected.
Usable(s) == handle[s] = "open" /\ (link = "up" \/ (s = Client /\ link # "new"))

CallClose(s) ==
    /\ "close" \in UserCalls /\ Usable(s)
    /\ Close(s)
    /\ UNCHANGED <<link, shut, sending, sends, inbox, at, on, told>>

\* disconnect: shutdown(SD_SEND); if that fails, close
Disconnect(s) ==
    /\ "disconnect" \in UserCalls /\ Usable(s) /\ ~ shut[s]
    /\ \/ /\ link = "up" /\ ~ reset[s]
          /\ shut' = [shut EXCEPT ![s] = TRUE]
          /\ UNCHANGED <<handle, recvs, reset, port>>
       \/ (link # "up" \/ reset[s]) /\ Close(s) /\ UNCHANGED shut
    /\ UNCHANGED <<link, sending, sends, inbox, at, on, told>>

\* send: a WSASend that fails at once changes nothing.
Send(s) ==
    /\ "send" \in UserCalls /\ link = "up" /\ handle[s] = "open"
    /\ ~ shut[s] /\ ~ reset[s]
    /\ sends[s] < MaxSends
    /\ sends' = [sends EXCEPT ![s] = @ + 1]
    /\ sending' = [sending EXCEPT ![s] = @ + 1]
    /\ UNCHANGED <<link, handle, shut, reset, recvs, inbox, port, at, on, told>>

-------------------------------------------------------------------------------
\* The system and the network.
Complete(k, s) == port' = Append(port, Completion(k, s))

\* The connection is made: for both ends, which learn of it in either order ...
Establish ==
    /\ link = "connecting" /\ handle[Client] = "open"
    /\ link' = "up"
    /\ \E s \in Ends :
         port' = port \o <<Completion("connected", s), Completion("connected", Peer(s))>>
    /\ UNCHANGED <<handle, shut, reset, recvs, sending, sends, inbox, at, on, told>>

\* ... or it is refused, or given up because the client was closed.
Refuse ==
    /\ link = "connecting"
    /\ link' = "refused"
    /\ Complete("refused", Client)
    /\ UNCHANGED <<handle, shut, reset, recvs, sending, sends, inbox, at, on, told>>

NothingMoreFor(s) ==
    /\ inbox[s] = 0 /\ sending[Peer(s)] = 0
    /\ shut[Peer(s)] \/ handle[Peer(s)] = "closed"

\* A send succeeds, and its data meets an end that is open or one that is not;
\* or it fails, its own end being closed or reset.
CompleteSend(s) ==
    /\ sending[s] > 0
    /\ sending' = [sending EXCEPT ![s] = @ - 1]
    /\ \/ /\ handle[s] = "open" /\ ~ reset[s]
          /\ Complete("sent", s)
          /\ \/ /\ handle[Peer(s)] = "open"
                /\ inbox' = [inbox EXCEPT ![Peer(s)] = @ + 1]
                /\ UNCHANGED reset
             \/ /\ handle[Peer(s)] = "closed"
                /\ reset' = [reset EXCEPT ![s] = TRUE]
                /\ UNCHANGED inbox
       \/ /\ handle[s] = "closed" \/ reset[s]
          /\ Complete("sendfailed", s)
          /\ UNCHANGED <<inbox, reset>>
    /\ UNCHANGED <<link, handle, shut, recvs, sends, at, on, told>>

\* The armed receive takes what has come.
CompleteReceive(s) ==
    /\ recvs[s] > 0 /\ inbox[s] > 0 /\ ~ reset[s]
    /\ inbox' = [inbox EXCEPT ![s] = 0]
    /\ recvs' = [recvs EXCEPT ![s] = @ - 1]
    /\ Complete("data", s)
    /\ UNCHANGED <<link, handle, shut, reset, sending, sends, at, on, told>>

\* The armed receive ends: no data, or an error.
EndReceive(s) ==
    /\ recvs[s] > 0
    /\ reset[s] \/ NothingMoreFor(s)
    /\ recvs' = [recvs EXCEPT ![s] = @ - 1]
    /\ Complete("ended", s)
    /\ UNCHANGED <<link, handle, shut, reset, sending, sends, inbox, at, on, told>>

Reset(s) ==
    /\ MayReset /\ link = "up" /\ handle[s] = "open" /\ ~ reset[s]
    /\ reset' = [reset EXCEPT ![s] = TRUE]
    /\ UNCHANGED <<link, handle, shut, recvs, sending, sends, inbox, port, at, on, told>>

System(s) == CompleteSend(s) \/ CompleteReceive(s) \/ EndReceive(s)

Next ==
    \/ \E w \in Workers : Handle(w)
    \/ Bind \/ Connect \/ Establish \/ Refuse
    \/ \E s \in Ends : CallClose(s) \/ Disconnect(s) \/ Send(s) \/ System(s) \/ Reset(s)

Spec == Init /\ [][Next]_vars

\* Workers are scheduled and callbacks return; the system completes operations.
FairSpec ==
    /\ Spec
    /\ \A w \in Workers : WF_vars(Handle(w))
    /\ WF_vars(Establish \/ Refuse) /\ \A s \in Ends : WF_vars(System(s))

-------------------------------------------------------------------------------
HandlerSteps == Kinds \cup {"idle", "recv", "closed"}

TypeOK ==
    /\ link \in {"new", "bound", "connecting", "refused", "up"}
    /\ handle \in [Ends -> {"open", "closed"}]
    /\ shut \in [Ends -> BOOLEAN] /\ reset \in [Ends -> BOOLEAN]
    /\ recvs \in [Ends -> Nat] /\ sending \in [Ends -> Nat]
    /\ sends \in [Ends -> 0 .. MaxSends] /\ inbox \in [Ends -> Nat]
    /\ port \in Seq(Completions)
    /\ at \in [Workers -> HandlerSteps] /\ on \in [Workers -> Ends]
    /\ told \in [Ends -> Nat]
    /\ \A s \in Ends : handle[s] = "closed" => recvs[s] = 0

\* The receive of an end, wherever it is: with the system, in the port, or in
\* the hands of a worker.
Receives(s) ==
    recvs[s]
    + Cardinality({i \in DOMAIN port : /\ port[i].sock = s
                                       /\ port[i].kind \in {"connected", "data", "ended"}})
    + Cardinality({w \in Workers : /\ on[w] = s
                                   /\ at[w] \in {"connected", "data", "recv", "ended", "closed"}})

\* Callbacks of a connection about what it receives never overlap, and arrive
\* in the order of the data: there is one receive at a time (recv is called
\* only by the handler of the one before).
OneReceive == \A s \in Ends : Receives(s) <= 1

\* onClosed is the last receive callback and comes once, with the handle closed,
\* whoever closed it and however often.
ClosedIsLast ==
    \A s \in Ends : told[s] > 0 => told[s] = 1 /\ handle[s] = "closed" /\ Receives(s) = 0

\* No connected socket is left open and deaf: an end that is open and whose
\* handlers are done has its receive armed, so that it learns of the end of the
\* connection.
NeverDeaf == link = "up" => \A s \in Ends : handle[s] = "open" => Receives(s) = 1

-------------------------------------------------------------------------------
\* disconnect at one end ends the connection for both, whatever else happens to
\* it: the peer's receive ends and closes the peer, which ends the receive here.
DisconnectEndsBoth ==
    \A s \in Ends : shut[s] ~> \A e \in Ends : handle[e] = "closed"

\* An end whose receive is armed when its peer goes away, or the connection is
\* reset, gets its onClosed.
ArmedIsTold ==
    \A s \in Ends :
      recvs[s] > 0 /\ (reset[s] \/ (handle[Peer(s)] = "closed" /\ NothingMoreFor(s)))
        ~> told[s] > 0

\* A connected socket that is closed has its onClosed, be it that a failed shutdown had
\* closed it before (the comment of raiseCloseEvent).  Not so in the code: a
\* socket that is closed while its receive is being handled is never told.
ClosedIsTold == \A s \in Ends : link = "up" /\ handle[s] = "closed" ~> told[s] > 0

-------------------------------------------------------------------------------
\* What the users of a connection see of it: the callback that is running at an end ...
In(s, step) == \E w \in Workers : at[w] = step /\ on[w] = s

Call(s) ==
    IF In(s, "connected") THEN "onConnected"
    ELSE IF In(s, "refused") THEN "onConnectFailed"
    ELSE IF In(s, "data") THEN "onReceived"
    ELSE IF In(s, "closed") THEN "onClosed"
    ELSE "none"

\* ... and how far it has come: nothing was told yet, it is connected, or the last
\* call was made.
Due(kind, s) == \E i \in DOMAIN port : port[i] = Completion(kind, s)

Stage(s) ==
    IF \/ told[s] > 0 \/ In(s, "closed")
       \/ link = "refused" /\ s = Client /\ ~ Due("refused", s)
    THEN "over"
    ELSE IF link # "up" \/ Due("connected", s) THEN "new"
    ELSE "connected"

Callbacks == INSTANCE ClientCallbacks WITH
    stage <- [s \in Ends |-> Stage(s)], call <- [s \in Ends |-> Call(s)]

\* The connection calls its users as the abstract one does, whatever they call, and
\* whichever workers handle the completions: the calls do not overlap, onConnected
\* comes first, onReceived only before onClosed, which comes once and last.
ImplementsClientCallbacks == Callbacks!Spec
===============================================================================
