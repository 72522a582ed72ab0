-------------------------------- MODULE Service --------------------------------
(***************************************************************************)
(* NKNetwork::Service and NKNetwork::AsyncServerSocket: the accept loop,   *)
(* the map of connections, and the closing of both.                        *)
(*                                                                         *)
(* One AcceptEx is outstanding at a time.  Its completion is handled by    *)
(* whichever worker dequeues it: the connection enters the map, its first  *)
(* receive is armed, and the next accept is issued.  A connection leaves   *)
(* the map in its onClosed, which AsyncSocket raises when its receive ends *)
(* with the connection; a receive with data is handled and armed again,    *)
(* and the users of the server may close the connection at any time.       *)
(***************************************************************************)
EXTENDS Naturals, Sequences, FiniteSets

CONSTANTS
    Workers,        \* the worker threads
    Clients,        \* the clients that connect, once each
    PeerMayReset,   \* whether a peer may go away abortively
    UserMayClose,   \* whether the users of the server close its connections
    MayStarve       \* whether the system may run out of sockets

ASSUME EnvironmentAssumption == {PeerMayReset, UserMayClose, MayStarve} \subseteq BOOLEAN

VARIABLES
    listener,   \* the listening socket, for the system: open or closed
    owner,      \* how far the owner of the service went with start and close
    accepts,    \* the AcceptEx operations the system holds
    starved,    \* whether openSocket fails, from some time on
    port,       \* the completion port
    peer,       \* what each client did
    conn,       \* what became of each client's connection, and of its receive
    shut,       \* the connections whose socket the server closed
    map,        \* Service::_connection_map
    at,         \* where each worker is in its handler
    on,         \* the connection its handler is about
    told        \* the calls of ServerCallback::onClosed

vars == <<listener, owner, accepts, starved, port, peer, conn, shut, map, at, on, told>>

None == "none"
ASSUME NoneIsNoClient == None \notin Clients

Completions ==
    [kind : {"accepted", "received", "closed", "failed"}, client : Clients]
    \cup [kind : {"aborted"}, client : {None}]

Init ==
    /\ listener = "unopened" /\ owner = "new"
    /\ accepts = 0 /\ starved = FALSE /\ port = <<>>
    /\ peer = [c \in Clients |-> "away"]
    /\ conn = [c \in Clients |-> "none"]
    /\ shut = {} /\ map = {}
    /\ at = [w \in Workers |-> "idle"]
    /\ on = [w \in Workers |-> None]
    /\ told = 0

-------------------------------------------------------------------------------
\* Service::insertConnection and eraseConnection, under the mutex of the map
InsertConnection(c) == map' = map \cup {c}
EraseConnection(c) == map' = map \ {c}

Goto(w, step, c) == at' = [at EXCEPT ![w] = step] /\ on' = [on EXCEPT ![w] = c]

\* AsyncServerSocket::accept: another AcceptEx, unless it fails.
Accept ==
    \/ listener = "open" /\ owner # "closed" /\ ~ starved /\ accepts' = accepts + 1
    \/ (listener # "open" \/ owner = "closed" \/ starved) /\ UNCHANGED accepts

\* Service::start, AsyncServerSocket::open: the socket that listens ...
Start ==
    /\ owner = "new" /\ ~ starved
    /\ listener' = "open" /\ owner' = "opened"
    /\ UNCHANGED <<accepts, starved, port, peer, conn, shut, map, at, on, told>>

\* ... and its first accept; if that fails, open does, and it listens all the same.
FirstAccept ==
    /\ owner = "opened"
    /\ owner' = "started"
    /\ Accept
    /\ UNCHANGED <<listener, starved, port, peer, conn, shut, map, at, on, told>>

\* Mutation of OnAccepted: the next accept goes out before the callbacks.
OnAcceptedEager(w) ==
    /\ at[w] = "accepted"
    /\ InsertConnection(on[w])
    /\ accepts' = accepts + 1
    /\ Goto(w, "recv", on[w])
    /\ UNCHANGED <<listener, owner, starved, port, peer, conn, shut, told>>

\* onProcess of the completed accept, up to the end of the onAccepted
\* callbacks: ServiceServerCallback inserts the connection.
OnAccepted(w) ==
    /\ at[w] = "accepted"
    /\ InsertConnection(on[w])
    /\ Goto(w, "recv", on[w])
    /\ UNCHANGED <<listener, owner, accepts, starved, port, peer, conn, shut, told>>

\* AsyncSocket::recv: the system takes it, ...
Armed(c) == c \notin shut /\ conn' = [conn EXCEPT ![c] = "armed"] /\ UNCHANGED shut

\* ... or it fails, for a socket that is closed or whose peer reset the
\* connection, and closes the socket; this is told to nobody.
NotArmed(c, outcome) ==
    /\ peer[c] = "reset" \/ c \in shut
    /\ conn' = [conn EXCEPT ![c] = outcome]
    /\ shut' = shut \cup {c}

\* The first recv: if it fails, the handler returns, without the next accept.
FirstRecv(w) ==
    /\ at[w] = "recv"
    /\ \/ Armed(on[w]) /\ Goto(w, "accept", None)
       \/ NotArmed(on[w], "dropped") /\ Goto(w, "idle", None)
    /\ UNCHANGED <<listener, owner, accepts, starved, port, peer, map, told>>

\* Mutation of AcceptNext: the handler ends with its connection.
AcceptNever(w) ==
    /\ at[w] = "accept"
    /\ Goto(w, "idle", None)
    /\ UNCHANGED <<listener, owner, accepts, starved, port, peer, conn, shut, map, told>>

\* Its accept, ready for the next client.
AcceptNext(w) ==
    /\ at[w] = "accept"
    /\ Accept
    /\ Goto(w, "idle", None)
    /\ UNCHANGED <<listener, owner, starved, port, peer, conn, shut, map, told>>

\* onProcessFailed: onClosed if the accept was aborted, and closesocket(_socket)
\* whatever the error was.
OnFailed(w) ==
    /\ at[w] \in {"aborted", "failed"}
    /\ told' = IF at[w] = "aborted" THEN told + 1 ELSE told
    /\ listener' = IF owner = "closed" THEN listener ELSE "closed"
    /\ Goto(w, "idle", None)
    /\ UNCHANGED <<owner, accepts, starved, port, peer, conn, shut, map>>

\* AsyncSocket::onProcess of data: packets for onReceived, or a wrong one,
\* for which raiseCloseEvent closes the socket and calls onClosed.
OnReceived(w) ==
    /\ at[w] = "received"
    /\ \/ Goto(w, "again", on[w]) /\ UNCHANGED <<conn, shut>>
       \/ /\ Goto(w, "closed", on[w])
          /\ conn' = [conn EXCEPT ![on[w]] = "closing"]
          /\ shut' = shut \cup {on[w]}
    /\ UNCHANGED <<listener, owner, accepts, starved, port, peer, map, told>>

\* Its recv, the next one of the connection
RecvAgain(w) ==
    /\ at[w] = "again"
    /\ Armed(on[w]) \/ NotArmed(on[w], "unarmed")
    /\ Goto(w, "idle", None)
    /\ UNCHANGED <<listener, owner, accepts, starved, port, peer, map, told>>

\* Mutation of OnClosed: the connection stays in the map.
OnClosedKeeps(w) ==
    /\ at[w] = "closed"
    /\ conn' = [conn EXCEPT ![on[w]] = "closed"]
    /\ shut' = shut \cup {on[w]}
    /\ Goto(w, "idle", None)
    /\ UNCHANGED <<listener, owner, accepts, starved, port, peer, map, told>>

\* AsyncSocket::raiseCloseEvent, which closes the socket if nobody did, and calls
\* ServiceClientCallback::onClosed.
OnClosed(w) ==
    /\ at[w] = "closed"
    /\ EraseConnection(on[w])
    /\ conn' = [conn EXCEPT ![on[w]] = "closed"]
    /\ shut' = shut \cup {on[w]}
    /\ Goto(w, "idle", None)
    /\ UNCHANGED <<listener, owner, accepts, starved, port, peer, told>>

\* WorkerThread::onRun dequeues the next completion and dispatches it.
Dequeue(w) ==
    /\ at[w] = "idle" /\ port # <<>>
    /\ Goto(w, Head(port).kind, Head(port).client)
    /\ port' = Tail(port)
    /\ UNCHANGED <<listener, owner, accepts, starved, peer, conn, shut, map, told>>

Handle(w) ==
    \/ OnAccepted(w) \/ FirstRecv(w) \/ AcceptNext(w) \/ OnFailed(w)
    \/ OnReceived(w) \/ RecvAgain(w) \/ OnClosed(w) \/ Dequeue(w)

\* Service::close: closesocket, which aborts the outstanding accept (it fails,
\* and changes nothing, if onProcessFailed closed the handle already) ...
CloseSocket ==
    /\ owner = "started" /\ listener = "open"
    /\ owner' = "closing" /\ listener' = "closed"
    /\ port' = IF accepts > 0 THEN Append(port, [kind |-> "aborted", client |-> None]) ELSE port
    /\ accepts' = 0
    /\ UNCHANGED <<starved, peer, conn, shut, map, at, on, told>>

\* ... and only then the assignment of INVALID_SOCKET.
Invalidate ==
    /\ owner = "closing"
    /\ owner' = "closed"
    /\ UNCHANGED <<listener, accepts, starved, port, peer, conn, shut, map, at, on, told>>

-------------------------------------------------------------------------------
\* The clients and the system.
Connect(c) ==
    /\ listener = "open" /\ peer[c] = "away"
    /\ peer' = [peer EXCEPT ![c] = "up"]
    /\ UNCHANGED <<listener, owner, accepts, starved, port, conn, shut, map, at, on, told>>

\* A peer that is connected leaves, orderly or not.
Leave(c) ==
    /\ peer[c] = "up"
    /\ \E how \in {"left"} \cup (IF PeerMayReset THEN {"reset"} ELSE {}) :
         peer' = [peer EXCEPT ![c] = how]
    /\ UNCHANGED <<listener, owner, accepts, starved, port, conn, shut, map, at, on, told>>

\* The outstanding accept completes with a client of the backlog.
CompleteAccept(c) ==
    /\ accepts > 0
    /\ peer[c] # "away" /\ conn[c] = "none"
    /\ accepts' = accepts - 1
    /\ conn' = [conn EXCEPT ![c] = "accepted"]
    /\ port' = Append(port, [kind |-> "accepted", client |-> c])
    /\ UNCHANGED <<listener, owner, starved, peer, shut, map, at, on, told>>

\* It may fail instead, if the client of the backlog was reset.
FailAccept(c) ==
    /\ accepts > 0
    /\ peer[c] = "reset" /\ conn[c] = "none"
    /\ accepts' = accepts - 1
    /\ conn' = [conn EXCEPT ![c] = "refused"]
    /\ port' = Append(port, [kind |-> "failed", client |-> c])
    /\ UNCHANGED <<listener, owner, starved, peer, shut, map, at, on, told>>

\* The armed receive of a connection completes with data (Leave is the end's
\* arrival at the server, behind all data), ...
CompleteData(c) ==
    /\ conn[c] = "armed" /\ peer[c] = "up"
    /\ conn' = [conn EXCEPT ![c] = "received"]
    /\ port' = Append(port, [kind |-> "received", client |-> c])
    /\ UNCHANGED <<listener, owner, accepts, starved, peer, shut, map, at, on, told>>

\* ... or ends with the connection.
CompleteClose(c) ==
    /\ conn[c] = "armed" /\ peer[c] \in {"left", "reset"}
    /\ conn' = [conn EXCEPT ![c] = "closing"]
    /\ port' = Append(port, [kind |-> "closed", client |-> c])
    /\ UNCHANGED <<listener, owner, accepts, starved, peer, shut, map, at, on, told>>

\* AsyncSocket::close by a user, from onAccepted on, in a callback or on any
\* thread, or for a send that failed: an armed receive is aborted.
CloseConnection(c) ==
    /\ c \in map \ shut
    /\ UserMayClose \/ peer[c] = "reset"
    /\ shut' = shut \cup {c}
    /\ \/ /\ conn[c] = "armed"
          /\ conn' = [conn EXCEPT ![c] = "closing"]
          /\ port' = Append(port, [kind |-> "closed", client |-> c])
       \/ conn[c] # "armed" /\ UNCHANGED <<conn, port>>
    /\ UNCHANGED <<listener, owner, accepts, starved, peer, map, at, on, told>>

\* Another part of the process takes the last sockets.
Starve ==
    /\ MayStarve /\ ~ starved
    /\ starved' = TRUE
    /\ UNCHANGED <<listener, owner, accepts, port, peer, conn, shut, map, at, on, told>>

System(c) == CompleteAccept(c) \/ FailAccept(c) \/ CompleteData(c) \/ CompleteClose(c)

Next ==
    \/ Start \/ FirstAccept \/ CloseSocket \/ Invalidate \/ Starve
    \/ \E w \in Workers : Handle(w)
    \/ \E c \in Clients : Connect(c) \/ Leave(c) \/ CloseConnection(c) \/ System(c)

Spec == Init /\ [][Next]_vars

\* Workers are scheduled and handlers return; a call of close goes on; the
\* system completes what can be completed.  Clients, users and owners may do nothing.
Fairness ==
    /\ \A w \in Workers : WF_vars(Handle(w))
    /\ WF_vars(FirstAccept) /\ WF_vars(Invalidate)
    /\ \A c \in Clients : SF_vars(CompleteAccept(c) \/ FailAccept(c)) /\ WF_vars(CompleteClose(c))

FairSpec == Spec /\ Fairness

-------------------------------------------------------------------------------
Fates ==
    {"none", "accepted", "refused", "armed", "received", "dropped", "unarmed", "closing", "closed"}
Steps ==
    {"idle", "accepted", "recv", "accept", "aborted", "failed", "received", "again", "closed"}

TypeOK ==
    /\ listener \in {"unopened", "open", "closed"}
    /\ owner \in {"new", "opened", "started", "closing", "closed"}
    /\ accepts \in Nat /\ starved \in BOOLEAN /\ told \in Nat
    /\ port \in Seq(Completions)
    /\ peer \in [Clients -> {"away", "up", "left", "reset"}]
    /\ conn \in [Clients -> Fates]
    /\ shut \subseteq Clients /\ map \subseteq Clients
    /\ at \in [Workers -> Steps]
    /\ on \in [Workers -> Clients \cup {None}]
    /\ \A w \in Workers :
         at[w] \in {"accepted", "recv", "received", "again", "closed"} => on[w] \in Clients

\* What is of a connection that is accepted, or of none, not of the accept loop
Aside == {"idle", "received", "again", "closed"}

\* The accept loop is one chain: an accept the system holds, its completion, or
\* the worker that handles it.
Chain ==
    accepts
    + Cardinality({i \in DOMAIN port : port[i].kind \notin Aside})
    + Cardinality({w \in Workers : at[w] \notin Aside})

\* Never two accepts at a time, and the owner is told of the close at most
\* once, however the close falls into the chain.
OneAccept == Chain <= 1 /\ told <= 1 /\ (told = 1 => Chain = 0)

\* A connection is erased only after it was inserted, though the two callbacks
\* run on different workers: what is closed is out of the map for good.
ErasedAfterInserted ==
    /\ \A c \in Clients :
         conn[c] \in {"armed", "received", "dropped", "unarmed", "closing"} => c \in map
    /\ \A c \in Clients : conn[c] \in {"none", "refused", "closed"} => c \notin map

\* A server that listens keeps its chain alive, as long as there are sockets and
\* no first receive fails: neither for a peer that reset its connection (see
\* EveryClientAccepted) nor for a user that closed it in onAccepted.  No later
\* end of a connection, and no close by a user, takes the chain with it.
KeepsAccepting ==
    owner = "started" /\ listener = "open" /\ ~ starved /\ (\A c \in Clients : conn[c] # "dropped")
      => Chain = 1

\* A connection whose peer left, or that was closed here, is out of the map in the
\* end, whichever worker is told of it, closed server or not - unless a recv found
\* it so, the first one or one after data, and closed it untold.
DeadConnectionErased ==
    \A c \in Clients :
      c \in map /\ (peer[c] \in {"left", "reset"} \/ c \in shut)
        ~> c \notin map \/ conn[c] \in {"dropped", "unarmed"}

\* Every client that connects, and waits, is accepted while the server is open ("ready to
\* accept next socket").  Not so in the code: one client that resets its
\* connection too early ends the loop for all.
EveryClientAccepted ==
    \A c \in Clients :
      peer[c] = "up" /\ conn[c] = "none"
        ~> conn[c] # "none" \/ peer[c] # "up" \/ listener = "closed"

\* Closing a server raises ServerCallback::onClosed, as its test expects.  Not so
\* in the code, if no accept is outstanding at the time.
CloseIsTold == listener = "closed" ~> told > 0

-------------------------------------------------------------------------------
\* What the users of a server see of all this: the callback that is running, and the
\* connections that are with the service.
Call ==
    IF \E w \in Workers : at[w] = "accepted" THEN "onAccepted"
    ELSE IF \E w \in Workers : at[w] = "aborted" THEN "onClosed" ELSE "none"

Member(c) == IF c \in map THEN "in" ELSE IF conn[c] = "closed" THEN "gone" ELSE "new"

Callbacks == INSTANCE ServerCallbacks WITH
    Connections <- Clients, call <- Call, member <- [c \in Clients |-> Member(c)]

\* The server calls its users as the abstract one does, whichever workers handle the
\* completions and wherever the close falls: the calls never overlap, a connection
\* enters with its onAccepted, once, and onClosed is the last call.
ImplementsServerCallbacks == Callbacks!Spec
===============================================================================
