--------------------------- MODULE RSocketServer ---------------------------
(***************************************************************************)
(* RSocketServer and the RSocketClients that connect to it: worker threads *)
(* accept connections and run the ReactiveSockets, clients come, make a    *)
(* request and go, and some thread destroys the server, which has to close *)
(* every ReactiveSocket in the executor of its worker and to wait until    *)
(* all are gone.  Connections go on arriving and ending meanwhile.         *)
(***************************************************************************)
EXTENDS Naturals, Sequences, FiniteSets, SequencesExt

CONSTANTS
    Clients,        \* the RSocketClients; each connects once
    Workers,        \* worker threads of the TcpConnectionAcceptor
    Refusing        \* clients whose SETUP the application refuses

ASSUME RSocketServerAssumption ==
    /\ IsFiniteSet(Clients) /\ Refusing \subseteq Clients
    /\ Workers # {}

VARIABLES
    client,     \* state of each client: "idle", "connecting", "connected", "gone"
    request,    \* its request: "none", "queued", "sent", "answered", "failed"
    conn,       \* its connection at the server
    worker,     \* the worker that runs the connection
    tasks,      \* what waits in the event base of each worker
    sockets,    \* sockets_
    server,     \* how far start and the destructor have come
    posts,      \* how often shutdown_ was posted
    met,        \* history: how the connection met the shutdown
    dangling    \* history: sockets whose task called what was destroyed

vars == <<client, request, conn, worker, tasks, sockets, server, posts, met, dangling>>

Init ==
    /\ client = [c \in Clients |-> "idle"]
    /\ request = [c \in Clients |-> "none"]
    /\ conn = [c \in Clients |-> "none"]
    /\ worker \in [Clients -> Workers]
    /\ tasks = [w \in Workers |-> << >>]
    /\ sockets = {}
    /\ server = "new"
    /\ posts = 0
    /\ met = [c \in Clients |-> "no"]
    /\ dangling = {}

(* The server socket of TcpConnectionAcceptor.                             *)
Listening == server \in {"started", "parked"}

(* shutdown_ has a value.                                                  *)
ShuttingDown == server \in {"waiting", "done"}

(* The destructor has found no socket left, or will find so when it wakes. *)
Told == posts > 0 \/ server = "left"

Add(q, task) == [q EXCEPT ![worker[task[2]]] = Append(@, task)]

-----------------------------------------------------------------------------
(* Clients.                                                                *)

ClientStep == UNCHANGED <<worker, tasks, sockets, server, posts, met, dangling>>

(* RSocketClient::connect: the factory connects in its own thread.         *)
Connect(c) ==
    /\ client[c] = "idle"
    /\ client' = [client EXCEPT ![c] = "connecting"]
    /\ UNCHANGED <<request, conn>> /\ ClientStep

(* connectSuccess: the socket is connected, the SETUP frame is on its way. *)
ConnectSuccess(c) ==
    /\ client[c] = "connecting" /\ Listening
    /\ client' = [client EXCEPT ![c] = "connected"]
    /\ UNCHANGED <<request, conn>> /\ ClientStep

(* connectErr: nothing is left of the attempt.                             *)
ConnectErr(c) ==
    /\ client[c] = "connecting"
    /\ client' = [client EXCEPT ![c] = "gone"]
    /\ UNCHANGED <<request, conn>> /\ ClientStep

(* RSocketRequester::requestResponse from the application's thread.        *)
Request(c) ==
    /\ client[c] = "connected" /\ request[c] = "none"
    /\ request' = [request EXCEPT ![c] = "queued"]
    /\ UNCHANGED <<client, conn>> /\ ClientStep

(* The client's event base: a closed ReactiveSocket fails the request.     *)
ClientRuns(c) ==
    /\ request[c] = "queued"
    /\ request' = [request EXCEPT ![c] = IF client[c] = "connected" THEN "sent"
                                         ELSE "failed"]
    /\ UNCHANGED <<client, conn>> /\ ClientStep

EndStreams(r) == IF r = "sent" THEN "failed" ELSE r

(* The server closed the connection, or will never accept it.              *)
ConnectionLost(c) ==
    /\ client[c] = "connected"
    /\ \/ conn[c] \in {"closed", "removed", "refused"}
       \/ conn[c] = "none" /\ server \notin {"new", "started", "parked"}
    /\ client' = [client EXCEPT ![c] = "gone"]
    /\ request' = [request EXCEPT ![c] = EndStreams(@)]
    /\ UNCHANGED conn /\ ClientStep

-----------------------------------------------------------------------------
(* Worker threads.                                                         *)

(* connectionAccepted and ServerConnectionAcceptor::accept; stop() does    *)
(* not take back what the listener has handed to a worker.                 *)
ConnectionAccepted(c) ==
    /\ client[c] = "connected" /\ conn[c] = "none" /\ server # "gone"
    /\ conn' = [conn EXCEPT ![c] = "accepted"]
    /\ UNCHANGED <<client, request>> /\ ClientStep

(***************************************************************************)
(* setupNewSocket: the application's handler is asked, the new             *)
(* ReactiveSocket is added to sockets_ and connected; a handler that       *)
(* throws has the transport closed.                                        *)
(***************************************************************************)
SetupNewSocket(c) ==
    /\ conn[c] = "accepted"
    /\ IF c \in Refusing
       THEN conn' = [conn EXCEPT ![c] = "refused"] /\ UNCHANGED <<sockets, met>>
       ELSE /\ conn' = [conn EXCEPT ![c] = "open"]
            /\ sockets' = sockets \cup {c}
            /\ met' = [met EXCEPT ![c] = IF Told THEN "late"
                                         ELSE IF ShuttingDown THEN "joined" ELSE @]
    /\ UNCHANGED <<client, request, worker, tasks, server, posts, dangling>>

Answer(c) ==
    /\ conn[c] = "open" /\ request[c] = "sent"
    /\ request' = [request EXCEPT ![c] = "answered"]
    /\ UNCHANGED <<client, conn>> /\ ClientStep

(* Mutant of OnClosed: called by close and again by the end of the transport.*)
OnClosedTwice(q, c) == Add(Add(q, <<"remove", c>>), <<"remove", c>>)

(***************************************************************************)
(* The end of a ReactiveSocket: its onClosed listener adds a task that     *)
(* will remove it, because it cannot be deleted in its own call.           *)
(***************************************************************************)
OnClosed(q, c) == Add(q, <<"remove", c>>)

(* ~RSocketClient, or the connection fails: the socket closes.             *)
ClientLeaves(c) ==
    /\ client[c] = "connected"
    /\ client' = [client EXCEPT ![c] = "gone"]
    /\ request' = [request EXCEPT ![c] = EndStreams(@)]
    /\ conn' = [conn EXCEPT ![c] = CASE @ = "open" -> "closed"
                                     [] @ \in {"none", "accepted"} -> "refused"
                                     [] OTHER -> @]
    /\ tasks' = IF conn[c] = "open" THEN OnClosed(tasks, c) ELSE tasks
    /\ UNCHANGED <<worker, sockets, server, posts, met, dangling>>

(* Mutant of RemoveSocket: the one who waits is not told.                  *)
RemoveSocketSilently(c) ==
    /\ sockets' = sockets \ {c}
    /\ conn' = [conn EXCEPT ![c] = "removed"]
    /\ UNCHANGED posts

(* Mutant of RemoveSocket: shutdown_ is posted for every socket.           *)
RemoveSocketEager(c) ==
    /\ sockets' = sockets \ {c}
    /\ conn' = [conn EXCEPT ![c] = "removed"]
    /\ posts' = IF ShuttingDown THEN posts + 1 ELSE posts

(* RSocketServer::removeSocket deletes the ReactiveSocket.                 *)
RemoveSocket(c) ==
    /\ sockets' = sockets \ {c}
    /\ conn' = [conn EXCEPT ![c] = "removed"]
    /\ posts' = IF ShuttingDown /\ sockets' = {} THEN posts + 1 ELSE posts

(* A task to remove a socket uses the server, a task of the destructor     *)
(* calls close through a raw pointer to the socket.                        *)
RunTask(w) ==
    LET c == Head(tasks[w])[2]
        q == [tasks EXCEPT ![w] = Tail(@)]
        removing == Head(tasks[w])[1] = "remove"
    IN  /\ tasks[w] # << >>
        /\ IF removing
           THEN RemoveSocket(c) /\ tasks' = q
           ELSE /\ IF conn[c] = "open"
                   THEN conn' = [conn EXCEPT ![c] = "closed"] /\ tasks' = OnClosed(q, c)
                   ELSE tasks' = q /\ UNCHANGED conn
                /\ UNCHANGED <<sockets, posts>>
        /\ dangling' = IF IF removing THEN server = "gone" ELSE conn[c] = "removed"
                       THEN dangling \cup {c} ELSE dangling
        /\ UNCHANGED <<client, request, worker, server, met>>

-----------------------------------------------------------------------------
(* The server's own thread.                                                *)

ServerStep == UNCHANGED <<client, request, worker, posts, dangling>>

Start ==
    /\ server = "new"
    /\ server' \in {"started", "parked"}
    /\ UNCHANGED <<conn, tasks, sockets, met>> /\ ServerStep

Unpark ==
    /\ server = "parked"
    /\ server' = "started"
    /\ UNCHANGED <<conn, tasks, sockets, met>> /\ ServerStep

(***************************************************************************)
(* ~RSocketServer: stop() ends the listener but not the workers.           *)
(* Connections that wait for their SETUP stay with the acceptor.           *)
(***************************************************************************)
Stop ==
    /\ server = "started"
    /\ server' = "stopping"
    /\ UNCHANGED <<conn, tasks, sockets, met>> /\ ServerStep

(* One task of the kind for each of the sockets of worker w.               *)
TasksFor(kind, owned, w) ==
    LET mine == SetToSeq({c \in owned : worker[c] = w})
    IN  [i \in DOMAIN mine |-> <<kind, mine[i]>>]

(* Under the lock of sockets_: nothing to do, or close all in their threads.*)
CloseAll ==
    /\ server = "stopping"
    /\ IF sockets = {}
       THEN server' = "left" /\ UNCHANGED <<tasks, met>>
       ELSE /\ server' = "waiting"
            /\ tasks' = [w \in Workers |-> tasks[w] \o TasksFor("close", sockets, w)]
            /\ met' = [c \in Clients |-> IF conn[c] = "closed" THEN "closing" ELSE met[c]]
    /\ UNCHANGED <<conn, sockets>> /\ ServerStep

(* shutdown_->wait() returns.                                              *)
Wait ==
    /\ server = "waiting" /\ posts > 0
    /\ server' = "done"
    /\ UNCHANGED <<conn, tasks, sockets, met>> /\ ServerStep

(***************************************************************************)
(* The members are destroyed: with sockets_ what is in it, and a socket    *)
(* that was open calls its onClosed listener; ~ServerConnectionAcceptor    *)
(* closes the connections that wait for their SETUP.                       *)
(***************************************************************************)
DestroyMembers ==
    /\ server \in {"left", "done"}
    /\ server' = "gone"
    /\ sockets' = {}
    /\ conn' = [c \in Clients |-> CASE conn[c] = "accepted" -> "refused"
                                    [] conn[c] \in {"open", "closed"} -> "removed"
                                    [] OTHER -> conn[c]]
    /\ tasks' = [w \in Workers |-> tasks[w] \o
                    TasksFor("remove", {c \in sockets : conn[c] = "open"}, w)]
    /\ UNCHANGED met /\ ServerStep

Next ==
    \/ \E c \in Clients :
          \/ Connect(c) \/ ConnectSuccess(c) \/ ConnectErr(c)
          \/ Request(c) \/ ClientRuns(c) \/ ConnectionLost(c)
          \/ ConnectionAccepted(c) \/ SetupNewSocket(c) \/ Answer(c)
          \/ ClientLeaves(c)
    \/ \E w \in Workers : RunTask(w)
    \/ Start \/ Unpark \/ Stop \/ CloseAll \/ Wait \/ DestroyMembers

(***************************************************************************)
(* Event bases run what they were given, the destructor goes on, and an    *)
(* end of a connection is noticed.                                         *)
(***************************************************************************)
Spec ==
    /\ Init /\ [][Next]_vars
    /\ \A w \in Workers : WF_vars(RunTask(w))
    /\ WF_vars(CloseAll) /\ WF_vars(Wait) /\ WF_vars(DestroyMembers)
    /\ \A c \in Clients : WF_vars(ClientRuns(c)) /\ WF_vars(ConnectionLost(c))

-----------------------------------------------------------------------------
(***************************************************************************)
(* The destructor of the server ends, and every request that was made ends *)
(* with it, unless it is kept waiting for ever by a socket whose SETUP     *)
(* came after it had taken the lock: nobody closes that one.               *)
(***************************************************************************)
ShutdownEnds ==
    \/ server = "stopping" ~>
           /\ server = "gone"
           /\ \A c \in Clients : request[c] \in {"none", "answered", "failed"}
    \/ <>[](\E c \in sockets : met[c] = "joined" /\ conn[c] = "open")

(***************************************************************************)
(* "All requests are fully finished, worker threads can be safely killed   *)
(* off", and the DCHECK before it: when the destructor has waited, or had  *)
(* nothing to wait for, a ReactiveSocket is left only if its SETUP came    *)
(* after shutdown_ was posted (after the lock was given back); a worker    *)
(* has a task left only for such a socket, or to close one whose removal   *)
(* was under way when the destructor took the lock.  shutdown_ is posted   *)
(* once, unless a SETUP came after that.                                   *)
(***************************************************************************)
QuietAfterShutdown ==
    /\ server \in {"left", "done"} =>
          /\ \A c \in sockets : met[c] = "late"
          /\ \A w \in Workers : \A i \in DOMAIN tasks[w] :
                LET t == tasks[w][i]
                IN  met[t[2]] = "late" \/ (t[1] = "close" /\ met[t[2]] = "closing")
    /\ posts > 1 => \E c \in Clients : met[c] = "late"

(***************************************************************************)
(* sockets_ holds a socket from its SETUP until its one removal.  The      *)
(* destructor's close finds its socket deleted only if the removal was     *)
(* under way when the destructor took the lock, and a removal finds the    *)
(* server gone only for a socket whose SETUP came after it was told that   *)
(* none is left.                                                           *)
(***************************************************************************)
NothingDangles ==
    /\ sockets = {c \in Clients : conn[c] \in {"open", "closed"}}
    /\ \A c \in dangling : met[c] \in {"closing", "late"}

=============================================================================
