------------------------ MODULE ResumableConnection ------------------------
(***************************************************************************)
(* A resumable client and a resumable server (ConnectionAutomaton with its *)
(* ResumeCache and StreamState, driven through ReactiveSocket and, on the  *)
(* server, ServerConnectionAcceptor), over a sequence of transports that   *)
(* may fail at any time.  A transport carries two byte streams: a failure  *)
(* loses a suffix of what is on its way, and each end sees the rest before *)
(* it sees the end of the stream.                                          *)
(*                                                                         *)
(* All frames of streams are PAYLOAD frames of one stream and one length;  *)
(* they are numbered by the end that writes them.                          *)
(***************************************************************************)
EXTENDS ResumeCacheOps, SequencesExt

CONSTANTS
    Client, Server,
    MaxWrites,      \* bound on the frames an end writes
    MaxTransports,  \* bound on transports; the last one does not fail
    Deferred,       \* the executor runs tasks later (EventBase), not inline
    Drained,        \* resumption begins when no task is queued any more
    InOrder,        \* a connection the client gave up is not accepted after
                    \* a newer one
    PositionInResume,  \* RESUME carries the position of the client, as it does
                    \* in version 1.0 and does not in 0.0 and 0.1
    CallbackSites   \* callbacks in which the application writes a frame

ASSUME BoundsAssumption ==
    /\ MaxWrites \in Nat /\ MaxTransports \in Nat \ {0}
    /\ {0, 1} \subseteq StreamIds
    /\ Client # Server

ASSUME ModeAssumption ==
    /\ {Deferred, Drained, InOrder, PositionInResume} \subseteq BOOLEAN
    /\ CallbackSites \subseteq {"connected", "resumeOk", "streamsResumed"}

VARIABLES
    end,            \* the ConnectionAutomaton of each end
    wire,           \* wire[t][e]: the stream towards e on transport t
    queue,          \* tasks in the executor of each end
    lastTransport,  \* transports opened so far
    accepted        \* the newest transport the server has been given, 0 before
                    \* the SETUP frame: the server then has no socket yet

vars == <<end, wire, queue, lastTransport, accepted>>

Ends == {Client, Server}

Peer(e) == IF e = Client THEN Server ELSE Client

Transports == 1..MaxTransports

-----------------------------------------------------------------------------
(* Frames                                                                  *)

Frame(type, stream, a, b) ==
    [type |-> type, stream |-> stream, len |-> 1, a |-> a, b |-> b]

StreamFrame(n) == Frame("PAYLOAD", 1, n, 0)
SetupFrame == Frame("SETUP", 0, 0, 0)
ErrorFrame == Frame("ERROR", 0, 0, 0)
ResumeFrame(serverPosition, clientPosition) ==
    Frame("RESUME", 0, serverPosition, clientPosition)
ResumeOkFrame(position) == Frame("RESUME_OK", 0, position, 0)
KeepaliveFrame(position, respond) ==
    Frame("KEEPALIVE", 0, position, IF respond THEN 1 ELSE 0)

-----------------------------------------------------------------------------
(***************************************************************************)
(* ConnectionAutomaton.  transport is frameTransport_ (0 for null),        *)
(* resuming is whether resumeCallback_ is set, awaiting is pending_ of the *)
(* keepalive timer and pending is StreamState::outputFrames_.  out holds   *)
(* what the current step has passed to the transport.  written and         *)
(* delivered are the application's view: the number of frames written and  *)
(* the frames passed to handleStreamFrame.                                 *)
(***************************************************************************)
NewEnd ==
    [transport |-> 0, closed |-> FALSE, resuming |-> FALSE, awaiting |-> FALSE,
     cache |-> NewCache, pending |-> << >>, out |-> << >>,
     written |-> 0, delivered |-> << >>]

OutputFrameOrEnqueue(x, frame) ==
    IF x.transport # 0 /\ ~x.resuming
    THEN [x EXCEPT !.cache = TrackSentFrame(@, frame),
                   !.out   = Append(@, frame)]
    ELSE [x EXCEPT !.pending = Append(@, frame)]

(***************************************************************************)
(* sendPendingFrames: each frame in turn, the automaton after n of them    *)
(* being after[n].                                                         *)
(***************************************************************************)
SendPending(x) ==
    LET after[n \in 0..Len(x.pending)] ==
            IF n = 0 THEN [x EXCEPT !.pending = << >>]
            ELSE OutputFrameOrEnqueue(after[n - 1], x.pending[n])
    IN  after[Len(x.pending)]

Write(x) ==
    OutputFrameOrEnqueue([x EXCEPT !.written = @ + 1], StreamFrame(x.written + 1))

(***************************************************************************)
(* The application is called back at site and may write a frame there.     *)
(***************************************************************************)
Callback(x, site, writes) ==
    IF writes /\ site \in CallbackSites /\ x.written < MaxWrites
    THEN Write(x)
    ELSE x

(* Mutant of CloseFrameTransport: resumeCallback_ is not reset.            *)
CloseFrameTransportOnly(x) == [x EXCEPT !.transport = 0, !.awaiting = FALSE]

CloseFrameTransport(x) ==
    IF x.transport = 0
    THEN x
    ELSE [x EXCEPT !.transport = 0, !.resuming = FALSE, !.awaiting = FALSE]

Disconnect(x) == CloseFrameTransport(x)

Close(x) ==
    IF x.closed
    THEN x
    ELSE CloseFrameTransport([x EXCEPT !.closed = TRUE, !.resuming = FALSE])

CloseWithError(x) == Close(OutputFrameOrEnqueue(x, ErrorFrame))

Connect(x, t, sendingPendingFrames, writes) ==
    LET y == Callback([x EXCEPT !.transport = t], "connected", writes)
    IN  IF sendingPendingFrames THEN SendPending(y) ELSE y

(***************************************************************************)
(* Mutants of ResumeFromPosition: pending frames go before the cached      *)
(* ones; they do not go at all.                                            *)
(***************************************************************************)
ResumeFromPositionPendingFirst(x, position, writes) ==
    LET y == SendPending(Callback(x, "streamsResumed", writes))
    IN  [y EXCEPT !.out =
            @ \o [i \in DOMAIN SendFramesFromPosition(y.cache, position)
                  |-> SendFramesFromPosition(y.cache, position)[i].frame]]

ResumeFromPositionCacheOnly(x, position, writes) ==
    [x EXCEPT !.out =
        @ \o [i \in DOMAIN SendFramesFromPosition(x.cache, position)
              |-> SendFramesFromPosition(x.cache, position)[i].frame]]

ResumeFromPosition(x, position, writes) ==
    LET y == Callback(x, "streamsResumed", writes)
    IN  SendPending([y EXCEPT !.out =
                        @ \o [i \in DOMAIN SendFramesFromPosition(y.cache, position)
                              |-> SendFramesFromPosition(y.cache, position)[i].frame]])

(* Mutant of HandleKeepalive: resets to what was received, not to what the *)
(* other end has received.                                                 *)
HandleKeepaliveOwnPosition(e, x, frame) ==
    LET y == [x EXCEPT !.cache = ResetUpToPosition(@, x.cache.impliedPosition)]
    IN  IF e = Server
        THEN OutputFrameOrEnqueue(y, KeepaliveFrame(y.cache.impliedPosition, FALSE))
        ELSE [y EXCEPT !.awaiting = FALSE]

HandleKeepalive(e, x, frame) ==
    LET y == [x EXCEPT !.cache = ResetUpToPosition(@, frame.a)]
        respond == frame.b = 1
    IN  IF (e = Server) # respond
        THEN CloseWithError(y)
        ELSE IF e = Server
        THEN OutputFrameOrEnqueue(y, KeepaliveFrame(y.cache.impliedPosition, FALSE))
        ELSE [y EXCEPT !.awaiting = FALSE]

HandleResumeOk(x, frame, writes) ==
    IF x.resuming /\ IsPositionAvailable(x.cache, frame.a)
    THEN ResumeFromPosition(
            [Callback(x, "resumeOk", writes) EXCEPT !.resuming = FALSE],
            frame.a, writes)
    ELSE CloseWithError(x)

HandleConnectionFrame(e, x, frame, writes) ==
    CASE frame.type = "KEEPALIVE" -> HandleKeepalive(e, x, frame)
      [] frame.type = "RESUME_OK" -> HandleResumeOk(x, frame, writes)
      [] frame.type = "ERROR"     -> Close(x)

(***************************************************************************)
(* processFrameImpl.  A frame is counted before it is looked at.           *)
(***************************************************************************)
ProcessFrame(e, x, frame, writes) ==
    LET y == [x EXCEPT !.cache = TrackReceivedFrame(@, frame)]
    IN  IF x.closed THEN x
        ELSE IF frame.stream = 0 THEN HandleConnectionFrame(e, y, frame, writes)
        ELSE IF x.resuming THEN CloseWithError(y)
        ELSE [y EXCEPT !.delivered = Append(@, frame.a)]

(***************************************************************************)
(* clientPositionExist.  A RESUME of version 0.x is read with              *)
(* kUnspecifiedResumePosition in place of the position.  The mutant does   *)
(* not know that value.                                                    *)
(***************************************************************************)
ClientPositionExistsOnly(c, clientPosition) == CanResumeFrom(c, clientPosition)

ClientPositionExists(c, clientPosition) ==
    ~PositionInResume \/ CanResumeFrom(c, clientPosition)

(***************************************************************************)
(* Mutants of ResumeFromPositionOrClose: RESUME_OK goes after the frames;  *)
(* the position of the server is not looked at.                            *)
(***************************************************************************)
ResumeOkLast(x, frame, writes) ==
    IF ClientPositionExists(x.cache, frame.b) /\ IsPositionAvailable(x.cache, frame.a)
    THEN LET y == ResumeFromPosition(x, frame.a, writes)
         IN  [y EXCEPT !.out = Append(@, ResumeOkFrame(x.cache.impliedPosition))]
    ELSE CloseWithError(x)

ResumeFromAnyPosition(x, frame, writes) ==
    IF ClientPositionExists(x.cache, frame.b)
    THEN ResumeFromPosition(
            [x EXCEPT !.out = Append(@, ResumeOkFrame(x.cache.impliedPosition))],
            frame.a, writes)
    ELSE CloseWithError(x)

(***************************************************************************)
(* resumeFromPositionOrClose, on the server.                               *)
(***************************************************************************)
ResumeFromPositionOrClose(x, frame, writes) ==
    IF ClientPositionExists(x.cache, frame.b) /\ IsPositionAvailable(x.cache, frame.a)
    THEN ResumeFromPosition(
            [x EXCEPT !.out = Append(@, ResumeOkFrame(x.cache.impliedPosition))],
            frame.a, writes)
    ELSE CloseWithError(x)

-----------------------------------------------------------------------------
(***************************************************************************)
(* Transports.  A stream has the frames on their way and whether it ends   *)
(* after them.                                                             *)
(***************************************************************************)
NewStream == [frames |-> << >>, ended |-> FALSE]
DeadStream == [frames |-> << >>, ended |-> TRUE]

Extend(stream, frames) ==
    IF stream.ended THEN stream ELSE [stream EXCEPT !.frames = @ \o frames]

(***************************************************************************)
(* End e becomes x.  What it has output goes to transport t; the           *)
(* transports it no longer uses are closed.                                *)
(***************************************************************************)
Commit(e, x, t, streams) ==
    LET left == {end[e].transport, t} \ {0, x.transport}
        sent == [u \in Transports |->
                   IF u = t THEN [streams[u] EXCEPT ![Peer(e)] = Extend(@, x.out)]
                   ELSE streams[u]]
    IN  /\ end' = [end EXCEPT ![e] = [x EXCEPT !.out = << >>]]
        /\ wire' = [u \in Transports |->
                      IF u \in left
                      THEN [sent[u] EXCEPT ![e] = DeadStream,
                                           ![Peer(e)].ended = TRUE]
                      ELSE sent[u]]

(***************************************************************************)
(* The streams without the first frame towards e on t.                     *)
(***************************************************************************)
Consume(t, e) == [wire EXCEPT ![t][e].frames = Tail(@)]

Step(e, x) == Commit(e, x, end[e].transport, wire)

-----------------------------------------------------------------------------
Init ==
    /\ end = [e \in Ends |-> NewEnd]
    /\ wire = [t \in Transports |-> [e \in Ends |-> NewStream]]
    /\ queue = [e \in Ends |-> << >>]
    /\ lastTransport = 0
    /\ accepted = 0

(***************************************************************************)
(* checkNotClosed: operations of a ReactiveSocket need an open one.        *)
(***************************************************************************)
IsOpen(e) == ~end[e].closed /\ (e = Server => accepted # 0)

(***************************************************************************)
(* The application writes a frame on an open stream.                       *)
(***************************************************************************)
AppWrite(e) ==
    /\ IsOpen(e)
    /\ end[e].written < MaxWrites
    /\ Step(e, Write(end[e]))
    /\ UNCHANGED <<queue, lastTransport, accepted>>

AppDisconnect(e) ==
    /\ IsOpen(e)
    /\ end[e].transport \in 1..MaxTransports - 1
    /\ Step(e, Disconnect(end[e]))
    /\ UNCHANGED <<queue, lastTransport, accepted>>

AppClose(e) ==
    /\ IsOpen(e)
    /\ Step(e, Close(end[e]))
    /\ UNCHANGED <<queue, lastTransport, accepted>>

(***************************************************************************)
(* ReactiveSocket::clientConnect: SETUP, then what is pending.             *)
(***************************************************************************)
ClientConnect(writes) ==
    /\ IsOpen(Client)
    /\ lastTransport = 0
    /\ lastTransport' = 1
    /\ Commit(Client,
              Connect([end[Client] EXCEPT !.out = <<SetupFrame>>], 1, TRUE, writes),
              1, wire)
    /\ UNCHANGED <<queue, accepted>>

(***************************************************************************)
(* ReactiveSocket::tryClientResume on a new transport, whether or not the  *)
(* old one is still connected.                                             *)
(***************************************************************************)
TryClientResume(writes) ==
    LET x == end[Client]
        t == lastTransport + 1
        resume == ResumeFrame(x.cache.impliedPosition, x.cache.resetPosition)
    IN  /\ IsOpen(Client)
        /\ lastTransport \in 1..MaxTransports - 1
        /\ Drained => queue[Client] = << >>
        /\ lastTransport' = t
        /\ Commit(Client,
                  Connect([Disconnect(x) EXCEPT !.out = <<resume>>,
                                                !.resuming = TRUE],
                          t, FALSE, writes),
                  t, wire)
        /\ UNCHANGED <<queue, accepted>>

(***************************************************************************)
(* ServerConnectionAcceptor gets the first frame of a connection.  SETUP   *)
(* makes the server connect; RESUME makes it resume, or is refused when    *)
(* there is no open socket to resume.                                      *)
(***************************************************************************)
FirstFrame(t, type) ==
    /\ end[Server].transport # t
    /\ InOrder => t > accepted
    /\ wire[t][Server].frames # << >>
    /\ Head(wire[t][Server].frames).type = type

ServerSetup(t, writes) ==
    /\ FirstFrame(t, "SETUP")
    /\ Commit(Server,
              Connect(end[Server], t, TRUE, writes),
              t, Consume(t, Server))
    /\ accepted' = t
    /\ UNCHANGED <<queue, lastTransport>>

TryResumeServer(t, writes) ==
    /\ FirstFrame(t, "RESUME")
    /\ IsOpen(Server)
    /\ Drained => queue[Server] = << >>
    /\ Commit(Server,
              ResumeFromPositionOrClose(
                  Connect(Disconnect(end[Server]), t, FALSE, writes),
                  Head(wire[t][Server].frames), writes),
              t, Consume(t, Server))
    /\ accepted' = IF t > accepted THEN t ELSE accepted
    /\ UNCHANGED <<queue, lastTransport>>

RefuseResume(t) ==
    /\ FirstFrame(t, "RESUME")
    /\ ~IsOpen(Server)
    /\ Commit(Server, [end[Server] EXCEPT !.out = <<ErrorFrame>>], t, wire)
    /\ UNCHANGED <<queue, lastTransport, accepted>>

(***************************************************************************)
(* A frame arrives: FrameTransport::onNext, processFrame.                  *)
(***************************************************************************)
Receive(e, writes) ==
    LET t == end[e].transport
    IN  /\ t # 0
        /\ wire[t][e].frames # << >>
        /\ LET frame == Head(wire[t][e].frames)
           IN  IF Deferred
               THEN /\ queue' = [queue EXCEPT ![e] =
                                   Append(@, [transport |-> t, frame |-> <<frame>>])]
                    /\ wire' = Consume(t, e)
                    /\ UNCHANGED end
               ELSE /\ Commit(e, ProcessFrame(e, end[e], frame, writes), t,
                              Consume(t, e))
                    /\ UNCHANGED queue
        /\ UNCHANGED <<lastTransport, accepted>>

(***************************************************************************)
(* The stream ends: onTerminal.  FrameTransport signals it once.           *)
(***************************************************************************)
Terminal(t) == [transport |-> t, frame |-> << >>]

ReceiveTerminal(e) ==
    LET t == end[e].transport
    IN  /\ t # 0
        /\ wire[t][e] = DeadStream
        /\ IF Deferred
           THEN /\ ~Contains(queue[e], Terminal(t))
                /\ queue' = [queue EXCEPT ![e] = Append(@, Terminal(t))]
                /\ UNCHANGED <<end, wire>>
           ELSE /\ Step(e, Disconnect(end[e]))
                /\ UNCHANGED queue
        /\ UNCHANGED <<lastTransport, accepted>>

(***************************************************************************)
(* The executor runs a task.  A task does not know the transport it is     *)
(* from.                                                                   *)
(***************************************************************************)
RunTask(e, writes) ==
    /\ queue[e] # << >>
    /\ LET task == Head(queue[e])
       IN  Step(e, IF task = Terminal(task.transport)
                   THEN Disconnect(end[e])
                   ELSE ProcessFrame(e, end[e], task.frame[1], writes))
    /\ queue' = [queue EXCEPT ![e] = Tail(@)]
    /\ UNCHANGED <<lastTransport, accepted>>

(***************************************************************************)
(* The keepalive timer of the client fires; it runs while the client is    *)
(* connected and not resuming.  Without an answer since the last time, the *)
(* client disconnects.                                                     *)
(***************************************************************************)
KeepaliveTick ==
    LET x == end[Client]
    IN  /\ x.transport # 0 /\ ~x.resuming
        /\ x.awaiting => x.transport < MaxTransports
        /\ Step(Client,
                IF x.awaiting
                THEN Disconnect(x)
                ELSE [OutputFrameOrEnqueue(
                        x, KeepaliveFrame(x.cache.impliedPosition, TRUE))
                      EXCEPT !.awaiting = TRUE])
        /\ UNCHANGED <<queue, lastTransport, accepted>>

(***************************************************************************)
(* A transport breaks; any part of what is on its way may be lost.         *)
(***************************************************************************)
TransportFails(t) ==
    /\ t <= lastTransport /\ t < MaxTransports
    /\ \E e \in Ends : ~wire[t][e].ended
    /\ \E c \in 0..Len(wire[t][Client].frames), s \in 0..Len(wire[t][Server].frames) :
          wire' = [wire EXCEPT
                     ![t][Client] = [frames |-> SubSeq(@.frames, 1, c), ended |-> TRUE],
                     ![t][Server] = [frames |-> SubSeq(@.frames, 1, s), ended |-> TRUE]]
    /\ UNCHANGED <<end, queue, lastTransport, accepted>>

Next ==
    \/ \E e \in Ends : AppWrite(e) \/ AppDisconnect(e) \/ AppClose(e)
    \/ \E writes \in BOOLEAN :
          \/ ClientConnect(writes)
          \/ TryClientResume(writes)
          \/ \E t \in Transports : ServerSetup(t, writes) \/ TryResumeServer(t, writes)
          \/ \E e \in Ends : Receive(e, writes) \/ RunTask(e, writes)
    \/ \E t \in Transports : RefuseResume(t) \/ TransportFails(t)
    \/ \E e \in Ends : ReceiveTerminal(e)
    \/ KeepaliveTick

(***************************************************************************)
(* Fairness.  The transport delivers what it has not lost, the executor    *)
(* runs its tasks, the server looks at new connections, and the            *)
(* application of the client connects, and resumes when it is              *)
(* disconnected.                                                           *)
(***************************************************************************)
Fairness ==
    /\ \A e \in Ends :
          /\ WF_vars(\E writes \in BOOLEAN : Receive(e, writes))
          /\ WF_vars(ReceiveTerminal(e))
          /\ WF_vars(\E writes \in BOOLEAN : RunTask(e, writes))
    /\ \A t \in Transports :
          /\ WF_vars(\E writes \in BOOLEAN :
                        ServerSetup(t, writes) \/ TryResumeServer(t, writes))
          /\ WF_vars(RefuseResume(t))
    /\ WF_vars(\E writes \in BOOLEAN : ClientConnect(writes))
    /\ WF_vars(\E writes \in BOOLEAN :
                  end[Client].transport = 0 /\ TryClientResume(writes))

Spec == Init /\ [][Next]_vars /\ Fairness

-----------------------------------------------------------------------------
FrameOK(f) ==
    /\ f.type \in TrackedTypes \cup {"SETUP", "RESUME", "RESUME_OK", "KEEPALIVE"}
    /\ f.stream \in {0, 1}

(***************************************************************************)
(* Types, and the shape of the fields that belong together: resumeCallback_*)
(* is only set on a connected client, and a closed end has no transport.   *)
(***************************************************************************)
TypeOK ==
    /\ lastTransport \in 0..MaxTransports
    /\ \A e \in Ends :
          /\ end[e].transport \in 0..lastTransport
          /\ end[e].closed => end[e].transport = 0
          /\ end[e].resuming => e = Client /\ end[e].transport # 0
          /\ end[e].awaiting => end[e].transport # 0 /\ ~end[e].resuming
          /\ end[e].out = << >>
          /\ \A i \in 1..Len(end[e].pending) : FrameOK(end[e].pending[i])
          /\ \A t \in Transports : \A i \in DOMAIN wire[t][e].frames :
                FrameOK(wire[t][e].frames[i])

(***************************************************************************)
(* Frames reach the application of the other end in the order they were    *)
(* written, none twice and none skipped, over all transports.              *)
(***************************************************************************)
ExactlyOnceInOrder ==
    \A e \in Ends :
        /\ Len(end[e].delivered) <= end[Peer(e)].written
        /\ \A i \in 1..Len(end[e].delivered) : end[e].delivered[i] = i

(***************************************************************************)
(* The frame that e is about to process, if there is one: the first of the *)
(* tasks with a frame, or the first frame on its way when frames are       *)
(* processed as they arrive.                                               *)
(***************************************************************************)
NextFrames(e) ==
    IF Deferred
    THEN {queue[e][i].frame[1] :
            i \in {i \in DOMAIN queue[e] :
                     /\ queue[e][i].frame # << >>
                     /\ \A j \in 1..i - 1 : queue[e][j].frame = << >>}}
    ELSE {Head(wire[t][e].frames) :
            t \in {t \in Transports : t = end[e].transport /\ wire[t][e].frames # << >>}}

(***************************************************************************)
(* processFrameImpl: "during the time when we are resuming we are can't    *)
(* receive any other than connection level frames": between RESUME and     *)
(* RESUME_OK the client is never about to process a frame of a stream.     *)
(***************************************************************************)
NoStreamFrameWhileResuming ==
    end[Client].resuming => \A frame \in NextFrames(Client) : frame.stream = 0

(***************************************************************************)
(* What is on its way to e over t, in the order in which e will process    *)
(* it: tasks, frames, and what is pending at the other end.  A task has no *)
(* frame if it stands for the end of a transport.                          *)
(***************************************************************************)
OnItsWay(e, t) ==
    LET sent   == wire[t][e].frames
        unsent == end[Peer(e)].pending
    IN  [i \in DOMAIN queue[e] |-> queue[e][i].frame]
            \o [i \in DOMAIN sent |-> <<sent[i]>>]
            \o [i \in DOMAIN unsent |-> <<unsent[i]>>]

OfStreams(w, n) == {i \in 1..n : w[i] # << >> /\ w[i][1].stream # 0}

Resumed(t) ==
    /\ \A e \in Ends : end[e].transport = t /\ ~wire[t][e].ended
    /\ ~end[Client].resuming

(***************************************************************************)
(* Once both ends are back on one transport and the client has its         *)
(* RESUME_OK, the frames an end has written are exactly: those delivered,  *)
(* those queued and on their way, and those pending, in this order.        *)
(***************************************************************************)
NoGapAfterResume ==
    \A t \in Transports : Resumed(t) =>
        \A e \in Ends :
            LET w   == OnItsWay(e, t)
                got == Len(end[e].delivered)
            IN  /\ \A i \in 1..got : end[e].delivered[i] = i
                /\ \A i \in OfStreams(w, Len(w)) :
                      w[i][1].a = got + Cardinality(OfStreams(w, i))
                /\ got + Cardinality(OfStreams(w, Len(w))) = end[Peer(e)].written

(***************************************************************************)
(* A frame that was sent and has not been delivered can be sent again,     *)
(* unless capacity_ bytes were sent after it: acknowledgements never reach *)
(* beyond what the other end has processed.                                *)
(***************************************************************************)
RetainsUndelivered ==
    \A e \in Ends : ~end[e].closed =>
        \A p \in 0..end[e].cache.position :
            (/\ p >= Len(end[Peer(e)].delivered)
             /\ end[e].cache.position - p <= Capacity)
                => IsPositionAvailable(end[e].cache, p)

(***************************************************************************)
(* The server cannot answer the RESUME on t: one end is more than the      *)
(* capacity behind, or the connection is older than the newest accepted.   *)
(***************************************************************************)
ResumeOutOfReach(t) ==
    /\ FirstFrame(t, "RESUME")
    /\ \/ end[Server].cache.position - Head(wire[t][Server].frames).a > Capacity
       \/ /\ PositionInResume
          /\ end[Client].cache.position - end[Server].cache.impliedPosition > Capacity
       \/ t < accepted

(***************************************************************************)
(* The client cannot send from where the server is: when RESUME did not    *)
(* say what the client still has, the server accepts all the same.         *)
(***************************************************************************)
ResumeOkOutOfReach(frame) ==
    /\ frame.type = "RESUME_OK" /\ end[Client].resuming
    /\ ~PositionInResume
    /\ end[Client].cache.position - frame.a > Capacity

(***************************************************************************)
(* A resumable connection survives whatever happens to its transports: an  *)
(* end is closed only by its application, by an ERROR frame of the other   *)
(* end, by a RESUME (the server) or a RESUME_OK (the client, in 0.x) that  *)
(* cannot be honoured because more than the capacity is missing or the     *)
(* connection is older than the newest accepted, or by a task of a         *)
(* transport it has left (a RESUME_OK that was queued when the application *)
(* disconnected).  No other frame is ever unexpected and no other          *)
(* resumption is refused.                                                  *)
(***************************************************************************)
ClosesOnlyWhenForced ==
    [][\A e \in Ends : end'[e].closed /\ ~end[e].closed =>
          \/ AppClose(e)
          \/ /\ e = Server
             /\ \E t \in Transports : ResumeOutOfReach(t) /\ wire'[t] # wire[t]
          \/ /\ e = Client
             /\ \E frame \in NextFrames(Client) : ResumeOkOutOfReach(frame)
          \/ queue'[e] # queue[e] /\ Head(queue[e]).transport # end[e].transport
          \/ ErrorFrame \in NextFrames(e)]_vars

(***************************************************************************)
(* The two ends implement a reliable link: exactly once, in order, and     *)
(* everything arrives while neither end is closed.                         *)
(***************************************************************************)
Link == INSTANCE ReliableLink WITH
            written   <- [e \in Ends |-> end[e].written],
            delivered <- [e \in Ends |-> end[e].delivered],
            closed    <- {e \in Ends : end[e].closed}

ImplementsReliableLink == Link!Spec

=============================================================================
