---------------------- MODULE ServerConnectionAcceptor ----------------------
(***************************************************************************)
(* The life of one connection: ServerConnectionAcceptor waits for its      *)
(* first frame with a OneFrameProcessor and then hands the transport to    *)
(* the ConnectionHandler, which connects a ReactiveSocket to it, at once   *)
(* or later.  A client's socket is connected to its transport from the     *)
(* start.  x is the transport with everything that hangs on it; the mutex  *)
(* of FrameTransport makes each of its calls one step, with the calls of   *)
(* the processor that happen inside it.                                    *)
(***************************************************************************)
EXTENDS FrameTransport, FiniteSets

CONSTANTS
    FirstKinds,         \* what the first frame may be
    LaterKinds,         \* what the other frames may be
    HandlerChoices,     \* what the handler may do with a transport
    InlineExecutor,     \* the socket's executor runs a task where it is added
    RequestSizes,       \* arguments of request(n)
    MaxFrames,          \* bound on frames that arrive
    MaxWrites,          \* bound on frames the application writes
    MaxRequests         \* bound on calls of request(n)

ASSUME AcceptorAssumption ==
    /\ FirstKinds \subseteq {"SETUP", "SETUP_VERSION", "SETUP_INVALID", "RESUME",
                             "RESUME_VERSION", "RESUME_INVALID", "REQUEST", "UNKNOWN"}
    /\ LaterKinds \subseteq {"SETUP", "RESUME", "REQUEST"}
    /\ HandlerChoices \subseteq {"connect", "later", "refuse"}
    /\ InlineExecutor \in BOOLEAN
    /\ RequestSizes \subseteq Nat
    /\ {MaxFrames, MaxWrites, MaxRequests} \subseteq Nat

VARIABLES
    x,          \* the transport, its processors and what they were told
    arrived,    \* the frames the connection delivered
    ending,     \* the processor taken out by terminateFrameProcessor, not yet told
    ended,      \* which sides of the connection have signalled their end
    requests    \* how often request(n) was called

vars == <<x, arrived, ending, ended, requests>>

(***************************************************************************)
(* Besides the transport: registered says it is in connections_, socket is *)
(* the state of the ReactiveSocket it was given to, tasks what waits in    *)
(* the socket's executor, handed the frames given to processors, told the  *)
(* processors that got onTerminal, calls what the handler was told,        *)
(* refused that the acceptor answered with an ERROR, outputs the frames    *)
(* given to outputFrameOrEnqueue.                                          *)
(***************************************************************************)
NewConnection ==
    LET t == NewTransport
    IN  [processor |-> t.processor, allowance |-> t.allowance,
         connection |-> t.connection, output |-> t.output, input |-> t.input,
         pendingWrites |-> t.pendingWrites, pendingReads |-> t.pendingReads,
         pendingTerminal |-> t.pendingTerminal, wire |-> t.wire, fatal |-> t.fatal,
         registered |-> FALSE, socket |-> "none", tasks |-> << >>, handed |-> << >>,
         told |-> << >>, calls |-> << >>, refused |-> FALSE, outputs |-> << >>]

Init ==
    /\ x = NewConnection
    /\ arrived = << >>
    /\ ending = "none"
    /\ ended = {}
    /\ requests = 0

-----------------------------------------------------------------------------
(* The processors.                                                         *)

Output(c, frame) ==
    OutputFrameOrEnqueue([c EXCEPT !.outputs = Append(@, frame)], frame)

(* removeConnection, without the transport's own part.                     *)
Unregister(c) == [c EXCEPT !.registered = FALSE]

CloseAndRemoveConnection(c) ==
    [Unregister(CloseTransport(c)) EXCEPT !.calls = Append(@, "connectionError")]

Refuse(c) == [Output(c, "ERROR") EXCEPT !.refused = TRUE]

(***************************************************************************)
(* ConnectionAutomaton::processFrameImpl, as far as the transport is       *)
(* concerned: a request is answered, a SETUP or RESUME is unexpected and   *)
(* closes the socket with an ERROR frame.                                  *)
(***************************************************************************)
SocketCloses(c) == [CloseTransport(c) EXCEPT !.socket = "closed"]

SocketFrame(c, frame) ==
    CASE c.socket # "on" -> c
      [] c.socket = "on" /\ frame.kind = "REQUEST" -> Output(c, "ANSWER")
      [] OTHER -> SocketCloses(Output(c, "ERROR"))

SocketTerminal(c) == IF c.socket = "on" THEN SocketCloses(c) ELSE c

(***************************************************************************)
(* ConnectionAutomaton::processFrame and onTerminal run in the socket's    *)
(* executor.                                                               *)
(***************************************************************************)
InSocketExecutor(c, task) ==
    CASE ~InlineExecutor -> [c EXCEPT !.tasks = Append(@, task)]
      [] InlineExecutor /\ task.kind = "terminal" -> SocketTerminal(c)
      [] OTHER -> SocketFrame(c, task)

OnTerminal(c, processor) ==
    LET d == [c EXCEPT !.told = Append(@, processor)]
    IN  IF processor = "acceptor"
        THEN CloseAndRemoveConnection(d)
        ELSE InSocketExecutor(d, [kind |-> "terminal", handler |-> "none"])

Handed(c, frame) ==
    [c EXCEPT !.handed = Append(@, [to |-> c.processor, frame |-> frame])]

(* Hand a frame to the socket; if it has gone this is a call through null. *)
HandToSocket(c, frame) ==
    IF c.processor # "socket" THEN [c EXCEPT !.fatal = TRUE]
    ELSE InSocketExecutor(Handed(c, frame), frame)

(***************************************************************************)
(* The loop over pendingReads_, the transport after n rounds being         *)
(* after[n].  The acceptor is the first processor of a transport, so that  *)
(* it is always the socket that finds frames there.                        *)
(***************************************************************************)
TakePendingReads(c) ==
    LET after[n \in 0..Len(c.pendingReads)] ==
            IF n = 0 THEN [c EXCEPT !.pendingReads = << >>]
            ELSE HandToSocket(after[n - 1], c.pendingReads[n])
    IN  after[Len(c.pendingReads)]

(* Mutant of SetFrameProcessor: the end of the connection is forgotten.    *)
SetFrameProcessorDeaf(c, processor, n) ==
    IF processor = "none"
    THEN DrainOutputFramesQueue([c EXCEPT !.processor = processor])
    ELSE TakePendingReads(DrainOutputFramesQueue(
             ConnectTransport([c EXCEPT !.processor = processor], n)))

(***************************************************************************)
(* setFrameProcessor: what was read meanwhile is handed to the new         *)
(* processor, then the end of the connection if it has come.               *)
(***************************************************************************)
SetFrameProcessor(c, processor, n) ==
    LET set   == [c EXCEPT !.processor = processor]
        ready == IF processor = "none" THEN set
                 ELSE Check(ConnectTransport(set, n), ~IsClosed(c))
        read  == TakePendingReads(DrainOutputFramesQueue(ready))
    IN  CASE processor = "none" -> DrainOutputFramesQueue(set)
          [] processor # "none" /\ ~(read.pendingTerminal) -> read
          [] OTHER ->
               LET done == [read EXCEPT !.pendingTerminal = FALSE]
               IN  IF read.processor = "none" THEN done
                   ELSE OnTerminal([done EXCEPT !.processor = "none"], read.processor)

(* ConnectionAutomaton::connect.                                           *)
SocketConnect(c) ==
    SetFrameProcessor(Check([c EXCEPT !.socket = "on"], ~IsClosed(c)), "socket", 0)

(***************************************************************************)
(* The ConnectionHandler: it connects a socket, keeps the transport for    *)
(* later, or wants none of it.  RSocketConnectionHandler closes the        *)
(* transport of a SETUP then; after a RESUME the acceptor does, with an    *)
(* ERROR frame.                                                            *)
(***************************************************************************)
Handler(c, call, choice) ==
    LET d == [c EXCEPT !.calls = Append(@, call)]
    IN  CASE choice = "connect" -> SocketConnect(d)
          [] choice = "later"   -> [d EXCEPT !.socket = "later"]
          [] choice = "refuse" /\ call = "setup"  -> CloseTransport(d)
          [] choice = "refuse" /\ call = "resume" -> CloseTransport(Refuse(d))

(* Mutant of RemoveConnection: the transport keeps its processor.          *)
RemoveConnectionKeeping(c) == Unregister(c)

RemoveConnection(c) == Unregister(SetFrameProcessor(c, "none", 0))

(***************************************************************************)
(* ServerConnectionAcceptor::processFrame.  A RESUME that cannot be read   *)
(* is refused like a SETUP, but there is no break: the transport has been  *)
(* moved from, and the code goes on to call it.                            *)
(***************************************************************************)
AcceptorFrame(c, frame) ==
    CASE frame.kind = "UNKNOWN" -> CloseAndRemoveConnection(c)
      [] frame.kind = "SETUP"   -> Handler(RemoveConnection(c), "setup", frame.handler)
      [] frame.kind = "RESUME"  -> Handler(RemoveConnection(c), "resume", frame.handler)
      [] frame.kind = "SETUP_VERSION"  -> CloseTransport(Refuse(RemoveConnection(c)))
      [] frame.kind = "RESUME_INVALID" ->
             [CloseAndRemoveConnection(Refuse(c)) EXCEPT !.fatal = TRUE]
      [] OTHER -> CloseAndRemoveConnection(Refuse(c))

(* processFrame of the processor that is set.                              *)
ProcessFrame(c, frame) ==
    IF c.processor = "acceptor"
    THEN AcceptorFrame(Handed(c, frame), frame)
    ELSE HandToSocket(c, frame)

-----------------------------------------------------------------------------
(* ServerConnectionAcceptor::accept: the connection may request at once.   *)
Accept(n) ==
    /\ x = NewConnection
    /\ x' = SetFrameProcessor([x EXCEPT !.registered = TRUE], "acceptor", n)
    /\ UNCHANGED <<arrived, ending, ended, requests>>

(* A client: ReactiveSocket::clientConnect.                                *)
ClientConnect(n) ==
    /\ x = NewConnection
    /\ x' = SetFrameProcessor([x EXCEPT !.socket = "on"], "socket", n)
    /\ UNCHANGED <<arrived, ending, ended, requests>>

FrameOf(kind, handler) == [kind |-> kind, handler |-> handler]

MayArrive ==
    IF arrived = << >>
    THEN {FrameOf(k, h) : k \in FirstKinds, h \in HandlerChoices}
    ELSE {FrameOf(k, "refuse") : k \in LaterKinds}

(* Mutant of OnNext: it does not look whether there is a processor.        *)
OnNextAlways(c, frame) ==
    IF c.connection THEN ProcessFrame(c, frame)
    ELSE [c EXCEPT !.pendingReads = Append(@, frame)]

OnNext(c, frame) ==
    IF c.connection /\ c.processor # "none" THEN ProcessFrame(c, frame)
    ELSE [c EXCEPT !.pendingReads = Append(@, frame)]

(* FrameTransport::onNext.                                                 *)
FrameArrives(frame) ==
    /\ x # NewConnection /\ "input" \notin ended
    /\ Len(arrived) < MaxFrames
    /\ x' = OnNext(x, frame)
    /\ arrived' = Append(arrived, frame)
    /\ UNCHANGED <<ending, ended, requests>>

ConnectionRequests(n) ==
    /\ x # NewConnection /\ "output" \notin ended
    /\ requests < MaxRequests
    /\ x' = Request(x, n)
    /\ requests' = requests + 1
    /\ UNCHANGED <<arrived, ending, ended>>

(***************************************************************************)
(* onComplete and onError of the connection's input, cancel of its output: *)
(* terminateFrameProcessor takes the processor out under the lock and      *)
(* tells it after the unlock.                                              *)
(***************************************************************************)
ConnectionEnds(side) ==
    /\ x # NewConnection /\ side \notin ended /\ ending = "none"
    /\ ended' = ended \cup {side}
    /\ IF x.processor = "none"
       THEN x' = [x EXCEPT !.pendingTerminal = TRUE] /\ UNCHANGED ending
       ELSE x' = [x EXCEPT !.processor = "none"] /\ ending' = x.processor
    /\ UNCHANGED <<arrived, requests>>

TellProcessor ==
    /\ ending # "none"
    /\ x' = OnTerminal(x, ending)
    /\ ending' = "none"
    /\ UNCHANGED <<arrived, ended, requests>>

-----------------------------------------------------------------------------
(* The socket's executor, the application and the handler.                 *)

SocketStep(c) ==
    /\ x' = c
    /\ UNCHANGED <<arrived, ending, ended, requests>>

RunTask ==
    /\ x.tasks # << >>
    /\ LET c == [x EXCEPT !.tasks = Tail(@)]
       IN  SocketStep(IF Head(x.tasks).kind = "terminal" THEN SocketTerminal(c)
                      ELSE SocketFrame(c, Head(x.tasks)))

SocketWrites ==
    /\ x.socket = "on" /\ Len(x.outputs) < MaxWrites
    /\ SocketStep(Output(x, "REQUEST"))

ApplicationCloses == x.socket = "on" /\ SocketStep(SocketCloses(x))

HandlerConnects == x.socket = "later" /\ SocketStep(SocketConnect(x))

HandlerDropsIt ==
    /\ x.socket = "later"
    /\ SocketStep([CloseTransport(x) EXCEPT !.socket = "closed"])

(* ~ServerConnectionAcceptor, in the thread of the connection.             *)
AcceptorDestroyed ==
    /\ x.registered /\ ending = "none"
    /\ SocketStep(Unregister(CloseTransport(x)))

Next ==
    \/ \E n \in RequestSizes \cup {0} : Accept(n) \/ ClientConnect(n)
    \/ \E frame \in MayArrive : FrameArrives(frame)
    \/ \E n \in RequestSizes : ConnectionRequests(n)
    \/ \E side \in {"input", "output"} : ConnectionEnds(side)
    \/ TellProcessor
    \/ RunTask
    \/ SocketWrites
    \/ ApplicationCloses
    \/ HandlerConnects
    \/ HandlerDropsIt
    \/ AcceptorDestroyed

(***************************************************************************)
(* The executor runs what it was given, and terminateFrameProcessor        *)
(* returns.                                                                *)
(***************************************************************************)
Spec == Init /\ [][Next]_vars /\ WF_vars(TellProcessor) /\ WF_vars(RunTask)

-----------------------------------------------------------------------------
(***************************************************************************)
(* Whoever owns the transport when a frame arrives, every frame is handed  *)
(* over once and in the order of arrival: on a server the first one to the *)
(* acceptor and all others to the socket.  The rest waits in pendingReads_ *)
(* and only while there is no processor.                                   *)
(***************************************************************************)
ReadInOrder ==
    /\ [i \in DOMAIN x.handed |-> x.handed[i].frame] \o x.pendingReads = arrived
    /\ \A i, j \in DOMAIN x.handed : i < j => x.handed[j].to = "socket"
    /\ x.pendingReads # << >> => x.processor = "none"

(***************************************************************************)
(* Frames reach the connection in the order of outputFrameOrEnqueue, none  *)
(* twice, and one waits only when the connection is closed or has not      *)
(* asked for more; a peer that the acceptor refuses is sent the ERROR,     *)
(* unless the connection asked for no frame.                               *)
(***************************************************************************)
WrittenInOrder ==
    /\ x.wire \o x.pendingWrites = x.outputs
    /\ x.connection /\ x.allowance > 0 => x.pendingWrites = << >>
    /\ x.refused /\ IsInfinite(x.allowance) => Last(x.wire) = "ERROR"

(***************************************************************************)
(* Whenever the handler connects its socket, before or after the frames    *)
(* and the end of the connection have come: no call through a processor    *)
(* that is gone, no CHECK fails, and the handler gets the transport once   *)
(* or hears of an error before, never both.                                *)
(***************************************************************************)
HandedOverOnce ==
    /\ ~x.fatal
    /\ Len(x.calls) <= 1
    /\ x.registered => x.calls = << >>

(* No processor is told of the end of its connection twice.                *)
ToldOnce == \A i, j \in DOMAIN x.told : x.told[i] = x.told[j] => i = j

(***************************************************************************)
(* The end of a connection reaches the socket that owns it, also when it   *)
(* came while nobody did: an ended connection does not keep an open        *)
(* socket, and no processor is told twice.                                 *)
(***************************************************************************)
EndReachesSocket ==
    /\ (ended # {} /\ x.socket = "on") ~> (x.socket = "closed")
    /\ []ToldOnce

=============================================================================
