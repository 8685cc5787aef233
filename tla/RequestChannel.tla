--------------------------- MODULE RequestChannel ---------------------------
(***************************************************************************)
(* One REQUEST_CHANNEL interaction: ChannelRequester and ChannelResponder, *)
(* each a ConsumerBase and a PublisherBase.  Credit and payloads flow in   *)
(* both directions; the first payload of the requester travels with the    *)
(* request itself and is handed to the handler of the request.             *)
(***************************************************************************)
EXTENDS StreamAutomata

CONSTANTS
    RequestSizes,       \* arguments of request(n)
    MaxRequests,        \* bound on calls of request(n), per end
    MaxPayloads,        \* bound on payloads produced, per end
    FailingProducers,   \* ends whose producer may call onError
    SubscribedFirst     \* the requester's producer subscribes before the
                        \* consumer may cancel or the connection may close

-----------------------------------------------------------------------------
(***************************************************************************)
(* ChannelRequester.  The first payload is requested at once: it makes the *)
(* request.                                                                *)
(***************************************************************************)
RequesterOnSubscribe(x) ==
    LET y == Check([x EXCEPT !.subscribed = TRUE], x.state = "NEW")
    IN  IF y.terminated
        THEN [y EXCEPT !.cancelled = TRUE]
        ELSE [PublisherSubscribe(y) EXCEPT !.credit = @ + 1]

(***************************************************************************)
(* The first payload: the credit collected so far, as much as fits with    *)
(* the request and the rest through REQUEST_N.                             *)
(***************************************************************************)
FirstOnNext(x) ==
    LET initialN   == Drained(x.initialResponseAllowance, MaxRequestN)
        left       == AfterDrain(x.initialResponseAllowance, MaxRequestN)
        remainingN == Drained(left, SizeMax)
        y == Output([Check(x, initialN <= MaxRequestN) EXCEPT
                        !.state = "REQUESTED",
                        !.initialResponseAllowance = AfterDrain(left, SizeMax),
                        !.allowance = Release(@, initialN),
                        !.sent = @ + initialN],
                    Frame("REQUEST_CHANNEL", initialN))
    IN  IF remainingN # 0 THEN GenerateRequest(y, remainingN) ELSE y

WritePayload(x) ==
    Output([x EXCEPT !.emitted = @ + 1], Frame("PAYLOAD", x.emitted + 1))

RequesterOnNext(x) ==
    CASE x.state = "NEW"       -> FirstOnNext(x)
      [] x.state = "REQUESTED" -> WritePayload(Check(x, x.subscription))
      [] OTHER                 -> x

RequesterOnComplete(x) ==
    CASE x.state = "NEW"       -> CloseStream([x EXCEPT !.state = "CLOSED"], "COMPLETE")
      [] x.state = "REQUESTED" -> CompleteStream([x EXCEPT !.state = "CLOSED"])
      [] OTHER                 -> x

RequesterOnError(x) ==
    CASE x.state = "NEW"       -> CloseStream([x EXCEPT !.state = "CLOSED"],
                                              "APPLICATION_ERROR")
      [] x.state = "REQUESTED" -> ApplicationError(x)
      [] OTHER                 -> x

RequesterRequest(x, n) ==
    CASE x.state = "NEW"       -> [x EXCEPT !.initialResponseAllowance = Release(@, n)]
      [] x.state = "REQUESTED" -> GenerateRequest(x, n)
      [] OTHER                 -> x

(***************************************************************************)
(* handlePayload, handleError, handleRequestN; a frame for a stream that   *)
(* is not in the map is dropped.                                           *)
(***************************************************************************)
RequesterHandleFrame(x, frame) ==
    CASE ~x.open                              -> x
      [] x.open /\ frame.type = "PAYLOAD"     -> RequesterHandleNext(x, frame.n)
      [] x.open /\ frame.type = "COMPLETE"    -> RequesterHandleComplete(x)
      [] x.open /\ frame.type = "ERROR"       -> RequesterHandleError(x)
      [] x.open /\ frame.type = "REQUEST_N"   -> ProcessRequestN(x, frame.n)

-----------------------------------------------------------------------------
(* ChannelResponder.                                                       *)

ResponderOnNext(x) ==
    LET y == Check(x, x.subscription)
    IN  IF x.state = "RESPONDING" THEN WritePayload(y) ELSE y

ResponderOnError(x) ==
    IF x.state = "RESPONDING"
    THEN ApplicationError([x EXCEPT !.state = "CLOSED"])
    ELSE x

ResponderRequest(x, n) ==
    IF x.state = "RESPONDING" THEN GenerateRequest(x, n) ELSE x

(* There is no CANCEL towards a requester: the channel is completed.       *)
ResponderCancel(x) ==
    IF x.state = "RESPONDING"
    THEN CompleteStream([x EXCEPT !.state = "CLOSED"])
    ELSE x

(***************************************************************************)
(* onNextPayloadFrame, of a payload and of a frame that only completes.    *)
(***************************************************************************)
ResponderHandleComplete(x) ==
    IF x.state = "RESPONDING"
    THEN CloseStream([x EXCEPT !.state = "CLOSED"], "COMPLETE")
    ELSE x

(***************************************************************************)
(* ConsumerBase::subscribe.                                                *)
(***************************************************************************)
Subscribe(x) ==
    IF x.terminated
    THEN [x EXCEPT !.terminal = Append(@, "onComplete")]
    ELSE [x EXCEPT !.subscriber = TRUE]

(***************************************************************************)
(* handleUnknownStream: the handler of the request is given the responder  *)
(* as the sink of responses, and may be done with it before it returns the *)
(* sink of requests, which is subscribed only then.                        *)
(***************************************************************************)
Accept(x, frame, done) ==
    LET y == NewResponder(x, frame.n)
    IN  Subscribe(IF done THEN ResponderOnComplete(ResponderOnSubscribe(y)) ELSE y)

(***************************************************************************)
(* handlePayload, handleRequestN, handleCancel.  handleError is not        *)
(* overridden and only logs.                                               *)
(***************************************************************************)
ResponderHandleFrame(x, frame, done) ==
    CASE x.state = "NONE"                      -> Accept(x, frame, done)
      [] x.state = "CLOSED"                    -> x
      [] x.open /\ frame.type = "PAYLOAD"      -> ProcessPayload(x, frame.n)
      [] x.open /\ frame.type = "COMPLETE"     -> ResponderHandleComplete(x)
      [] x.open /\ frame.type = "REQUEST_N"    -> ProcessRequestN(x, frame.n)
      [] x.open /\ frame.type = "CANCEL"       -> ResponderHandleCancel(x)
      [] x.open /\ frame.type = "ERROR"        -> x

-----------------------------------------------------------------------------
ConsumerRequests(role, n) ==
    LET x == [automaton[role] EXCEPT !.requests = @ + 1]
    IN  /\ x.open
        /\ x.requests <= MaxRequests
        /\ Step(role, IF role = "requester" THEN RequesterRequest(x, n)
                                            ELSE ResponderRequest(x, n))

MayEnd(role) ==
    SubscribedFirst /\ role = "requester" => automaton[role].subscribed

ConsumerCancels(role) ==
    LET x == [automaton[role] EXCEPT !.gaveUp = TRUE]
    IN  /\ x.state \notin {"NONE", "CLOSED"}
        /\ MayEnd(role)
        /\ Step(role, IF role = "requester" THEN RequesterCancel(x)
                                            ELSE ResponderCancel(x))

ProducerSubscribes(role) ==
    LET x == automaton[role]
    IN  /\ x.state # "NONE"
        /\ ~x.subscribed
        /\ Step(role, IF role = "requester" THEN RequesterOnSubscribe(x)
                                            ELSE ResponderOnSubscribe(x))

MaySignal(x) == x.subscribed /\ ~x.done /\ ~x.cancelled

ProducerEmits(role) ==
    LET x == [automaton[role] EXCEPT !.credit = @ - 1]
    IN  /\ MaySignal(x)
        /\ x.credit >= 0
        /\ x.emitted < MaxPayloads
        /\ Step(role, IF role = "requester" THEN RequesterOnNext(x)
                                            ELSE ResponderOnNext(x))

ProducerCompletes(role) ==
    LET x == [automaton[role] EXCEPT !.done = TRUE]
    IN  /\ MaySignal(automaton[role])
        /\ Step(role, IF role = "requester" THEN RequesterOnComplete(x)
                                            ELSE ResponderOnComplete(x))

ProducerFails(role) ==
    LET x == [automaton[role] EXCEPT !.done = TRUE]
    IN  /\ MaySignal(automaton[role])
        /\ role \in FailingProducers
        /\ Step(role, IF role = "requester" THEN RequesterOnError(x)
                                            ELSE ResponderOnError(x))

RequesterReceives ==
    /\ Arrives("requester")
    /\ ReceiveStep("requester",
                   RequesterHandleFrame(automaton["requester"], Arriving("requester")))

ResponderReceives(done) ==
    /\ Arrives("responder")
    /\ ReceiveStep("responder",
                   ResponderHandleFrame(automaton["responder"],
                                        Arriving("responder"), done))

Closes(role) == MayEnd(role) /\ ConnectionCloses(role)

Next ==
    \/ \E role \in Roles :
          \/ \E n \in RequestSizes : ConsumerRequests(role, n)
          \/ ConsumerCancels(role)
          \/ ProducerSubscribes(role)
          \/ ProducerEmits(role)
          \/ ProducerCompletes(role)
          \/ ProducerFails(role)
          \/ Closes(role)
    \/ RequesterReceives
    \/ \E done \in BOOLEAN : ResponderReceives(done)

-----------------------------------------------------------------------------
(***************************************************************************)
(* Both consumers get payloads in order and one terminal signal, exactly   *)
(* when the channel is CLOSED at their end, a sink that is subscribed only *)
(* after the channel has ended included.                                   *)
(***************************************************************************)
OneTerminalSignal == \A role \in Roles : OneTerminalSignalTo(role)

(***************************************************************************)
(* Flow control in both directions: what a consumer may still receive is   *)
(* exactly the credit not yet sent, on its way, waiting for the producer   *)
(* at the other end, with that producer, or spent on payloads on their     *)
(* way; unless it is infinite.                                             *)
(***************************************************************************)
CreditConserved ==
    (\A role \in Roles : automaton[role].open) =>
        \A role \in Roles :
            LET consumer == automaton[role]
                producer == automaton[Peer(role)]
            IN  IsInfinite(consumer.allowance) \/
                consumer.allowance
                    = consumer.pendingAllowance
                      + (consumer.sent - producer.granted)
                      + producer.initialRequestN
                      + producer.credit
                      + (producer.emitted - Len(consumer.received))

=============================================================================
