--------------------------- MODULE RequestStream ---------------------------
(***************************************************************************)
(* One REQUEST_STREAM interaction: StreamRequester, a ConsumerBase, at one *)
(* end and StreamResponder, a PublisherBase, at the other.  The consumer   *)
(* requests and cancels, the producer emits at most what was requested.    *)
(***************************************************************************)
EXTENDS StreamAutomata

CONSTANTS
    RequestSizes,   \* arguments of request(n)
    MaxRequests,    \* bound on calls of request(n)
    MaxPayloads     \* bound on payloads produced

requester == automaton["requester"]
responder == automaton["responder"]

-----------------------------------------------------------------------------
(* Mutant of FirstRequest: no implicit allowance for the first request.    *)
FirstRequestUncounted(x, n) ==
    LET initialN == IF n > MaxRequestN THEN MaxRequestN ELSE n
        y == Output([x EXCEPT !.state = "REQUESTED", !.sent = @ + initialN],
                    Frame("REQUEST_STREAM", initialN))
    IN  IF n > initialN THEN GenerateRequest(y, n - initialN) ELSE y

(***************************************************************************)
(* StreamRequester.  request(n) for the first time: the request itself     *)
(* with as much as fits, the rest through REQUEST_N.                       *)
(***************************************************************************)
FirstRequest(x, n) ==
    LET initialN == IF n > MaxRequestN THEN MaxRequestN ELSE n
        y == Output([x EXCEPT !.state = "REQUESTED",
                              !.allowance = Release(@, initialN),
                              !.sent = @ + initialN],
                    Frame("REQUEST_STREAM", initialN))
    IN  IF n > initialN THEN GenerateRequest(y, n - initialN) ELSE y

Request(x, n) ==
    CASE x.state = "NEW" /\ n # 0       -> FirstRequest(x, n)
      [] x.state = "REQUESTED" /\ n # 0 -> GenerateRequest(x, n)
      [] OTHER                          -> x

(***************************************************************************)
(* A frame for a stream that is not in the map is dropped: the client has  *)
(* given out the id itself (registerNewPeerStreamId).                      *)
(***************************************************************************)
RequesterHandleFrame(x, frame) ==
    CASE ~x.open                              -> x
      [] x.open /\ frame.type = "PAYLOAD"     -> RequesterHandleNext(x, frame.n)
      [] x.open /\ frame.type = "COMPLETE"    -> RequesterHandleComplete(x)
      [] x.open /\ frame.type = "ERROR"       -> RequesterHandleError(x)

-----------------------------------------------------------------------------
(* StreamResponder.                                                        *)

OnNext(x) ==
    LET y == [Check(x, x.subscription) EXCEPT !.credit = @ - 1]
    IN  IF x.state = "RESPONDING"
        THEN Output([y EXCEPT !.emitted = @ + 1], Frame("PAYLOAD", x.emitted + 1))
        ELSE y

OnError(x) ==
    LET y == [Check(x, x.subscription) EXCEPT !.done = TRUE]
    IN  IF x.state = "RESPONDING"
        THEN ApplicationError([y EXCEPT !.state = "CLOSED"])
        ELSE y

(***************************************************************************)
(* handleUnknownStream creates the responder; once the stream has left the *)
(* map its id is known, and what still comes is dropped.  handleError is   *)
(* not overridden and only logs.                                           *)
(***************************************************************************)
ResponderHandleFrame(x, frame) ==
    CASE x.state = "NONE"                      -> NewResponder(x, frame.n)
      [] x.state = "CLOSED"                    -> x
      [] x.open /\ frame.type = "REQUEST_N"    -> ProcessRequestN(x, frame.n)
      [] x.open /\ frame.type = "CANCEL"       -> ResponderHandleCancel(x)
      [] x.open /\ frame.type = "ERROR"        -> x

-----------------------------------------------------------------------------
ConsumerRequests(n) ==
    /\ requester.requests < MaxRequests
    /\ Step("requester", Request([requester EXCEPT !.requests = @ + 1], n))

ConsumerCancels ==
    /\ requester.state # "CLOSED"
    /\ Step("requester", RequesterCancel([requester EXCEPT !.gaveUp = TRUE]))

(***************************************************************************)
(* The application that handles the request subscribes the responder to    *)
(* its producer, at once or later.                                         *)
(***************************************************************************)
ProducerSubscribes ==
    /\ responder.state # "NONE"
    /\ ~responder.subscribed
    /\ Step("responder", ResponderOnSubscribe(responder))

(***************************************************************************)
(* The producer signals until it is done or has been cancelled.            *)
(***************************************************************************)
MaySignal == responder.subscribed /\ ~responder.done /\ ~responder.cancelled

ProducerEmits ==
    /\ MaySignal
    /\ responder.credit > 0
    /\ responder.emitted < MaxPayloads
    /\ Step("responder", OnNext(responder))

ProducerCompletes ==
    /\ MaySignal
    /\ Step("responder", ResponderOnComplete(responder))

ProducerFails ==
    /\ MaySignal
    /\ Step("responder", OnError(responder))

RequesterReceives ==
    /\ Arrives("requester")
    /\ ReceiveStep("requester", RequesterHandleFrame(requester, Arriving("requester")))

ResponderReceives ==
    /\ Arrives("responder")
    /\ ReceiveStep("responder", ResponderHandleFrame(responder, Arriving("responder")))

Next ==
    \/ \E n \in RequestSizes : ConsumerRequests(n)
    \/ ConsumerCancels
    \/ ProducerSubscribes
    \/ ProducerEmits
    \/ ProducerCompletes
    \/ ProducerFails
    \/ RequesterReceives
    \/ ResponderReceives
    \/ \E role \in Roles : ConnectionCloses(role)

-----------------------------------------------------------------------------
(***************************************************************************)
(* The consumer gets payloads in order and one terminal signal, exactly    *)
(* when the stream is CLOSED at its end.                                   *)
(***************************************************************************)
OneTerminalSignal == OneTerminalSignalTo("requester")

(***************************************************************************)
(* Flow control: what the consumer may still receive is exactly the credit *)
(* that is not yet sent, on its way, waiting for the producer, with the    *)
(* producer, or spent on payloads on their way; unless it is infinite.     *)
(***************************************************************************)
CreditConserved ==
    (requester.open /\ responder.open /\ ~IsInfinite(requester.allowance)) =>
        requester.allowance
            = requester.pendingAllowance
              + (requester.sent - responder.granted)
              + responder.initialRequestN
              + responder.credit
              + (responder.emitted - Len(requester.received))

=============================================================================
