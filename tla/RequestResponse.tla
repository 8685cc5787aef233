-------------------------- MODULE RequestResponse --------------------------
(***************************************************************************)
(* One REQUEST_RESPONSE interaction: RequestResponseRequester, a consumer  *)
(* of its own kind without flow control, and RequestResponseResponder, a   *)
(* PublisherBase with a credit of one.                                     *)
(***************************************************************************)
EXTENDS StreamAutomata

CONSTANTS
    RequestSizes,   \* arguments of request(n)
    MaxRequests     \* bound on calls of request(n) outside onNext

requester == automaton["requester"]
responder == automaton["responder"]

-----------------------------------------------------------------------------
(***************************************************************************)
(* RequestResponseRequester.  Any request(n) after the first is an error,  *)
(* and ends the stream without a word to the other end.                    *)
(***************************************************************************)
Request(x, n) ==
    IF n = 0 THEN x
    ELSE IF x.state = "NEW"
    THEN Output([x EXCEPT !.state = "REQUESTED"], Frame("REQUEST_RESPONSE", 1))
    ELSE CloseStream(Notify(x, "onError"), "ERROR")

(***************************************************************************)
(* handlePayload.  In onNext the application may request again (again).    *)
(***************************************************************************)
HandlePayload(x, frame, again) ==
    LET y == [Check(x, x.state = "REQUESTED") EXCEPT !.state = "CLOSED"]
        z == [Check(y, y.subscriber) EXCEPT !.received = Append(@, frame.n)]
    IN  CloseStream(CASE frame.type = "COMPLETE"          -> y
                      [] frame.type = "PAYLOAD" /\ again  -> Request(z, 1)
                      [] frame.type = "PAYLOAD" /\ ~again -> z,
                    "COMPLETE")

RequesterHandleFrame(x, frame, again) ==
    CASE ~x.open                            -> x
      [] x.open /\ frame.type = "ERROR"     -> RequesterHandleError(x)
      [] x.open /\ frame.type # "ERROR"     -> HandlePayload(x, frame, again)

-----------------------------------------------------------------------------
(* RequestResponseResponder: the response completes the stream.            *)

(* Mutant of OnNext: closes the stream while RESPONDING.                   *)
OnNextOpen(x) ==
    CloseStream(Output([x EXCEPT !.credit = @ - 1, !.emitted = @ + 1],
                       Frame("PAYLOAD", x.emitted + 1)),
                "COMPLETE")

OnNext(x) ==
    LET y == [Check(x, x.subscription) EXCEPT !.credit = @ - 1]
    IN  IF x.state = "RESPONDING"
        THEN CloseStream(Output([y EXCEPT !.state = "CLOSED", !.emitted = @ + 1],
                                Frame("PAYLOAD", x.emitted + 1)),
                         "COMPLETE")
        ELSE y

OnError(x) ==
    LET y == [Check(x, x.subscription) EXCEPT !.done = TRUE]
    IN  IF x.state = "RESPONDING"
        THEN ApplicationError([y EXCEPT !.state = "CLOSED"])
        ELSE y

ResponderHandleFrame(x, frame) ==
    CASE x.state = "NONE"                   -> NewResponder(x, frame.n)
      [] x.state = "CLOSED"                 -> x
      [] x.open /\ frame.type = "CANCEL"    -> ResponderHandleCancel(x)

-----------------------------------------------------------------------------
ConsumerRequests(n) ==
    LET x == IF n = 0 THEN requester ELSE [requester EXCEPT !.requests = @ + 1]
    IN  /\ x.requests <= MaxRequests
        /\ Step("requester", Request(x, n))

ConsumerCancels ==
    /\ requester.open
    /\ Step("requester", RequesterCancel([requester EXCEPT !.gaveUp = TRUE]))

ProducerSubscribes ==
    /\ responder.state # "NONE"
    /\ ~responder.subscribed
    /\ Step("responder", ResponderOnSubscribe(responder))

MaySignal == responder.subscribed /\ ~responder.done /\ ~responder.cancelled

ProducerEmits ==
    /\ MaySignal
    /\ responder.credit > 0
    /\ Step("responder", OnNext(responder))

ProducerCompletes ==
    /\ MaySignal
    /\ Step("responder", ResponderOnComplete(responder))

ProducerFails ==
    /\ MaySignal
    /\ Step("responder", OnError(responder))

RequesterReceives(again) ==
    /\ Arrives("requester")
    /\ ReceiveStep("requester",
                   RequesterHandleFrame(requester, Arriving("requester"), again))

ResponderReceives ==
    /\ Arrives("responder")
    /\ ReceiveStep("responder", ResponderHandleFrame(responder, Arriving("responder")))

Next ==
    \/ \E n \in RequestSizes : ConsumerRequests(n)
    \/ ConsumerCancels
    \/ ProducerSubscribes
    \/ ProducerEmits
    \/ ProducerCompletes
    \/ ProducerFails
    \/ \E again \in BOOLEAN : RequesterReceives(again)
    \/ ResponderReceives
    \/ \E role \in Roles : ConnectionCloses(role)

-----------------------------------------------------------------------------
(***************************************************************************)
(* The consumer gets at most one response and one terminal signal, exactly *)
(* when the stream is CLOSED at its end, also when it requests again in    *)
(* onNext or while the response is on its way.                             *)
(***************************************************************************)
OneResponse ==
    /\ OneTerminalSignalTo("requester")
    /\ Len(requester.received) <= 1

=============================================================================
