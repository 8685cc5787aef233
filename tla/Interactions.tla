---------------------------- MODULE Interactions ----------------------------
(***************************************************************************)
(* The three interactions with a response, one of which is chosen when the *)
(* stream is made (ReactiveSocket's requestStream, requestChannel and      *)
(* requestResponse): the same connection and the same base classes under   *)
(* different automata, so that a change of a base class is checked for all *)
(* of them.                                                                *)
(***************************************************************************)
EXTENDS StreamAutomata

CONSTANTS
    RequestSizes,           \* arguments of request(n)
    MaxRequests,            \* bound on calls of request(n) at a requester
    MaxPayloads,            \* bound on payloads of a stream
    MaxChannelRequests,     \* bound on calls of request(n), per end of a channel
    MaxChannelPayloads,     \* bound on payloads, per end of a channel
    FailingProducers,       \* ends of a channel whose producer may call onError
    SubscribedFirst         \* see RequestChannel

ASSUME InteractionsAssumption ==
    /\ RequestSizes \subseteq Nat
    /\ {MaxRequests, MaxPayloads, MaxChannelRequests, MaxChannelPayloads} \subseteq Nat
    /\ FailingProducers \subseteq Roles
    /\ SubscribedFirst \in BOOLEAN

VARIABLE kind   \* the interaction of this stream

Stream == INSTANCE RequestStream

Channel == INSTANCE RequestChannel
               WITH RequestSizes <- RequestSizes \ {0},
                    MaxRequests  <- MaxChannelRequests,
                    MaxPayloads  <- MaxChannelPayloads

Response == INSTANCE RequestResponse

allVars == <<vars, kind>>

InteractionInit ==
    /\ Init
    /\ kind \in {"stream", "channel", "response"}

InteractionNext ==
    /\ UNCHANGED kind
    /\ \/ kind = "stream" /\ Stream!Next
       \/ kind = "channel" /\ Channel!Next
       \/ kind = "response" /\ Response!Next

-----------------------------------------------------------------------------
RequesterReceives ==
    /\ UNCHANGED kind
    /\ \/ kind = "stream" /\ Stream!RequesterReceives
       \/ kind = "channel" /\ Channel!RequesterReceives
       \/ kind = "response" /\ \E again \in BOOLEAN : Response!RequesterReceives(again)

ResponderReceives ==
    /\ UNCHANGED kind
    /\ \/ kind = "stream" /\ Stream!ResponderReceives
       \/ kind = "channel" /\ \E done \in BOOLEAN : Channel!ResponderReceives(done)
       \/ kind = "response" /\ Response!ResponderReceives

SinkSubscribes ==
    UNCHANGED kind /\ kind = "channel" /\ Channel!ProducerSubscribes("requester")

PeerCloses(role) ==
    /\ UNCHANGED kind
    /\ IF kind = "channel" THEN Channel!MayEnd(role) ELSE TRUE
    /\ CloseFollows(role)

(***************************************************************************)
(* Frames arrive while the connection is open, the producer of a channel's *)
(* requester subscribes, and a connection closed at one end is closed at   *)
(* the other.                                                              *)
(***************************************************************************)
InteractionFairness ==
    /\ WF_allVars(RequesterReceives)
    /\ WF_allVars(ResponderReceives)
    /\ WF_allVars(SinkSubscribes)
    /\ \A role \in Roles : WF_allVars(PeerCloses(role))

Spec == InteractionInit /\ [][InteractionNext]_allVars /\ InteractionFairness

-----------------------------------------------------------------------------
(***************************************************************************)
(* Flow control, in each direction that has it: no credit is lost or made  *)
(* between request(n) at one end and onNext there.                         *)
(***************************************************************************)
CreditConserved ==
    /\ kind = "stream" => Stream!CreditConserved
    /\ kind = "channel" => Channel!CreditConserved

(***************************************************************************)
(* Every consumer gets payloads in order and one terminal signal, exactly  *)
(* when the stream is CLOSED at its end; a request for one response gets   *)
(* at most one, also when it is repeated.                                  *)
(***************************************************************************)
OneTerminalSignal ==
    /\ kind = "stream" => Stream!OneTerminalSignal
    /\ kind = "channel" => Channel!OneTerminalSignal
    /\ kind = "response" => Response!OneResponse

(***************************************************************************)
(* onComplete of a response or a stream that nobody cancelled means that   *)
(* all of it was received (a channel is completed by either end).          *)
(***************************************************************************)
CompleteIsWhole == kind # "channel" => CompleteMeansAll

(***************************************************************************)
(* A stream ends at both ends, however cancellation, completion, errors    *)
(* and the end of the connection cross; unless a request for one response  *)
(* was repeated: then the responder is not told.                           *)
(***************************************************************************)
EndsAtBothEnds ==
    /\ (~automaton["requester"].open
            /\ (kind = "response" => automaton["requester"].requests <= 1))
       ~> []~automaton["responder"].open
    /\ automaton["responder"].state = "CLOSED" ~> ~automaton["requester"].open

=============================================================================
