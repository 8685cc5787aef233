--------------------------- MODULE StreamAutomata ---------------------------
(***************************************************************************)
(* What the automata of src/src/automata have in common, and the two ends  *)
(* of one stream: StreamAutomatonBase, ConsumerBase and PublisherBase as   *)
(* operators on one record, the entry of the stream in the streams_ map of *)
(* the ConnectionAutomaton of each end, and a connection that keeps frames *)
(* in order until one end closes it.                                       *)
(*                                                                         *)
(* An automaton that is no ConsumerBase never has a subscriber, one that   *)
(* is no PublisherBase never has a subscription; the operations of the     *)
(* part it does not have then do nothing.                                  *)
(***************************************************************************)
EXTENDS Allowance, Sequences

CONSTANT MaxRequestN    \* Frame_REQUEST_N::kMaxRequestN

ASSUME MaxRequestNAssumption == MaxRequestN \in Nat \ {0} /\ MaxRequestN < SizeMax

VARIABLES
    automaton,  \* the automaton of each end, with its application
    wire,       \* the frames on their way towards each end
    up          \* ends whose connection is open

vars == <<automaton, wire, up>>

Roles == {"requester", "responder"}

Peer(role) == IF role = "requester" THEN "responder" ELSE "requester"

(* n is the number of a payload or an amount requested.                    *)
Frame(type, n) == [type |-> type, n |-> n]

(***************************************************************************)
(* state: state_, or NONE before a responder exists.  open: the stream is  *)
(* in streams_.  terminated: isTerminated_.  subscriber and subscription:  *)
(* consumingSubscriber_ and producingSubscription_ are set.  out: what the *)
(* current step has written to the connection.  failed: a CHECK or DCHECK  *)
(* did not hold or a null subscriber was called.                           *)
(*                                                                         *)
(* The consuming application: its requests, what it received, the terminal *)
(* signals it got, gaveUp once it has cancelled.  sent is the credit       *)
(* written to the connection, surplus a flow control error.                *)
(*                                                                         *)
(* The producing application: subscribed once it has called onSubscribe,   *)
(* the credit it may still use, cancelled, done once it has signalled the  *)
(* end.  granted is the credit that arrived, emitted the payloads written. *)
(***************************************************************************)
NewAutomaton(state, open) ==
    [state |-> state, open |-> open, terminated |-> FALSE, failed |-> FALSE,
     out |-> << >>,
     subscriber |-> open, allowance |-> 0, pendingAllowance |-> 0,
     initialResponseAllowance |-> 0,
     subscription |-> FALSE, initialRequestN |-> 0,
     requests |-> 0, received |-> << >>, terminal |-> << >>, gaveUp |-> FALSE,
     sent |-> 0, surplus |-> FALSE,
     subscribed |-> FALSE, credit |-> 0, cancelled |-> FALSE, done |-> FALSE,
     granted |-> 0, emitted |-> 0]

Init ==
    /\ automaton = [role \in Roles |-> IF role = "requester"
                                       THEN NewAutomaton("NEW", TRUE)
                                       ELSE NewAutomaton("NONE", FALSE)]
    /\ wire = [role \in Roles |-> << >>]
    /\ up = Roles

Output(x, frame) == [x EXCEPT !.out = Append(@, frame)]

Check(x, holds) == [x EXCEPT !.failed = @ \/ ~holds]

-----------------------------------------------------------------------------
(* The end of a stream.                                                    *)

(* Mutant of Notify: consumingSubscriber_ is not moved out.                *)
NotifyKeeping(x, signal) ==
    IF x.subscriber THEN [x EXCEPT !.terminal = Append(@, signal)] ELSE x

Notify(x, signal) ==
    IF x.subscriber
    THEN [x EXCEPT !.subscriber = FALSE, !.terminal = Append(@, signal)]
    ELSE x

TerminatePublisher(x) ==
    [x EXCEPT !.subscription = FALSE, !.cancelled = @ \/ x.subscription]

(* Mutant of EndStream: the end of the connection completes a stream.      *)
EndStreamCompleting(x, signal) ==
    LET y == TerminatePublisher([x EXCEPT !.state = "CLOSED", !.terminated = TRUE])
    IN  Notify(y, IF signal \in {"COMPLETE", "CANCEL", "CONNECTION_END"}
                  THEN "onComplete" ELSE "onError")

(***************************************************************************)
(* endStream, the same in all automata: the end is an error unless the     *)
(* automaton itself has moved to CLOSED.  (RequestResponseRequester does   *)
(* not set isTerminated_; it is only read before the end.)                 *)
(***************************************************************************)
EndStream(x, signal) ==
    LET y == Check(x, x.state = "CLOSED" \/ signal \notin {"COMPLETE", "CANCEL"})
        z == TerminatePublisher([y EXCEPT !.state = "CLOSED", !.terminated = TRUE])
    IN  Notify(z, IF signal \in {"COMPLETE", "CANCEL"} THEN "onComplete" ELSE "onError")

(***************************************************************************)
(* closeStream: onStreamClosed, endStreamInternal.  The stream leaves the  *)
(* map first, then it is ended.                                            *)
(***************************************************************************)
CloseStream(x, signal) ==
    IF x.open THEN EndStream([x EXCEPT !.open = FALSE], signal) ELSE x

ApplicationError(x) == CloseStream(Output(x, Frame("ERROR", 0)), "APPLICATION_ERROR")
ErrorStream(x)      == CloseStream(Output(x, Frame("ERROR", 0)), "ERROR")
CancelStream(x)     == CloseStream(Output(x, Frame("CANCEL", 0)), "CANCEL")
CompleteStream(x)   == CloseStream(Output(x, Frame("COMPLETE", 0)), "COMPLETE")

-----------------------------------------------------------------------------
(***************************************************************************)
(* ConsumerBase.  sendRequests: an amount beyond kMaxRequestN fails the    *)
(* DCHECK of Frame_REQUEST_N.                                              *)
(***************************************************************************)
SendRequests(x) ==
    LET n == Drained(x.pendingAllowance, MaxRequestN)
        y == [x EXCEPT !.pendingAllowance = AfterDrain(@, MaxRequestN)]
    IN  IF n = 0
        THEN y
        ELSE Output(Check([y EXCEPT !.sent = @ + n], n <= MaxRequestN),
                    Frame("REQUEST_N", n))

GenerateRequest(x, n) ==
    SendRequests([x EXCEPT !.allowance = Release(@, n),
                           !.pendingAllowance = Release(@, n)])

HandleFlowControlError(x) ==
    ErrorStream(Notify([x EXCEPT !.surplus = TRUE], "onError"))

ProcessPayload(x, n) ==
    IF CanAcquire(x.allowance)
    THEN LET y == SendRequests([x EXCEPT !.allowance = AfterAcquire(@)])
         IN  [Check(y, y.subscriber) EXCEPT !.received = Append(@, n)]
    ELSE HandleFlowControlError(x)

-----------------------------------------------------------------------------
(* PublisherBase.                                                          *)

PublisherSubscribe(x) ==
    [Check(x, ~x.subscription) EXCEPT
        !.subscription = TRUE,
        !.credit = @ + Drained(x.initialRequestN, SizeMax),
        !.initialRequestN = AfterDrain(@, SizeMax)]

(* Mutant of ProcessRequestN: early credit replaces earlier credit.        *)
ProcessRequestNReplacing(x, n) ==
    LET y == [x EXCEPT !.granted = @ + n]
    IN  IF x.subscription
        THEN [y EXCEPT !.credit = @ + n]
        ELSE [y EXCEPT !.initialRequestN = n]

(* REQUEST_N may come before the producer has subscribed.                  *)
ProcessRequestN(x, n) ==
    LET y == [x EXCEPT !.granted = @ + n]
    IN  IF x.subscription
        THEN [y EXCEPT !.credit = @ + n]
        ELSE [y EXCEPT !.initialRequestN = Release(@, n)]

-----------------------------------------------------------------------------
(* What the three requesters do alike.                                     *)

(* Mutant of RequesterCancel: no CANCEL frame.                             *)
RequesterCancelSilently(x) ==
    IF x.state = "CLOSED" THEN x
    ELSE CloseStream([x EXCEPT !.state = "CLOSED"], "CANCEL")

RequesterCancel(x) ==
    CASE x.state = "NEW"       -> CloseStream([x EXCEPT !.state = "CLOSED"], "CANCEL")
      [] x.state = "REQUESTED" -> CancelStream([x EXCEPT !.state = "CLOSED"])
      [] OTHER                 -> x

RequesterHandleError(x) ==
    IF x.state = "REQUESTED"
    THEN CloseStream(Notify([x EXCEPT !.state = "CLOSED"], "onError"), "ERROR")
    ELSE Check(x, x.state # "NEW")

(***************************************************************************)
(* handlePayload of StreamRequester and ChannelRequester, of a frame with  *)
(* a payload and of a frame that only completes.                           *)
(***************************************************************************)
RequesterHandleNext(x, n) == ProcessPayload(Check(x, x.state # "NEW"), n)

RequesterHandleComplete(x) ==
    IF x.state = "REQUESTED"
    THEN CloseStream([x EXCEPT !.state = "CLOSED"], "COMPLETE")
    ELSE Check(x, x.state # "NEW")

-----------------------------------------------------------------------------
(* What the three responders do alike.                                     *)

(***************************************************************************)
(* The responder is created for a request that grants n.                   *)
(***************************************************************************)
NewResponder(x, n) ==
    [x EXCEPT !.state = "RESPONDING", !.open = TRUE,
              !.initialRequestN = n, !.granted = n]

ResponderOnSubscribe(x) ==
    IF x.terminated
    THEN [x EXCEPT !.subscribed = TRUE, !.cancelled = TRUE]
    ELSE PublisherSubscribe([x EXCEPT !.subscribed = TRUE])

ResponderOnComplete(x) ==
    LET y == [x EXCEPT !.done = TRUE]
    IN  IF x.state = "RESPONDING"
        THEN CompleteStream([y EXCEPT !.state = "CLOSED"])
        ELSE y

(* Mutant of ResponderHandleCancel: the stream stays in the map.           *)
ResponderHandleCancelOnly(x) == [x EXCEPT !.state = "CLOSED"]

ResponderHandleCancel(x) ==
    IF x.state = "RESPONDING"
    THEN CloseStream([x EXCEPT !.state = "CLOSED"], "CANCEL")
    ELSE x

-----------------------------------------------------------------------------
(***************************************************************************)
(* The automaton of one end becomes x; what it wrote leaves while the      *)
(* connection is open.                                                     *)
(***************************************************************************)
Step(role, x) ==
    /\ automaton' = [automaton EXCEPT ![role] = [x EXCEPT !.out = << >>]]
    /\ wire' = IF role \in up
               THEN [wire EXCEPT ![Peer(role)] = @ \o x.out]
               ELSE wire
    /\ UNCHANGED up

Arrives(role) == role \in up /\ wire[role] # << >>

Arriving(role) == Head(wire[role])

(***************************************************************************)
(* The first frame towards role is taken, and the automaton becomes x.     *)
(***************************************************************************)
ReceiveStep(role, x) ==
    /\ automaton' = [automaton EXCEPT ![role] = [x EXCEPT !.out = << >>]]
    /\ wire' = [wire EXCEPT ![role] = Tail(@), ![Peer(role)] = @ \o x.out]
    /\ UNCHANGED up

(***************************************************************************)
(* ConnectionAutomaton::close at one end: closeStreams.                    *)
(***************************************************************************)
ConnectionCloses(role) ==
    /\ role \in up
    /\ up' = up \ {role}
    /\ automaton' = [automaton EXCEPT ![role] = CloseStream(@, "CONNECTION_END")]
    /\ UNCHANGED wire

(***************************************************************************)
(* The other end of a closed connection closes too.                        *)
(***************************************************************************)
CloseFollows(role) == up # Roles /\ ConnectionCloses(role)

-----------------------------------------------------------------------------
(***************************************************************************)
(* Types, and what belongs together: a stream is in the map exactly until  *)
(* its automaton is CLOSED.                                                *)
(***************************************************************************)
TypeOK ==
    /\ up \subseteq Roles
    /\ \A role \in Roles :
          LET x == automaton[role]
          IN  /\ x.state \in {"NONE", "NEW", "REQUESTED", "RESPONDING", "CLOSED"}
              /\ x.open <=> x.state \notin {"NONE", "CLOSED"}
              /\ {x.allowance, x.pendingAllowance, x.initialResponseAllowance,
                  x.initialRequestN} \subseteq 0..SizeMax
              /\ x.credit \in Nat
              /\ x.out = << >>

(***************************************************************************)
(* A producer that keeps to its credit never causes a flow control error.  *)
(***************************************************************************)
NoSurplus == \A role \in Roles : ~automaton[role].surplus

(***************************************************************************)
(* endStream: "the signal will be delivered exactly once, even if the      *)
(* automaton initiated stream closure": a consumer gets one terminal       *)
(* signal, exactly when its automaton is CLOSED, and before that payloads  *)
(* in order without a gap.                                                 *)
(***************************************************************************)
OneTerminalSignalTo(role) ==
    LET x == automaton[role]
    IN  /\ Len(x.terminal) = IF x.state = "CLOSED" THEN 1 ELSE 0
        /\ \A i \in 1..Len(x.received) : x.received[i] = i

(***************************************************************************)
(* onComplete of a stream that nobody cancelled means that all of it was   *)
(* received.                                                               *)
(***************************************************************************)
CompleteMeansAll ==
    LET x == automaton["requester"]
    IN  x.terminal = <<"onComplete">> /\ ~x.gaveUp
            => Len(x.received) = automaton["responder"].emitted

(***************************************************************************)
(* No CHECK or DCHECK of the automata fails, no frame beyond kMaxRequestN  *)
(* is built and no null subscriber is called.                              *)
(***************************************************************************)
NoCheckFails == \A role \in Roles : ~automaton[role].failed

=============================================================================
