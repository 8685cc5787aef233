--------------------------- MODULE StreamsFactory ---------------------------
(***************************************************************************)
(* Stream ids on one connection: StreamsFactory gives out the ids of the   *)
(* streams an end starts and registers those the other end starts, and     *)
(* ConnectionAutomaton finds the automaton a frame is for, creates a       *)
(* responder for a request, drops a frame that comes too late, or closes   *)
(* the connection over it.  An id is given out when the application asks   *)
(* for the stream, the request is only written with the first request(n).  *)
(***************************************************************************)
EXTENDS Naturals, Sequences

CONSTANTS
    MaxStreamId,        \* bound on ids; the code has 2^31 - 1
    MaxMore,            \* bound on REQUEST_N frames of an end
    RegistersIds        \* the protocol version is above 0.0

ASSUME StreamIdAssumption ==
    /\ MaxStreamId \in Nat /\ MaxMore \in Nat
    /\ RegistersIds \in BOOLEAN

VARIABLES
    next,       \* nextStreamId_ of each end
    lastPeer,   \* lastPeerStreamId_ of each end
    new,        \* requesters in streams_ that have not sent their request
    requested,  \* requesters in streams_ that have
    responding, \* responders in streams_
    more,       \* number of REQUEST_N frames each end has sent
    wire,       \* frames on their way towards each end
    accepted,   \* history: ids of requests that reached a handler
    dropped,    \* history: ids of requests that were dropped
    closed      \* ends that closed the connection over a frame

vars == <<next, lastPeer, new, requested, responding, more, wire, accepted,
          dropped, closed>>

Ends == {"client", "server"}

Peer(e) == IF e = "client" THEN "server" ELSE "client"

Frame(type, stream) == [type |-> type, stream |-> stream]

Init ==
    /\ next = [e \in Ends |-> IF e = "client" THEN 1 ELSE 2]
    /\ lastPeer = [e \in Ends |-> 0]
    /\ new = [e \in Ends |-> {}]
    /\ requested = [e \in Ends |-> {}]
    /\ responding = [e \in Ends |-> {}]
    /\ more = [e \in Ends |-> 0]
    /\ wire = [e \in Ends |-> << >>]
    /\ accepted = [e \in Ends |-> << >>]
    /\ dropped = [e \in Ends |-> {}]
    /\ closed = {}

Send(e, frame) == wire' = [wire EXCEPT ![Peer(e)] = Append(@, frame)]

-----------------------------------------------------------------------------
(* The application.  Nothing happens on a closed connection.               *)

IsOpen == closed = {}

(* Mutant of GetNextStreamId: ids of both parities.                        *)
GetNextStreamIdByOne(e) ==
    /\ next[e] <= MaxStreamId
    /\ next' = [next EXCEPT ![e] = @ + 1]

GetNextStreamId(e) ==
    /\ next[e] <= MaxStreamId
    /\ next' = [next EXCEPT ![e] = @ + 2]

CreateRequester(e) ==
    /\ IsOpen
    /\ GetNextStreamId(e)
    /\ new' = [new EXCEPT ![e] = @ \cup {next[e]}]
    /\ UNCHANGED <<lastPeer, requested, responding, more, wire, accepted, dropped,
                   closed>>

FireAndForget(e) ==
    /\ IsOpen
    /\ GetNextStreamId(e)
    /\ Send(e, Frame("REQUEST_FNF", next[e]))
    /\ UNCHANGED <<lastPeer, new, requested, responding, more, accepted, dropped,
                   closed>>

FirstRequest(e, s) ==
    /\ IsOpen
    /\ s \in new[e]
    /\ Send(e, Frame("REQUEST", s))
    /\ new' = [new EXCEPT ![e] = @ \ {s}]
    /\ requested' = [requested EXCEPT ![e] = @ \cup {s}]
    /\ UNCHANGED <<next, lastPeer, responding, more, accepted, dropped, closed>>

MoreRequests(e, s) ==
    /\ IsOpen
    /\ s \in requested[e]
    /\ more[e] < MaxMore
    /\ more' = [more EXCEPT ![e] = @ + 1]
    /\ Send(e, Frame("REQUEST_N", s))
    /\ UNCHANGED <<next, lastPeer, new, requested, responding, accepted, dropped,
                   closed>>

CancelNew(e, s) ==
    /\ IsOpen
    /\ s \in new[e]
    /\ new' = [new EXCEPT ![e] = @ \ {s}]
    /\ UNCHANGED <<next, lastPeer, requested, responding, more, wire, accepted,
                   dropped, closed>>

CancelRequested(e, s) ==
    /\ IsOpen
    /\ s \in requested[e]
    /\ requested' = [requested EXCEPT ![e] = @ \ {s}]
    /\ Send(e, Frame("CANCEL", s))
    /\ UNCHANGED <<next, lastPeer, new, responding, more, accepted, dropped, closed>>

Complete(e, s) ==
    /\ IsOpen
    /\ s \in responding[e]
    /\ responding' = [responding EXCEPT ![e] = @ \ {s}]
    /\ Send(e, Frame("COMPLETE", s))
    /\ UNCHANGED <<next, lastPeer, new, requested, more, accepted, dropped, closed>>

-----------------------------------------------------------------------------
(***************************************************************************)
(* A frame for an automaton in streams_.  A second request on the stream   *)
(* is unexpected.                                                          *)
(***************************************************************************)
Known(e, s) == s \in new[e] \cup requested[e] \cup responding[e]

HandleStreamFrame(e, frame) ==
    /\ requested' = IF frame.type = "COMPLETE"
                    THEN [requested EXCEPT ![e] = @ \ {frame.stream}]
                    ELSE requested
    /\ responding' = IF frame.type = "CANCEL"
                     THEN [responding EXCEPT ![e] = @ \ {frame.stream}]
                     ELSE responding
    /\ closed' = IF frame.type \in {"REQUEST", "REQUEST_FNF"}
                 THEN closed \cup {e}
                 ELSE closed
    /\ UNCHANGED <<lastPeer, accepted, dropped>>

(* Mutants of IsNewPeerStreamId: an off-by-one; parity is not looked at.   *)
IsNewPeerStreamIdBeyond(e, s) == s % 2 # next[e] % 2 /\ s > lastPeer[e] + 1

IsNewPeerStreamIdAny(e, s) == s > lastPeer[e]

(***************************************************************************)
(* registerNewPeerStreamId: not an id that this end gives out itself, and  *)
(* above all ids registered so far.                                        *)
(***************************************************************************)
IsNewPeerStreamId(e, s) == s % 2 # next[e] % 2 /\ s > lastPeer[e]

HandleNewStream(e, frame) ==
    /\ lastPeer' = IF RegistersIds
                   THEN [lastPeer EXCEPT ![e] = frame.stream]
                   ELSE lastPeer
    /\ accepted' = IF frame.type \in {"REQUEST", "REQUEST_FNF"}
                   THEN [accepted EXCEPT ![e] = Append(@, frame.stream)]
                   ELSE accepted
    /\ responding' = IF frame.type = "REQUEST"
                     THEN [responding EXCEPT ![e] = @ \cup {frame.stream}]
                     ELSE responding
    /\ closed' = IF frame.type \in {"REQUEST", "REQUEST_FNF"}
                 THEN closed
                 ELSE closed \cup {e}
    /\ UNCHANGED <<requested, dropped>>

DropFrame(e, frame) ==
    /\ dropped' = IF frame.type \in {"REQUEST", "REQUEST_FNF"}
                  THEN [dropped EXCEPT ![e] = @ \cup {frame.stream}]
                  ELSE dropped
    /\ UNCHANGED <<lastPeer, requested, responding, accepted, closed>>

Receive(e) ==
    /\ IsOpen
    /\ wire[e] # << >>
    /\ wire' = [wire EXCEPT ![e] = Tail(@)]
    /\ LET frame == Head(wire[e])
       IN  IF Known(e, frame.stream)
           THEN HandleStreamFrame(e, frame)
           ELSE IF RegistersIds => IsNewPeerStreamId(e, frame.stream)
           THEN HandleNewStream(e, frame)
           ELSE DropFrame(e, frame)
    /\ UNCHANGED <<next, new, more>>

Next ==
    \E e \in Ends :
        \/ CreateRequester(e)
        \/ FireAndForget(e)
        \/ Receive(e)
        \/ \E s \in 1..MaxStreamId :
              \/ FirstRequest(e, s)
              \/ MoreRequests(e, s)
              \/ CancelNew(e, s)
              \/ CancelRequested(e, s)
              \/ Complete(e, s)

Spec == Init /\ [][Next]_vars

-----------------------------------------------------------------------------
(* The request of stream s is on its way to e or has reached its handler.  *)
Reaching(e, s) ==
    \/ \E i \in 1..Len(wire[e]) :
          wire[e][i].type \in {"REQUEST", "REQUEST_FNF"} /\ wire[e][i].stream = s
    \/ \E i \in 1..Len(accepted[e]) : accepted[e][i] = s

(***************************************************************************)
(* registerNewPeerStreamId turns away frames for "a stream which no longer *)
(* exists" - and a request only when one with a greater id, for which the  *)
(* application asked later, has reached its handler before it.  No stream  *)
(* that still waits has lost its request in any other way.                 *)
(***************************************************************************)
OnlyOvertakenDropped ==
    \A e \in Ends :
        /\ \A s \in dropped[e] : \E i \in 1..Len(accepted[e]) : accepted[e][i] > s
        /\ \A s \in requested[Peer(e)] : Reaching(e, s) \/ s \in dropped[e]

(***************************************************************************)
(* Frames that cross with the end of their stream (a cancellation and a    *)
(* completion, credit for a completed stream) never close the connection.  *)
(***************************************************************************)
LateFramesHarmless == closed = {}

(***************************************************************************)
(* A stream has one automaton at each end at most, and the automaton of a  *)
(* responder serves a stream the other end has asked for: a late frame     *)
(* never brings an ended stream back to life.                              *)
(***************************************************************************)
NoStreamTwice ==
    \A e \in Ends :
        /\ \A i, j \in 1..Len(accepted[e]) :
              accepted[e][i] = accepted[e][j] => i = j
        /\ (new[e] \cup requested[e]) \cap responding[e] = {}
        /\ \A s \in responding[e] : s < next[Peer(e)] /\ s \notin new[Peer(e)]

=============================================================================
