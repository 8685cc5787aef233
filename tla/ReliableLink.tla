---------------------------- MODULE ReliableLink ----------------------------
(***************************************************************************)
(* What a resumable ReactiveSocket promises its application: the frames    *)
(* written at one end arrive at the other end once each and in the order   *)
(* they were written, whatever happens to the transports, until one end is *)
(* closed; and while neither end is, every frame does arrive.              *)
(***************************************************************************)
EXTENDS Naturals, Sequences

CONSTANTS Client, Server

VARIABLES
    written,    \* number of frames each end has written
    delivered,  \* the frames each end has received, by their number
    closed      \* the ends that are closed

vars == <<written, delivered, closed>>

Ends == {Client, Server}

Peer(e) == IF e = Client THEN Server ELSE Client

Init ==
    /\ written = [e \in Ends |-> 0]
    /\ delivered = [e \in Ends |-> << >>]
    /\ closed = {}

Write(e) ==
    /\ e \notin closed
    /\ written' = [written EXCEPT ![e] = @ + 1]
    /\ UNCHANGED <<delivered, closed>>

(***************************************************************************)
(* The next frame in order arrives at e.                                   *)
(***************************************************************************)
Deliver(e) ==
    /\ e \notin closed
    /\ Len(delivered[e]) < written[Peer(e)]
    /\ delivered' = [delivered EXCEPT ![e] = Append(@, Len(@) + 1)]
    /\ UNCHANGED <<written, closed>>

Close(e) ==
    /\ e \notin closed
    /\ closed' = closed \cup {e}
    /\ UNCHANGED <<written, delivered>>

Next == \E e \in Ends : Write(e) \/ Deliver(e) \/ Close(e)

(***************************************************************************)
(* Delivery is only promised while both ends are open.                     *)
(***************************************************************************)
DeliverWhileOpen(e) == closed = {} /\ Deliver(e)

Spec == /\ Init
        /\ [][Next]_vars
        /\ \A e \in Ends : WF_vars(DeliverWhileOpen(e))

=============================================================================
