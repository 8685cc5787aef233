----------------------- MODULE StreamsFactoryProofs -----------------------
(***************************************************************************)
(* Proofs about StreamsFactory, for any number of streams: an id names one *)
(* stream for as long as the connection lives; frames that are late do not *)
(* close the connection, if ids are registered; and a request is turned    *)
(* away only if a later one has overtaken it.                              *)
(***************************************************************************)
EXTENDS StreamsFactory, SequenceTheorems, TLAPS

FrameTypes == {"REQUEST", "REQUEST_FNF", "REQUEST_N", "CANCEL", "COMPLETE"}

Frames == [type : FrameTypes, stream : Nat]

(* The values the members of StreamsFactory and streams_ take.             *)
TypeOK ==
    /\ next \in [Ends -> Nat]
    /\ lastPeer \in [Ends -> Nat]
    /\ new \in [Ends -> SUBSET Nat]
    /\ requested \in [Ends -> SUBSET Nat]
    /\ responding \in [Ends -> SUBSET Nat]
    /\ more \in [Ends -> Nat]
    /\ wire \in [Ends -> Seq(Frames)]
    /\ accepted \in [Ends -> Seq(Nat)]
    /\ dropped \in [Ends -> SUBSET Nat]
    /\ closed \subseteq Ends

Parity(e) == IF e = "client" THEN 1 ELSE 0

(* Ids that end e has given out, and those whose stream is no longer new.  *)
Given(e) == {s \in Nat \ {0} : s % 2 = Parity(e) /\ s < next[e]}

Used(e) == Given(e) \ new[e]

IsRequest(f) == f.type \in {"REQUEST", "REQUEST_FNF"}

(* Whose ids the automata and the frames of end e carry.                   *)
IdsApart(e) ==
    /\ next[e] % 2 = Parity(e) /\ next[e] # 0
    /\ new[e] \subseteq Given(e)
    /\ requested[e] \subseteq Used(e)
    /\ responding[e] \subseteq Used(Peer(e))
    /\ lastPeer[e] < next[Peer(e)]
    /\ \A i \in 1..Len(accepted[e]) : accepted[e][i] \in Used(Peer(e))
    /\ \A i \in 1..Len(wire[e]) :
          wire[e][i].stream \in IF wire[e][i].type = "COMPLETE" THEN Given(e) ELSE Used(Peer(e))

(* An id is requested once: on its way or arrived.                         *)
RequestedOnce(e) ==
    /\ \A i, j \in 1..Len(accepted[e]) : accepted[e][i] = accepted[e][j] => i = j
    /\ \A i \in 1..Len(wire[e]) : IsRequest(wire[e][i]) =>
          /\ wire[e][i].stream \notin responding[e]
          /\ \A k \in 1..Len(accepted[e]) : accepted[e][k] # wire[e][i].stream
    /\ \A i, j \in 1..Len(wire[e]) :
          IsRequest(wire[e][i]) /\ IsRequest(wire[e][j]) /\ wire[e][i].stream = wire[e][j].stream
             => i = j

(* The request of stream s has arrived where last is the greatest id that  *)
(* has, or is among the first n - 1 of the frames.                         *)
Announced(last, frames, s, n) ==
    \/ s <= last
    \/ \E j \in 1..Len(frames) : j < n /\ IsRequest(frames[j]) /\ frames[j].stream = s

(* A stream's request goes ahead of all its other frames.                  *)
RequestAhead(e) ==
    /\ \A i \in 1..Len(wire[e]) : wire[e][i].type \in {"REQUEST_N", "CANCEL"} =>
          Announced(lastPeer[e], wire[e], wire[e][i].stream, i)
    /\ \A s \in requested[Peer(e)] : Announced(lastPeer[e], wire[e], s, Len(wire[e]) + 1)

(* The greatest id registered is that of a request which was accepted;     *)
(* what becomes of a request.                                              *)
Served(e) ==
    /\ RegistersIds /\ lastPeer[e] # 0 =>
          \E i \in 1..Len(accepted[e]) : accepted[e][i] = lastPeer[e]
    /\ \A s \in dropped[e] : \E i \in 1..Len(accepted[e]) : accepted[e][i] > s
    /\ \A s \in requested[Peer(e)] : Reaching(e, s) \/ s \in dropped[e]

IInv ==
    /\ TypeOK
    /\ \A e \in Ends : IdsApart(e) /\ RequestedOnce(e)

(* What registering ids adds.                                              *)
RegisteredInv ==
    /\ closed = {}
    /\ \A e \in Ends : RequestAhead(e)

FullInv ==
    /\ IInv
    /\ RegistersIds => RegisteredInv
    /\ \A e \in Ends : Served(e)

-----------------------------------------------------------------------------
(* Ends, ids and queues.                                                   *)

(* A connection has two ends.                                              *)
LEMMA TwoEnds ==
    ASSUME NEW e \in Ends
    PROVE  /\ Peer(e) \in Ends /\ Peer(e) # e /\ Peer(Peer(e)) = e
           /\ \A d \in Ends : d = e \/ d = Peer(e)
BY DEF Ends, Peer

(* Client and server give out ids of different parity.                     *)
LEMMA GivenApart ==
    ASSUME NEW e \in Ends
    PROVE  Given(e) \cap Given(Peer(e)) = {}
BY DEF Ends, Peer, Given, Parity

(* getNextStreamId gives out an id that was not given out before.          *)
LEMMA GivenGrows ==
    ASSUME TypeOK, NEW e \in Ends, next[e] % 2 = Parity(e), next[e] # 0, GetNextStreamId(e)
    PROVE  /\ next'[e] % 2 = Parity(e) /\ next'[e] = next[e] + 2
           /\ next[e] \notin Given(e)
           /\ Given(e)' = Given(e) \cup {next[e]}
           /\ next'[Peer(e)] = next[Peer(e)] /\ Given(Peer(e))' = Given(Peer(e))
           /\ next' \in [Ends -> Nat]
<1>1. next[e] \in Nat /\ next'[e] = next[e] + 2 /\ Parity(e) \in {0, 1}
  BY DEF TypeOK, GetNextStreamId, Parity
<1>2. next' \in [Ends -> Nat]
  BY DEF TypeOK, GetNextStreamId
<1>3. next'[e] % 2 = Parity(e)
  BY <1>1
<1>4. \A s \in Nat : s % 2 = Parity(e) /\ s < next'[e] <=> s = next[e] \/ (s % 2 = Parity(e) /\ s < next[e])
  BY <1>1
<1>5. Given(e)' = Given(e) \cup {next[e]} /\ next[e] \notin Given(e)
  BY <1>1, <1>4 DEF Given
<1>6. next'[Peer(e)] = next[Peer(e)]
  BY TwoEnds DEF TypeOK, GetNextStreamId
<1> QED BY <1>1, <1>2, <1>3, <1>5, <1>6 DEF Given

(* A frame was put behind those on their way to the peer of e.             *)
Sent(e, f) ==
    LET p == Peer(e) IN
    /\ wire' \in [Ends -> Seq(Frames)]
    /\ wire'[e] = wire[e]
    /\ Len(wire[p]) \in Nat /\ Len(wire'[p]) = Len(wire[p]) + 1
    /\ \A i \in 1..Len(wire[p]) : wire'[p][i] = wire[p][i]
    /\ wire'[p][Len(wire[p]) + 1] = f

(* Sending leaves the frames that are on their way in place.               *)
LEMMA SendAppends ==
    ASSUME TypeOK, NEW e \in Ends, NEW f \in Frames, Send(e, f)
    PROVE  Sent(e, f)
<1>1. wire[Peer(e)] \in Seq(Frames) /\ wire'[Peer(e)] = Append(wire[Peer(e)], f)
  BY TwoEnds DEF TypeOK, Send
<1>2. wire'[e] = wire[e]
  BY TwoEnds DEF TypeOK, Send
<1>3. /\ wire'[Peer(e)] \in Seq(Frames)
      /\ Len(wire[Peer(e)]) \in Nat /\ Len(wire'[Peer(e)]) = Len(wire[Peer(e)]) + 1
      /\ \A i \in 1..Len(wire[Peer(e)]) : wire'[Peer(e)][i] = wire[Peer(e)][i]
      /\ wire'[Peer(e)][Len(wire[Peer(e)]) + 1] = f
  BY <1>1, AppendProperties, LenProperties
<1>4. wire' \in [Ends -> Seq(Frames)]
  BY <1>1, <1>3, TwoEnds DEF TypeOK, Send
<1> QED BY <1>2, <1>3, <1>4 DEF Sent

(* The first frame on its way to e was taken.                              *)
Taken(e) ==
    /\ wire' \in [Ends -> Seq(Frames)]
    /\ wire'[Peer(e)] = wire[Peer(e)]
    /\ Head(wire[e]) = wire[e][1] /\ wire[e][1] \in Frames
    /\ Len(wire[e]) \in Nat \ {0} /\ Len(wire'[e]) = Len(wire[e]) - 1
    /\ \A i \in 1..Len(wire'[e]) : wire'[e][i] = wire[e][i + 1] /\ i + 1 \in 1..Len(wire[e])

(* Taking a frame moves the others up.                                     *)
LEMMA ReceiveTakes ==
    ASSUME TypeOK, NEW e \in Ends, Receive(e)
    PROVE  Taken(e)
<1>1. /\ wire[e] \in Seq(Frames) /\ wire[e] # << >>
      /\ wire'[e] = Tail(wire[e]) /\ wire'[Peer(e)] = wire[Peer(e)]
  BY TwoEnds DEF TypeOK, Receive
<1>2. /\ wire'[e] \in Seq(Frames)
      /\ Head(wire[e]) = wire[e][1] /\ wire[e][1] \in Frames
      /\ Len(wire[e]) \in Nat \ {0} /\ Len(wire'[e]) = Len(wire[e]) - 1
      /\ \A i \in 1..Len(wire'[e]) : wire'[e][i] = wire[e][i + 1] /\ i + 1 \in 1..Len(wire[e])
  <2>1. /\ Tail(wire[e]) \in Seq(Frames) /\ Len(Tail(wire[e])) = Len(wire[e]) - 1
        /\ \A i \in 1..Len(Tail(wire[e])) : Tail(wire[e])[i] = wire[e][i + 1]
        /\ Head(wire[e]) \in Frames /\ Len(wire[e]) \in Nat \ {0}
    BY <1>1, HeadTailProperties, EmptySeq
  <2>2. Head(wire[e]) = wire[e][1]
    BY <1>1
  <2> QED BY <1>1, <2>1, <2>2
<1>3. wire' \in [Ends -> Seq(Frames)]
  BY <1>1, <1>2, TwoEnds DEF TypeOK, Receive
<1> QED BY <1>1, <1>2, <1>3 DEF Taken

-----------------------------------------------------------------------------
(* Steps of an application: an id may be given out, a stream may cease to  *)
(* be new, and nothing that was received is touched.                       *)
Acts(e) ==
    LET p == Peer(e) IN
    /\ UNCHANGED <<lastPeer, accepted, dropped, closed>>
    /\ next'[e] % 2 = Parity(e) /\ next[e] <= next'[e] /\ next'[p] = next[p] /\ next'[e] # 0
    /\ new'[p] = new[p] /\ requested'[p] = requested[p]
    /\ Given(e) \subseteq Given(e)' /\ Given(p)' = Given(p)
    /\ Used(e) \subseteq Used(e)' /\ Used(p)' = Used(p)
    /\ new'[e] \subseteq Given(e)'
    /\ requested'[e] \subseteq Used(e)'
    /\ responding'[e] \subseteq responding[e] /\ responding'[p] \subseteq responding[p]

(* A frame the application of e may send: a request only for an unused id. *)
MaySend(e, f) ==
    /\ f \in Frames
    /\ f.stream \in IF f.type = "COMPLETE" THEN Given(Peer(e)) ELSE Used(e)'
    /\ IsRequest(f) => f.stream \notin Used(e)

(* A step of an application that sends nothing keeps ids apart.            *)
LEMMA SilentKeeps ==
    ASSUME IInv, TypeOK', NEW e \in Ends, Acts(e), wire' = wire
    PROVE  IInv'
<1> DEFINE p == Peer(e)
<1>1. p \in Ends /\ p # e /\ Peer(p) = e /\ \A d \in Ends : d = e \/ d = p
  BY TwoEnds
<1>2. next[e] \in Nat /\ next'[e] \in Nat /\ lastPeer[p] \in Nat
  BY <1>1 DEF IInv, TypeOK
<1>3. IdsApart(e)'
  BY <1>1 DEF IInv, IdsApart, Acts
<1>4. IdsApart(p)'
  BY <1>1, <1>2 DEF IInv, IdsApart, Acts
<1>5. RequestedOnce(e)' /\ RequestedOnce(p)'
  BY <1>1 DEF IInv, RequestedOnce, Acts
<1> QED BY <1>1, <1>3, <1>4, <1>5 DEF IInv

(* A step of an application that sends a frame keeps ids apart.            *)
LEMMA SendingKeeps ==
    ASSUME IInv, TypeOK', NEW e \in Ends, Acts(e), NEW f, MaySend(e, f), Sent(e, f)
    PROVE  IInv'
<1> DEFINE p == Peer(e)
<1>1. p \in Ends /\ p # e /\ Peer(p) = e /\ \A d \in Ends : d = e \/ d = p
  BY TwoEnds
<1>2. next[e] \in Nat /\ next'[e] \in Nat /\ lastPeer[p] \in Nat
  BY <1>1 DEF IInv, TypeOK
<1>3. IdsApart(e)'
  BY <1>1 DEF IInv, IdsApart, Acts, Sent
<1>4. IdsApart(p)'
  <2>1. \A i \in 1..Len(wire'[p]) : wire'[p][i].stream \in
            IF wire'[p][i].type = "COMPLETE" THEN Given(p) ELSE Used(e)'
    <3> SUFFICES ASSUME NEW i \in 1..Len(wire'[p])
                 PROVE  wire'[p][i].stream \in
                          IF wire'[p][i].type = "COMPLETE" THEN Given(p) ELSE Used(e)'
      OBVIOUS
    <3>1. CASE i \in 1..Len(wire[p])
      BY <1>1, <3>1 DEF IInv, IdsApart, Acts, Sent
    <3>2. CASE i = Len(wire[p]) + 1
      BY <3>2 DEF Sent, MaySend
    <3> QED BY <3>1, <3>2 DEF Sent
  <2> QED BY <1>1, <1>2, <2>1 DEF IInv, IdsApart, Acts
<1>5. RequestedOnce(e)'
  BY <1>1 DEF IInv, RequestedOnce, Acts, Sent
<1>6. RequestedOnce(p)'
  <2>1. \A i \in 1..Len(wire[p]) : IsRequest(wire[p][i]) => wire[p][i].stream \in Used(e)
    BY <1>1 DEF IInv, IdsApart, IsRequest
  <2>2. /\ \A i \in 1..Len(accepted[p]) : accepted[p][i] \in Used(e)
        /\ responding[p] \subseteq Used(e)
    BY <1>1 DEF IInv, IdsApart
  <2>3. \A i \in 1..Len(wire'[p]) : i \in 1..Len(wire[p]) \/ i = Len(wire[p]) + 1
    BY DEF Sent
  <2>4. \A i \in 1..Len(wire'[p]) : IsRequest(wire'[p][i]) =>
           /\ wire'[p][i].stream \notin responding'[p]
           /\ \A k \in 1..Len(accepted'[p]) : accepted'[p][k] # wire'[p][i].stream
    <3> SUFFICES ASSUME NEW i \in 1..Len(wire'[p]), IsRequest(wire'[p][i])
                 PROVE  /\ wire'[p][i].stream \notin responding'[p]
                        /\ \A k \in 1..Len(accepted'[p]) : accepted'[p][k] # wire'[p][i].stream
      OBVIOUS
    <3>1. CASE i \in 1..Len(wire[p])
      <4>1. wire'[p][i] = wire[p][i]
        BY <3>1 DEF Sent
      <4> QED BY <1>1, <3>1, <4>1 DEF IInv, RequestedOnce, Acts
    <3>2. CASE i = Len(wire[p]) + 1
      <4>1. wire'[p][i] = f
        BY <3>2 DEF Sent
      <4> QED BY <1>1, <2>2, <4>1 DEF MaySend, Acts
    <3> QED BY <2>3, <3>1, <3>2
  <2>5. \A i, j \in 1..Len(wire'[p]) :
          IsRequest(wire'[p][i]) /\ IsRequest(wire'[p][j]) /\ wire'[p][i].stream = wire'[p][j].stream
             => i = j
    <3>1. \A i \in 1..Len(wire[p]) : wire'[p][i] = wire[p][i]
      BY DEF Sent
    <3>2. wire'[p][Len(wire[p]) + 1] = f
      BY DEF Sent
    <3>3. \A i, j \in 1..Len(wire[p]) :
            IsRequest(wire[p][i]) /\ IsRequest(wire[p][j]) /\ wire[p][i].stream = wire[p][j].stream
               => i = j
      BY <1>1 DEF IInv, RequestedOnce
    <3>4. IsRequest(f) => \A i \in 1..Len(wire[p]) : IsRequest(wire[p][i]) => wire[p][i].stream # f.stream
      BY <2>1 DEF MaySend
    <3> QED BY <2>3, <3>1, <3>2, <3>3, <3>4
  <2> QED BY <1>1, <2>4, <2>5 DEF IInv, RequestedOnce, Acts
<1> QED BY <1>1, <1>3, <1>4, <1>5, <1>6 DEF IInv

-----------------------------------------------------------------------------
(* What a frame f that arrived at e may change.                            *)
Received(e, f) ==
    LET p == Peer(e) IN
    /\ UNCHANGED <<next, new, more>>
    /\ requested' \in [Ends -> SUBSET Nat] /\ responding' \in [Ends -> SUBSET Nat]
    /\ lastPeer' \in [Ends -> Nat] /\ dropped' \in [Ends -> SUBSET Nat]
    /\ closed' \subseteq Ends
    /\ lastPeer'[p] = lastPeer[p]
    /\ \/ lastPeer'[e] = lastPeer[e]
       \/ RegistersIds /\ lastPeer'[e] = f.stream /\ IsNewPeerStreamId(e, f.stream)
    /\ requested'[e] \subseteq requested[e] /\ requested'[p] = requested[p]
    /\ responding'[e] \subseteq responding[e] \cup (IF IsRequest(f) THEN {f.stream} ELSE {})
    /\ responding'[p] = responding[p]
    /\ \/ accepted' = accepted
       \/ IsRequest(f) /\ accepted' = [accepted EXCEPT ![e] = Append(@, f.stream)]

(* A frame is handled by its automaton, brings a new stream or is dropped. *)
LEMMA ReceiveChanges ==
    ASSUME TypeOK, NEW e \in Ends, Receive(e)
    PROVE  Received(e, wire[e][1])
<1> DEFINE f == Head(wire[e])
<1>1. f = wire[e][1] /\ f \in Frames /\ f.stream \in Nat
  BY ReceiveTakes DEF Taken, Frames
<1>2. Peer(e) \in Ends /\ Peer(e) # e
  BY TwoEnds
<1>3. UNCHANGED <<next, new, more>>
  BY DEF Receive
<1> HIDE DEF f
<1>4. CASE Known(e, f.stream) /\ HandleStreamFrame(e, f)
  BY <1>1, <1>2, <1>3, <1>4 DEF HandleStreamFrame, TypeOK, Received
<1>5. CASE (RegistersIds => IsNewPeerStreamId(e, f.stream)) /\ HandleNewStream(e, f)
  BY <1>1, <1>2, <1>3, <1>5, StreamIdAssumption DEF HandleNewStream, TypeOK, Received, IsRequest
<1>6. CASE DropFrame(e, f)
  BY <1>1, <1>2, <1>3, <1>6 DEF DropFrame, TypeOK, Received
<1>7. \/ Known(e, f.stream) /\ HandleStreamFrame(e, f)
      \/ (RegistersIds => IsNewPeerStreamId(e, f.stream)) /\ HandleNewStream(e, f)
      \/ DropFrame(e, f)
  BY DEF Receive, f
<1> QED BY <1>1, <1>4, <1>5, <1>6, <1>7

(* Whatever arrives, ids stay apart and no request comes a second time.    *)
LEMMA ReceiveKeeps ==
    ASSUME IInv, NEW e \in Ends, Receive(e)
    PROVE  IInv'
<1> DEFINE p == Peer(e)
           f == wire[e][1]
<1>1. p \in Ends /\ p # e /\ Peer(p) = e /\ \A d \in Ends : d = e \/ d = p
  BY TwoEnds
<1>2. Taken(e) /\ Received(e, f)
  BY ReceiveTakes, ReceiveChanges DEF IInv
<1>3. /\ 1 \in 1..Len(wire[e])
      /\ \A i \in 1..Len(wire'[e]) : /\ wire'[e][i] = wire[e][i + 1]
                                     /\ i + 1 \in 1..Len(wire[e]) /\ i + 1 # 1
      /\ \A i, j \in 1..Len(wire'[e]) : i + 1 = j + 1 => i = j
  BY <1>2 DEF Taken
<1>4. Given(e)' = Given(e) /\ Given(p)' = Given(p) /\ Used(e)' = Used(e) /\ Used(p)' = Used(p)
  BY <1>2 DEF Given, Used, Received
<1>5. f \in Frames /\ f.stream \in Nat
  BY <1>2 DEF Taken, Frames
<1>6. IsRequest(f) => f.stream \in Used(p)
  BY <1>1, <1>3 DEF IInv, IdsApart, IsRequest
(* The requests that have arrived.                                         *)
<1>7. /\ accepted' \in [Ends -> Seq(Nat)] /\ accepted'[p] = accepted[p]
      /\ \A i \in 1..Len(accepted'[e]) :
            \/ i \in 1..Len(accepted[e]) /\ accepted'[e][i] = accepted[e][i]
            \/ i = Len(accepted[e]) + 1 /\ IsRequest(f) /\ accepted'[e][i] = f.stream
  <2>1. accepted \in [Ends -> Seq(Nat)] /\ accepted[e] \in Seq(Nat)
    BY DEF IInv, TypeOK
  <2>2. CASE accepted' = accepted
    BY <2>1, <2>2
  <2>3. CASE IsRequest(f) /\ accepted' = [accepted EXCEPT ![e] = Append(@, f.stream)]
    <3>1. accepted'[e] = Append(accepted[e], f.stream) /\ accepted'[p] = accepted[p]
      BY <1>1, <2>1, <2>3
    <3>2. /\ Append(accepted[e], f.stream) \in Seq(Nat)
          /\ Len(accepted[e]) \in Nat
          /\ Len(Append(accepted[e], f.stream)) = Len(accepted[e]) + 1
          /\ \A i \in 1..Len(accepted[e]) : Append(accepted[e], f.stream)[i] = accepted[e][i]
          /\ Append(accepted[e], f.stream)[Len(accepted[e]) + 1] = f.stream
      BY <1>5, <2>1, AppendProperties, LenProperties
    <3>3. accepted' \in [Ends -> Seq(Nat)]
      BY <2>1, <2>3, <3>2
    <3>4. \A i \in 1..(Len(accepted[e]) + 1) : i \in 1..Len(accepted[e]) \/ i = Len(accepted[e]) + 1
      BY <3>2
    <3> QED BY <2>3, <3>1, <3>2, <3>3, <3>4
  <2> QED BY <1>2, <2>2, <2>3 DEF Received
<1>8. TypeOK'
  BY <1>2, <1>7 DEF IInv, TypeOK, Received, Taken
<1>9. lastPeer'[e] < next'[p]
  <2>1. CASE lastPeer'[e] = lastPeer[e]
    BY <1>1, <1>2, <2>1 DEF IInv, IdsApart, Received
  <2>2. CASE lastPeer'[e] = f.stream /\ IsNewPeerStreamId(e, f.stream)
    <3>1. f.stream \notin Given(e)
      BY <2>2 DEF IsNewPeerStreamId, Given, IInv, IdsApart
    <3>2. f.stream \in Given(p)
      BY <1>1, <1>3, <3>1 DEF IInv, IdsApart, Used
    <3> QED BY <1>2, <2>2, <3>2 DEF Given, Received
  <2> QED BY <1>2, <2>1, <2>2 DEF Received
<1>10. IdsApart(e)'
  <2>1. \A i \in 1..Len(accepted'[e]) : accepted'[e][i] \in Used(p)
    BY <1>1, <1>6, <1>7 DEF IInv, IdsApart
  <2>2. responding'[e] \subseteq Used(p)
    BY <1>1, <1>2, <1>6 DEF IInv, IdsApart, Received
  <2>3. \A i \in 1..Len(wire'[e]) :
          wire'[e][i].stream \in IF wire'[e][i].type = "COMPLETE" THEN Given(e) ELSE Used(p)
    BY <1>1, <1>3 DEF IInv, IdsApart
  <2>4. next'[e] % 2 = Parity(e) /\ next'[e] # 0 /\ new'[e] \subseteq Given(e) /\ requested'[e] \subseteq Used(e)
    BY <1>2 DEF IInv, IdsApart, Received
  <2> QED BY <1>4, <1>9, <2>1, <2>2, <2>3, <2>4 DEF IdsApart
<1>11. IdsApart(p)'
  BY <1>1, <1>2, <1>4, <1>7 DEF IInv, IdsApart, Received, Taken
<1>12. RequestedOnce(p)'
  BY <1>1, <1>2, <1>7 DEF IInv, RequestedOnce, Received, Taken
<1>13. RequestedOnce(e)'
  <2>1. IsRequest(f) => /\ f.stream \notin responding[e]
                        /\ \A k \in 1..Len(accepted[e]) : accepted[e][k] # f.stream
    BY <1>3 DEF IInv, RequestedOnce
  <2>2. \A i \in 1..Len(wire'[e]) : IsRequest(wire'[e][i]) =>
           /\ IsRequest(wire[e][i + 1])
           /\ wire[e][i + 1].stream \notin responding[e]
           /\ \A k \in 1..Len(accepted[e]) : accepted[e][k] # wire[e][i + 1].stream
           /\ IsRequest(f) => wire[e][i + 1].stream # f.stream
    BY <1>3 DEF IInv, RequestedOnce
  <2>3. \A i, j \in 1..Len(accepted'[e]) : accepted'[e][i] = accepted'[e][j] => i = j
    BY <1>7, <2>1 DEF IInv, RequestedOnce
  <2>4. \A i \in 1..Len(wire'[e]) : IsRequest(wire'[e][i]) =>
           /\ wire'[e][i].stream \notin responding'[e]
           /\ \A k \in 1..Len(accepted'[e]) : accepted'[e][k] # wire'[e][i].stream
    <3> SUFFICES ASSUME NEW i \in 1..Len(wire'[e]), IsRequest(wire'[e][i])
                 PROVE  /\ wire'[e][i].stream \notin responding'[e]
                        /\ \A k \in 1..Len(accepted'[e]) : accepted'[e][k] # wire'[e][i].stream
      OBVIOUS
    <3>1. /\ wire'[e][i].stream \notin responding[e]
          /\ \A k \in 1..Len(accepted[e]) : accepted[e][k] # wire'[e][i].stream
          /\ IsRequest(f) => wire'[e][i].stream # f.stream
      BY <1>3, <2>2
    <3>2. wire'[e][i].stream \notin responding'[e]
      BY <1>2, <3>1 DEF Received
    <3>3. \A k \in 1..Len(accepted'[e]) : accepted'[e][k] # wire'[e][i].stream
      BY <1>7, <3>1
    <3> QED BY <3>2, <3>3
  <2>5. \A i, j \in 1..Len(wire'[e]) :
          IsRequest(wire'[e][i]) /\ IsRequest(wire'[e][j]) /\ wire'[e][i].stream = wire'[e][j].stream
             => i = j
    <3> SUFFICES ASSUME NEW i \in 1..Len(wire'[e]), NEW j \in 1..Len(wire'[e]),
                        IsRequest(wire'[e][i]), IsRequest(wire'[e][j]),
                        wire'[e][i].stream = wire'[e][j].stream
                 PROVE  i + 1 = j + 1
      BY <1>3
    <3>1. /\ wire'[e][i] = wire[e][i + 1] /\ i + 1 \in 1..Len(wire[e])
          /\ wire'[e][j] = wire[e][j + 1] /\ j + 1 \in 1..Len(wire[e])
      BY <1>3
    <3> QED BY <3>1 DEF IInv, RequestedOnce
  <2> QED BY <2>3, <2>4, <2>5 DEF RequestedOnce
<1> QED BY <1>1, <1>8, <1>10, <1>11, <1>12, <1>13 DEF IInv

-----------------------------------------------------------------------------
(* The operations of an application, as steps that send or do not.         *)
Silent(e) ==
    /\ Acts(e) /\ wire' = wire
    /\ requested'[e] \subseteq requested[e]
    /\ new'[e] \subseteq new[e] \cup {next[e]}

Sends(e, f) ==
    /\ Acts(e) /\ MaySend(e, f) /\ Sent(e, f)
    /\ requested'[e] \subseteq requested[e] \cup (IF IsRequest(f) THEN {f.stream} ELSE {})
    /\ f.type \in {"REQUEST_N", "CANCEL"} => f.stream \in requested[e]
    /\ new'[e] \subseteq new[e]
    /\ IsRequest(f) => f.stream \in new[e] \cup {next[e]}

(* Asking for a stream, and firing and forgetting, give out an id.         *)
LEMMA CreateRequesterActs ==
    ASSUME IInv, NEW e \in Ends, CreateRequester(e)
    PROVE  TypeOK' /\ Silent(e)
<1>1. Peer(e) \in Ends /\ Peer(e) # e /\ next[e] \in Nat
  BY TwoEnds DEF IInv, TypeOK
<1>2. /\ next'[e] % 2 = Parity(e) /\ next'[e] = next[e] + 2 /\ next[e] \notin Given(e)
      /\ Given(e)' = Given(e) \cup {next[e]} /\ Given(Peer(e))' = Given(Peer(e))
      /\ next'[Peer(e)] = next[Peer(e)] /\ next' \in [Ends -> Nat]
  BY GivenGrows DEF IInv, IdsApart, CreateRequester
<1>3. new'[e] = new[e] \cup {next[e]} /\ new'[Peer(e)] = new[Peer(e)]
  BY <1>1 DEF CreateRequester, IInv, TypeOK
<1>4. TypeOK'
  BY <1>1, <1>2 DEF IInv, TypeOK, CreateRequester
<1>5. Used(e)' = Used(e) /\ Used(Peer(e))' = Used(Peer(e))
  BY <1>2, <1>3 DEF Used
<1>6. Acts(e)
  BY <1>1, <1>2, <1>3, <1>5 DEF IInv, IdsApart, Acts, CreateRequester
<1> QED BY <1>3, <1>4, <1>6 DEF Silent, CreateRequester

(* requestFireAndForget sends its only frame with a fresh id.              *)
LEMMA FireAndForgetActs ==
    ASSUME IInv, NEW e \in Ends, FireAndForget(e)
    PROVE  TypeOK' /\ Sends(e, Frame("REQUEST_FNF", next[e]))
<1> DEFINE f == Frame("REQUEST_FNF", next[e])
<1>1. Peer(e) \in Ends /\ Peer(e) # e /\ next[e] \in Nat
  BY TwoEnds DEF IInv, TypeOK
<1>2. /\ next'[e] % 2 = Parity(e) /\ next'[e] = next[e] + 2 /\ next[e] \notin Given(e)
      /\ Given(e)' = Given(e) \cup {next[e]} /\ Given(Peer(e))' = Given(Peer(e))
      /\ next'[Peer(e)] = next[Peer(e)] /\ next' \in [Ends -> Nat]
  BY GivenGrows DEF IInv, IdsApart, FireAndForget
<1>3. f \in Frames /\ f.stream = next[e] /\ f.type = "REQUEST_FNF"
  BY <1>1 DEF Frame, Frames, FrameTypes
<1>4. Sent(e, f)
  BY <1>3, SendAppends DEF FireAndForget, IInv
<1>5. TypeOK'
  BY <1>2, <1>4 DEF IInv, TypeOK, FireAndForget, Sent
<1>6. new' = new /\ next[e] \notin new[e]
  BY <1>2 DEF FireAndForget, IInv, IdsApart
<1>7. Used(e)' = Used(e) \cup {next[e]} /\ Used(Peer(e))' = Used(Peer(e)) /\ next[e] \notin Used(e)
  BY <1>2, <1>6 DEF Used
<1>8. Acts(e)
  BY <1>1, <1>2, <1>6, <1>7 DEF IInv, IdsApart, Acts, FireAndForget
<1>9. MaySend(e, f)
  BY <1>3, <1>7 DEF MaySend
<1>11. requested' = requested /\ new' = new
  BY DEF FireAndForget
<1> HIDE DEF f
<1>12. Sends(e, f)
  BY <1>3, <1>4, <1>8, <1>9, <1>11 DEF Sends
<1> QED BY <1>5, <1>12 DEF f

(* The first request(n) of a stream sends its request.                     *)
LEMMA FirstRequestActs ==
    ASSUME IInv, NEW e \in Ends, NEW s \in Nat, FirstRequest(e, s)
    PROVE  TypeOK' /\ Sends(e, Frame("REQUEST", s))
<1> DEFINE f == Frame("REQUEST", s)
<1>1. Peer(e) \in Ends /\ Peer(e) # e /\ next[e] \in Nat
  BY TwoEnds DEF IInv, TypeOK
<1>2. f \in Frames /\ f.stream = s /\ f.type = "REQUEST"
  BY DEF Frame, Frames, FrameTypes
<1>3. Sent(e, f)
  BY <1>2, SendAppends DEF FirstRequest, IInv
<1>4. /\ s \in new[e] /\ new'[e] = new[e] \ {s} /\ new'[Peer(e)] = new[Peer(e)]
      /\ requested'[e] = requested[e] \cup {s} /\ requested'[Peer(e)] = requested[Peer(e)]
  BY <1>1 DEF FirstRequest, IInv, TypeOK
<1>5. TypeOK'
  BY <1>1, <1>3 DEF IInv, TypeOK, FirstRequest, Sent
<1>6. Given(e)' = Given(e) /\ Given(Peer(e))' = Given(Peer(e)) /\ s \in Given(e)
  BY <1>4 DEF Given, FirstRequest, IInv, IdsApart
<1>7. Used(e)' = Used(e) \cup {s} /\ Used(Peer(e))' = Used(Peer(e)) /\ s \notin Used(e)
  BY <1>4, <1>6 DEF Used
<1>8. Acts(e)
  BY <1>1, <1>4, <1>6, <1>7 DEF IInv, IdsApart, Acts, FirstRequest
<1>9. MaySend(e, f)
  BY <1>2, <1>7 DEF MaySend
<1> HIDE DEF f
<1>11. Sends(e, f)
  BY <1>2, <1>3, <1>4, <1>8, <1>9 DEF Sends, IsRequest
<1> QED BY <1>5, <1>11 DEF f

(* A frame that is no request leaves the ids that are in use alone.        *)
LEMMA OtherFramesActs ==
    ASSUME IInv, NEW e \in Ends, NEW s \in Nat,
           MoreRequests(e, s) \/ CancelRequested(e, s) \/ Complete(e, s)
    PROVE  TypeOK' /\ \E f \in Frames : Sends(e, f)
<1>1. Peer(e) \in Ends /\ Peer(e) # e /\ next[e] \in Nat
  BY TwoEnds DEF IInv, TypeOK
<1>2. /\ Given(e)' = Given(e) /\ Given(Peer(e))' = Given(Peer(e))
      /\ Used(e)' = Used(e) /\ Used(Peer(e))' = Used(Peer(e))
  BY DEF MoreRequests, CancelRequested, Complete, Given, Used
<1>3. CASE MoreRequests(e, s)
  <2> DEFINE f == Frame("REQUEST_N", s)
  <2>1. f \in Frames /\ f.stream = s /\ f.type = "REQUEST_N"
    BY DEF Frame, Frames, FrameTypes
  <2>2. Sent(e, f)
    BY <1>3, <2>1, SendAppends DEF MoreRequests, IInv
  <2>3. TypeOK'
    <3>1. more' \in [Ends -> Nat]
      BY <1>3 DEF IInv, TypeOK, MoreRequests
    <3> QED BY <1>1, <1>3, <2>2, <3>1 DEF IInv, TypeOK, MoreRequests, Sent
  <2>4. Acts(e)
    BY <1>1, <1>2, <1>3 DEF IInv, IdsApart, Acts, MoreRequests
  <2>5. s \in requested[e] /\ requested' = requested /\ new' = new
    BY <1>3 DEF MoreRequests
  <2>6. MaySend(e, f)
    BY <1>2, <2>1, <2>5 DEF MaySend, IInv, IdsApart, IsRequest
  <2> HIDE DEF f
  <2> QED BY <2>1, <2>2, <2>3, <2>4, <2>5, <2>6 DEF Sends, IsRequest
<1>4. CASE CancelRequested(e, s)
  <2> DEFINE f == Frame("CANCEL", s)
  <2>1. f \in Frames /\ f.stream = s /\ f.type = "CANCEL"
    BY DEF Frame, Frames, FrameTypes
  <2>2. Sent(e, f)
    BY <1>4, <2>1, SendAppends DEF CancelRequested, IInv
  <2>3. TypeOK'
    BY <1>1, <1>4, <2>2 DEF IInv, TypeOK, CancelRequested, Sent
  <2>4. /\ s \in requested[e] /\ requested'[e] = requested[e] \ {s} /\ new' = new
        /\ requested'[Peer(e)] = requested[Peer(e)]
    BY <1>1, <1>4 DEF CancelRequested, IInv, TypeOK
  <2>5. Acts(e)
    BY <1>1, <1>2, <1>4, <2>4 DEF IInv, IdsApart, Acts, CancelRequested
  <2>6. MaySend(e, f)
    BY <1>2, <2>1, <2>4 DEF MaySend, IInv, IdsApart, IsRequest
  <2> HIDE DEF f
  <2> QED BY <2>1, <2>2, <2>3, <2>4, <2>5, <2>6 DEF Sends, IsRequest
<1>5. CASE Complete(e, s)
  <2> DEFINE f == Frame("COMPLETE", s)
  <2>1. f \in Frames /\ f.stream = s /\ f.type = "COMPLETE"
    BY DEF Frame, Frames, FrameTypes
  <2>2. Sent(e, f)
    BY <1>5, <2>1, SendAppends DEF Complete, IInv
  <2>3. TypeOK'
    BY <1>1, <1>5, <2>2 DEF IInv, TypeOK, Complete, Sent
  <2>4. /\ s \in responding[e] /\ responding'[e] = responding[e] \ {s}
        /\ responding'[Peer(e)] = responding[Peer(e)] /\ new' = new /\ requested' = requested
    BY <1>1, <1>5 DEF Complete, IInv, TypeOK
  <2>5. Acts(e)
    BY <1>1, <1>2, <1>5, <2>4 DEF IInv, IdsApart, Acts, Complete
  <2>6. MaySend(e, f)
    BY <2>1, <2>4 DEF MaySend, IInv, IdsApart, Used, IsRequest
  <2> HIDE DEF f
  <2> QED BY <2>1, <2>2, <2>3, <2>4, <2>5, <2>6 DEF Sends, IsRequest
<1> QED BY <1>3, <1>4, <1>5

(* A stream that was never requested goes without a frame.                 *)
LEMMA CancelNewActs ==
    ASSUME IInv, NEW e \in Ends, NEW s \in Nat, CancelNew(e, s)
    PROVE  TypeOK' /\ Silent(e)
<1>1. Peer(e) \in Ends /\ Peer(e) # e /\ next[e] \in Nat
  BY TwoEnds DEF IInv, TypeOK
<1>2. s \in new[e] /\ new'[e] = new[e] \ {s} /\ new'[Peer(e)] = new[Peer(e)]
  BY <1>1 DEF CancelNew, IInv, TypeOK
<1>3. Given(e)' = Given(e) /\ Given(Peer(e))' = Given(Peer(e))
  BY DEF Given, CancelNew
<1>4. Used(e) \subseteq Used(e)' /\ Used(Peer(e))' = Used(Peer(e))
  BY <1>2, <1>3 DEF Used
<1>5. TypeOK'
  BY <1>1 DEF IInv, TypeOK, CancelNew
<1>6. Acts(e)
  BY <1>1, <1>2, <1>3, <1>4 DEF IInv, IdsApart, Acts, CancelNew
<1> QED BY <1>2, <1>5, <1>6 DEF Silent, CancelNew

-----------------------------------------------------------------------------
(* A stream's request goes ahead of its other frames.                      *)

(* An announcement stands while more frames are sent.                      *)
LEMMA AnnouncedStands ==
    ASSUME IInv, NEW e \in Ends, NEW f, Sends(e, f), NEW s \in Nat,
           NEW n \in 1..(Len(wire[Peer(e)]) + 1), Announced(lastPeer[Peer(e)], wire[Peer(e)], s, n)
    PROVE  Announced(lastPeer'[Peer(e)], wire'[Peer(e)], s, n)
<1> DEFINE p == Peer(e)
<1>1. /\ Len(wire[p]) \in Nat /\ Len(wire'[p]) = Len(wire[p]) + 1 /\ lastPeer' = lastPeer
      /\ \A j \in 1..Len(wire[p]) : wire'[p][j] = wire[p][j] /\ j \in 1..Len(wire'[p])
  <2>1. /\ Len(wire[p]) \in Nat /\ Len(wire'[p]) = Len(wire[p]) + 1
        /\ \A j \in 1..Len(wire[p]) : wire'[p][j] = wire[p][j]
    BY DEF Sends, Sent
  <2>2. \A j \in 1..Len(wire[p]) : j \in 1..(Len(wire[p]) + 1)
    BY <2>1
  <2> QED BY <2>1, <2>2 DEF Sends, Acts
<1>2. CASE s <= lastPeer[p]
  BY <1>1, <1>2 DEF Announced
<1>3. CASE \E j \in 1..Len(wire[p]) : j < n /\ IsRequest(wire[p][j]) /\ wire[p][j].stream = s
  <2>1. PICK j \in 1..Len(wire[p]) : j < n /\ IsRequest(wire[p][j]) /\ wire[p][j].stream = s
    BY <1>3
  <2>2. wire'[p][j] = wire[p][j] /\ j \in 1..Len(wire'[p])
    BY <1>1
  <2> QED BY <2>1, <2>2 DEF Announced
<1> QED BY <1>2, <1>3 DEF Announced

(* Sending keeps requests ahead.                                           *)
LEMMA SendingKeepsAhead ==
    ASSUME IInv, NEW e \in Ends, NEW f, Sends(e, f), RequestAhead(e), RequestAhead(Peer(e))
    PROVE  RequestAhead(e)' /\ RequestAhead(Peer(e))'
<1> DEFINE p == Peer(e)
<1>1. p \in Ends /\ p # e /\ Peer(p) = e
  BY TwoEnds
<1>2. RequestAhead(e)'
  BY <1>1 DEF RequestAhead, Announced, Sends, Sent, Acts
<1>3. /\ Len(wire[p]) \in Nat /\ Len(wire'[p]) = Len(wire[p]) + 1
      /\ \A i \in 1..Len(wire[p]) : wire'[p][i] = wire[p][i] /\ wire[p][i].stream \in Nat
      /\ wire'[p][Len(wire[p]) + 1] = f /\ f \in Frames /\ f.stream \in Nat
  <2>1. wire[p] \in Seq(Frames)
    BY <1>1 DEF IInv, TypeOK
  <2>2. \A i \in 1..Len(wire[p]) : wire[p][i] \in Frames
    BY <2>1, ElementOfSeq
  <2> QED BY <2>2 DEF Sends, Sent, MaySend, Frames
<1>4. \A s \in requested[e] : s \in Nat
  BY DEF IInv, TypeOK
<1>5. \A s \in requested[e] : Announced(lastPeer'[p], wire'[p], s, Len(wire[p]) + 1)
  BY <1>1, <1>3, <1>4, AnnouncedStands DEF RequestAhead
<1>6. \A i \in 1..Len(wire'[p]) : wire'[p][i].type \in {"REQUEST_N", "CANCEL"} =>
          Announced(lastPeer'[p], wire'[p], wire'[p][i].stream, i)
  <2> SUFFICES ASSUME NEW i \in 1..Len(wire'[p]), wire'[p][i].type \in {"REQUEST_N", "CANCEL"}
               PROVE  Announced(lastPeer'[p], wire'[p], wire'[p][i].stream, i)
    OBVIOUS
  <2>1. CASE i \in 1..Len(wire[p])
    <3>1. Announced(lastPeer[p], wire[p], wire[p][i].stream, i) /\ wire'[p][i] = wire[p][i]
      BY <1>3, <2>1 DEF RequestAhead
    <3> QED BY <1>3, <2>1, <3>1, AnnouncedStands
  <2>2. CASE i = Len(wire[p]) + 1
    <3>1. wire'[p][i] = f /\ f.stream \in requested[e]
      BY <1>3, <2>2 DEF Sends
    <3> QED BY <1>5, <2>2, <3>1
  <2> QED BY <1>3, <2>1, <2>2
<1>7. \A s \in requested'[e] : Announced(lastPeer'[p], wire'[p], s, Len(wire[p]) + 2)
  <2>1. \A s \in requested[e] : Announced(lastPeer'[p], wire'[p], s, Len(wire[p]) + 2)
    <3>1. \A j \in 1..Len(wire'[p]) : j < Len(wire[p]) + 1 => j < Len(wire[p]) + 2
      BY <1>3
    <3> QED BY <1>5, <3>1 DEF Announced
  <2>2. IsRequest(f) => Announced(lastPeer'[p], wire'[p], f.stream, Len(wire[p]) + 2)
    BY <1>3 DEF Announced
  <2>3. \A s \in requested'[e] : s \in requested[e] \/ (IsRequest(f) /\ s = f.stream)
    BY DEF Sends
  <2> QED BY <2>1, <2>2, <2>3
<1>8. Len(wire'[p]) + 1 = Len(wire[p]) + 2
  BY <1>3
<1>9. RequestAhead(p)'
  BY <1>1, <1>6, <1>7, <1>8 DEF RequestAhead
<1> QED BY <1>2, <1>9

(***************************************************************************)
(* A request that arrives finds no automaton under its id.                 *)
(***************************************************************************)
LEMMA RequestFindsNone ==
    ASSUME IInv, NEW e \in Ends, Receive(e), IsRequest(wire[e][1])
    PROVE  /\ ~Known(e, wire[e][1].stream)
           /\ wire[e][1].stream % 2 # next[e] % 2
<1>1. 1 \in 1..Len(wire[e]) /\ wire[e][1] \in Frames
  BY ReceiveTakes DEF IInv, Taken
<1>2. wire[e][1].stream \in Used(Peer(e))
  BY <1>1 DEF IInv, IdsApart, IsRequest
<1>3. wire[e][1].stream \notin Given(e)
  BY <1>2, GivenApart DEF Used
<1>4. wire[e][1].stream \notin responding[e]
  BY <1>1 DEF IInv, RequestedOnce
<1>5. wire[e][1].stream % 2 # next[e] % 2
  BY <1>2 DEF IInv, IdsApart, Used, Given, Ends, Peer, Parity
<1> QED BY <1>3, <1>4, <1>5 DEF Known, IInv, IdsApart, Used

(***************************************************************************)
(* With ids registered, only a request brings a new stream, and a request  *)
(* leaves its id, or a greater one, registered: no frame closes the        *)
(* connection.                                                             *)
(***************************************************************************)
LEMMA ReceiveRegisters ==
    ASSUME IInv, RegistersIds, NEW e \in Ends, Receive(e), RequestAhead(e)
    PROVE  /\ closed' = closed
           /\ lastPeer[e] <= lastPeer'[e]
           /\ IsRequest(wire[e][1]) => wire[e][1].stream <= lastPeer'[e]
           /\ lastPeer'[e] = lastPeer[e] \/ (IsRequest(wire[e][1]) /\ lastPeer'[e] = wire[e][1].stream)
<1> DEFINE f == wire[e][1]
<1>1. /\ 1 \in 1..Len(wire[e]) /\ Head(wire[e]) = f
      /\ f \in Frames /\ f.stream \in Nat /\ f.type \in FrameTypes
      /\ lastPeer[e] \in Nat
  <2>1. 1 \in 1..Len(wire[e]) /\ Head(wire[e]) = f /\ f \in Frames
    BY ReceiveTakes DEF IInv, Taken
  <2>2. lastPeer[e] \in Nat
    BY DEF IInv, TypeOK
  <2> QED BY <2>1, <2>2 DEF Frames
<1>2. f.type \in {"REQUEST_N", "CANCEL"} => f.stream <= lastPeer[e]
  BY <1>1 DEF RequestAhead, Announced
<1>3. f.type = "COMPLETE" => f.stream % 2 = next[e] % 2
  BY <1>1 DEF IInv, IdsApart, Given
<1>4. IsRequest(f) => ~Known(e, f.stream) /\ f.stream % 2 # next[e] % 2
  BY RequestFindsNone
<1>5. CASE Known(e, f.stream)
  <2>1. ~IsRequest(f) /\ HandleStreamFrame(e, f)
    BY <1>1, <1>4, <1>5 DEF Receive
  <2> QED BY <1>1, <2>1 DEF HandleStreamFrame, IsRequest
<1>6. CASE ~Known(e, f.stream) /\ IsNewPeerStreamId(e, f.stream)
  <2>1. HandleNewStream(e, f)
    BY <1>1, <1>6 DEF Receive
  <2>2. f.type \notin {"REQUEST_N", "CANCEL", "COMPLETE"} /\ lastPeer[e] < f.stream
    BY <1>1, <1>2, <1>3, <1>6 DEF IsNewPeerStreamId
  <2>3. IsRequest(f)
    BY <1>1, <2>2 DEF IsRequest, FrameTypes
  <2>4. lastPeer'[e] = f.stream /\ closed' = closed
    BY <2>1, <2>3 DEF HandleNewStream, IInv, TypeOK, IsRequest
  <2> QED BY <1>1, <2>2, <2>3, <2>4
<1>7. CASE ~Known(e, f.stream) /\ ~IsNewPeerStreamId(e, f.stream)
  <2>1. DropFrame(e, f)
    BY <1>1, <1>7 DEF Receive
  <2>2. IsRequest(f) => f.stream <= lastPeer[e]
    BY <1>1, <1>4, <1>7 DEF IsNewPeerStreamId
  <2> QED BY <1>1, <2>1, <2>2 DEF DropFrame
<1> QED BY <1>5, <1>6, <1>7

(* Receiving keeps requests ahead.                                         *)
LEMMA ReceiveKeepsAhead ==
    ASSUME IInv, RegistersIds, NEW e \in Ends, Receive(e), RequestAhead(e), RequestAhead(Peer(e))
    PROVE  RequestAhead(e)' /\ RequestAhead(Peer(e))'
<1> DEFINE p == Peer(e)
<1>1. p \in Ends /\ p # e /\ Peer(p) = e
  BY TwoEnds
<1>2. Taken(e) /\ Received(e, wire[e][1])
  BY ReceiveTakes, ReceiveChanges DEF IInv
<1>3. RequestAhead(p)'
  <2>1. wire'[p] = wire[p] /\ lastPeer'[p] = lastPeer[p] /\ requested'[e] \subseteq requested[e]
    BY <1>2 DEF Received, Taken
  <2>2. /\ \A i \in 1..Len(wire'[p]) : wire'[p][i].type \in {"REQUEST_N", "CANCEL"} =>
              Announced(lastPeer'[p], wire'[p], wire'[p][i].stream, i)
        /\ \A s \in requested'[e] : Announced(lastPeer'[p], wire'[p], s, Len(wire'[p]) + 1)
    BY <1>1, <2>1 DEF RequestAhead
  <2> QED BY <1>1, <2>2 DEF RequestAhead
<1>4. ASSUME NEW s \in Nat, NEW n \in 2..(Len(wire[e]) + 1), Announced(lastPeer[e], wire[e], s, n)
      PROVE  Announced(lastPeer'[e], wire'[e], s, n - 1)
  <2>1. lastPeer[e] \in Nat /\ lastPeer'[e] \in Nat /\ lastPeer[e] <= lastPeer'[e]
    BY <1>2, ReceiveRegisters DEF Received, IInv, TypeOK
  <2>2. CASE s <= lastPeer[e]
    BY <2>1, <2>2 DEF Announced
  <2>3. CASE \E j \in 1..Len(wire[e]) : j < n /\ IsRequest(wire[e][j]) /\ wire[e][j].stream = s
    <3>1. PICK j \in 1..Len(wire[e]) : j < n /\ IsRequest(wire[e][j]) /\ wire[e][j].stream = s
      BY <2>3
    <3>2. CASE j = 1
      BY <3>1, <3>2, ReceiveRegisters DEF Announced
    <3>3. CASE j # 1
      <4>1. /\ j - 1 \in 1..Len(wire'[e]) /\ j - 1 < n - 1
            /\ wire'[e][j - 1] = wire[e][(j - 1) + 1] /\ (j - 1) + 1 = j
        BY <1>2, <3>1, <3>3 DEF Taken
      <4>2. wire'[e][j - 1] = wire[e][j]
        BY <4>1
      <4> QED BY <3>1, <4>1, <4>2 DEF Announced
    <3> QED BY <3>2, <3>3
  <2> QED BY <1>4, <2>2, <2>3 DEF Announced
<1>5. /\ Len(wire[e]) \in Nat \ {0} /\ Len(wire'[e]) = Len(wire[e]) - 1
      /\ \A i \in 1..Len(wire'[e]) :
            /\ wire'[e][i] = wire[e][i + 1] /\ i + 1 \in 1..Len(wire[e])
            /\ wire'[e][i].stream \in Nat
            /\ i + 1 \in 2..(Len(wire[e]) + 1) /\ (i + 1) - 1 = i
      /\ Len(wire[e]) + 1 \in 2..(Len(wire[e]) + 1)
      /\ (Len(wire[e]) + 1) - 1 = Len(wire'[e]) + 1
  <2>1. wire'[e] \in Seq(Frames)
    BY <1>2 DEF Taken
  <2>2. \A i \in 1..Len(wire'[e]) : wire'[e][i].stream \in Nat
    <3>1. \A i \in 1..Len(wire'[e]) : wire'[e][i] \in Frames
      BY <2>1, ElementOfSeq
    <3> QED BY <3>1 DEF Frames
  <2> QED BY <1>2, <2>2 DEF Taken
<1>6. \A i \in 1..Len(wire'[e]) : wire'[e][i].type \in {"REQUEST_N", "CANCEL"} =>
          Announced(lastPeer'[e], wire'[e], wire'[e][i].stream, i)
  <2> SUFFICES ASSUME NEW i \in 1..Len(wire'[e]), wire'[e][i].type \in {"REQUEST_N", "CANCEL"}
               PROVE  Announced(lastPeer'[e], wire'[e], wire'[e][i].stream, i)
    OBVIOUS
  <2>1. Announced(lastPeer[e], wire[e], wire'[e][i].stream, i + 1)
    BY <1>5 DEF RequestAhead
  <2>2. Announced(lastPeer'[e], wire'[e], wire'[e][i].stream, (i + 1) - 1)
    BY <1>4, <1>5, <2>1
  <2> QED BY <1>5, <2>2
<1>7. \A s \in requested'[p] : Announced(lastPeer'[e], wire'[e], s, Len(wire'[e]) + 1)
  <2> SUFFICES ASSUME NEW s \in requested'[p]
               PROVE  Announced(lastPeer'[e], wire'[e], s, Len(wire'[e]) + 1)
    OBVIOUS
  <2>1. s \in requested[p] /\ s \in Nat
    BY <1>1, <1>2 DEF Received, IInv, TypeOK
  <2>2. Announced(lastPeer'[e], wire'[e], s, (Len(wire[e]) + 1) - 1)
    BY <1>4, <1>5, <2>1 DEF RequestAhead
  <2> QED BY <1>5, <2>2
<1>8. RequestAhead(e)'
  BY <1>6, <1>7 DEF RequestAhead
<1> QED BY <1>3, <1>8

-----------------------------------------------------------------------------
(* What becomes of requests.                                               *)

(* Where a request on its way to e is.                                     *)
LEMMA ReachingIs ==
    ASSUME NEW e, NEW s
    PROVE  Reaching(e, s) <=>
             \/ \E i \in 1..Len(wire[e]) : IsRequest(wire[e][i]) /\ wire[e][i].stream = s
             \/ \E i \in 1..Len(accepted[e]) : accepted[e][i] = s
BY DEF Reaching, IsRequest

(* A step that sends nothing leaves the requests alone.                    *)
LEMMA SilentKeepsServed ==
    ASSUME NEW e \in Ends, Silent(e), Served(e), Served(Peer(e))
    PROVE  Served(e)' /\ Served(Peer(e))'
<1>1. Peer(e) \in Ends /\ Peer(Peer(e)) = e
  BY TwoEnds
<1>2. /\ UNCHANGED <<wire, lastPeer, accepted, dropped>>
      /\ requested'[Peer(e)] = requested[Peer(e)] /\ requested'[e] \subseteq requested[e]
  BY DEF Silent, Acts
<1> QED BY <1>1, <1>2 DEF Served, Reaching

(* A request that is sent is on its way.                                   *)
LEMMA SendingKeepsServed ==
    ASSUME NEW e \in Ends, NEW f, Sends(e, f), Served(e), Served(Peer(e))
    PROVE  Served(e)' /\ Served(Peer(e))'
<1> DEFINE p == Peer(e)
<1>1. p \in Ends /\ Peer(p) = e
  BY TwoEnds
<1>2. /\ UNCHANGED <<lastPeer, accepted, dropped>> /\ wire'[e] = wire[e]
      /\ requested'[p] = requested[p]
      /\ \A s \in requested'[e] : s \in requested[e] \/ (IsRequest(f) /\ s = f.stream)
  BY DEF Sends, Sent, Acts
<1>3. /\ Len(wire[p]) \in Nat /\ Len(wire'[p]) = Len(wire[p]) + 1
      /\ \A i \in 1..Len(wire[p]) : wire'[p][i] = wire[p][i]
      /\ wire'[p][Len(wire[p]) + 1] = f
  BY DEF Sends, Sent
<1>4. Served(e)'
  BY <1>1, <1>2 DEF Served, Reaching
<1>5. ASSUME NEW s, Reaching(p, s) PROVE Reaching(p, s)'
  <2>1. CASE \E i \in 1..Len(wire[p]) : IsRequest(wire[p][i]) /\ wire[p][i].stream = s
    <3>1. PICK i \in 1..Len(wire[p]) : IsRequest(wire[p][i]) /\ wire[p][i].stream = s
      BY <2>1
    <3>2. i \in 1..Len(wire'[p]) /\ IsRequest(wire'[p][i]) /\ wire'[p][i].stream = s
      BY <1>3, <3>1
    <3> QED BY <3>2 DEF Reaching, IsRequest
  <2>2. CASE \E i \in 1..Len(accepted[p]) : accepted[p][i] = s
    BY <1>2, <2>2 DEF Reaching
  <2> QED BY <1>5, <2>1, <2>2, ReachingIs
<1>6. IsRequest(f) => Reaching(p, f.stream)'
  <2>1. Len(wire[p]) + 1 \in 1..Len(wire'[p])
    BY <1>3
  <2> QED BY <1>3, <2>1 DEF Reaching, IsRequest
<1>7. \A s \in requested'[e] : Reaching(p, s)' \/ s \in dropped'[p]
  BY <1>1, <1>2, <1>5, <1>6 DEF Served
<1>8. Served(p)'
  BY <1>1, <1>2, <1>7 DEF Served
<1> QED BY <1>4, <1>8

(* What becomes of a request that arrives.                                 *)
Taking(e, f) ==
    /\ \A i \in 1..Len(accepted[e]) :
          i \in 1..Len(accepted'[e]) /\ accepted'[e][i] = accepted[e][i]
    /\ \/ dropped'[e] = dropped[e]
       \/ IsRequest(f) /\ dropped'[e] = dropped[e] \cup {f.stream}
             /\ RegistersIds /\ f.stream <= lastPeer[e]
    /\ IsRequest(f) => \/ f.stream \in dropped'[e]
                       \/ \E i \in 1..Len(accepted'[e]) : accepted'[e][i] = f.stream
    /\ \/ lastPeer'[e] = lastPeer[e]
       \/ ~RegistersIds
       \/ \E i \in 1..Len(accepted'[e]) : accepted'[e][i] = lastPeer'[e]

(* A request is accepted, or its id is not above those registered.         *)
LEMMA ReceiveIsTaking ==
    ASSUME IInv, NEW e \in Ends, Receive(e), RegistersIds => RequestAhead(e)
    PROVE  Taking(e, wire[e][1]) /\ accepted'[Peer(e)] = accepted[Peer(e)] /\ dropped'[Peer(e)] = dropped[Peer(e)]
<1> DEFINE f == wire[e][1]
           p == Peer(e)
<1>1. p \in Ends /\ p # e /\ Head(wire[e]) = f /\ f \in Frames /\ f.stream \in Nat /\ lastPeer[e] \in Nat
  BY TwoEnds, ReceiveTakes DEF IInv, TypeOK, Taken, Frames
<1>2. IsRequest(f) => ~Known(e, f.stream) /\ f.stream % 2 # next[e] % 2
  BY RequestFindsNone
<1>3. accepted[e] \in Seq(Nat) /\ accepted \in [Ends -> Seq(Nat)] /\ dropped \in [Ends -> SUBSET Nat]
  BY DEF IInv, TypeOK
<1> HIDE DEF f
<1>4. CASE Known(e, f.stream)
  <2>1. ~IsRequest(f) /\ HandleStreamFrame(e, f)
    BY <1>1, <1>2, <1>4 DEF Receive
  <2>2. UNCHANGED <<lastPeer, accepted, dropped>>
    BY <2>1 DEF HandleStreamFrame
  <2> QED BY <2>1, <2>2 DEF Taking, f
<1>5. CASE ~Known(e, f.stream) /\ (RegistersIds => IsNewPeerStreamId(e, f.stream))
  <2>1. HandleNewStream(e, f)
    BY <1>1, <1>5 DEF Receive
  <2>2. dropped' = dropped
    BY <2>1 DEF HandleNewStream
  <2>3. CASE IsRequest(f)
    <3>1. accepted' = [accepted EXCEPT ![e] = Append(@, f.stream)]
      BY <2>1, <2>3 DEF HandleNewStream, IsRequest
    <3>2. accepted'[e] = Append(accepted[e], f.stream) /\ accepted'[p] = accepted[p]
      BY <1>1, <1>3, <3>1
    <3>3. /\ Len(accepted[e]) \in Nat /\ Len(accepted'[e]) = Len(accepted[e]) + 1
          /\ \A i \in 1..Len(accepted[e]) : accepted'[e][i] = accepted[e][i]
          /\ accepted'[e][Len(accepted[e]) + 1] = f.stream
      BY <1>1, <1>3, <3>2, AppendProperties, LenProperties
    <3>4. \A i \in 1..Len(accepted[e]) : i \in 1..Len(accepted'[e])
      BY <3>3
    <3>5. \E i \in 1..Len(accepted'[e]) : accepted'[e][i] = f.stream
      <4>1. Len(accepted[e]) + 1 \in 1..Len(accepted'[e])
        BY <3>3
      <4> QED BY <3>3, <4>1
    <3>6. lastPeer'[e] = lastPeer[e] \/ lastPeer'[e] = f.stream
      BY <2>1 DEF HandleNewStream, IInv, TypeOK
    <3> QED BY <2>2, <3>2, <3>3, <3>4, <3>5, <3>6 DEF Taking, f
  <2>4. CASE ~IsRequest(f)
    <3>1. accepted' = accepted
      BY <2>1, <2>4 DEF HandleNewStream, IsRequest
    <3>2. RegistersIds => lastPeer'[e] = lastPeer[e]
      BY <2>4, ReceiveRegisters DEF f
    <3> QED BY <2>2, <2>4, <3>1, <3>2 DEF Taking, f
  <2> QED BY <2>3, <2>4
<1>6. CASE ~Known(e, f.stream) /\ RegistersIds /\ ~IsNewPeerStreamId(e, f.stream)
  <2>1. DropFrame(e, f)
    BY <1>1, <1>6 DEF Receive
  <2>2. IsRequest(f) => f.stream <= lastPeer[e]
    BY <1>1, <1>2, <1>6 DEF IsNewPeerStreamId
  <2>3. UNCHANGED <<lastPeer, accepted>>
    BY <2>1 DEF DropFrame
  <2>4. CASE IsRequest(f)
    <3>1. dropped' = [dropped EXCEPT ![e] = @ \cup {f.stream}]
      BY <2>1, <2>4 DEF DropFrame, IsRequest
    <3>2. dropped'[e] = dropped[e] \cup {f.stream} /\ dropped'[p] = dropped[p]
      BY <1>1, <1>3, <3>1
    <3> QED BY <1>6, <2>2, <2>3, <2>4, <3>2 DEF Taking, f
  <2>5. CASE ~IsRequest(f)
    <3>1. dropped' = dropped
      BY <2>1, <2>5 DEF DropFrame, IsRequest
    <3> QED BY <2>3, <2>5, <3>1 DEF Taking, f
  <2> QED BY <2>4, <2>5
<1> QED BY <1>4, <1>5, <1>6

(* A request that is turned away was overtaken by the one registered last. *)
LEMMA ReceiveKeepsServed ==
    ASSUME IInv, NEW e \in Ends, Receive(e), RegistersIds => RequestAhead(e),
           Served(e), Served(Peer(e))
    PROVE  Served(e)' /\ Served(Peer(e))'
<1> DEFINE p == Peer(e)
           f == wire[e][1]
<1>1. p \in Ends /\ p # e /\ Peer(p) = e
  BY TwoEnds
<1>2. Taken(e) /\ Received(e, f) /\ Taking(e, f)
  BY ReceiveTakes, ReceiveChanges, ReceiveIsTaking DEF IInv
<1>3. Served(p)'
  <2>1. /\ wire'[p] = wire[p] /\ lastPeer'[p] = lastPeer[p] /\ requested'[e] \subseteq requested[e]
        /\ accepted'[p] = accepted[p] /\ dropped'[p] = dropped[p]
    BY <1>2, ReceiveIsTaking DEF Received, Taken
  <2> QED BY <1>1, <2>1 DEF Served, Reaching
<1>4. /\ f.stream \in Nat /\ lastPeer[e] \in Nat /\ 1 \in 1..Len(wire[e])
      /\ \A i \in 1..Len(accepted[e]) : accepted[e][i] \in Nat
  <2>1. f.stream \in Nat /\ 1 \in 1..Len(wire[e])
    BY <1>2 DEF Taken, Frames
  <2>2. accepted[e] \in Seq(Nat) /\ lastPeer[e] \in Nat
    BY DEF IInv, TypeOK
  <2> QED BY <2>1, <2>2, ElementOfSeq
<1>5. RegistersIds /\ lastPeer'[e] # 0 =>
         \E i \in 1..Len(accepted'[e]) : accepted'[e][i] = lastPeer'[e]
  BY <1>2 DEF Taking, Served
<1>6. \A s \in dropped'[e] : \E i \in 1..Len(accepted'[e]) : accepted'[e][i] > s
  <2>1. \A s \in dropped[e] : \E i \in 1..Len(accepted'[e]) : accepted'[e][i] > s
    BY <1>2 DEF Taking, Served
  <2>2. ASSUME IsRequest(f), RegistersIds, f.stream <= lastPeer[e]
        PROVE  \E i \in 1..Len(accepted'[e]) : accepted'[e][i] > f.stream
    <3>1. \A k \in 1..Len(accepted[e]) : accepted[e][k] # f.stream
      BY <1>4, <2>2 DEF IInv, RequestedOnce
    <3>2. f.stream # 0
      BY <1>4, <2>2 DEF IInv, IdsApart, IsRequest, Used, Given
    <3>3. PICK k \in 1..Len(accepted[e]) : accepted[e][k] = lastPeer[e]
      BY <1>4, <2>2, <3>2 DEF Served
    <3>4. accepted[e][k] > f.stream
      BY <1>4, <2>2, <3>1, <3>3
    <3> QED BY <1>2, <3>4 DEF Taking
  <2> QED BY <1>2, <2>1, <2>2 DEF Taking
<1>7. \A s \in requested'[p] : Reaching(e, s)' \/ s \in dropped'[e]
  <2> SUFFICES ASSUME NEW s \in requested[p]
               PROVE  Reaching(e, s)' \/ s \in dropped'[e]
    BY <1>1, <1>2 DEF Received
  <2>1. CASE \E i \in 1..Len(wire[e]) : IsRequest(wire[e][i]) /\ wire[e][i].stream = s
    <3>1. PICK i \in 1..Len(wire[e]) : IsRequest(wire[e][i]) /\ wire[e][i].stream = s
      BY <2>1
    <3>2. CASE i = 1
      BY <1>2, <3>1, <3>2 DEF Taking, Reaching
    <3>3. CASE i # 1
      <4>1. i - 1 \in 1..Len(wire'[e]) /\ wire'[e][i - 1] = wire[e][(i - 1) + 1] /\ (i - 1) + 1 = i
        BY <1>2, <3>3 DEF Taken
      <4>2. wire'[e][i - 1] = wire[e][i]
        BY <4>1
      <4> QED BY <3>1, <4>1, <4>2 DEF Reaching, IsRequest
    <3> QED BY <3>2, <3>3
  <2>2. CASE \E i \in 1..Len(accepted[e]) : accepted[e][i] = s
    BY <1>2, <2>2 DEF Taking, Reaching
  <2>3. CASE s \in dropped[e]
    BY <1>2, <2>3 DEF Taking
  <2>4. Reaching(e, s) \/ s \in dropped[e]
    BY DEF Served
  <2> QED BY <2>1, <2>2, <2>3, <2>4, ReachingIs
<1>8. Served(e)'
  BY <1>1, <1>5, <1>6, <1>7 DEF Served
<1> QED BY <1>3, <1>8

-----------------------------------------------------------------------------
(* The initial state and every step.                                       *)

(* Every step is one of an application, or takes a frame.                  *)
LEMMA StepKinds ==
    ASSUME IInv, Next
    PROVE  \E e \in Ends :
              \/ TypeOK' /\ Silent(e)
              \/ TypeOK' /\ \E f \in Frames : Sends(e, f)
              \/ Receive(e)
<1>1. PICK e \in Ends :
         \/ CreateRequester(e) \/ FireAndForget(e) \/ Receive(e)
         \/ \E s \in 1..MaxStreamId : \/ FirstRequest(e, s) \/ CancelNew(e, s)
                                      \/ MoreRequests(e, s) \/ CancelRequested(e, s) \/ Complete(e, s)
  BY DEF Next
<1>2. CASE CreateRequester(e)
  BY <1>2, CreateRequesterActs
<1>3. CASE FireAndForget(e)
  BY <1>3, FireAndForgetActs DEF Sends, MaySend
<1>4. CASE Receive(e)
  BY <1>4
<1>5. ASSUME NEW s \in 1..MaxStreamId, FirstRequest(e, s)
      PROVE  TypeOK' /\ \E f \in Frames : Sends(e, f)
  BY <1>5, StreamIdAssumption, FirstRequestActs DEF Sends, MaySend
<1>6. ASSUME NEW s \in 1..MaxStreamId, CancelNew(e, s)
      PROVE  TypeOK' /\ Silent(e)
  BY <1>6, StreamIdAssumption, CancelNewActs
<1>7. ASSUME NEW s \in 1..MaxStreamId,
             MoreRequests(e, s) \/ CancelRequested(e, s) \/ Complete(e, s)
      PROVE  TypeOK' /\ \E f \in Frames : Sends(e, f)
  BY <1>7, StreamIdAssumption, OtherFramesActs
<1> QED BY <1>1, <1>2, <1>3, <1>4, <1>5, <1>6, <1>7

(* A new connection satisfies the invariant.                               *)
LEMMA InitEstablishes == Init => FullInv
<1> SUFFICES ASSUME Init PROVE FullInv
  OBVIOUS
<1>1. TypeOK
  BY EmptySeq DEF Init, TypeOK
<1>2. \A e \in Ends : Len(wire[e]) = 0 /\ Len(accepted[e]) = 0
  BY DEF Init
<1>3. \A e \in Ends : IdsApart(e)
  BY <1>2 DEF Init, IdsApart, Parity, Peer, Ends
<1>4. \A e \in Ends : RequestedOnce(e)
  BY <1>2 DEF RequestedOnce
<1>5. \A e \in Ends : RequestAhead(e) /\ Served(e)
  BY <1>2, TwoEnds DEF Init, RequestAhead, Served
<1> QED BY <1>1, <1>3, <1>4, <1>5 DEF Init, FullInv, IInv, RegisteredInv

(* Every step of either end keeps the invariant.                           *)
LEMMA NextPreserves == FullInv /\ [Next]_vars => FullInv'
<1> SUFFICES ASSUME FullInv, [Next]_vars PROVE FullInv'
  OBVIOUS
<1>1. CASE UNCHANGED vars
  <2>1. IInv'
    BY <1>1 DEF vars, FullInv, IInv, TypeOK, IdsApart, RequestedOnce, Given, Used
  <2>2. RegistersIds => RegisteredInv'
    BY <1>1 DEF vars, FullInv, RegisteredInv, RequestAhead
  <2>3. \A e \in Ends : Served(e)'
    <3> SUFFICES ASSUME NEW e \in Ends PROVE Served(e)'
      OBVIOUS
    <3>1. Served(e)
      BY DEF FullInv
    <3>2. Served(e)' <=> Served(e)
      BY ONLY <1>1, Zenon DEF vars, Served, Reaching
    <3> QED BY <3>1, <3>2
  <2> QED BY <2>1, <2>2, <2>3 DEF FullInv
<1>2. CASE Next
  <2>1. PICK e \in Ends :
           \/ TypeOK' /\ Silent(e)
           \/ TypeOK' /\ \E f \in Frames : Sends(e, f)
           \/ Receive(e)
    BY <1>2, StepKinds DEF FullInv
  <2> DEFINE p == Peer(e)
  <2>2. p \in Ends /\ Peer(p) = e /\ \A d \in Ends : d = e \/ d = p
    BY TwoEnds
  <2>3. CASE TypeOK' /\ Silent(e)
    <3>1. IInv'
      BY <2>3, SilentKeeps DEF FullInv, Silent
    <3>2. RegistersIds => RegisteredInv'
      <4>1. /\ wire' = wire /\ lastPeer' = lastPeer /\ closed' = closed
            /\ requested'[p] = requested[p] /\ requested'[e] \subseteq requested[e]
        BY <2>3 DEF Silent, Acts
      <4>2. RegistersIds => RequestAhead(e)' /\ RequestAhead(p)'
        BY <2>2, <4>1 DEF FullInv, RegisteredInv, RequestAhead
      <4> QED BY <2>2, <4>1, <4>2 DEF FullInv, RegisteredInv
    <3>3. \A d \in Ends : Served(d)'
      BY <2>2, <2>3, SilentKeepsServed DEF FullInv
    <3> QED BY <3>1, <3>2, <3>3 DEF FullInv
  <2>4. CASE TypeOK' /\ \E f \in Frames : Sends(e, f)
    <3>1. PICK f \in Frames : Sends(e, f)
      BY <2>4
    <3>2. IInv'
      BY <2>4, <3>1, SendingKeeps DEF FullInv, Sends
    <3>3. RegistersIds => RegisteredInv'
      BY <2>2, <3>1, SendingKeepsAhead DEF FullInv, RegisteredInv, Sends, Acts
    <3>4. \A d \in Ends : Served(d)'
      BY <2>2, <3>1, SendingKeepsServed DEF FullInv
    <3> QED BY <3>2, <3>3, <3>4 DEF FullInv
  <2>5. CASE Receive(e)
    <3>1. IInv'
      BY <2>5, ReceiveKeeps DEF FullInv
    <3>2. RegistersIds => RegisteredInv'
      BY <2>2, <2>5, ReceiveKeepsAhead, ReceiveRegisters DEF FullInv, RegisteredInv
    <3>3. \A d \in Ends : Served(d)'
      BY <2>2, <2>5, ReceiveKeepsServed DEF FullInv, RegisteredInv
    <3> QED BY <3>1, <3>2, <3>3 DEF FullInv
  <2> QED BY <2>1, <2>3, <2>4, <2>5
<1> QED BY <1>1, <1>2

(* The invariant holds in every state of every behaviour.                  *)
LEMMA Invariance == Spec => []FullInv
BY InitEstablishes, NextPreserves, PTL DEF Spec

(***************************************************************************)
(* A stream id names one stream for the life of the connection: it has one *)
(* automaton at each end at most, its request reaches a handler at most    *)
(* once, and a late frame revives nothing.  No assumption is needed: not   *)
(* even that ids are registered.                                           *)
(***************************************************************************)
THEOREM IdsNameOneStream == Spec => []NoStreamTwice
<1>1. FullInv => NoStreamTwice
  <2> SUFFICES ASSUME FullInv, NEW e \in Ends
               PROVE  /\ \A i, j \in 1..Len(accepted[e]) :
                            accepted[e][i] = accepted[e][j] => i = j
                      /\ (new[e] \cup requested[e]) \cap responding[e] = {}
                      /\ \A s \in responding[e] : s < next[Peer(e)] /\ s \notin new[Peer(e)]
    BY DEF NoStreamTwice
  <2>1. IdsApart(e) /\ RequestedOnce(e)
    BY DEF FullInv, IInv
  <2>2. Given(e) \cap Given(Peer(e)) = {}
    BY GivenApart
  <2> QED BY <2>1, <2>2 DEF IdsApart, RequestedOnce, Used, Given
<1> QED BY <1>1, Invariance, PTL

(***************************************************************************)
(* With ids registered (protocol versions above 0.0), a frame that crosses *)
(* with the end of its stream is never taken for the start of a stream: no *)
(* frame closes the connection, in whatever order streams are requested.   *)
(***************************************************************************)
THEOREM LateFramesNeverClose == RegistersIds => (Spec => []LateFramesHarmless)
<1> SUFFICES ASSUME RegistersIds PROVE Spec => []LateFramesHarmless
  OBVIOUS
<1>1. FullInv => LateFramesHarmless
  BY DEF FullInv, RegisteredInv, LateFramesHarmless
<1> QED BY <1>1, Invariance, PTL

(***************************************************************************)
(* In whatever order streams are requested, and in every protocol version, *)
(* registerNewPeerStreamId turns away only requests that one with a        *)
(* greater id has overtaken, and a stream that waits has had its request   *)
(* written, accepted or so turned away.                                    *)
(***************************************************************************)
THEOREM RequestsReachHandlers == Spec => []OnlyOvertakenDropped
<1>1. FullInv => OnlyOvertakenDropped
  BY DEF FullInv, Served, OnlyOvertakenDropped
<1> QED BY <1>1, Invariance, PTL

=============================================================================
