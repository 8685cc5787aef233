------------------- MODULE ResumableConnectionCloseProofs -------------------
(***************************************************************************)
(* Proof that the two ends of ResumableConnection are closed only when     *)
(* they have to be.                                                        *)
(*                                                                         *)
(* An end closes the connection when it meets a frame or a position it     *)
(* does not expect.  The invariant says what it meets: Plain, that every   *)
(* KEEPALIVE has the flag the other end looks for; Held, that a RESUME_OK  *)
(* names a position the client still has or, in version 0.x, one that is   *)
(* more than the capacity behind; Fresh, that a RESUME the server          *)
(* has not looked at still says where the client is; Newest, that the      *)
(* server is on no transport newer than the newest it was given.           *)
(***************************************************************************)
EXTENDS ResumableConnectionProofs

-----------------------------------------------------------------------------
(* What is on its way                                                      *)

(***************************************************************************)
(* The frames that may be sent to e: the client asks for an answer to its  *)
(* KEEPALIVE and the server does not.                                      *)
(***************************************************************************)
MeantFor(e) ==
    {f \in FrameSet : /\ f.type = "KEEPALIVE" => f.b = IF e = Server THEN 1 ELSE 0
                      /\ f.type = "ERROR" => f = ErrorFrame}

PlainTask(e, task) ==
    /\ task.transport # 0
    /\ task.frame # << >> => task.frame[1] \in MeantFor(e)

PlainWire == \A t \in Transports : \A e \in Ends : wire[t][e].frames \in Seq(MeantFor(e))

PlainTasks == \A e \in Ends : \A i \in 1..Len(queue[e]) : PlainTask(e, queue[e][i])

PlainPending ==
    \A e \in Ends : ~end[e].closed => end[e].pending \in Seq(MeantFor(Peer(e)))

(***************************************************************************)
(* The client x is going to process w: a RESUME_OK is the first thing it   *)
(* meets while it is resuming, and it can send from the position named     *)
(* unless RESUME did not say what it has and too much was sent since.      *)
(***************************************************************************)
Beyond(x, p) == ~PositionInResume /\ x.cache.position - p > Capacity

HoldsOk(w, x) ==
    x.transport # 0 =>
        \A i \in 1..Len(w) : w[i].type = "RESUME_OK" =>
            /\ x.resuming
            /\ x.cache.resetPosition <= w[i].a \/ Beyond(x, w[i].a)
            /\ w[i].a <= x.cache.position
            /\ \A j \in 1..i - 1 : w[j].type = "END"

Held == HoldsOk(Line(Client), end[Client])

(***************************************************************************)
(* A RESUME the server has not looked at, on a transport that is not older *)
(* than the newest it was given.                                           *)
(***************************************************************************)
Waiting(t) ==
    /\ t >= accepted /\ t # end[Server].transport
    /\ wire[t][Server].frames # << >>
    /\ wire[t][Server].frames[1].type = "RESUME"

(***************************************************************************)
(* The client x is still where it was when it sent f, and nothing is on    *)
(* its way to it that would move it.                                       *)
(***************************************************************************)
FreshBy(f, w, x, y) ==
    /\ AllIn(w, 1, {"END", "ERROR"})
    /\ x.transport # 0 => x.resuming
    /\ f.a = Len(x.delivered) /\ f.b = x.cache.resetPosition
    /\ ~y.closed => f.a <= y.cache.position
    /\ \/ x.cache.resetPosition <= Len(y.delivered)
       \/ x.cache.position - x.cache.resetPosition = Capacity

Fresh ==
    \A t \in Transports : Waiting(t) =>
        FreshBy(wire[t][Server].frames[1], Line(Client), end[Client], end[Server])

Newest == end[Server].transport <= accepted

CInv ==
    /\ PlainWire /\ PlainTasks /\ PlainPending
    /\ Held
    /\ Fresh
    /\ Newest

-----------------------------------------------------------------------------
(* What an end outputs                                                     *)

LEMMA MeantFacts ==
  ASSUME NEW e \in Ends
  PROVE  /\ MeantFor(e) \subseteq FrameSet
         /\ \A f \in FrameSet : f.type \notin {"KEEPALIVE", "ERROR"} => f \in MeantFor(e)
         /\ ErrorFrame \in MeantFor(e)
         /\ \A p \in Nat : KeepaliveFrame(p, e = Server) \in MeantFor(e)
<1>1. ErrorFrame \in MeantFor(e)
  BY FrameFacts DEF MeantFor
<1>2. \A p \in Nat : KeepaliveFrame(p, e = Server) \in MeantFor(e)
  <2> TAKE p \in Nat
  <2>1. KeepaliveFrame(p, e = Server) \in FrameSet /\ KeepaliveFrame(p, e = Server).type = "KEEPALIVE"
    BY FrameFacts
  <2>2. KeepaliveFrame(p, e = Server).b = IF e = Server THEN 1 ELSE 0
    BY DEF KeepaliveFrame, Frame
  <2> QED BY <2>1, <2>2 DEF MeantFor
<1> QED BY <1>1, <1>2 DEF MeantFor

(***************************************************************************)
(* What z has output, and what it holds back, is for p.                    *)
(***************************************************************************)
Sound(p, z) ==
    /\ z.out \in Seq(MeantFor(p))
    /\ ~z.closed => z.pending \in Seq(MeantFor(p))

(* The positions of x are those of z.                                      *)
Frozen(x, z) ==
    /\ z.cache.position = x.cache.position
    /\ z.cache.resetPosition = x.cache.resetPosition
    /\ z.delivered = x.delivered

LEMMA OutputSound ==
  ASSUME NEW p \in Ends, NEW x \in EndSet, Cached(x.cache), NEW f \in MeantFor(p),
         x.out \in Seq(MeantFor(p)), x.pending \in Seq(MeantFor(p)),
         NEW z, z = OutputFrameOrEnqueue(x, f)
  PROVE  /\ z.out \in Seq(MeantFor(p)) /\ z.pending \in Seq(MeantFor(p))
         /\ x.transport = 0 \/ x.resuming => z.cache = x.cache
<1>1. f \in FrameSet
  BY MeantFacts
<1>2. PICK v, w : v = x.out /\ w = x.pending
  OBVIOUS
<1>3. v \in Seq(MeantFor(p)) /\ w \in Seq(MeantFor(p))
  BY <1>2
<1>4. Append(v, f) \in Seq(MeantFor(p)) /\ Append(w, f) \in Seq(MeantFor(p))
  BY <1>3, AppendProperties
<1>5. IF x.transport # 0 /\ ~x.resuming
      THEN /\ z.cache = TrackSentFrame(x.cache, f)
           /\ z.out = Append(x.out, f) /\ z.pending = x.pending
      ELSE /\ z.cache = x.cache
           /\ z.out = x.out /\ z.pending = Append(x.pending, f)
  BY <1>1, OutputFields
<1>6. CASE x.transport # 0 /\ ~x.resuming
  BY <1>2, <1>3, <1>4, <1>5, <1>6
<1>7. CASE ~(x.transport # 0 /\ ~x.resuming)
  BY <1>2, <1>3, <1>4, <1>5, <1>7
<1> QED BY <1>6, <1>7

LEMMA WriteSound ==
  ASSUME NEW p \in Ends, NEW x \in EndSet, Local(x), ~x.closed, x.out = << >>, Sound(p, x),
         NEW z, z = Write(x)
  PROVE  Sound(p, z) /\ (x.transport = 0 \/ x.resuming => Frozen(x, z))
<1>1. PICK k \in Nat : k = x.written + 1
  BY EndFacts
<1>2. PICK y : y = [x EXCEPT !.written = k]
  OBVIOUS
<1>3. z = OutputFrameOrEnqueue(y, StreamFrame(k))
  BY <1>1, <1>2, Zenon DEF Write
<1>4. /\ y \in EndSet
      /\ y.transport = x.transport /\ y.closed = x.closed /\ y.resuming = x.resuming
      /\ y.cache = x.cache /\ y.out = x.out /\ y.pending = x.pending
      /\ y.delivered = x.delivered
  BY <1>2 DEF EndSet
<1>5. Cached(y.cache)
  BY <1>4, LocalOpen
<1>6. StreamFrame(k) \in MeantFor(p) /\ StreamFrame(k) \in FrameSet
  BY FrameFacts, MeantFacts
<1>7. z.delivered = y.delivered
  BY <1>3, <1>4, <1>5, <1>6, OutputFields
<1>8. y.out \in Seq(MeantFor(p)) /\ y.pending \in Seq(MeantFor(p))
  BY <1>4 DEF Sound
<1>9. /\ z.out \in Seq(MeantFor(p)) /\ z.pending \in Seq(MeantFor(p))
      /\ y.transport = 0 \/ y.resuming => z.cache = y.cache
  BY <1>3, <1>4, <1>5, <1>6, <1>8, OutputSound
<1> QED BY <1>4, <1>7, <1>9 DEF Sound, Frozen

LEMMA DisconnectSound ==
  ASSUME NEW p \in Ends, NEW x \in EndSet, Sound(p, x), NEW z, z = Disconnect(x)
  PROVE  Sound(p, z) /\ Frozen(x, z) /\ z.out = x.out /\ z.pending = x.pending
<1>1. CASE x.transport = 0
  <2>1. z = x
    BY <1>1, Zenon DEF Disconnect, CloseFrameTransport
  <2> QED BY <2>1 DEF Frozen
<1>2. CASE x.transport # 0
  <2>1. z = [x EXCEPT !.transport = 0, !.resuming = FALSE, !.awaiting = FALSE]
    BY <1>2, Zenon DEF Disconnect, CloseFrameTransport
  <2>2. /\ z.cache = x.cache /\ z.pending = x.pending /\ z.out = x.out
        /\ z.delivered = x.delivered /\ z.closed = x.closed
    BY <2>1, LeaveRecord
  <2> QED BY <2>2 DEF Sound, Frozen
<1> QED BY <1>1, <1>2

LEMMA CloseSound ==
  ASSUME NEW p \in Ends, NEW x \in EndSet, x.out \in Seq(MeantFor(p)), ~x.closed,
         NEW z, z = Close(x)
  PROVE  Sound(p, z) /\ Frozen(x, z) /\ z.closed
<1>1. PICK y : y = [x EXCEPT !.closed = TRUE, !.resuming = FALSE]
  OBVIOUS
<1>2. z = CloseFrameTransport(y)
  BY <1>1, Zenon DEF Close
<1>3. /\ y \in EndSet /\ y.transport = x.transport /\ y.closed = TRUE
      /\ y.out = x.out /\ y.cache = x.cache /\ y.delivered = x.delivered
  BY <1>1 DEF EndSet
<1>4. z.closed = TRUE /\ z.out = x.out /\ z.cache = x.cache /\ z.delivered = x.delivered
  <2>1. CASE y.transport = 0
    BY <1>2, <1>3, <2>1, Zenon DEF CloseFrameTransport
  <2>2. CASE y.transport # 0
    <3>1. z = [y EXCEPT !.transport = 0, !.resuming = FALSE, !.awaiting = FALSE]
      BY <1>2, <2>2, Zenon DEF CloseFrameTransport
    <3>2. y \in EndSet
      BY <1>3
    <3>3. z.closed = y.closed /\ z.out = y.out /\ z.cache = y.cache /\ z.delivered = y.delivered
      BY ONLY <3>1, <3>2, LeaveRecord
    <3> QED BY <1>3, <3>3
  <2> QED BY <2>1, <2>2
<1> QED BY <1>4 DEF Sound, Frozen

LEMMA CloseWithErrorSound ==
  ASSUME NEW p \in Ends, NEW x \in EndSet, Cached(x.cache), Sound(p, x), ~x.closed,
         NEW z, z = CloseWithError(x)
  PROVE  Sound(p, z) /\ z.closed
<1>1. PICK v : v = OutputFrameOrEnqueue(x, ErrorFrame)
  OBVIOUS
<1>2. ErrorFrame \in FrameSet /\ ErrorFrame \in MeantFor(p)
  BY FrameFacts, MeantFacts
<1>3. v \in EndSet /\ v.closed = x.closed
  BY <1>1, <1>2, OutputFields
<1>4. v.out \in Seq(MeantFor(p))
  BY <1>1, <1>2, OutputSound DEF Sound
<1>5. z = Close(v)
  BY <1>1, Zenon DEF CloseWithError
<1> QED BY <1>3, <1>4, <1>5, CloseSound

(***************************************************************************)
(* The frames replayed and the pending ones.                               *)
(***************************************************************************)
LEMMA SendPendingSound ==
  ASSUME NEW p \in Ends, NEW x \in EndSet, Local(x), ~x.closed, x.transport # 0, ~x.resuming,
         Sound(p, x), NEW z, z = SendPending(x)
  PROVE  Sound(p, z) /\ z.delivered = x.delivered
<1>1. PICK c \in CacheSet : z = Sent(x, c, x.out \o x.pending)
  BY SendPendingFacts
<1>2. PICK v, w : v = x.out /\ w = x.pending
  OBVIOUS
<1>3. v \in Seq(MeantFor(p)) /\ w \in Seq(MeantFor(p))
  BY <1>2 DEF Sound
<1>4. v \o w \in Seq(MeantFor(p))
  BY <1>3, ConcatFacts
<1>5. PICK u \in Seq(FrameSet) : u = v \o w
  BY <1>2, EndFacts, ConcatFacts
<1>6. z = Sent(x, c, u)
  BY <1>1, <1>2, <1>5, Zenon
<1>7. z.pending = << >> /\ z.out = u /\ z.delivered = x.delivered
  <2>1. x \in EndSet /\ c \in CacheSet /\ u \in Seq(FrameSet)
    BY <1>1, <1>5
  <2> QED BY ONLY <1>6, <2>1, SentFacts
<1>8. << >> \in Seq(MeantFor(p))
  OBVIOUS
<1> QED BY <1>4, <1>5, <1>8, <1>7 DEF Sound

LEMMA ReplaySound ==
  ASSUME Orderly, NEW p \in Ends, NEW x \in EndSet, Local(x), ~x.closed, x.transport # 0,
         ~x.resuming, Sound(p, x), NEW q \in Nat, IsPositionAvailable(x.cache, q),
         NEW writes, NEW z, z = ResumeFromPosition(x, q, writes)
  PROVE  Sound(p, z) /\ z.delivered = x.delivered
<1>1. PICK v : v = Replay(x.cache, q)
  OBVIOUS
<1>2. PICK y : y = [x EXCEPT !.out = x.out \o v]
  OBVIOUS
<1>3. z = SendPending(y)
  <2>1. "streamsResumed" \in {"connected", "streamsResumed"}
    OBVIOUS
  <2>2. Callback(x, "streamsResumed", writes) = x
    BY <2>1, CallbackIdle
  <2> QED BY <1>1, <1>2, <2>2, Zenon DEF ResumeFromPosition, Replay
<1>4. v \in Seq(FrameSet) /\ \A i \in 1..Len(v) : v[i].type = "PAYLOAD"
  <2>1. x.cache \in CacheSet /\ Cached(x.cache)
    BY EndFacts, LocalOpen
  <2> QED BY <1>1, <2>1, ReplayFacts
<1>5. v \in Seq(MeantFor(p))
  <2>1. \A i \in 1..Len(v) : v[i] \in MeantFor(p)
    BY <1>4, MeantFacts
  <2> QED BY <1>4, <2>1
<1>6. PICK a : a = x.out
  OBVIOUS
<1>7. a \in Seq(MeantFor(p)) /\ a \in Seq(FrameSet)
  BY <1>6, EndFacts DEF Sound
<1>8. PICK u \in Seq(FrameSet) : u = a \o v
  BY <1>4, <1>7, ConcatFacts
<1>9. u \in Seq(MeantFor(p))
  BY <1>5, <1>7, <1>8, ConcatFacts
<1>10. y = [x EXCEPT !.out = u]
  BY <1>2, <1>6, <1>8, Zenon
<1>11. /\ y \in EndSet
       /\ y.transport = x.transport /\ y.closed = x.closed /\ y.resuming = x.resuming
       /\ y.awaiting = x.awaiting /\ y.written = x.written /\ y.delivered = x.delivered
       /\ y.cache = x.cache /\ y.out = u /\ y.pending = x.pending
  BY <1>10 DEF EndSet
<1>12. Local(y)
  BY <1>11 DEF Local
<1>13. Sound(p, y)
  BY <1>9, <1>11 DEF Sound
<1> QED BY <1>3, <1>11, <1>12, <1>13, SendPendingSound

(***************************************************************************)
(* processFrameImpl: which frames close an end, and what it outputs.       *)
(***************************************************************************)
LEMMA ResumeOkSound ==
  ASSUME Orderly, NEW e, NEW p \in Ends, NEW x \in EndSet, Local(x), Shape(e, x), ~x.closed,
         x.out = << >>, x.resuming, Sound(p, x), NEW q \in Nat,
         IsPositionAvailable(x.cache, q), NEW writes, NEW z,
         z = ResumeFromPosition([Callback(x, "resumeOk", writes) EXCEPT !.resuming = FALSE],
                                q, writes)
  PROVE  Sound(p, z)
<1>1. PICK u : u = Callback(x, "resumeOk", writes)
  OBVIOUS
<1>2. PICK n \in Nat : n = x.cache.position
  BY EndFacts
<1>3. Retains(x.cache, n)
  <2>1. PICK c \in CacheSet : c = x.cache
    BY EndFacts
  <2>2. PICK k \in Nat : k = Len(c.frames)
    BY DEF CacheSet
  <2>3. n - k <= n
    OBVIOUS
  <2> QED BY <1>2, <2>1, <2>2, <2>3 DEF Retains
<1>4. /\ u \in EndSet /\ Local(u) /\ u.transport = x.transport /\ ~u.closed
      /\ u.cache = x.cache /\ Sound(p, u)
  <2>1. CASE u = x
    BY <2>1
  <2>2. CASE u = Write(x)
    <3>1. Stays(e, x, u, n) /\ u.cache = x.cache
      BY <1>3, <2>2, WriteStays
    <3>2. Sound(p, u)
      BY <2>2, WriteSound
    <3> QED BY <3>1, <3>2 DEF Stays
  <2> QED BY <1>1, <2>1, <2>2 DEF Callback
<1>5. PICK b \in BOOLEAN : b = FALSE
  OBVIOUS
<1>6. PICK v : v = [u EXCEPT !.resuming = b]
  OBVIOUS
<1>7. /\ v \in EndSet
      /\ v.transport = u.transport /\ v.closed = u.closed /\ v.resuming = b
      /\ v.awaiting = u.awaiting /\ v.written = u.written /\ v.delivered = u.delivered
      /\ v.cache = u.cache /\ v.out = u.out /\ v.pending = u.pending
  BY <1>4, <1>6 DEF EndSet
<1>8. Local(v) /\ Sound(p, v)
  BY <1>4, <1>7 DEF Local, Sound
<1>9. ~v.closed /\ v.transport # 0 /\ ~v.resuming /\ IsPositionAvailable(v.cache, q)
  BY <1>4, <1>5, <1>7 DEF Shape
<1>10. z = ResumeFromPosition(v, q, writes)
  BY <1>1, <1>5, <1>6, Zenon
<1> QED BY <1>7, <1>8, <1>9, <1>10, ReplaySound

Expected(x, f) ==
    f.type = "RESUME_OK" /\ x.transport # 0 =>
        x.resuming /\ (IsPositionAvailable(x.cache, f.a) \/ Beyond(x, f.a))

(* What makes x close when it meets f.                                     *)
Closing(x, f) ==
    \/ f = ErrorFrame
    \/ x.transport = 0
    \/ f.type = "RESUME_OK" /\ x.resuming /\ Beyond(x, f.a)

LEMMA KeepaliveSound ==
  ASSUME NEW e \in Ends, NEW p, p = Peer(e), NEW x \in EndSet, Local(x), ~x.closed,
         Sound(p, x), x.out = << >>,
         NEW f \in MeantFor(e), f.type = "KEEPALIVE", NEW z, z = HandleKeepalive(e, x, f)
  PROVE  Sound(p, z) /\ ~z.closed
<1>1. p \in Ends /\ (p = Server <=> e # Server)
  BY PeerFacts
<1>2. f \in FrameSet /\ f \in ItemSet /\ f.a \in Nat /\ (f.b = IF e = Server THEN 1 ELSE 0)
  BY ItemFacts, FrameIsItem DEF MeantFor
<1>3. PICK c : c = ResetUpToPosition(x.cache, f.a)
  OBVIOUS
<1>4. PICK k \in CacheSet : k = x.cache
  BY EndFacts
<1>5. Cached(k) /\ Counted(k)
  BY <1>4, LocalOpen
<1>6. c \in CacheSet /\ Cached(c) /\ c.impliedPosition \in Nat
  <2>1. c \in CacheSet /\ Cached(c)
    BY <1>2, <1>3, <1>4, <1>5, AckFacts
  <2> QED BY <2>1 DEF CacheSet
<1>7. PICK y : y = [x EXCEPT !.cache = c]
  OBVIOUS
<1>8. /\ y \in EndSet /\ y.closed = x.closed
      /\ y.cache = c /\ y.out = x.out /\ y.pending = x.pending
  BY <1>6, <1>7 DEF EndSet
<1>9. y.out \in Seq(MeantFor(p)) /\ y.pending \in Seq(MeantFor(p))
  BY <1>8 DEF Sound
<1>10. CASE e = Server
  <2>1. z = OutputFrameOrEnqueue(y, KeepaliveFrame(y.cache.impliedPosition, FALSE))
    BY <1>2, <1>3, <1>7, <1>10, Zenon DEF HandleKeepalive
  <2>2. KeepaliveFrame(y.cache.impliedPosition, FALSE) \in MeantFor(p)
    BY <1>1, <1>6, <1>8, <1>10, MeantFacts
  <2>3. KeepaliveFrame(y.cache.impliedPosition, FALSE) \in FrameSet
    BY <1>1, <2>2, MeantFacts
  <2>4. z.out \in Seq(MeantFor(p)) /\ z.pending \in Seq(MeantFor(p))
    BY <1>1, <1>6, <1>8, <1>9, <2>1, <2>2, OutputSound
  <2>5. z.closed = y.closed
    <3>1. PICK g \in FrameSet : g = KeepaliveFrame(y.cache.impliedPosition, FALSE)
      BY <2>3
    <3>2. z = OutputFrameOrEnqueue(y, g) /\ Cached(y.cache) /\ y \in EndSet
      BY <1>6, <1>8, <2>1, <3>1
    <3>3. g \in FrameSet
      BY <3>1
    <3> QED BY ONLY <3>2, <3>3, OutputFields, Zenon
  <2> QED BY <1>8, <2>4, <2>5 DEF Sound
<1>11. CASE e # Server
  <2>1. z = [y EXCEPT !.awaiting = FALSE]
    BY <1>2, <1>3, <1>7, <1>11 DEF HandleKeepalive
  <2>2. z.closed = y.closed /\ z.out = y.out /\ z.pending = y.pending
    BY <1>8, <2>1 DEF EndSet
  <2> QED BY <1>8, <1>9, <2>2 DEF Sound
<1> QED BY <1>10, <1>11

LEMMA ProcessSound ==
  ASSUME Orderly, NEW e \in Ends, NEW p, p = Peer(e), NEW x \in EndSet, Local(x), Shape(e, x),
         ~x.closed, x.out = << >>, Sound(p, x), NEW n, NEW f, Met(e, x, f, n),
         f \in MeantFor(e), Expected(x, f), NEW writes,
         NEW z, z = ProcessFrame(e, x, f, writes)
  PROVE  /\ Sound(p, z)
         /\ z.closed => Closing(x, f)
         /\ f.type = "ERROR" => Frozen(x, z) /\ z.closed
<1>1. /\ f \in FrameSet /\ f \in ItemSet /\ f.a \in Nat /\ f.stream \in {0, 1} /\ f.len = 1
      /\ f.stream = 1 <=> f.type = "PAYLOAD"
  BY ItemFacts, FrameIsItem DEF Met
<1>2. f.type \in {"PAYLOAD", "KEEPALIVE", "ERROR", "RESUME_OK"}
  BY <1>1 DEF Met, Told, FrameSet
<1>3. PICK y : y = [x EXCEPT !.cache = TrackReceivedFrame(@, f)]
  OBVIOUS
<1> p \in Ends
  BY PeerFacts
<1>4. CASE f.type = "PAYLOAD"
  <2>1. f.stream = 1 /\ f.stream # 0 /\ ~x.resuming
    BY <1>1, <1>4 DEF Met
  <2>2. z = [y EXCEPT !.delivered = Append(@, f.a)]
    BY <1>3, <2>1, Zenon DEF ProcessFrame
  <2>3. z.closed = x.closed /\ z.out = x.out /\ z.pending = x.pending
    BY <1>3, <2>2 DEF EndSet
  <2> QED BY <1>4, <2>3 DEF Sound
<1>5. CASE f.type = "KEEPALIVE" \/ f.type = "RESUME_OK"
  <2>1. ~ShouldTrackFrame(f.type)
    BY <1>5 DEF ShouldTrackFrame, TrackedTypes
  <2>2. y = x
    <3>1. y = [x EXCEPT !.cache = x.cache]
      BY <1>3, <2>1, Zenon DEF TrackReceivedFrame
    <3> QED BY <3>1 DEF EndSet
  <2>3. f.stream = 0
    BY <1>1, <1>5
  <2>4. z = HandleConnectionFrame(e, x, f, writes)
    BY <1>3, <2>2, <2>3, Zenon DEF ProcessFrame
  <2>5. CASE f.type = "KEEPALIVE"
    <3>1. z = HandleKeepalive(e, x, f)
      BY <2>4, <2>5 DEF HandleConnectionFrame
    <3>2. Sound(p, z) /\ ~z.closed
      BY <2>5, <3>1, KeepaliveSound
    <3> QED BY <2>5, <3>2
  <2>6. CASE f.type = "RESUME_OK"
    <3>1. z = HandleResumeOk(x, f, writes)
      BY <2>4, <2>6 DEF HandleConnectionFrame
    <3>2. CASE x.resuming /\ IsPositionAvailable(x.cache, f.a)
      <4>1. z = ResumeFromPosition(
                  [Callback(x, "resumeOk", writes) EXCEPT !.resuming = FALSE], f.a, writes)
        BY <3>1, <3>2, Zenon DEF HandleResumeOk
      <4>2. PICK c \in CacheSet : c = x.cache
        BY EndFacts
      <4>3. PICK l \in Nat : l = c.position
        BY DEF CacheSet
      <4>4. PICK k \in Nat : k = Len(c.frames)
        BY DEF CacheSet
      <4>5. Retains(x.cache, l)
        <5>1. l - k <= l
          OBVIOUS
        <5> QED BY <4>2, <4>3, <4>4, <5>1 DEF Retains
      <4>6. Stays(e, x, z, l)
        BY <1>1, <3>2, <4>1, <4>5, ResumeOkStays
      <4>7. z.closed = x.closed
        BY <4>6 DEF Stays
      <4>8. Sound(p, z)
        BY <1>1, <3>2, <4>1, ResumeOkSound
      <4> QED BY <2>6, <4>7, <4>8
    <3>3. CASE ~(x.resuming /\ IsPositionAvailable(x.cache, f.a))
      <4>1. z = CloseWithError(x)
        BY <3>1, <3>3, Zenon DEF HandleResumeOk
      <4>2. Cached(x.cache)
        BY LocalOpen
      <4>3. Sound(p, z)
        BY <4>1, <4>2, CloseWithErrorSound
      <4>4. Closing(x, f)
        BY <2>6, <3>3 DEF Expected, Closing
      <4> QED BY <2>6, <4>3, <4>4
    <3> QED BY <3>2, <3>3
  <2> QED BY <1>5, <2>5, <2>6
<1>6. CASE f.type = "ERROR"
  <2>1. ShouldTrackFrame(f.type) /\ f.stream = 0
    BY <1>1, <1>6 DEF ShouldTrackFrame, TrackedTypes
  <2>2. PICK q \in Nat : q = x.cache.impliedPosition + f.len
    <3>1. x.cache.impliedPosition \in Nat
      BY EndFacts
    <3> QED BY <1>1, <3>1
  <2>3. PICK c : c = [x.cache EXCEPT !.impliedPosition = q]
    OBVIOUS
  <2>4. /\ c \in CacheSet
        /\ c.position = x.cache.position /\ c.resetPosition = x.cache.resetPosition
    BY <2>3, EndFacts DEF CacheSet
  <2>5. y = [x EXCEPT !.cache = c]
    BY <1>3, <2>1, <2>2, <2>3, Zenon DEF TrackReceivedFrame
  <2>6. /\ y \in EndSet /\ y.closed = x.closed /\ y.cache = c
        /\ y.delivered = x.delivered /\ y.out = x.out
    BY <2>4, <2>5 DEF EndSet
  <2>7. z = HandleConnectionFrame(e, y, f, writes)
    BY <1>3, <2>1, Zenon DEF ProcessFrame
  <2>8. z = Close(y)
    BY <1>6, <2>7 DEF HandleConnectionFrame
  <2>9. Sound(p, z) /\ Frozen(y, z) /\ z.closed
    <3>1. y.out \in Seq(MeantFor(p)) /\ ~y.closed
      BY <2>6 DEF Sound
    <3> QED BY <2>6, <2>8, <3>1, CloseSound
  <2>10. f = ErrorFrame
    BY <1>6 DEF MeantFor
  <2>11. Frozen(x, z)
    BY <2>4, <2>6, <2>9 DEF Frozen
  <2> QED BY <2>9, <2>10, <2>11 DEF Closing
<1> QED BY <1>2, <1>4, <1>5, <1>6

-----------------------------------------------------------------------------
(* What the client is going to meet                                        *)

LEMMA HoldsJoin ==
  ASSUME NEW w \in Seq(ItemSet), NEW b \in Seq(ItemSet), NEW g \in Seq(ItemSet), Cut(b, w),
         \A i \in 1..Len(g) : g[i].type # "RESUME_OK", NEW x, HoldsOk(w, x)
  PROVE  HoldsOk(b \o g, x)
<1>1. SUFFICES ASSUME x.transport # 0, NEW i \in 1..Len(b \o g), (b \o g)[i].type = "RESUME_OK"
               PROVE  /\ x.resuming
                      /\ \/ x.cache.resetPosition <= (b \o g)[i].a
                         \/ Beyond(x, (b \o g)[i].a)
                      /\ (b \o g)[i].a <= x.cache.position
                      /\ \A j \in 1..i - 1 : (b \o g)[j].type = "END"
  BY DEF HoldsOk
<1>2. PICK k \in Nat : k = Len(b)
  OBVIOUS
<1>3. PICK l \in Nat : l = Len(g)
  OBVIOUS
<1>4. PICK v : v = b \o g
  OBVIOUS
<1>5. Len(v) = k + l /\ \A j \in 1..k + l : v[j] = IF j <= k THEN b[j] ELSE g[j - k]
  BY <1>2, <1>3, <1>4, ConcatFacts
<1>6. i \in 1..k + l /\ v[i].type = "RESUME_OK"
  BY <1>1, <1>4, <1>5
<1>7. i \in 1..k
  <2>1. CASE i > k
    <3>1. i - k \in 1..l /\ v[i] = g[i - k]
      BY <1>5, <1>6, <2>1
    <3> QED BY <1>3, <1>6, <3>1
  <2> QED BY <1>6, <2>1
<1>8. \A j \in 1..k : j \in 1..Len(w) /\ v[j] = w[j]
  <2>1. Len(w) \in Nat /\ k <= Len(w) /\ \A j \in 1..k : b[j] = w[j]
    BY <1>2 DEF Cut
  <2> QED BY <1>3, <1>5, <2>1
<1>9. i \in 1..Len(w) /\ w[i].type = "RESUME_OK" /\ v[i] = w[i]
  BY <1>6, <1>7, <1>8
<1>10. /\ x.resuming
       /\ x.cache.resetPosition <= w[i].a \/ Beyond(x, w[i].a)
       /\ w[i].a <= x.cache.position
       /\ \A j \in 1..i - 1 : w[j].type = "END"
  BY <1>1, <1>9 DEF HoldsOk
<1>11. \A j \in 1..i - 1 : v[j].type = "END"
  <2>1. \A j \in 1..i - 1 : j \in 1..k
    BY <1>7
  <2> QED BY <1>8, <1>10, <2>1
<1> QED BY <1>4, <1>9, <1>10, <1>11

LEMMA HoldsTail ==
  ASSUME NEW w \in Seq(ItemSet), w # << >>, w[1].type # "END", NEW x, x.transport # 0,
         HoldsOk(w, x), NEW z
  PROVE  HoldsOk(Tail(w), z)
<1>1. ASSUME NEW i \in 1..Len(Tail(w)), Tail(w)[i].type = "RESUME_OK" PROVE FALSE
  <2>1. PICK k \in Nat : k = Len(w) /\ Len(Tail(w)) = k - 1 /\ Tail(w)[i] = w[i + 1]
    BY <1>1, TailFacts
  <2>2. i + 1 \in 1..k /\ 1 \in 1..(i + 1) - 1
    BY <1>1, <2>1
  <2> QED BY <1>1, <2>1, <2>2 DEF HoldsOk
<1> QED BY <1>1 DEF HoldsOk

LEMMA HoldsFrozen ==
  ASSUME NEW w, NEW x, x.transport # 0, HoldsOk(w, x), NEW z,
         x.resuming => z.resuming /\ Frozen(x, z)
  PROVE  HoldsOk(w, z)
  BY DEF HoldsOk, Frozen, Beyond

LEMMA FreshNext ==
  ASSUME NEW f, NEW w \in Seq(ItemSet), NEW v \in Seq(ItemSet), NEW x, NEW y \in EndSet,
         NEW z, NEW u \in EndSet, FreshBy(f, w, x, y), f \in FrameSet,
         AllIn(v, 1, {"END", "ERROR"}), z.transport # 0 => z.resuming, Frozen(x, z),
         Len(y.delivered) <= Len(u.delivered), x.cache.resetPosition \in Nat,
         ~u.closed => ~y.closed /\ y.cache.position <= u.cache.position
  PROVE  FreshBy(f, v, z, u)
<1>1. PICK a \in Nat : a = f.a
  BY FrameIsItem, ItemFacts
<1>2. PICK r \in Nat : r = x.cache.resetPosition
  OBVIOUS
<1>3. PICK m, n \in Nat : m = y.cache.position /\ n = u.cache.position
  BY EndFacts
<1>4. PICK i, j \in Nat : i = Len(y.delivered) /\ j = Len(u.delivered)
  BY EndFacts
<1>5. ~u.closed => a <= n
  BY <1>1, <1>3 DEF FreshBy
<1>6. r <= j \/ x.cache.position - r = Capacity
  BY <1>2, <1>4 DEF FreshBy
<1> QED BY <1>1, <1>2, <1>3, <1>4, <1>5, <1>6 DEF FreshBy, Frozen

-----------------------------------------------------------------------------
(* What is sent                                                            *)

StreamsPlain(streams) ==
    \A u \in Transports : \A d \in Ends : streams[u][d].frames \in Seq(MeantFor(d))

LEMMA CommitPlain ==
  ASSUME PlainPending, NEW e \in Ends, NEW p, p = Peer(e), NEW z \in EndSet, Sound(p, z),
         NEW t, NEW streams, StreamsPlain(streams), CommitIs(e, p, z, t, streams)
  PROVE  PlainWire' /\ PlainPending'
<1>1. /\ p \in Ends /\ Peer(p) = e /\ \A d \in Ends : d = e \/ d = p
  BY PeerFacts
<1>2. PlainWire'
  <2>1. SUFFICES ASSUME NEW u \in Transports, NEW d \in Ends
                 PROVE  wire'[u][d].frames \in Seq(MeantFor(d))
    BY DEF PlainWire
  <2>2. PICK s : s = streams[u][d].frames
    OBVIOUS
  <2>3. s \in Seq(MeantFor(d))
    BY <2>2 DEF StreamsPlain
  <2>4. CASE d = e
    <3>1. wire'[u][e] = DeadStream \/ wire'[u][e] = streams[u][e]
      BY DEF CommitIs
    <3>2. DeadStream.frames = << >> /\ << >> \in Seq(MeantFor(d))
      BY DEF DeadStream
    <3> QED BY <2>2, <2>3, <2>4, <3>1, <3>2
  <2>5. CASE d = p
    <3>1. PICK o : o = z.out
      OBVIOUS
    <3>2. o \in Seq(MeantFor(d))
      BY <2>5, <3>1 DEF Sound
    <3>3. s \o o \in Seq(MeantFor(d))
      BY <2>3, <3>2, ConcatFacts
    <3>4. wire'[u][p].frames = s \o o \/ wire'[u][p].frames = s
      BY <2>2, <2>5, <3>1 DEF CommitIs
    <3> QED BY <2>3, <2>5, <3>3, <3>4
  <2> QED BY <1>1, <2>4, <2>5
<1>3. PlainPending'
  <2>1. SUFFICES ASSUME NEW d \in Ends, ~end'[d].closed
                 PROVE  end'[d].pending \in Seq(MeantFor(Peer(d)))
    BY DEF PlainPending, Peer
  <2>2. CASE d = e
    <3>1. end'[e] = Settled(z)
      BY DEF CommitIs
    <3>2. end'[e].closed = z.closed /\ end'[e].pending = z.pending
      BY <3>1, SettledFacts
    <3> QED BY <2>1, <2>2, <3>2 DEF Sound
  <2>3. CASE d = p
    <3>1. end'[p] = end[p]
      BY DEF CommitIs
    <3> QED BY <2>1, <2>3, <3>1 DEF PlainPending
  <2> QED BY <1>1, <2>2, <2>3
<1> QED BY <1>2, <1>3

LEMMA ConsumePlain ==
  ASSUME IInv, PlainWire, NEW e \in Ends, NEW t \in Transports, wire[t][e].frames # << >>
  PROVE  /\ Consume(t, e) \in [Transports -> [Ends -> StreamSet]]
         /\ StreamsPlain(Consume(t, e))
<1>1. PICK s : s = Consume(t, e)
  OBVIOUS
<1>2. /\ s \in [Transports -> [Ends -> StreamSet]]
      /\ \A u \in Transports : \A d \in Ends :
            s[u][d].frames =
               IF u = t /\ d = e THEN Tail(wire[u][d].frames) ELSE wire[u][d].frames
  BY <1>1, ConsumeFacts DEF IInv
<1>3. SUFFICES ASSUME NEW u \in Transports, NEW d \in Ends
               PROVE  s[u][d].frames \in Seq(MeantFor(d))
  BY <1>1, <1>2 DEF StreamsPlain
<1>4. PICK w : w = wire[u][d].frames
  OBVIOUS
<1>5. w \in Seq(MeantFor(d))
  BY <1>4 DEF PlainWire
<1>6. w # << >> => Tail(w) \in Seq(MeantFor(d))
  BY <1>5, TailFacts
<1>7. s[u][d].frames = w \/ (w # << >> /\ s[u][d].frames = Tail(w))
  BY <1>2, <1>4
<1> QED BY <1>5, <1>6, <1>7

LEMMA TasksRun ==
  ASSUME IInv, PlainTasks, NEW e \in Ends, queue[e] # << >>,
         queue' = [queue EXCEPT ![e] = Tail(@)]
  PROVE  PlainTasks'
<1>1. SUFFICES ASSUME NEW d \in Ends, NEW i \in 1..Len(queue'[d])
               PROVE  PlainTask(d, queue'[d][i])
  BY DEF PlainTasks, PlainTask, MeantFor
<1>2. queue \in [Ends -> Seq(TaskSet)]
  BY DEF IInv, Types
<1>3. CASE d # e
  <2>1. queue'[d] = queue[d]
    BY <1>2, <1>3
  <2> QED BY <1>1, <2>1 DEF PlainTasks
<1>4. CASE d = e
  <2>1. PICK q \in Seq(TaskSet) : q = queue[d] /\ q # << >>
    BY <1>2, <1>4
  <2>2. queue'[d] = Tail(q)
    BY <1>2, <1>4, <2>1
  <2>3. Len(q) \in Nat /\ Len(Tail(q)) = Len(q) - 1 /\ \A j \in 1..Len(q) - 1 : Tail(q)[j] = q[j + 1]
    BY <2>1, TailFacts
  <2>4. PICK l \in Nat : l = Len(q)
    BY <2>3
  <2>5. i \in 1..l - 1
    BY <1>1, <2>2, <2>3, <2>4
  <2>6. i + 1 \in 1..l /\ Tail(q)[i] = q[i + 1]
    BY <2>3, <2>4, <2>5
  <2> QED BY <2>1, <2>2, <2>4, <2>6 DEF PlainTasks
<1> QED BY <1>3, <1>4

-----------------------------------------------------------------------------
(* Steps of an end that keeps its transport, or leaves it                  *)

(***************************************************************************)
(* e goes from x to z, with w to process: a client that sent a RESUME, and *)
(* for which there is no answer, does not move, nor does one that waits    *)
(* for what it has not taken.                                              *)
(***************************************************************************)
Tame(e, p, x, z, streams, w) ==
    /\ Sound(p, z)
    /\ AllIn(z.out, 1, {"PAYLOAD", "KEEPALIVE", "ERROR"})
    /\ Len(x.delivered) <= Len(z.delivered)
    /\ ~z.closed => ~x.closed /\ x.cache.position <= z.cache.position
    /\ z.transport # 0 =>
          \/ Idle(streams) /\ (x.resuming => z.resuming /\ Frozen(x, z))
          \/ Taken(e, streams) /\ w[1].type # "END"
    /\ AllIn(w, 1, {"END", "ERROR"}) /\ (x.transport # 0 => x.resuming) =>
          Frozen(x, z) /\ (z.transport # 0 => z.resuming)

LEMMA TakenPlain ==
  ASSUME IInv, CInv, NEW e \in Ends, NEW streams, Idle(streams) \/ Taken(e, streams)
  PROVE  StreamsPlain(streams) /\ PlainTasks'
<1>1. StreamsPlain(wire)
  BY DEF CInv, PlainWire, StreamsPlain
<1>2. queue' = queue => PlainTasks'
  BY DEF CInv, PlainTasks, PlainTask, MeantFor
<1>3. CASE Idle(streams)
  BY <1>1, <1>2, <1>3 DEF Idle
<1>4. CASE Taken(e, streams) /\ queue[e] # << >>
  <2>1. streams = wire /\ queue' = [queue EXCEPT ![e] = Tail(@)]
    BY <1>4 DEF Taken
  <2> QED BY <1>1, <1>4, <2>1, TasksRun DEF CInv
<1>5. CASE Taken(e, streams) /\ queue[e] = << >>
  <2>1. /\ end[e].transport # 0 /\ wire[end[e].transport][e].frames # << >>
        /\ streams = Consume(end[e].transport, e) /\ queue' = queue
    BY <1>5 DEF Taken
  <2>2. PICK t \in Transports : t = end[e].transport
    BY <2>1, StateFacts, BoundsAssumption DEF Transports
  <2> QED BY <1>2, <2>1, <2>2, ConsumePlain DEF CInv
<1> QED BY <1>3, <1>4, <1>5

LEMMA StepPlain ==
  ASSUME CInv, NEW e, NEW p, NEW t, NEW streams, NEW f, NEW z, NEW g,
         StepOf(e, p, t, streams, f, z, g), Sound(p, z)
  PROVE  PlainWire' /\ PlainTasks' /\ PlainPending'
<1>1. /\ IInv /\ e \in Ends /\ p = Peer(e) /\ z \in EndSet /\ Commit(e, z, t, streams)
      /\ Idle(streams) \/ Taken(e, streams)
      /\ RestOf(e, p, t, streams, f)
  BY DEF StepOf, RestOf
<1>2. streams \in [Transports -> [Ends -> StreamSet]]
  BY <1>1, RestFacts DEF RestIs
<1>3. CommitIs(e, p, z, t, streams)
  BY <1>1, <1>2, CommitGives DEF IInv
<1>4. StreamsPlain(streams) /\ PlainTasks'
  BY <1>1, TakenPlain
<1>5. PlainPending
  BY DEF CInv
<1> QED BY <1>1, <1>3, <1>4, <1>5, CommitPlain

(***************************************************************************)
(* While there is a RESUME that the server has not looked at, the server   *)
(* is not on the transport of the client.                                  *)
(***************************************************************************)
LEMMA WaitingApart ==
  ASSUME IInv, Newest, NEW u \in Transports, Waiting(u)
  PROVE  end[Client].transport # 0 => end[Client].transport # end[Server].transport
<1>1. Client \in Ends /\ Server \in Ends
  BY DEF Ends
<1>2. /\ end[Client].transport \in 0..lastTransport /\ end[Server].transport \in 0..lastTransport
      /\ lastTransport \in Nat /\ accepted \in Nat /\ u \in Nat
  BY <1>1, StateFacts DEF IInv, Types, Transports
<1>3. end[Client].transport \in {0, lastTransport}
  BY DEF IInv, ClientSide
<1>4. ~(u > lastTransport)
  BY DEF IInv, ClientSide, Waiting
<1>5. /\ u >= accepted /\ u # end[Server].transport /\ end[Server].transport <= accepted
  BY DEF Waiting, Newest
<1> QED BY <1>2, <1>3, <1>4, <1>5

LEMMA ServerTame ==
  ASSUME CInv, NEW t, NEW streams, NEW f, NEW z, NEW g,
         StepOf(Server, Client, t, streams, f, z, g), NEW x, x = end[Server],
         Tame(Server, Client, x, z, streams, Line(Server))
  PROVE  Held' /\ Fresh' /\ Newest'
<1>1. /\ IInv /\ Server \in Ends /\ Client \in Ends /\ z \in EndSet /\ t = x.transport
      /\ z.transport = t \/ z.transport = 0
      /\ accepted' = accepted
      /\ g = IF t # 0 /\ Via(Client) = t /\ ~wire[t][Client].ended THEN z.out ELSE << >>
  BY DEF StepOf, RestOf, Ends
<1>2. StepIs(Server, Client, t, streams, f, z, g)
  BY StepFacts
<1>3. /\ end'[Server] = Settled(z) /\ end'[Client] = end[Client]
      /\ g \in Seq(FrameSet) /\ Line(Client)' = Line(Client) \o g
      /\ \A u \in Transports :
            /\ z.transport # t /\ u = t => wire'[u][Server] = DeadStream
            /\ u # t => wire'[u][Server].frames = wire[u][Server].frames
  BY <1>2 DEF StepIs
<1>4. PICK s \in EndSet : s = end'[Server]
  BY <1>1, <1>3, SettledFacts
<1>5. /\ s.transport = z.transport /\ s.closed = z.closed
      /\ s.cache = z.cache /\ s.delivered = z.delivered
  BY <1>1, <1>3, <1>4, SettledFacts
<1>6. PICK w \in Seq(ItemSet) : w = Line(Client)
  BY <1>1, StateFacts
<1>7. g \in Seq(ItemSet)
  BY <1>3, FrameIsItem
<1>8. Held'
  <2>1. \A i \in 1..Len(g) : g[i].type # "RESUME_OK"
    <3>1. g = << >> \/ g = z.out
      BY <1>1
    <3>2. \A i \in 1..Len(z.out) : i >= 1 => z.out[i].type \in {"PAYLOAD", "KEEPALIVE", "ERROR"}
      BY DEF Tame, AllIn
    <3>3. CASE g = << >>
      BY <3>3
    <3>4. CASE g = z.out
      BY <3>2, <3>4
    <3> QED BY <3>1, <3>3, <3>4
  <2>2. Cut(w, w)
    BY DEF Cut
  <2>3. HoldsOk(w, end[Client])
    BY <1>6 DEF CInv, Held
  <2>4. HoldsOk(w \o g, end[Client])
    BY <1>6, <1>7, <2>1, <2>2, <2>3, HoldsJoin
  <2>5. HoldsOk(Line(Client)', end'[Client])
    BY <1>3, <1>6, <2>4
  <2> QED BY <2>5 DEF Held, HoldsOk
<1>9. Newest'
  <2>1. x.transport <= accepted /\ accepted \in Nat
    BY <1>1 DEF CInv, Newest, IInv, Types
  <2> QED BY <1>1, <1>4, <1>5, <2>1 DEF Newest
<1>10. ASSUME NEW u \in Transports, Waiting(u)'
       PROVE  FreshBy(wire'[u][Server].frames[1], Line(Client)', end'[Client], end'[Server])
  <2>1. /\ u >= accepted /\ u # s.transport
        /\ wire'[u][Server].frames # << >> /\ wire'[u][Server].frames[1].type = "RESUME"
    BY <1>1, <1>4, <1>10 DEF Waiting
  <2>2. u # t
    <3>1. DeadStream.frames = << >>
      BY DEF DeadStream
    <3> QED BY <1>1, <1>3, <1>5, <2>1, <3>1
  <2>3. wire'[u][Server].frames = wire[u][Server].frames
    BY <1>3, <2>2
  <2>4. Waiting(u)
    BY <1>1, <2>1, <2>2, <2>3 DEF Waiting
  <2>5. end[Client].transport # 0 => end[Client].transport # t
    BY <1>1, <2>4, WaitingApart DEF CInv
  <2>6. g = << >>
    <3>1. Via(Client) = end[Client].transport
      BY BoundsAssumption DEF Via
    <3> QED BY <1>1, <2>5, <3>1
  <2>7. Line(Client)' = w
    <3>1. w \o << >> = w
      BY <1>6
    <3> QED BY <1>3, <1>6, <2>6, <3>1
  <2>8. PICK h : h = wire[u][Server].frames[1]
    OBVIOUS
  <2>9. FreshBy(h, w, end[Client], x)
    BY <1>6, <2>4, <2>8 DEF CInv, Fresh
  <2>10. h \in FrameSet
    <3>1. wire[u][Server] \in StreamSet
      BY <1>1, StateFacts
    <3>2. PICK v \in Seq(FrameSet) : v = wire[u][Server].frames
      BY <3>1, StreamFacts
    <3>3. v # << >>
      BY <2>1, <2>3, <3>2
    <3> QED BY <2>8, <3>2, <3>3, TailFacts
  <2>11. PICK c \in EndSet : c = end[Client]
    BY <1>1, StateFacts
  <2>12. c.cache.resetPosition \in Nat
    BY EndFacts DEF CacheSet
  <2>13. AllIn(w, 1, {"END", "ERROR"}) /\ (c.transport # 0 => c.resuming) /\ Frozen(c, c)
    BY <2>9, <2>11 DEF FreshBy, Frozen
  <2>14. /\ Len(x.delivered) <= Len(s.delivered)
         /\ ~s.closed => ~x.closed /\ x.cache.position <= s.cache.position
    BY <1>5 DEF Tame
  <2>15. x \in EndSet
    BY <1>1, StateFacts
  <2>16. FreshBy(h, w, c, s)
    BY <2>9, <2>10, <2>11, <2>12, <2>13, <2>14, <2>15, FreshNext
  <2> QED BY <1>3, <1>4, <2>3, <2>7, <2>8, <2>11, <2>16
<1>11. Fresh'
  BY <1>10 DEF Fresh, FreshBy, Waiting, AllIn
<1> QED BY <1>8, <1>9, <1>11

LEMMA ClientTame ==
  ASSUME CInv, NEW t, NEW streams, NEW f, NEW z, NEW g,
         StepOf(Client, Server, t, streams, f, z, g), NEW x, x = end[Client],
         NEW w, w = Line(Client), Tame(Client, Server, x, z, streams, w)
  PROVE  Held' /\ Fresh' /\ Newest'
<1>1. /\ IInv /\ Server \in Ends /\ Client \in Ends /\ z \in EndSet /\ t = x.transport
      /\ z.transport = t \/ z.transport = 0
      /\ accepted' = accepted
      /\ Idle(streams) \/ Taken(Client, streams)
      /\ RestOf(Client, Server, t, streams, f)
  BY DEF StepOf, RestOf, Ends
<1>2. StepIs(Client, Server, t, streams, f, z, g)
  BY StepFacts
<1>3. /\ end'[Client] = Settled(z) /\ end'[Server] = end[Server]
      /\ z.transport = t => Line(Client)' = Along(queue'[Client], f)
      /\ z.transport # t => Line(Client)' = Along(queue'[Client], << >>)
      /\ \A u \in Transports :
            wire'[u][Server].frames = IF u = t /\ ~wire[u][Server].ended
                                      THEN wire[u][Server].frames \o z.out
                                      ELSE wire[u][Server].frames
  BY <1>2 DEF StepIs
<1>4. PICK s \in EndSet : s = end'[Client]
  BY <1>1, <1>3, SettledFacts
<1>5. /\ s.transport = z.transport /\ s.closed = z.closed /\ s.resuming = z.resuming
      /\ s.cache = z.cache /\ s.delivered = z.delivered
  BY <1>1, <1>3, <1>4, SettledFacts
<1>6. w \in Seq(ItemSet)
  BY <1>1, StateFacts
<1>7. RestIs(Client, Server, t, streams, f)
  BY <1>1, RestFacts
<1>8. PICK q \in Seq(TaskSet) : q = queue'[Client]
  BY <1>1, <1>7 DEF RestIs
<1>9. PICK r : r = Along(q, f)
  OBVIOUS
<1>10. /\ f \in Seq(FrameSet)
       /\ Idle(streams) => r = w
       /\ Taken(Client, streams) => w # << >> /\ r = Tail(w)
  BY <1>7, <1>8, <1>9 DEF RestIs
<1>11. r \in Seq(ItemSet)
  BY <1>9, <1>10, LineSeq
<1>12. PICK v \in Seq(ItemSet) : v = Line(Client)' /\ Cut(v, r) /\ (z.transport = t => v = r)
  <2>1. CASE z.transport = t
    BY <1>3, <1>8, <1>9, <1>11, <2>1 DEF Cut
  <2>2. CASE z.transport # t
    <3>1. << >> \in Seq(FrameSet) /\ Cut(<< >>, f)
      BY <1>10 DEF Cut
    <3>2. Cut(Along(q, << >>), r)
      BY <1>9, <1>10, <3>1, LineCut
    <3>3. Along(q, << >>) \in Seq(ItemSet)
      BY <3>1, LineSeq
    <3> QED BY <1>3, <1>8, <2>2, <3>2, <3>3
  <2> QED BY <2>1, <2>2
<1>13. Held'
  <2>1. CASE s.transport = 0
    BY <1>4, <2>1 DEF Held, HoldsOk
  <2>2. CASE s.transport # 0
    <3>1. z.transport = t /\ x.transport # 0 /\ v = r
      BY <1>1, <1>5, <1>12, <2>2
    <3>2. HoldsOk(w, x)
      BY DEF CInv, Held
    <3>3. HoldsOk(v, s)
      <4>1. CASE Idle(streams) /\ (x.resuming => z.resuming /\ Frozen(x, z))
        <5>1. v = w /\ (x.resuming => s.resuming /\ Frozen(x, s))
          BY <1>5, <1>10, <3>1, <4>1 DEF Frozen
        <5> QED BY <3>1, <3>2, <5>1, HoldsFrozen
      <4>2. CASE Taken(Client, streams) /\ w[1].type # "END"
        BY <1>6, <1>10, <3>1, <3>2, <4>2, HoldsTail
      <4> QED BY <1>5, <2>2, <4>1, <4>2 DEF Tame
    <3>4. HoldsOk(Line(Client)', end'[Client])
      BY <1>4, <1>12, <3>3
    <3> QED BY <3>4 DEF Held, HoldsOk
  <2> QED BY <2>1, <2>2
<1>14. Newest'
  BY <1>1, <1>3 DEF CInv, Newest
<1>15. ASSUME NEW u \in Transports, Waiting(u)'
       PROVE  FreshBy(wire'[u][Server].frames[1], Line(Client)', end'[Client], end'[Server])
  <2>1. /\ u >= accepted /\ u # end[Server].transport
        /\ wire'[u][Server].frames # << >> /\ wire'[u][Server].frames[1].type = "RESUME"
    BY <1>1, <1>3, <1>15 DEF Waiting
  <2>2. wire[u][Server] \in StreamSet
    BY <1>1, StateFacts
  <2>3. PICK k \in Seq(FrameSet) : k = wire[u][Server].frames
    BY <2>2, StreamFacts
  <2>4. PICK o \in Seq(FrameSet) : o = z.out
    BY <1>1, EndFacts
  <2>5. wire'[u][Server].frames = k \/ wire'[u][Server].frames = k \o o
    BY <1>3, <2>3, <2>4
  <2>6. k # << >>
    <3>1. SUFFICES ASSUME k = << >> PROVE FALSE
      OBVIOUS
    <3>2. wire'[u][Server].frames = o
      <4>1. << >> \o o = o
        BY <2>4
      <4> QED BY <2>1, <2>5, <3>1, <4>1
    <3>3. o # << >> /\ o[1].type = "RESUME"
      BY <2>1, <3>2
    <3>4. Len(o) \in Nat /\ 1 \in 1..Len(o)
      BY <2>4, <3>3, TailFacts
    <3>5. AllIn(o, 1, {"PAYLOAD", "KEEPALIVE", "ERROR"})
      BY <2>4 DEF Tame
    <3>6. o[1].type \in {"PAYLOAD", "KEEPALIVE", "ERROR"}
      BY <3>4, <3>5 DEF AllIn
    <3> QED BY <3>3, <3>6
  <2>7. wire'[u][Server].frames[1] = k[1]
    <3>1. (k \o o)[1] = k[1]
      BY <2>3, <2>4, <2>6, ConcatFirst
    <3> QED BY <2>5, <3>1
  <2>8. Waiting(u)
    BY <2>1, <2>3, <2>6, <2>7 DEF Waiting
  <2>9. PICK y \in EndSet : y = end[Server]
    BY <1>1, StateFacts
  <2>10. FreshBy(k[1], w, x, y)
    BY <2>3, <2>8, <2>9 DEF CInv, Fresh
  <2>11. k[1] \in FrameSet
    BY <2>3, <2>6, TailFacts
  <2>12. AllIn(w, 1, {"END", "ERROR"}) /\ (x.transport # 0 => x.resuming)
    BY <2>10 DEF FreshBy
  <2>13. Frozen(x, z) /\ (z.transport # 0 => z.resuming)
    BY <2>12 DEF Tame
  <2>14. Frozen(x, s) /\ (s.transport # 0 => s.resuming)
    BY <1>5, <2>13 DEF Frozen
  <2>15. AllIn(v, 1, {"END", "ERROR"})
    <3>1. AllIn(r, 1, {"END", "ERROR"})
      <4>1. CASE Idle(streams)
        BY <1>10, <2>12, <4>1
      <4>2. CASE Taken(Client, streams)
        BY <1>6, <1>10, <2>12, <4>2, TailAll
      <4> QED BY <1>1, <4>1, <4>2
    <3> QED BY <1>11, <1>12, <3>1, CutAll
  <2>16. x.cache.resetPosition \in Nat
    <3>1. x \in EndSet
      BY <1>1, StateFacts
    <3>2. PICK c \in CacheSet : c = x.cache
      BY <3>1, EndFacts
    <3> QED BY <3>2 DEF CacheSet
  <2>17. Len(y.delivered) <= Len(y.delivered) /\ y.cache.position <= y.cache.position
    BY <2>9, EndFacts
  <2>18. FreshBy(k[1], v, s, y)
    BY <1>6, <2>9, <2>10, <2>11, <2>14, <2>15, <2>16, <2>17, FreshNext
  <2> QED BY <1>3, <1>4, <1>12, <2>7, <2>9, <2>18
<1>16. Fresh'
  BY <1>15 DEF Fresh, FreshBy, Waiting, AllIn
<1> QED BY <1>13, <1>14, <1>16

LEMMA StepTame ==
  ASSUME CInv, NEW e, NEW p, NEW t, NEW streams, NEW f, NEW z, NEW g,
         StepOf(e, p, t, streams, f, z, g), NEW x, x = end[e],
         Tame(e, p, x, z, streams, Line(e))
  PROVE  CInv'
<1>1. e \in Ends /\ p = Peer(e)
  BY DEF StepOf, RestOf
<1>2. \/ e = Client /\ p = Server
      \/ e = Server /\ p = Client
  BY <1>1, PeerFacts
<1>3. Sound(p, z)
  BY DEF Tame
<1>4. PlainWire' /\ PlainTasks' /\ PlainPending'
  BY <1>3, StepPlain
<1>5. Held' /\ Fresh' /\ Newest'
  BY <1>2, ServerTame, ClientTame
<1> QED BY <1>4, <1>5 DEF CInv

(***************************************************************************)
(* What may close e in a step.                                             *)
(***************************************************************************)
Forced(e) ==
    \/ AppClose(e)
    \/ /\ e = Server
       /\ \E t \in Transports : ResumeOutOfReach(t) /\ wire'[t] # wire[t]
    \/ /\ e = Client
       /\ \E frame \in NextFrames(Client) : ResumeOkOutOfReach(frame)
    \/ queue'[e] # queue[e] /\ Head(queue[e]).transport # end[e].transport
    \/ ErrorFrame \in NextFrames(e)

ForcedOnly == \A e \in Ends : end'[e].closed /\ ~end[e].closed => Forced(e)

LEMMA StepDone ==
  ASSUME CInv, NEW e, NEW p, NEW t, NEW streams, NEW f, NEW z, NEW g,
         StepOf(e, p, t, streams, f, z, g), NEW x, x = end[e],
         Tame(e, p, x, z, streams, Line(e)), z.closed /\ ~x.closed => Forced(e)
  PROVE  CInv' /\ ForcedOnly
<1>1. CInv'
  BY StepTame
<1>2. e \in Ends /\ z \in EndSet /\ \A d \in Ends : d = e \/ d = p
  BY PeerFacts DEF StepOf, RestOf
<1>3. end'[e] = Settled(z) /\ end'[p] = end[p]
  BY StepFacts DEF StepIs
<1>4. end'[e].closed = z.closed
  BY <1>2, <1>3, SettledFacts
<1> QED BY <1>1, <1>2, <1>3, <1>4 DEF ForcedOnly

(***************************************************************************)
(* e goes from x to z and takes nothing.                                   *)
(***************************************************************************)
Calm(p, x, z) ==
    /\ z \in EndSet /\ Sound(p, z)
    /\ z.transport = x.transport \/ z.transport = 0
    /\ AllIn(z.out, 1, {"PAYLOAD", "KEEPALIVE", "ERROR"})
    /\ Len(x.delivered) <= Len(z.delivered)
    /\ ~z.closed => ~x.closed /\ x.cache.position <= z.cache.position
    /\ x.resuming /\ z.transport # 0 => z.resuming /\ Frozen(x, z)
    /\ (x.transport # 0 => x.resuming) => Frozen(x, z) /\ (z.transport # 0 => z.resuming)

LEMMA CalmDone ==
  ASSUME IInv, CInv, NEW e \in Ends, ~(e = Server /\ accepted = 0), NEW x, x = end[e],
         NEW z, Calm(Peer(e), x, z), Step(e, z), UNCHANGED <<queue, lastTransport, accepted>>,
         z.closed /\ ~x.closed => Forced(e)
  PROVE  CInv' /\ ForcedOnly
<1>1. PICK p, t : p = Peer(e) /\ t = x.transport
  OBVIOUS
<1>2. PICK f : f = IF t = 0 THEN << >> ELSE wire[t][e].frames
  OBVIOUS
<1>3. PICK g : g = IF t # 0 /\ Via(p) = t /\ ~wire[t][p].ended THEN z.out ELSE << >>
  OBVIOUS
<1>4. Idle(wire)
  BY DEF Idle
<1>5. StepOf(e, p, t, wire, f, z, g)
  BY <1>1, <1>2, <1>3, <1>4 DEF StepOf, RestOf, Step, Calm
<1>6. Tame(e, p, x, z, wire, Line(e))
  BY <1>1, <1>4 DEF Calm, Tame
<1> QED BY <1>5, <1>6, StepDone

LEMMA LeavesCalm ==
  ASSUME NEW p, NEW x \in EndSet, NEW z, Leaves(x, z), Sound(p, z), Frozen(x, z)
  PROVE  Calm(p, x, z)
<1>1. /\ z \in EndSet /\ z.transport = 0 /\ z.delivered = x.delivered
      /\ x.closed => z.closed
  BY DEF Leaves
<1>2. AllIn(z.out, 1, {"PAYLOAD", "KEEPALIVE", "ERROR"})
  BY DEF Leaves, AllIn
<1>3. Len(x.delivered) <= Len(z.delivered) /\ x.cache.position <= z.cache.position
  BY <1>1, EndFacts DEF Frozen
<1> QED BY <1>1, <1>2, <1>3 DEF Calm

LEMMA StateSound ==
  ASSUME IInv, CInv, NEW e \in Ends
  PROVE  Sound(Peer(e), end[e])
<1>1. end[e].out = << >>
  BY StateFacts
<1>2. << >> \in Seq(MeantFor(Peer(e)))
  OBVIOUS
<1> QED BY <1>1, <1>2 DEF CInv, PlainPending, Sound

LEMMA DisconnectCalm ==
  ASSUME IInv, CInv, NEW e \in Ends, NEW x, x = end[e], NEW z, z = Disconnect(x)
  PROVE  Calm(Peer(e), x, z) /\ z.closed = x.closed
<1>1. x \in EndSet /\ Local(x) /\ Shape(e, x) /\ x.out = << >> /\ Sound(Peer(e), x)
  BY StateFacts, StateSound
<1>2. Peer(e) \in Ends
  BY PeerFacts
<1>3. Leaves(x, z) /\ z.closed = x.closed
  BY <1>1, DisconnectLeaves
<1>4. Sound(Peer(e), z) /\ Frozen(x, z)
  BY <1>1, <1>2, DisconnectSound
<1> QED BY <1>1, <1>3, <1>4, LeavesCalm

LEMMA StaysCalm ==
  ASSUME NEW e, NEW p, NEW x \in EndSet, NEW z, NEW n, Stays(e, x, z, n), Sound(p, z),
         z.delivered = x.delivered, z.resuming = x.resuming,
         x.transport = 0 \/ x.resuming => Frozen(x, z)
  PROVE  Calm(p, x, z)
<1>1. /\ z \in EndSet /\ z.transport = x.transport /\ z.closed = x.closed
      /\ ~z.closed => x.cache.position <= z.cache.position
  BY DEF Stays
<1>2. AllIn(z.out, 1, {"PAYLOAD", "KEEPALIVE", "ERROR"})
  BY DEF Stays, AllIn
<1>3. Len(x.delivered) <= Len(z.delivered)
  BY EndFacts
<1> QED BY <1>1, <1>2, <1>3 DEF Calm

LEMMA AppDone ==
  ASSUME IInv, CInv, NEW e \in Ends, AppWrite(e) \/ AppDisconnect(e) \/ AppClose(e)
  PROVE  CInv' /\ ForcedOnly
<1>1. PICK x : x = end[e]
  OBVIOUS
<1>2. PICK p : p = Peer(e)
  OBVIOUS
<1>3. /\ x \in EndSet /\ Local(x) /\ Shape(e, x) /\ x.out = << >> /\ ~x.closed
      /\ ~(e = Server /\ accepted = 0)
      /\ UNCHANGED <<queue, lastTransport, accepted>>
  BY <1>1, StateFacts DEF AppWrite, AppDisconnect, AppClose, IsOpen
<1>4. Sound(p, x) /\ p \in Ends
  BY <1>1, <1>2, StateSound, PeerFacts
<1>5. CASE AppWrite(e)
  <2>1. PICK z : z = Write(x)
    OBVIOUS
  <2>2. PICK n \in Nat : n = Len(end[p].delivered)
    BY <1>1, <1>2, FeedFacts
  <2>3. Retains(x.cache, n)
    BY <1>1, <1>2, <1>3, <2>2, FeedFacts
  <2>4. Stays(e, x, z, n) /\ z.delivered = x.delivered /\ z.resuming = x.resuming
    BY <1>3, <2>1, <2>3, WriteStays
  <2>5. Sound(p, z) /\ (x.transport = 0 \/ x.resuming => Frozen(x, z))
    BY <1>3, <1>4, <2>1, WriteSound
  <2>6. Calm(p, x, z)
    BY <1>3, <2>4, <2>5, StaysCalm
  <2>7. Step(e, z) /\ ~z.closed
    BY <1>1, <1>3, <1>5, <2>1, <2>4 DEF AppWrite, Stays
  <2> QED BY <1>1, <1>2, <1>3, <2>6, <2>7, CalmDone
<1>6. CASE AppDisconnect(e)
  <2>1. PICK z : z = Disconnect(x)
    OBVIOUS
  <2>2. Calm(p, x, z) /\ z.closed = x.closed
    BY <1>1, <1>2, <2>1, DisconnectCalm
  <2>3. Step(e, z)
    BY <1>1, <1>6, <2>1 DEF AppDisconnect
  <2> QED BY <1>1, <1>2, <1>3, <2>2, <2>3, CalmDone
<1>7. CASE AppClose(e)
  <2>1. PICK z : z = Close(x)
    OBVIOUS
  <2>2. Leaves(x, z)
    BY <1>3, <2>1, CloseLeaves
  <2>3. Sound(p, z) /\ Frozen(x, z)
    BY <1>3, <1>4, <2>1, CloseSound DEF Sound
  <2>4. Calm(p, x, z)
    BY <1>3, <2>2, <2>3, LeavesCalm
  <2>5. Step(e, z) /\ Forced(e)
    BY <1>1, <1>7, <2>1 DEF AppClose, Forced
  <2> QED BY <1>1, <1>2, <1>3, <2>4, <2>5, CalmDone
<1> QED BY <1>5, <1>6, <1>7

LEMMA KeepaliveTickDone ==
  ASSUME IInv, CInv, KeepaliveTick
  PROVE  CInv' /\ ForcedOnly
<1>1. PICK x : x = end[Client]
  OBVIOUS
<1>2. PICK k : k = OutputFrameOrEnqueue(x, KeepaliveFrame(x.cache.impliedPosition, TRUE))
  OBVIOUS
<1>3. /\ x.transport # 0 /\ ~x.resuming
      /\ Step(Client, IF x.awaiting THEN Disconnect(x) ELSE [k EXCEPT !.awaiting = TRUE])
      /\ UNCHANGED <<queue, lastTransport, accepted>>
  BY <1>1, <1>2 DEF KeepaliveTick
<1>4. Client \in Ends /\ Server \in Ends /\ Server = Peer(Client) /\ Client # Server
  BY BoundsAssumption DEF Ends, Peer
<1>5. x \in EndSet /\ Local(x) /\ Shape(Client, x) /\ x.out = << >>
  BY <1>1, <1>4, StateFacts
<1>6. ~x.closed
  BY <1>3, <1>5 DEF Shape
<1>7. CASE x.awaiting
  <2>1. PICK z : z = Disconnect(x)
    OBVIOUS
  <2>2. Calm(Server, x, z) /\ z.closed = x.closed
    BY <1>1, <1>4, <2>1, DisconnectCalm
  <2>3. Step(Client, z)
    BY <1>3, <1>7, <2>1
  <2> QED BY <1>1, <1>3, <1>4, <1>6, <2>2, <2>3, CalmDone
<1>8. CASE ~x.awaiting
  <2>1. PICK z : z = [k EXCEPT !.awaiting = TRUE]
    OBVIOUS
  <2>2. Step(Client, z)
    BY <1>3, <1>8, <2>1
  <2>3. PICK n \in Nat : n = Len(end[Server].delivered)
    BY <1>4, FeedFacts
  <2>4. Retains(x.cache, n)
    BY <1>1, <1>4, <1>6, <2>3, FeedFacts
  <2>5. /\ Stays(Client, x, k, n)
        /\ k.delivered = x.delivered /\ k.resuming = x.resuming
    BY <1>2, <1>5, <1>6, <2>4, KeepaliveStays
  <2>6. k \in EndSet /\ k.transport # 0 /\ ~k.resuming
    BY <1>3, <2>5 DEF Stays
  <2>7. /\ Stays(Client, x, z, n)
        /\ z.delivered = k.delivered /\ z.resuming = k.resuming
        /\ z.out = k.out /\ z.closed = k.closed
    BY <2>1, <2>5, <2>6, AwaitStays
  <2>8. z.pending = k.pending
    BY <2>1, <2>6 DEF EndSet
  <2>9. k.out \in Seq(MeantFor(Server)) /\ k.pending \in Seq(MeantFor(Server))
    <3>1. PICK h : h = KeepaliveFrame(x.cache.impliedPosition, TRUE)
      OBVIOUS
    <3>2. PICK i \in Nat : i = x.cache.impliedPosition
      BY <1>5, EndFacts
    <3>3. h \in MeantFor(Server)
      <4>1. KeepaliveFrame(i, Server = Server) \in MeantFor(Server)
        BY <1>4, MeantFacts
      <4> QED BY <3>1, <3>2, <4>1
    <3>4. Sound(Server, x)
      BY <1>1, <1>4, StateSound
    <3>5. Cached(x.cache)
      BY <1>5, <1>6, LocalOpen
    <3>6. x.out \in Seq(MeantFor(Server)) /\ x.pending \in Seq(MeantFor(Server))
      BY <1>6, <3>4 DEF Sound
    <3>7. k = OutputFrameOrEnqueue(x, h)
      BY <1>2, <3>1
    <3> QED BY <1>4, <1>5, <3>3, <3>5, <3>6, <3>7, OutputSound
  <2>10. Sound(Server, z)
    BY <2>7, <2>8, <2>9 DEF Sound
  <2>11. Calm(Server, x, z)
    BY <1>3, <1>5, <2>5, <2>7, <2>10, StaysCalm
  <2>12. ~z.closed
    BY <1>6, <2>5, <2>7 DEF Stays
  <2> QED BY <1>1, <1>3, <1>4, <2>2, <2>11, <2>12, CalmDone
<1> QED BY <1>5, <1>7, <1>8, EndFacts

LEMMA ReceiveTerminalDone ==
  ASSUME IInv, CInv, NEW e \in Ends, ReceiveTerminal(e), ~Deferred
  PROVE  CInv' /\ ForcedOnly
<1>1. PICK x : x = end[e]
  OBVIOUS
<1>2. PICK z : z = Disconnect(x)
  OBVIOUS
<1>3. x.transport # 0 /\ Step(e, z) /\ UNCHANGED <<queue, lastTransport, accepted>>
  BY <1>1, <1>2 DEF ReceiveTerminal
<1>4. Calm(Peer(e), x, z) /\ z.closed = x.closed
  BY <1>1, <1>2, DisconnectCalm
<1>5. ~(e = Server /\ accepted = 0)
  BY <1>1, <1>3, BusyIsSetUp
<1> QED BY <1>1, <1>3, <1>4, <1>5, CalmDone

-----------------------------------------------------------------------------
(* Steps in which an end processes a frame                                 *)

LEMMA AvailableFrom ==
  ASSUME NEW c \in CacheSet, Cached(c), NEW p \in Nat, p <= c.position,
         c.position - Len(c.frames) <= p
  PROVE  IsPositionAvailable(c, p)
<1>1. PICK k \in Nat : k = Len(c.frames)
  BY DEF CacheSet
<1>2. PICK q \in Nat : q = c.position
  BY DEF CacheSet
<1>3. k <= q /\ \A i \in 1..k : c.frames[i].pos = q - k + i - 1
  BY <1>1, <1>2 DEF Cached, Numbered
<1>4. CASE p = q
  BY <1>2, <1>4 DEF IsPositionAvailable
<1>5. CASE p # q
  <2>1. p <= q /\ q - k <= p
    BY <1>1, <1>2
  <2>2. p - (q - k) + 1 \in 1..k /\ q - k + (p - (q - k) + 1) - 1 = p
    BY <1>3, <1>5, <2>1
  <2>3. c.frames[p - (q - k) + 1].pos = p
    BY <1>3, <2>2
  <2> QED BY <1>1, <2>2, <2>3 DEF IsPositionAvailable
<1> QED BY <1>4, <1>5

(***************************************************************************)
(* A RESUME_OK that is processed while the client is connected is one it   *)
(* waits for, and it can send from the position named if it is in reach.   *)
(***************************************************************************)
LEMMA ExpectedNext ==
  ASSUME Sized, IInv, CInv, NEW e \in Ends, NEW x, x = end[e], ~x.closed,
         NEW w, w = Line(e), w # << >>, NEW n, Met(e, x, w[1], n)
  PROVE  Expected(x, w[1])
<1>1. SUFFICES ASSUME w[1].type = "RESUME_OK", x.transport # 0
               PROVE  /\ x.resuming
                      /\ IsPositionAvailable(x.cache, w[1].a) \/ Beyond(x, w[1].a)
  BY DEF Expected
<1>2. e = Client
  <2>1. w[1].type \in Told(e)
    BY DEF Met
  <2> QED BY <1>1, <2>1, PeerFacts DEF Told
<1>3. w \in Seq(ItemSet)
  BY StateFacts
<1>4. w[1] \in ItemSet /\ 1 \in 1..Len(w)
  BY <1>3, TailFacts
<1>5. HoldsOk(w, x)
  BY <1>2 DEF CInv, Held
<1>6. /\ x.resuming /\ w[1].a <= x.cache.position
      /\ x.cache.resetPosition <= w[1].a \/ Beyond(x, w[1].a)
  BY <1>1, <1>4, <1>5 DEF HoldsOk
<1>7. x \in EndSet /\ Local(x)
  BY StateFacts
<1>8. PICK c \in CacheSet : c = x.cache
  BY <1>7, EndFacts
<1>9. Cached(c) /\ Counted(c)
  BY <1>7, <1>8, LocalOpen
<1>10. c.resetPosition = c.position - Len(c.frames)
  BY <1>9 DEF Counted
<1>11. w[1].a \in Nat
  BY <1>4, ItemFacts
<1>12. x.cache.resetPosition <= w[1].a => IsPositionAvailable(c, w[1].a)
  BY <1>6, <1>8, <1>9, <1>10, <1>11, AvailableFrom
<1> QED BY <1>6, <1>8, <1>12

(***************************************************************************)
(* e processes the first item of what is on its way to it, w.              *)
(***************************************************************************)
ProcessTakes(e, p, x, streams, w, writes, z) ==
    /\ e \in Ends /\ ~(e = Server /\ accepted = 0) /\ p = Peer(e) /\ x = end[e]
    /\ Taken(e, streams) /\ w = Line(e) /\ w # << >> /\ w[1].type # "END"
    /\ w[1] \in MeantFor(e) /\ z = ProcessFrame(e, x, w[1], writes)

ProcessTamed(e, p, x, streams, w, z) ==
    /\ z \in EndSet /\ (z.transport = x.transport \/ z.transport = 0)
    /\ Tame(e, p, x, z, streams, w)
    /\ z.closed /\ ~x.closed => Closing(x, w[1])

LEMMA ProcessTame ==
  ASSUME Orderly, Sized, IInv, CInv, NEW e, NEW p, NEW x, NEW streams, NEW w, NEW writes,
         NEW z, ProcessTakes(e, p, x, streams, w, writes, z)
  PROVE  ProcessTamed(e, p, x, streams, w, z)
<1>0. /\ e \in Ends /\ ~(e = Server /\ accepted = 0) /\ p = Peer(e) /\ x = end[e]
      /\ Taken(e, streams) /\ w = Line(e) /\ w # << >> /\ w[1].type # "END"
      /\ w[1] \in MeantFor(e) /\ z = ProcessFrame(e, x, w[1], writes)
  BY DEF ProcessTakes
<1> USE <1>0 DEF ProcessTamed
<1>1. x \in EndSet /\ Local(x) /\ Shape(e, x) /\ x.out = << >>
  BY StateFacts
<1>2. Sound(p, x)
  BY StateSound
<1>3. CASE x.closed
  <2>1. z = x
    BY <1>3 DEF ProcessFrame
  <2>2. x.transport = 0
    BY <1>1, <1>3 DEF Shape
  <2>3. AllIn(x.out, 1, {"PAYLOAD", "KEEPALIVE", "ERROR"})
    BY <1>1 DEF AllIn
  <2>4. Len(x.delivered) <= Len(x.delivered) /\ Frozen(x, x)
    BY <1>1, EndFacts DEF Frozen
  <2>5. Tame(e, p, x, x, streams, w)
    BY <1>2, <1>3, <2>2, <2>3, <2>4 DEF Tame
  <2> QED BY <1>1, <1>3, <2>1, <2>5
<1>4. CASE ~x.closed
  <2>1. PICK n \in Nat : n = Len(end[p].delivered)
    BY FeedFacts
  <2>2. Met(e, x, w[1], n)
    BY <1>4, <2>1, LineMet
  <2>3. Retains(x.cache, n)
    BY <1>4, <2>1, FeedFacts
  <2>4. (Leaves(x, z) /\ z.closed) \/ Processed(e, x, z, w[1], n)
    BY <1>1, <1>4, <2>2, <2>3, ProcessFrameFacts
  <2>5. Expected(x, w[1])
    BY <1>4, <2>2, ExpectedNext
  <2>6. /\ Sound(p, z)
        /\ z.closed => Closing(x, w[1])
        /\ w[1].type = "ERROR" => Frozen(x, z) /\ z.closed
    BY <1>1, <1>2, <1>4, <2>2, <2>5, ProcessSound
  <2>7. AllIn(w, 1, {"END", "ERROR"}) => w[1].type = "ERROR"
    <3>1. w \in Seq(ItemSet)
      BY StateFacts
    <3>2. Len(w) \in Nat /\ 1 \in 1..Len(w)
      BY <3>1, TailFacts
    <3> QED BY <3>2 DEF AllIn
  <2>8. CASE Leaves(x, z) /\ z.closed
    <3>1. z \in EndSet /\ z.transport = 0 /\ z.delivered = x.delivered
      BY <2>8 DEF Leaves
    <3>2. AllIn(z.out, 1, {"PAYLOAD", "KEEPALIVE", "ERROR"})
      BY <2>8 DEF Leaves, AllIn
    <3>3. Len(x.delivered) <= Len(z.delivered)
      BY <1>1, <3>1, EndFacts
    <3>4. Tame(e, p, x, z, streams, w)
      BY <2>6, <2>7, <2>8, <3>1, <3>2, <3>3 DEF Tame
    <3> QED BY <2>6, <3>1, <3>4
  <2>9. CASE Processed(e, x, z, w[1], n)
    <3>1. /\ z \in EndSet /\ z.transport = x.transport /\ z.closed = x.closed
          /\ ~z.closed => x.cache.position <= z.cache.position
      BY <2>9 DEF Processed, Stays
    <3>2. AllIn(z.out, 1, {"PAYLOAD", "KEEPALIVE", "ERROR"})
      BY <2>9 DEF Processed, Stays, AllIn
    <3>3. Len(x.delivered) <= Len(z.delivered)
      <4>1. PICK d \in Seq(Nat) : d = x.delivered
        BY <1>1, EndFacts
      <4>2. w[1].a \in Nat
        BY FrameIsItem, ItemFacts DEF MeantFor
      <4>3. z.delivered = d \/ z.delivered = Append(d, w[1].a)
        BY <2>9, <4>1 DEF Processed
      <4>4. Len(d) <= Len(d) /\ Len(d) <= Len(Append(d, w[1].a))
        BY <4>2
      <4> QED BY <4>1, <4>3, <4>4
    <3>4. w[1].type # "ERROR"
      BY <1>4, <2>6, <3>1
    <3>5. Tame(e, p, x, z, streams, w)
      BY <1>4, <2>6, <2>7, <3>1, <3>2, <3>3, <3>4 DEF Tame
    <3> QED BY <2>6, <3>1, <3>5
  <2> QED BY <2>4, <2>8, <2>9
<1> QED BY <1>3, <1>4

(***************************************************************************)
(* A RESUME_OK out of reach is what the client is about to process.        *)
(***************************************************************************)
LEMMA BeyondForces ==
  ASSUME IInv, NEW e \in Ends, NEW x, x = end[e], NEW f, f \in NextFrames(e),
         f.type = "RESUME_OK", x.resuming, Beyond(x, f.a)
  PROVE  Forced(e)
<1>1. e = Client
  <2>1. Shape(e, x)
    BY StateFacts
  <2> QED BY <2>1 DEF Shape
<1>2. ResumeOkOutOfReach(f)
  BY <1>1 DEF ResumeOkOutOfReach, Beyond
<1> QED BY <1>1, <1>2 DEF Forced

LEMMA TakeDone ==
  ASSUME IInv, CInv, NEW e \in Ends, ~(e = Server /\ accepted = 0),
         NEW x, x = end[e], NEW streams, Taken(e, streams), NEW z, z \in EndSet,
         z.transport = x.transport \/ z.transport = 0,
         Tame(e, Peer(e), x, z, streams, Line(e)),
         Commit(e, z, x.transport, streams), lastTransport' = lastTransport, accepted' = accepted,
         z.closed /\ ~x.closed => Forced(e)
  PROVE  CInv' /\ ForcedOnly
<1>1. PICK p, t : p = Peer(e) /\ t = x.transport
  OBVIOUS
<1>2. PICK f : f = IF t = 0 THEN << >> ELSE streams[t][e].frames
  OBVIOUS
<1>3. PICK g : g = IF t # 0 /\ Via(p) = t /\ ~wire[t][p].ended THEN z.out ELSE << >>
  OBVIOUS
<1>4. StepOf(e, p, t, streams, f, z, g)
  BY <1>1, <1>2, <1>3 DEF StepOf, RestOf
<1> QED BY <1>1, <1>4, StepDone

LEMMA RunTaskDone ==
  ASSUME Orderly, Sized, IInv, CInv, NEW e \in Ends, NEW writes, RunTask(e, writes)
  PROVE  CInv' /\ ForcedOnly
<1>1. PICK x : x = end[e]
  OBVIOUS
<1>2. PICK task : task = Head(queue[e])
  OBVIOUS
<1>3. PICK w : w = Line(e)
  OBVIOUS
<1>4. /\ queue[e] # << >>
      /\ Commit(e, IF task = Terminal(task.transport) THEN Disconnect(x)
                   ELSE ProcessFrame(e, x, task.frame[1], writes), x.transport, wire)
      /\ queue' = [queue EXCEPT ![e] = Tail(@)]
      /\ lastTransport' = lastTransport /\ accepted' = accepted
  BY <1>1, <1>2 DEF RunTask, Step
<1>5. Taken(e, wire)
  BY <1>4 DEF Taken
<1>6. ~(e = Server /\ accepted = 0)
  BY <1>4, BusyIsSetUp
<1>7. /\ queue[e] \in Seq(TaskSet) /\ Arriving(e) \in Seq(FrameSet)
      /\ x \in EndSet /\ Local(x) /\ Shape(e, x) /\ x.out = << >>
      /\ Towards(e)
  BY <1>1, StateFacts
<1>8. task \in TaskSet /\ task = queue[e][1] /\ 1 \in 1..Len(queue[e])
  BY <1>2, <1>4, <1>7, TailFacts
<1>9. w # << >> /\ w[1] = AsItem(task)
  BY <1>3, <1>4, <1>7, <1>8, LineRun DEF Line
<1>10. PlainTask(e, task)
  BY <1>8 DEF CInv, PlainTasks
<1>11. CASE task.frame = << >>
  <2>1. PICK z : z = Disconnect(x)
    OBVIOUS
  <2>2. Commit(e, z, x.transport, wire)
    BY <1>4, <1>8, <1>11, <2>1, TaskFacts
  <2>3. Leaves(x, z)
    BY <1>7, <2>1, DisconnectLeaves
  <2>4. Calm(Peer(e), x, z) /\ z.closed = x.closed
    BY <1>1, <2>1, DisconnectCalm
  <2>5. z.transport = 0 /\ Frozen(x, z)
    BY <1>7, <2>1, <2>3, DisconnectSound, PeerFacts, StateSound, <1>1 DEF Leaves
  <2>6. Tame(e, Peer(e), x, z, wire, Line(e))
    BY <2>4, <2>5 DEF Calm, Tame
  <2>7. z \in EndSet
    BY <2>3 DEF Leaves
  <2> QED BY <1>1, <1>4, <1>5, <1>6, <2>2, <2>4, <2>5, <2>6, <2>7, TakeDone
<1>12. CASE task.frame # << >>
  <2>1. w[1].type # "END" /\ w[1] = task.frame[1] /\ task # Terminal(task.transport)
    BY <1>8, <1>9, <1>12, TaskFacts
  <2>2. PICK z : z = ProcessFrame(e, x, w[1], writes)
    OBVIOUS
  <2>3. Commit(e, z, x.transport, wire)
    BY <1>4, <2>1, <2>2
  <2>4. w[1] \in MeantFor(e) /\ task.transport # 0
    BY <1>10, <1>12, <2>1 DEF PlainTask
  <2>5. /\ z \in EndSet /\ (z.transport = x.transport \/ z.transport = 0)
        /\ Tame(e, Peer(e), x, z, wire, w)
        /\ z.closed /\ ~x.closed => Closing(x, w[1])
    <3>1. ProcessTakes(e, Peer(e), x, wire, w, writes, z)
      BY <1>1, <1>3, <1>5, <1>6, <1>9, <2>1, <2>2, <2>4 DEF ProcessTakes
    <3>2. ProcessTamed(e, Peer(e), x, wire, w, z)
      BY <3>1, ProcessTame
    <3> QED BY <3>2 DEF ProcessTamed
  <2>6. x.transport = 0 => Forced(e)
    <3>1. queue'[e] = Tail(queue[e])
      BY <1>4 DEF IInv, Types
    <3>2. queue'[e] # queue[e]
      BY <1>4, <1>7, <3>1, TailDiffers
    <3> QED BY <1>1, <1>2, <2>4, <3>2 DEF Forced
  <2>7. Closing(x, w[1]) => Forced(e)
    <3>1. Deferred
      BY <1>4, <1>7 DEF Towards
    <3>2. 1 \in {i \in DOMAIN queue[e] :
                     /\ queue[e][i].frame # << >>
                     /\ \A j \in 1..i - 1 : queue[e][j].frame = << >>}
      BY <1>7, <1>8, <1>12
    <3>3. queue[e][1].frame[1] \in NextFrames(e)
      BY <3>1, <3>2 DEF NextFrames
    <3>4. w[1] \in NextFrames(e)
      BY <1>8, <2>1, <3>3
    <3>5. CASE w[1] = ErrorFrame
      BY <3>4, <3>5 DEF Forced
    <3>6. CASE w[1].type = "RESUME_OK" /\ x.resuming /\ Beyond(x, w[1].a)
      BY <1>1, <3>4, <3>6, BeyondForces
    <3> QED BY <2>6, <3>5, <3>6 DEF Closing
  <2> QED BY <1>1, <1>3, <1>4, <1>5, <1>6, <2>3, <2>5, <2>7, TakeDone
<1> QED BY <1>11, <1>12

LEMMA ReceiveDone ==
  ASSUME Orderly, Sized, IInv, CInv, NEW e \in Ends, NEW writes, Receive(e, writes), ~Deferred
  PROVE  CInv' /\ ForcedOnly
<1>1. PICK x : x = end[e]
  OBVIOUS
<1>2. PICK t : t = x.transport
  OBVIOUS
<1>3. PICK w : w = Line(e)
  OBVIOUS
<1>4. /\ t # 0 /\ wire[t][e].frames # << >>
      /\ Commit(e, ProcessFrame(e, x, Head(wire[t][e].frames), writes), t, Consume(t, e))
      /\ queue' = queue /\ lastTransport' = lastTransport /\ accepted' = accepted
  BY <1>1, <1>2 DEF Receive
<1>5. queue[e] = << >>
  BY StateFacts DEF Towards
<1>6. Taken(e, Consume(t, e))
  BY <1>1, <1>2, <1>4, <1>5 DEF Taken
<1>7. ~(e = Server /\ accepted = 0)
  BY <1>1, <1>2, <1>4, BusyIsSetUp
<1>8. Via(e) = t /\ Arriving(e) = wire[t][e].frames
  BY <1>1, <1>2, <1>4, <1>7 DEF Via, Arriving
<1>9. queue[e] \in Seq(TaskSet) /\ Arriving(e) \in Seq(FrameSet)
  BY StateFacts
<1>10. w = wire[t][e].frames
  BY <1>3, <1>5, <1>8, <1>9, LineNoTasks DEF Line
<1>11. w \in Seq(FrameSet) /\ w # << >> /\ Head(w) = w[1] /\ w[1].type # "END"
  <2>1. w \in Seq(FrameSet) /\ w # << >>
    BY <1>4, <1>8, <1>9, <1>10
  <2>2. Head(w) = w[1] /\ w[1] \in FrameSet
    BY <2>1, TailFacts
  <2> QED BY <2>1, <2>2 DEF FrameSet
<1>12. t \in Transports
  BY <1>1, <1>2, <1>4, StateFacts, BoundsAssumption DEF Transports
<1>13. w[1] \in MeantFor(e)
  <2>1. w \in Seq(MeantFor(e))
    BY <1>10, <1>12 DEF CInv, PlainWire
  <2> QED BY <1>11, <2>1, TailFacts
<1>14. PICK z : z = ProcessFrame(e, x, w[1], writes)
  OBVIOUS
<1>15. PICK streams : streams = Consume(t, e)
  OBVIOUS
<1>16. Taken(e, streams)
  BY <1>6, <1>15
<1>17. Commit(e, z, x.transport, streams)
  BY <1>2, <1>4, <1>10, <1>11, <1>14, <1>15
<1>18. /\ z \in EndSet /\ (z.transport = x.transport \/ z.transport = 0)
       /\ Tame(e, Peer(e), x, z, streams, w)
       /\ z.closed /\ ~x.closed => Closing(x, w[1])
  <2>1. ProcessTakes(e, Peer(e), x, streams, w, writes, z)
    BY <1>11, <1>1, <1>3, <1>7, <1>13, <1>14, <1>16 DEF ProcessTakes
  <2>2. ProcessTamed(e, Peer(e), x, streams, w, z)
    BY <2>1, ProcessTame
  <2> QED BY <2>2 DEF ProcessTamed
<1>19. Closing(x, w[1]) => Forced(e)
  <2>1. Head(wire[t][e].frames) \in NextFrames(e)
    BY <1>1, <1>2, <1>4, <1>12 DEF NextFrames
  <2>2. w[1] \in NextFrames(e)
    BY <1>10, <1>11, <2>1
  <2>3. CASE w[1] = ErrorFrame
    BY <2>2, <2>3 DEF Forced
  <2>4. CASE w[1].type = "RESUME_OK" /\ x.resuming /\ Beyond(x, w[1].a)
    BY <1>1, <2>2, <2>4, BeyondForces
  <2> QED BY <1>2, <1>4, <2>3, <2>4 DEF Closing
<1> QED BY <1>1, <1>2, <1>3, <1>4, <1>7, <1>17, <1>18, <1>19, <1>16, TakeDone

-----------------------------------------------------------------------------
(* What happens between the ends                                           *)

LEMMA WireDone ==
  ASSUME CInv, WireOf, PlainWire', PlainTasks'
  PROVE  CInv' /\ ForcedOnly
<1>1. IInv /\ end' = end /\ accepted' = accepted /\ Client \in Ends /\ Server \in Ends
  BY DEF WireOf, Ends
<1>2. PICK w \in Seq(ItemSet) : w = Line(Client)
  BY <1>1, StateFacts
<1>3. PICK b \in Seq(ItemSet), g \in Seq(ItemSet) :
         Line(Client)' = b \o g /\ Cut(b, w) /\ AllIn(g, 1, {"ERROR", "END"})
  <2>1. Altered(Client, {"ERROR", "END"})
    BY <1>1 DEF WireOf
  <2> QED BY <1>2, <2>1 DEF Altered
<1>4. b \o g \in Seq(ItemSet)
  BY <1>3, ConcatFacts
<1>5. Held'
  <2>1. \A i \in 1..Len(g) : g[i].type # "RESUME_OK"
    <3>1. TAKE i \in 1..Len(g)
    <3>2. AllIn(g, 1, {"ERROR", "END"})
      BY <1>3
    <3>3. i >= 1 /\ g[i].type \in {"ERROR", "END"}
      BY <3>1, <3>2 DEF AllIn
    <3> QED BY <3>3
  <2>2. HoldsOk(w, end[Client])
    BY <1>2 DEF CInv, Held
  <2>3. HoldsOk(b \o g, end[Client])
    BY <1>2, <1>3, <2>1, <2>2, HoldsJoin
  <2>4. HoldsOk(Line(Client)', end'[Client])
    BY <1>1, <1>3, <2>3
  <2> QED BY <2>4 DEF Held, HoldsOk
<1>6. ASSUME NEW u \in Transports, Waiting(u)'
      PROVE  FreshBy(wire'[u][Server].frames[1], Line(Client)', end'[Client], end'[Server])
  <2>1. /\ u >= accepted /\ u # end[Server].transport
        /\ wire'[u][Server].frames # << >> /\ wire'[u][Server].frames[1].type = "RESUME"
    BY <1>1, <1>6 DEF Waiting
  <2>2. wire[u][Server].frames # << >> /\ wire'[u][Server].frames[1] = wire[u][Server].frames[1]
    <3>1. CASE u = Via(Server)
      <4>1. accepted = 0 /\ u = 1
        BY <2>1, <3>1 DEF Via
      <4> QED BY <2>1, <4>1 DEF WireOf
    <3>2. CASE u # Via(Server)
      BY <2>1, <3>2 DEF WireOf
    <3> QED BY <3>1, <3>2
  <2>3. Waiting(u)
    BY <2>1, <2>2 DEF Waiting
  <2>4. PICK x, y \in EndSet : x = end[Client] /\ y = end[Server]
    BY <1>1, StateFacts
  <2>5. PICK h : h = wire[u][Server].frames[1]
    OBVIOUS
  <2>6. FreshBy(h, w, x, y)
    BY <1>2, <2>3, <2>4, <2>5 DEF CInv, Fresh
  <2>7. AllIn(b \o g, 1, {"END", "ERROR"})
    <3>1. AllIn(w, 1, {"END", "ERROR"})
      BY <2>6 DEF FreshBy
    <3>2. AllIn(b, 1, {"END", "ERROR"})
      BY <1>2, <1>3, <3>1, CutAll
    <3>3. AllIn(g, 1, {"END", "ERROR"})
      BY <1>3 DEF AllIn
    <3> QED BY <1>3, <3>2, <3>3, JoinAll
  <2>8. FreshBy(h, b \o g, x, y)
    BY <2>6, <2>7 DEF FreshBy
  <2> QED BY <1>1, <1>3, <2>2, <2>4, <2>5, <2>8
<1>7. Fresh'
  BY <1>6 DEF Fresh, FreshBy, Waiting, AllIn
<1>8. Newest' /\ PlainPending' /\ ForcedOnly
  BY <1>1 DEF CInv, Newest, PlainPending, ForcedOnly, MeantFor, Peer
<1> QED BY <1>5, <1>7, <1>8 DEF CInv

LEMMA TaskAdded ==
  ASSUME IInv, PlainTasks, NEW e \in Ends, NEW task \in TaskSet, PlainTask(e, task),
         queue' = [queue EXCEPT ![e] = Append(@, task)]
  PROVE  PlainTasks'
<1>1. SUFFICES ASSUME NEW d \in Ends, NEW i \in 1..Len(queue'[d])
               PROVE  PlainTask(d, queue'[d][i])
  BY DEF PlainTasks, PlainTask, MeantFor
<1>2. queue \in [Ends -> Seq(TaskSet)]
  BY DEF IInv, Types
<1>3. CASE d # e
  <2>1. queue'[d] = queue[d]
    BY <1>2, <1>3
  <2> QED BY <1>1, <2>1 DEF PlainTasks
<1>4. CASE d = e
  <2>1. PICK q \in Seq(TaskSet) : q = queue[d]
    BY <1>2, <1>4
  <2>2. queue'[d] = Append(q, task)
    BY <1>2, <1>4, <2>1
  <2>3. PICK l \in Nat : l = Len(q)
    BY <2>1
  <2>4. /\ Len(Append(q, task)) = l + 1
        /\ \A j \in 1..l : Append(q, task)[j] = q[j]
        /\ Append(q, task)[l + 1] = task
    BY <2>1, <2>3, AppendProperties
  <2>5. CASE i = l + 1
    BY <1>4, <2>2, <2>4, <2>5
  <2>6. CASE i # l + 1
    <3>1. i \in 1..l
      BY <1>1, <2>2, <2>3, <2>4, <2>6
    <3>2. queue'[d][i] = q[i]
      BY <2>2, <2>4, <3>1
    <3> QED BY <2>1, <2>3, <3>1, <3>2 DEF PlainTasks
  <2> QED BY <2>5, <2>6
<1> QED BY <1>3, <1>4

LEMMA QueuedDone ==
  ASSUME IInv, CInv, NEW e \in Ends, NEW writes, Receive(e, writes), Deferred
  PROVE  CInv' /\ ForcedOnly
<1>1. PICK t : t = end[e].transport
  OBVIOUS
<1>2. PICK task : task = [transport |-> t, frame |-> <<Head(wire[t][e].frames)>>]
  OBVIOUS
<1>3. /\ t # 0 /\ wire[t][e].frames # << >>
      /\ queue' = [queue EXCEPT ![e] = Append(@, task)]
      /\ wire' = Consume(t, e)
  BY <1>1, <1>2 DEF Receive
<1>4. t \in Transports /\ t \in Nat
  BY <1>1, <1>3, StateFacts, BoundsAssumption DEF Transports
<1>5. PICK w \in Seq(MeantFor(e)) : w = wire[t][e].frames
  BY <1>4 DEF CInv, PlainWire
<1>6. Head(w) \in MeantFor(e)
  BY <1>3, <1>5, TailFacts
<1>7. Head(w) \in FrameSet
  BY <1>6, MeantFacts
<1>8. task \in TaskSet /\ task.transport = t /\ task.frame = <<Head(w)>>
  BY <1>2, <1>4, <1>5, <1>7 DEF TaskSet
<1>9. PlainTask(e, task)
  BY <1>3, <1>6, <1>8 DEF PlainTask
<1>10. PlainTasks'
  BY <1>3, <1>8, <1>9, TaskAdded DEF CInv
<1>11. PlainWire'
  <2>1. StreamsPlain(wire')
    BY <1>3, <1>4, ConsumePlain DEF CInv
  <2> QED BY <2>1 DEF StreamsPlain, PlainWire
<1> QED BY <1>10, <1>11, QueuedIsWire, WireDone

LEMMA EndQueuedDone ==
  ASSUME IInv, CInv, NEW e \in Ends, ReceiveTerminal(e), Deferred
  PROVE  CInv' /\ ForcedOnly
<1>1. PICK task : task = Terminal(end[e].transport)
  OBVIOUS
<1>2. /\ end[e].transport # 0 /\ wire' = wire
      /\ queue' = [queue EXCEPT ![e] = Append(@, task)]
  BY <1>1 DEF ReceiveTerminal
<1>3. end[e].transport \in Nat
  BY StateFacts, EndFacts
<1>4. task \in TaskSet /\ task.transport # 0 /\ task.frame = << >>
  BY <1>1, <1>2, <1>3 DEF Terminal, TaskSet
<1>5. PlainTasks'
  BY <1>2, <1>4, TaskAdded DEF CInv, PlainTask
<1>6. PlainWire'
  BY <1>2 DEF CInv, PlainWire
<1> QED BY <1>5, <1>6, EndQueuedIsWire, WireDone

LEMMA TransportFailsDone ==
  ASSUME IInv, CInv, NEW t \in Transports, TransportFails(t)
  PROVE  CInv' /\ ForcedOnly
<1>1. PICK c \in 0..Len(wire[t][Client].frames), s \in 0..Len(wire[t][Server].frames) :
          wire' = [wire EXCEPT
                     ![t][Client] = [frames |-> SubSeq(@.frames, 1, c), ended |-> TRUE],
                     ![t][Server] = [frames |-> SubSeq(@.frames, 1, s), ended |-> TRUE]]
  BY DEF TransportFails
<1>2. queue' = queue
  BY DEF TransportFails
<1>3. /\ wire \in [Transports -> [Ends -> StreamSet]]
      /\ Client # Server /\ Ends = {Client, Server}
  BY BoundsAssumption DEF IInv, Types, Ends
<1>4. ASSUME NEW d \in Ends, NEW k \in 0..Len(wire[t][d].frames), NEW h,
             h = SubSeq(wire[t][d].frames, 1, k)
      PROVE  h \in Seq(MeantFor(d))
  <2>1. PICK v \in Seq(MeantFor(d)) : v = wire[t][d].frames
    BY DEF CInv, PlainWire
  <2>2. v \in Seq(FrameSet)
    BY <1>3, <2>1, StreamFacts
  <2>3. h \in Seq(FrameSet) /\ Len(h) = k /\ Cut(h, v)
    BY <1>4, <2>1, <2>2, FrontFacts
  <2>4. \A i \in 1..Len(h) : h[i] \in MeantFor(d)
    <3>1. Len(v) \in Nat /\ \A i \in 1..Len(v) : v[i] \in MeantFor(d)
      BY <2>1
    <3>2. Len(h) \in Nat /\ Len(h) <= Len(v) /\ \A i \in 1..Len(h) : h[i] = v[i]
      BY <2>3 DEF Cut
    <3> QED BY <3>1, <3>2
  <2> QED BY <2>3, <2>4
<1>5. PlainWire'
  <2>1. SUFFICES ASSUME NEW u \in Transports, NEW d \in Ends
                 PROVE  wire'[u][d].frames \in Seq(MeantFor(d))
    BY DEF PlainWire
  <2>2. CASE u # t
    <3>1. wire'[u] = wire[u]
      BY <1>1, <1>3, <2>2
    <3> QED BY <3>1 DEF CInv, PlainWire
  <2>3. CASE u = t /\ d = Client
    <3>1. wire'[t][Client].frames = SubSeq(wire[t][Client].frames, 1, c)
      BY <1>1, <1>3
    <3> QED BY <1>1, <1>4, <2>3, <3>1
  <2>4. CASE u = t /\ d = Server
    <3>1. wire'[t][Server].frames = SubSeq(wire[t][Server].frames, 1, s)
      BY <1>1, <1>3
    <3> QED BY <1>1, <1>4, <2>4, <3>1
  <2> QED BY <1>3, <2>2, <2>3, <2>4
<1>6. PlainTasks'
  BY <1>2 DEF CInv, PlainTasks, PlainTask, MeantFor
<1> QED BY <1>5, <1>6, TransportFailsIsWire, WireDone

LEMMA RefuseResumeDone ==
  ASSUME IInv, CInv, NEW t \in Transports, RefuseResume(t)
  PROVE  CInv' /\ ForcedOnly
<1>1. Server \in Ends /\ Client \in Ends /\ Client = Peer(Server)
  BY BoundsAssumption DEF Ends, Peer
<1>2. PICK x \in EndSet : x = end[Server] /\ x.out = << >>
  BY <1>1, StateFacts
<1>3. PICK z : z = [x EXCEPT !.out = <<ErrorFrame>>]
  OBVIOUS
<1>4. ErrorFrame \in FrameSet /\ ErrorFrame \in MeantFor(Client)
  BY <1>1, FrameFacts, MeantFacts
<1>5. z \in EndSet /\ z.out = <<ErrorFrame>>
  BY <1>2, <1>3, <1>4, RefusedFacts
<1>6. z.pending = x.pending /\ z.closed = x.closed
  BY <1>3 DEF EndSet
<1>7. Sound(Client, z)
  <2>1. Sound(Client, x)
    BY <1>1, <1>2, StateSound
  <2>2. <<ErrorFrame>> \in Seq(MeantFor(Client))
    BY <1>4
  <2> QED BY <1>5, <1>6, <2>1, <2>2 DEF Sound
<1>8. Commit(Server, z, t, wire) /\ queue' = queue
  BY <1>2, <1>3 DEF RefuseResume
<1>9. StreamsPlain(wire) /\ wire \in [Transports -> [Ends -> StreamSet]] /\ Types
  BY DEF CInv, PlainWire, StreamsPlain, IInv, Types
<1>10. CommitIs(Server, Client, z, t, wire)
  BY <1>1, <1>5, <1>8, <1>9, CommitGives
<1>11. PlainWire'
  BY <1>1, <1>5, <1>7, <1>9, <1>10, CommitPlain DEF CInv
<1>12. PlainTasks'
  BY <1>8 DEF CInv, PlainTasks, PlainTask, MeantFor
<1> QED BY <1>11, <1>12, RefuseResumeIsWire, WireDone

-----------------------------------------------------------------------------
(* Connecting and resuming                                                 *)

LEMMA ClientConnectDone ==
  ASSUME Orderly, IInv, CInv, NEW writes, ClientConnect(writes)
  PROVE  CInv' /\ ForcedOnly
<1>1. PICK x : x = end[Client]
  OBVIOUS
<1>2. PICK y : y = end[Server]
  OBVIOUS
<1>3. PICK out \in Seq(FrameSet) : out = <<SetupFrame>>
  <2>1. <<SetupFrame>> \in Seq(FrameSet)
    BY FrameFacts
  <2> QED BY <2>1
<1>4. PICK z : z = Connect([x EXCEPT !.out = out], 1, TRUE, writes)
  OBVIOUS
<1>5. /\ ~x.closed /\ lastTransport = 0
      /\ Commit(Client, z, 1, wire)
      /\ queue' = queue /\ accepted' = accepted
  BY <1>1, <1>3, <1>4 DEF ClientConnect, IsOpen
<1>6. /\ Types /\ wire \in [Transports -> [Ends -> StreamSet]]
      /\ queue \in [Ends -> Seq(TaskSet)]
  BY DEF IInv, Types
<1>7. /\ Client \in Ends /\ Server \in Ends /\ Client # Server
      /\ Peer(Client) = Server /\ \A d \in Ends : d = Client \/ d = Server
  BY PeerFacts DEF Ends
<1>8. /\ x \in EndSet /\ Local(x) /\ Shape(Client, x) /\ x.transport = 0
  BY <1>1, <1>5, <1>7, StateFacts
<1>9. PICK n \in Nat : n = Len(end[Peer(Client)].delivered)
  BY <1>1, <1>7, FeedFacts
<1>10. Retains(x.cache, n)
  BY <1>1, <1>5, <1>7, <1>9, FeedFacts
<1>11. ConnectedIs(x, out, 1, n, z)
  <2>1. 1 \in Nat \ {0}
    OBVIOUS
  <2>2. z = SendPending(Attached(x, 1, out))
    BY <1>4, <1>8, <2>1, ConnectFacts
  <2>3. ConnectedOf(x, out, 1, n, z)
    BY <1>5, <1>8, <1>9, <1>10, <2>1, <2>2 DEF ConnectedOf
  <2> QED BY ONLY <2>3, ConnectedGives
<1>12. /\ z \in EndSet /\ z.transport = 1 /\ ~z.closed /\ z.pending = << >>
       /\ z.out = out \o x.pending
  BY <1>11 DEF ConnectedIs
<1>13. PICK a, b \in Seq(MeantFor(Server)) : a = out /\ b = x.pending
  <2>1. SetupFrame \in MeantFor(Server)
    BY <1>7, FrameFacts, MeantFacts
  <2>2. out \in Seq(MeantFor(Server))
    BY <1>3, <2>1
  <2>3. x.pending \in Seq(MeantFor(Server))
    BY <1>1, <1>5, <1>7 DEF CInv, PlainPending
  <2> QED BY <2>2, <2>3
<1>14. a # << >> /\ a[1] = SetupFrame
  BY <1>3, <1>13
<1>15. PICK g \in Seq(MeantFor(Server)) : g = a \o b
  <2>1. a \o b \in Seq(MeantFor(Server))
    BY <1>13
  <2> QED BY <2>1
<1>16. z.out = g /\ g # << >> /\ g[1].type = "SETUP"
  <2>1. a \in Seq(FrameSet) /\ b \in Seq(FrameSet)
    BY <1>3, <1>8, <1>13, EndFacts
  <2>2. (a \o b)[1] = a[1] /\ a \o b # << >>
    BY <1>14, <2>1, ConcatFirst
  <2> QED BY <1>12, <1>13, <1>14, <1>15, <2>2, FrameFacts
<1>17. Sound(Server, z)
  BY <1>12, <1>15, <1>16 DEF Sound
<1>18. CommitIs(Client, Server, z, 1, wire)
  BY ONLY <1>5, <1>6, <1>7, <1>12, CommitGives
<1>19. PlainWire' /\ PlainPending' /\ PlainTasks'
  <2>1. StreamsPlain(wire)
    BY DEF CInv, PlainWire, StreamsPlain
  <2>2. PlainWire' /\ PlainPending'
    BY <1>7, <1>12, <1>17, <1>18, <2>1, CommitPlain DEF CInv
  <2> QED BY <1>5, <2>2 DEF CInv, PlainTasks, PlainTask, MeantFor
<1>20. PICK s \in EndSet : s = Settled(z) /\ s.transport = 1 /\ ~s.closed
  BY <1>12, SettledFacts
<1>21. \A u \in Transports : /\ wire[u][Client].frames = << >>
                             /\ ~wire[u][Client].ended /\ ~wire[u][Server].ended
                             /\ wire[u][Server].frames = << >>
  <2>1. ASSUME NEW u \in Transports PROVE u # end[Client].transport /\ u > lastTransport
    BY <1>1, <1>5, <1>8 DEF Transports
  <2> QED BY <2>1 DEF IInv, ClientSide
<1>22. /\ end'[Client] = s /\ end'[Server] = y
       /\ \A u \in Transports :
             /\ wire'[u][Client].frames = << >>
             /\ wire'[u][Server].frames = IF u = 1 THEN << >> \o g ELSE << >>
  <2>1. \A u : ~Left(Client, z, 1, u)
    BY <1>1, <1>8, <1>12 DEF Left
  <2> QED BY <1>2, <1>16, <1>18, <1>20, <1>21, <2>1 DEF CommitIs
<1>23. Line(Client)' = << >>
  <2>1. Via(Client)' = 1 /\ 1 \in Transports
    BY <1>7, <1>20, <1>22, BoundsAssumption DEF Via, Transports
  <2>2. Arriving(Client)' = << >>
    BY <1>22, <2>1 DEF Arriving
  <2>3. queue[Client] = << >>
    BY <1>5 DEF IInv, Unopened
  <2>4. << >> \in Seq(FrameSet) /\ queue[Client] \in Seq(TaskSet)
    BY <1>6, <1>7
  <2> QED BY <1>5, <2>2, <2>3, <2>4, LineNoTasks DEF Line
<1>24. Held'
  BY <1>23 DEF Held, HoldsOk
<1>25. ASSUME NEW u \in Transports, Waiting(u)' PROVE FALSE
  <2>1. wire'[u][Server].frames # << >> /\ wire'[u][Server].frames[1].type = "RESUME"
    BY <1>25 DEF Waiting
  <2>2. << >> \o g = g
    BY <1>15
  <2> QED BY <1>16, <1>22, <2>1, <2>2
<1>26. Fresh'
  BY <1>25 DEF Fresh
<1>27. Newest'
  BY <1>2, <1>5, <1>22 DEF CInv, Newest
<1>28. ForcedOnly
  BY <1>2, <1>7, <1>20, <1>22 DEF ForcedOnly
<1> QED BY <1>19, <1>24, <1>26, <1>27, <1>28 DEF CInv

(***************************************************************************)
(* Where the client is when it asks to resume: the server can send from    *)
(* there on, and the client from where the server is, unless its cache is  *)
(* full.                                                                   *)
(***************************************************************************)
LEMMA WithinReach ==
  ASSUME Sized, IInv, NEW e \in Ends, NEW x, x = end[e], ~x.closed,
         NEW y, y = end[Peer(e)]
  PROVE  /\ ~y.closed => Len(x.delivered) <= y.cache.position
         /\ \/ x.cache.resetPosition <= Len(y.delivered)
            \/ x.cache.position - x.cache.resetPosition = Capacity
<1>1. /\ x \in EndSet /\ Local(x) /\ Towards(e) /\ Line(e) \in Seq(ItemSet)
      /\ Peer(e) \in Ends
  BY StateFacts, PeerFacts
<1>2. PICK r \in Nat : r = Len(x.delivered)
  BY <1>1, EndFacts
<1>3. ~y.closed => r <= y.cache.position
  <2>1. SUFFICES ASSUME ~y.closed PROVE r <= y.cache.position
    OBVIOUS
  <2>2. Fed(x, y, Line(e), Sends(y, e))
    BY <1>1 DEF Towards
  <2>3. PICK m \in Nat : Flow(Line(e), r, m) /\ m <= y.cache.position
    BY <1>2, <2>1, <2>2 DEF Fed
  <2>4. r <= m
    BY <1>1, <1>2, <2>3, FlowGrows
  <2>5. y \in EndSet
    BY <1>1, StateFacts
  <2>6. y.cache.position \in Nat
    BY <2>5, EndFacts
  <2> QED BY <2>3, <2>4, <2>6
<1>4. PICK c \in CacheSet : c = x.cache /\ Counted(c)
  BY <1>1, EndFacts DEF Local
<1>5. PICK n \in Nat : n = Len(y.delivered) /\ Retains(c, n)
  BY <1>4, FeedFacts
<1>6. PICK k \in Nat, q \in Nat : k = Len(c.frames) /\ q = c.position
  BY <1>4 DEF CacheSet
<1>7. c.resetPosition = q - k /\ (k = Capacity \/ q - k <= n)
  BY <1>4, <1>5, <1>6 DEF Counted, Retains
<1>8. c.resetPosition <= n \/ q - c.resetPosition = Capacity
  BY <1>6, <1>7
<1> QED BY <1>2, <1>3, <1>4, <1>5, <1>6, <1>8

LEMMA TryClientResumeDone ==
  ASSUME Orderly, Sized, IInv, CInv, NEW writes, TryClientResume(writes)
  PROVE  CInv' /\ ForcedOnly
<1>1. PICK x : x = end[Client]
  OBVIOUS
<1>2. PICK y : y = end[Server]
  OBVIOUS
<1>3. PICK f : f = ResumeFrame(x.cache.impliedPosition, x.cache.resetPosition)
  OBVIOUS
<1>4. PICK t : t = lastTransport + 1
  OBVIOUS
<1>5. PICK z : z = Connect([Disconnect(x) EXCEPT !.out = <<f>>, !.resuming = TRUE], t, FALSE, writes)
  OBVIOUS
<1>6. /\ ~x.closed /\ lastTransport \in 1..MaxTransports - 1
      /\ Drained => queue[Client] = << >>
      /\ Commit(Client, z, t, wire)
      /\ queue' = queue /\ accepted' = accepted
  BY <1>1, <1>3, <1>4, <1>5 DEF TryClientResume, IsOpen
<1>7. /\ Types /\ wire \in [Transports -> [Ends -> StreamSet]]
      /\ queue \in [Ends -> Seq(TaskSet)]
  BY DEF IInv, Types
<1>8. /\ Client \in Ends /\ Server \in Ends /\ Client # Server
      /\ Peer(Client) = Server /\ \A d \in Ends : d = Client \/ d = Server
  BY PeerFacts DEF Ends
<1>9. /\ x \in EndSet /\ Local(x) /\ Shape(Client, x) /\ x.out = << >>
      /\ Towards(Client) /\ x.transport \in 0..lastTransport
  BY <1>1, <1>8, StateFacts
<1>10. t \in Nat /\ t # 0 /\ t \in Transports /\ t > lastTransport /\ x.transport # t
  BY <1>4, <1>6, <1>9, BoundsAssumption DEF Transports
<1>11. queue[Client] = << >>
  BY <1>6, <1>8, <1>9 DEF Orderly, Towards
<1>12. /\ f \in FrameSet /\ f.type = "RESUME"
       /\ f.a = Len(x.delivered) /\ f.b = x.cache.resetPosition
  <2>1. x.cache.impliedPosition \in Nat /\ x.cache.resetPosition \in Nat
    BY <1>9, EndFacts DEF CacheSet
  <2>2. x.cache.impliedPosition = Len(x.delivered)
    BY <1>6, <1>9, LocalOpen
  <2>3. f.b = x.cache.resetPosition
    BY <1>3 DEF ResumeFrame, Frame
  <2> QED BY <1>3, <2>1, <2>2, <2>3, FrameFacts
<1>13. PICK out \in Seq(FrameSet) : out = <<f>>
  <2>1. <<f>> \in Seq(FrameSet)
    BY <1>12
  <2> QED BY <2>1
<1>14. /\ z \in EndSet /\ z.transport = t /\ ~z.closed /\ z.resuming /\ z.out = out
       /\ z.cache = x.cache /\ z.delivered = x.delivered
       /\ z.pending = Disconnect(x).pending
  <2>1. z = Connect(Resuming(x, out), t, FALSE, writes)
    BY <1>5, <1>13 DEF Resuming
  <2>2. ~x.closed
    BY <1>6
  <2>3. ResumingOf(x, t, out, writes, z)
    BY <1>9, <1>10, <2>1, <2>2 DEF ResumingOf
  <2>4. ResumingIs(x, t, out, z)
    BY <2>3, ResumingFacts
  <2> QED BY <2>4 DEF ResumingIs
<1>15. Sound(Server, z)
  <2>1. f \in MeantFor(Server)
    BY <1>8, <1>12, MeantFacts
  <2>2. out \in Seq(MeantFor(Server))
    BY <1>13, <2>1
  <2>3. Sound(Server, x)
    BY <1>1, <1>8, StateSound
  <2>4. Disconnect(x).pending = x.pending
    BY <1>8, <1>9, <2>3, DisconnectSound
  <2> QED BY <1>6, <1>14, <2>2, <2>3, <2>4 DEF Sound
<1>16. CommitIs(Client, Server, z, t, wire)
  BY ONLY <1>6, <1>7, <1>8, <1>14, CommitGives
<1>17. PlainWire' /\ PlainPending' /\ PlainTasks'
  <2>1. StreamsPlain(wire)
    BY DEF CInv, PlainWire, StreamsPlain
  <2>2. PlainWire' /\ PlainPending'
    BY <1>8, <1>14, <1>15, <1>16, <2>1, CommitPlain DEF CInv
  <2> QED BY <1>6, <2>2 DEF CInv, PlainTasks, PlainTask, MeantFor
<1>18. PICK s \in EndSet : /\ s = Settled(z) /\ s.transport = t /\ ~s.closed /\ s.resuming
                           /\ s.cache = x.cache /\ s.delivered = x.delivered
  BY <1>14, SettledFacts
<1>19. /\ end'[Client] = s /\ end'[Server] = y
       /\ wire'[t][Client].frames = << >> /\ wire'[t][Server].frames = << >> \o out
       /\ \A u \in Transports : u # t => wire'[u][Server].frames = wire[u][Server].frames
  <2>1. wire[t][Client].frames = << >> /\ wire[t][Server].frames = << >> /\ ~wire[t][Server].ended
    BY <1>1, <1>10 DEF IInv, ClientSide
  <2>2. ~Left(Client, z, t, t)
    BY <1>1, <1>10, <1>14 DEF Left
  <2> QED BY <1>2, <1>10, <1>14, <1>16, <1>18, <2>1, <2>2 DEF CommitIs
<1>20. Line(Client)' = << >>
  <2>1. Via(Client)' = t
    BY <1>8, <1>18, <1>19 DEF Via
  <2>2. Arriving(Client)' = << >>
    BY <1>10, <1>19, <2>1 DEF Arriving
  <2>3. << >> \in Seq(FrameSet) /\ queue[Client] \in Seq(TaskSet)
    BY <1>7, <1>8
  <2> QED BY <1>6, <1>11, <2>2, <2>3, LineNoTasks DEF Line
<1>21. Held'
  BY <1>20 DEF Held, HoldsOk
<1>22. AllIn(<< >>, 1, {"END", "ERROR"})
  BY DEF AllIn
<1>23. ASSUME NEW u \in Transports, Waiting(u)'
       PROVE  FreshBy(wire'[u][Server].frames[1], Line(Client)', end'[Client], end'[Server])
  <2>1. CASE u = t
    <3>1. << >> \o out = out /\ out[1] = f
      BY <1>13
    <3>2. wire'[u][Server].frames[1] = f
      BY <1>19, <2>1, <3>1
    <3>3. /\ ~y.closed => Len(x.delivered) <= y.cache.position
          /\ \/ x.cache.resetPosition <= Len(y.delivered)
             \/ x.cache.position - x.cache.resetPosition = Capacity
      BY <1>1, <1>2, <1>6, <1>8, WithinReach
    <3>4. FreshBy(f, << >>, s, y)
      BY <1>12, <1>18, <1>22, <3>3 DEF FreshBy
    <3> QED BY <1>19, <1>20, <3>2, <3>4
  <2>2. CASE u # t
    <3>1. PICK h : h = wire[u][Server].frames[1] /\ h = wire'[u][Server].frames[1]
      BY <1>19, <2>2
    <3>2. Waiting(u)
      BY <1>2, <1>6, <1>19, <1>23, <2>2 DEF Waiting
    <3>3. FreshBy(h, Line(Client), x, y)
      BY <1>1, <1>2, <3>1, <3>2 DEF CInv, Fresh
    <3>4. FreshBy(h, << >>, s, y)
      BY <1>18, <1>22, <3>3 DEF FreshBy
    <3> QED BY <1>19, <1>20, <3>1, <3>4
  <2> QED BY <2>1, <2>2
<1>24. Fresh'
  BY <1>23 DEF Fresh, FreshBy, Waiting, AllIn
<1>25. Newest'
  BY <1>2, <1>6, <1>19 DEF CInv, Newest
<1>26. ForcedOnly
  BY <1>2, <1>8, <1>18, <1>19 DEF ForcedOnly
<1> QED BY <1>17, <1>21, <1>24, <1>25, <1>26 DEF CInv

LEMMA ServerSetupDone ==
  ASSUME Orderly, IInv, CInv, NEW t \in Transports, NEW writes, ServerSetup(t, writes)
  PROVE  CInv' /\ ForcedOnly
<1>1. PICK x : x = end[Server]
  OBVIOUS
<1>2. PICK y : y = end[Client]
  OBVIOUS
<1>3. PICK streams : streams = Consume(t, Server)
  OBVIOUS
<1>4. PICK z : z = Connect(x, t, TRUE, writes)
  OBVIOUS
<1>5. /\ x.transport # t /\ wire[t][Server].frames # << >>
      /\ Head(wire[t][Server].frames).type = "SETUP"
      /\ Commit(Server, z, t, streams)
      /\ accepted' = t /\ queue' = queue
  BY <1>1, <1>3, <1>4 DEF ServerSetup, FirstFrame
<1>6. /\ Types /\ wire \in [Transports -> [Ends -> StreamSet]]
      /\ queue \in [Ends -> Seq(TaskSet)]
  BY DEF IInv, Types
<1>7. /\ Client \in Ends /\ Server \in Ends /\ Client # Server
      /\ Peer(Server) = Client /\ \A d \in Ends : d = Client \/ d = Server
  BY PeerFacts DEF Ends
<1>8. t = 1 /\ accepted = 0
  <2>1. wire[t][Server].frames \in Seq(FrameSet)
    BY <1>6, <1>7, StreamFacts
  <2>2. wire[t][Server].frames[1].type = "SETUP"
    BY <1>5, <2>1, TailFacts
  <2>3. ~Asked(t)
    BY <1>5, <2>2 DEF Asked
  <2>4. t = Via(Server)
    BY <2>3 DEF IInv, ServerSide
  <2> QED BY <1>1, <1>5, <2>4 DEF Via
<1>9. x = NewEnd
  BY <1>1, <1>8 DEF IInv, Unset
<1>10. x.transport = 0 /\ ~x.closed /\ x.cache.position = 0
  BY <1>9, NewEndFacts
<1>11. x \in EndSet /\ Local(x) /\ Shape(Server, x)
  BY <1>1, <1>7, StateFacts
<1>12. PICK n \in Nat : n = Len(end[Peer(Server)].delivered)
  BY <1>1, <1>7, FeedFacts
<1>13. Retains(x.cache, n)
  BY <1>1, <1>7, <1>10, <1>12, FeedFacts
<1>14. /\ z \in EndSet /\ z.transport = 1 /\ ~z.closed /\ z.pending = << >> /\ z.out = << >>
       /\ z.delivered = x.delivered /\ z.cache.position = 0
  <2>1. SetUpOf(x, n, writes, z)
    BY <1>4, <1>8, <1>9, <1>11, <1>12, <1>13 DEF SetUpOf
  <2>2. SetUpIs(x, n, z)
    BY <2>1, SetUpFacts
  <2> QED BY <2>2 DEF SetUpIs
<1>15. Sound(Client, z)
  <2>1. << >> \in Seq(MeantFor(Client))
    OBVIOUS
  <2> QED BY <1>14, <2>1 DEF Sound
<1>16. /\ streams \in [Transports -> [Ends -> StreamSet]]
       /\ \A u \in Transports : \A d \in Ends :
             streams[u][d].ended = wire[u][d].ended /\ streams[u][d].frames =
                IF u = t /\ d = Server THEN Tail(wire[u][d].frames) ELSE wire[u][d].frames
  BY <1>3, <1>5, <1>6, <1>7, ConsumeFacts
<1>17. CommitIs(Server, Client, z, t, streams)
  BY ONLY <1>5, <1>6, <1>7, <1>14, <1>16, CommitGives
<1>18. PlainWire' /\ PlainPending' /\ PlainTasks'
  <2>1. StreamsPlain(streams)
    BY <1>3, <1>5, <1>7, ConsumePlain DEF CInv
  <2>2. PlainWire' /\ PlainPending'
    BY <1>7, <1>14, <1>15, <1>17, <2>1, CommitPlain DEF CInv
  <2> QED BY <1>5, <2>2 DEF CInv, PlainTasks, PlainTask, MeantFor
<1>19. PICK s \in EndSet : /\ s = Settled(z) /\ s.transport = 1 /\ ~s.closed
                           /\ s.cache = z.cache /\ s.delivered = x.delivered
  BY <1>14, SettledFacts
<1>20. /\ end'[Server] = s /\ end'[Client] = y
       /\ \A u \in Transports :
             /\ wire'[u][Client].frames = wire[u][Client].frames
             /\ u # 1 => wire'[u][Server].frames = wire[u][Server].frames
  <2>1. \A u : ~Left(Server, z, t, u)
    BY <1>1, <1>8, <1>10, <1>14 DEF Left
  <2>2. \A u \in Transports : wire[u][Client].frames \o << >> = wire[u][Client].frames
    BY <1>6, <1>7, StreamFacts, ConcatEmptySeq
  <2>3. /\ end'[Server] = s /\ end'[Client] = y
        /\ \A u \in Transports :
              /\ wire'[u][Server] = streams[u][Server]
              /\ wire'[u][Client].frames = IF u = t /\ ~streams[u][Client].ended
                                           THEN streams[u][Client].frames \o << >>
                                           ELSE streams[u][Client].frames
    BY <1>2, <1>14, <1>17, <1>19, <2>1 DEF CommitIs
  <2> QED BY <1>7, <1>8, <1>16, <2>2, <2>3
<1>21. Line(Client)' = Line(Client)
  <2>1. Via(Client)' = Via(Client) /\ Via(Client) = y.transport
    BY <1>2, <1>7, <1>20 DEF Via
  <2>2. y.transport # 0 => y.transport \in Transports
    BY <1>2, <1>7, StateFacts, BoundsAssumption DEF Transports
  <2>3. Arriving(Client)' = Arriving(Client)
    BY <1>20, <2>1, <2>2 DEF Arriving
  <2> QED BY <1>5, <2>3 DEF Line
<1>22. Held'
  BY <1>2, <1>20, <1>21 DEF CInv, Held, HoldsOk
<1>23. ASSUME NEW u \in Transports, Waiting(u)'
       PROVE  FreshBy(wire'[u][Server].frames[1], Line(Client)', end'[Client], end'[Server])
  <2>1. u # 1 /\ wire'[u][Server].frames = wire[u][Server].frames /\ u # 0 /\ u >= 0
    BY <1>19, <1>20, <1>23 DEF Waiting, Transports
  <2>2. Waiting(u)
    BY <1>1, <1>8, <1>10, <1>23, <2>1 DEF Waiting
  <2>3. PICK h : h = wire[u][Server].frames[1]
    OBVIOUS
  <2>4. FreshBy(h, Line(Client), y, x)
    BY <1>1, <1>2, <2>2, <2>3 DEF CInv, Fresh
  <2>5. FreshBy(h, Line(Client), y, s)
    BY <1>10, <1>14, <1>19, <2>4 DEF FreshBy
  <2> QED BY <1>20, <1>21, <2>1, <2>3, <2>5
<1>24. Fresh'
  BY <1>23 DEF Fresh, FreshBy, Waiting, AllIn
<1>25. Newest'
  BY <1>5, <1>8, <1>19, <1>20 DEF Newest
<1>26. ForcedOnly
  BY <1>2, <1>7, <1>19, <1>20 DEF ForcedOnly
<1> QED BY <1>18, <1>22, <1>24, <1>25, <1>26 DEF CInv

(***************************************************************************)
(* The RESUME that the server looks at says where the client is, unless it *)
(* comes from a connection older than the newest.                          *)
(***************************************************************************)
LEMMA LooksAtFresh ==
  ASSUME IInv, CInv, NEW t \in Transports, FirstFrame(t, "RESUME"), t >= accepted,
         NEW f, f = Head(wire[t][Server].frames)
  PROVE  f \in FrameSet /\ FreshBy(f, Line(Client), end[Client], end[Server])
<1>1. /\ end[Server].transport # t /\ wire[t][Server].frames # << >>
      /\ Head(wire[t][Server].frames).type = "RESUME"
  BY DEF FirstFrame
<1>2. wire \in [Transports -> [Ends -> StreamSet]] /\ Server \in Ends
  BY DEF IInv, Types, Ends
<1>3. PICK v \in Seq(FrameSet) : v = wire[t][Server].frames
  BY <1>2, StreamFacts
<1>4. f = v[1] /\ v[1] \in FrameSet
  BY <1>1, <1>3, TailFacts
<1>5. Waiting(t)
  BY <1>1, <1>3, <1>4 DEF Waiting
<1>6. FreshBy(wire[t][Server].frames[1], Line(Client), end[Client], end[Server])
  BY <1>5 DEF CInv, Fresh
<1> QED BY <1>3, <1>4, <1>6

LEMMA RefusedIsOutOfReach ==
  ASSUME Sized, IInv, CInv, NEW t \in Transports, FirstFrame(t, "RESUME"),
         NEW x, x = end[Server], ~x.closed, NEW f, f = Head(wire[t][Server].frames),
         ~(ClientPositionExists(x.cache, f.b) /\ IsPositionAvailable(x.cache, f.a))
  PROVE  ResumeOutOfReach(t)
<1>1. t \in Nat /\ accepted \in Nat
  BY DEF Transports, IInv, Types
<1>2. CASE t < accepted
  BY <1>2 DEF ResumeOutOfReach
<1>3. CASE ~(t < accepted)
  <2>1. PICK y : y = end[Client]
    OBVIOUS
  <2>2. f \in FrameSet /\ FreshBy(f, Line(Client), y, x)
    BY <1>1, <1>3, <2>1, LooksAtFresh
  <2>3. Client \in Ends /\ Server \in Ends /\ Peer(Server) = Client
    BY PeerFacts DEF Ends
  <2>4. x \in EndSet /\ Local(x) /\ y \in EndSet
    BY <2>1, <2>3, StateFacts
  <2>5. PICK c \in CacheSet : c = x.cache /\ Cached(c)
    BY <2>4, EndFacts, LocalOpen
  <2>6. PICK k \in Nat, q \in Nat : k = Len(c.frames) /\ q = c.position
    BY <2>5 DEF CacheSet
  <2>7. PICK n \in Nat : n = Len(y.delivered) /\ Retains(c, n)
    BY <2>1, <2>3, <2>5, FeedFacts
  <2>8. k = Capacity \/ q - k <= n
    BY <2>6, <2>7 DEF Retains
  <2>9. f.a = n /\ n <= q
    BY <2>2, <2>5, <2>6, <2>7 DEF FreshBy
  <2>10. c.impliedPosition = Len(x.delivered)
    BY <2>4, <2>5, LocalOpen
  <2>11. CASE ~ClientPositionExists(c, f.b)
    <3>1. PICK d \in CacheSet : d = y.cache
      BY <2>4, EndFacts
    <3>2. PICK r \in Nat, m \in Nat, i \in Nat :
            r = d.resetPosition /\ m = d.position /\ i = c.impliedPosition
      BY <2>5, <3>1 DEF CacheSet
    <3>3. f.b = r /\ (r <= i \/ m - r = Capacity)
      BY <2>2, <2>10, <3>1, <3>2 DEF FreshBy
    <3>4. PositionInResume /\ ~(r <= i)
      BY <2>11, <3>2, <3>3 DEF ClientPositionExists, CanResumeFrom
    <3>5. m - i > Capacity
      BY <3>2, <3>3, <3>4, CapacityAssumption
    <3> QED BY <2>1, <2>5, <3>1, <3>2, <3>4, <3>5 DEF ResumeOutOfReach
  <2>12. CASE ~IsPositionAvailable(c, f.a)
    <3>1. ~(q - k <= n)
      BY <2>5, <2>6, <2>9, <2>12, AvailableFrom
    <3>2. q - f.a > Capacity
      BY <2>6, <2>7, <2>8, <2>9, <3>1, CapacityAssumption
    <3> QED BY <2>5, <2>6, <3>2 DEF ResumeOutOfReach
  <2> QED BY <2>5, <2>11, <2>12
<1> QED BY <1>2, <1>3

(***************************************************************************)
(* What the server outputs when it looks at RESUME is for the client.      *)
(***************************************************************************)
LEMMA AnswerSound ==
  ASSUME Orderly, NEW x, Sound(Client, x), NEW t, NEW f, NEW n, NEW writes, NEW z,
         AnswerOf(x, t, f, n, writes, z)
  PROVE  Sound(Client, z)
<1>1. /\ x \in EndSet /\ ~x.closed /\ Local(x) /\ t # 0 /\ f \in FrameSet
  BY DEF AnswerOf
<1>2. PICK b : AnswerCase(x, t, f, writes, z, b)
  BY AnswerCases
<1>3. /\ b \in EndSet /\ Local(b) /\ b.transport = t /\ ~b.closed /\ ~b.resuming
      /\ b.cache = x.cache /\ b.pending = Disconnect(x).pending
  BY <1>2 DEF AnswerCase, AnswersOn
<1>4. Client \in Ends
  BY DEF Ends
<1>5. b.pending \in Seq(MeantFor(Client))
  <2>1. Disconnect(x).pending = x.pending
    BY <1>1, <1>4, DisconnectSound
  <2> QED BY <1>1, <1>3, <2>1 DEF Sound
<1>6. CASE ClientPositionExists(x.cache, f.b) /\ IsPositionAvailable(x.cache, f.a)
  <2>1. b.out = <<ResumeOkFrame(Len(x.delivered))>> /\ z = ResumeFromPosition(b, f.a, writes)
    BY <1>2, <1>6 DEF AnswerCase
  <2>2. PICK r : r = ResumeOkFrame(Len(x.delivered))
    OBVIOUS
  <2>3. r \in MeantFor(Client)
    <3>1. Len(x.delivered) \in Nat
      BY <1>1, EndFacts
    <3>2. r \in FrameSet /\ r.type = "RESUME_OK"
      BY <2>2, <3>1, FrameFacts
    <3> QED BY <1>4, <3>2, MeantFacts
  <2>4. <<r>> \in Seq(MeantFor(Client))
    BY <2>3
  <2>5. Sound(Client, b)
    BY <1>5, <2>1, <2>2, <2>4 DEF Sound
  <2>6. PICK q \in Nat : q = f.a
    BY <1>1, FrameIsItem, ItemFacts
  <2>7. b.transport # 0 /\ IsPositionAvailable(b.cache, q) /\ z = ResumeFromPosition(b, q, writes)
    BY <1>1, <1>3, <1>6, <2>1, <2>6
  <2> QED BY <1>3, <1>4, <2>5, <2>7, ReplaySound
<1>7. CASE ~(ClientPositionExists(x.cache, f.b) /\ IsPositionAvailable(x.cache, f.a))
  <2>1. b.out = << >> /\ z = CloseWithError(b)
    BY <1>2, <1>7 DEF AnswerCase
  <2>2. << >> \in Seq(MeantFor(Client))
    OBVIOUS
  <2>3. Sound(Client, b)
    BY <1>5, <2>1, <2>2 DEF Sound
  <2>4. Cached(b.cache)
    BY <1>3, LocalOpen
  <2> QED BY <1>3, <1>4, <2>1, <2>3, <2>4, CloseWithErrorSound
<1> QED BY <1>6, <1>7

(***************************************************************************)
(* A server that is resumed could be; one that is closed could not.        *)
(***************************************************************************)
LEMMA AnswerTells ==
  ASSUME Orderly, NEW x, NEW t, NEW f, NEW n, NEW writes, NEW z,
         AnswerOf(x, t, f, n, writes, z)
  PROVE  IF ClientPositionExists(x.cache, f.b) /\ IsPositionAvailable(x.cache, f.a)
         THEN ~z.closed ELSE z.closed
<1>1. /\ x \in EndSet /\ ~x.closed /\ Local(x) /\ t # 0 /\ f \in FrameSet
      /\ n \in Nat /\ Retains(x.cache, n)
  BY DEF AnswerOf
<1>2. PICK b : AnswerCase(x, t, f, writes, z, b)
  BY AnswerCases
<1>3. /\ b \in EndSet /\ Local(b) /\ b.transport = t /\ ~b.closed /\ ~b.resuming /\ ~b.awaiting
      /\ b.cache = x.cache
  BY <1>2 DEF AnswerCase, AnswersOn
<1>4. CASE ClientPositionExists(x.cache, f.b) /\ IsPositionAvailable(x.cache, f.a)
  <2>1. z = ResumeFromPosition(b, f.a, writes)
    BY <1>2, <1>4 DEF AnswerCase
  <2>2. f.a \in Nat
    BY <1>1, FrameIsItem, ItemFacts
  <2>3. /\ ~b.closed /\ b.transport # 0 /\ ~b.resuming
        /\ Retains(b.cache, n) /\ IsPositionAvailable(b.cache, f.a)
    BY <1>1, <1>3, <1>4
  <2>4. PICK w \in Seq(FrameSet) : Passes(b, z, w, n) /\ Flow(w, f.a, z.cache.position)
    BY <1>1, <1>3, <2>1, <2>2, <2>3, ReplayPasses
  <2>5. ~z.closed
    BY <1>3, <2>4 DEF Passes
  <2> QED BY <1>4, <2>5
<1>5. CASE ~(ClientPositionExists(x.cache, f.b) /\ IsPositionAvailable(x.cache, f.a))
  <2>1. b.out = << >> /\ z = CloseWithError(b)
    BY <1>2, <1>5 DEF AnswerCase
  <2>2. Cached(b.cache) /\ b.transport # 0
    BY <1>1, <1>3, LocalOpen
  <2>3. z.closed
    BY <1>3, <2>1, <2>2, CloseWithErrorGives
  <2> QED BY <1>5, <2>3
<1> QED BY <1>4, <1>5

LEMMA TryResumeServerDone ==
  ASSUME Orderly, Sized, IInv, CInv, NEW t \in Transports, NEW writes,
         TryResumeServer(t, writes)
  PROVE  CInv' /\ ForcedOnly
<1>1. PICK x : x = end[Server]
  OBVIOUS
<1>2. PICK y : y = end[Client]
  OBVIOUS
<1>3. PICK streams : streams = Consume(t, Server)
  OBVIOUS
<1>4. PICK f : f = Head(wire[t][Server].frames)
  OBVIOUS
<1>5. PICK z : z = ResumeFromPositionOrClose(Connect(Disconnect(x), t, FALSE, writes), f, writes)
  OBVIOUS
<1>6. /\ FirstFrame(t, "RESUME") /\ ~x.closed /\ accepted # 0
      /\ x.transport # t /\ wire[t][Server].frames # << >>
      /\ Commit(Server, z, t, streams)
      /\ accepted' = IF t > accepted THEN t ELSE accepted
      /\ queue' = queue
  BY <1>1, <1>3, <1>4, <1>5 DEF TryResumeServer, FirstFrame, IsOpen
<1>7. /\ Types /\ wire \in [Transports -> [Ends -> StreamSet]]
      /\ queue \in [Ends -> Seq(TaskSet)]
      /\ lastTransport \in Nat /\ accepted \in 0..lastTransport
  BY BoundsAssumption DEF IInv, Types
<1>8. /\ Client \in Ends /\ Server \in Ends /\ Client # Server
      /\ Peer(Server) = Client /\ \A d \in Ends : d = Client \/ d = Server
  BY PeerFacts DEF Ends
<1>9. x \in EndSet /\ Local(x) /\ Shape(Server, x) /\ x.out = << >>
  BY <1>1, <1>8, StateFacts
<1>10. /\ y \in EndSet /\ Shape(Client, y) /\ Towards(Client)
       /\ Arriving(Client) \in Seq(FrameSet) /\ y.transport \in 0..lastTransport
  BY <1>2, <1>8, StateFacts
<1>11. /\ y.transport \in {0, lastTransport}
       /\ \A u \in Transports :
          /\ u # y.transport /\ u <= lastTransport => wire[u][Client].ended
          /\ u > lastTransport => wire[u][Server].frames = << >>
  BY <1>2 DEF IInv, ClientSide
<1>12. t \in Nat /\ t # 0 /\ t <= lastTransport
  <2>1. ~(t > lastTransport)
    BY <1>6, <1>11
  <2> QED BY <1>7, <2>1 DEF Transports
<1>13. /\ f \in FrameSet /\ Tail(wire[t][Server].frames) = << >>
       /\ y.transport = t => y.resuming /\ AllEnd(Line(Client))
  <2>1. PICK fs \in Seq(FrameSet) : fs = wire[t][Server].frames
    BY <1>7, <1>8, StreamFacts
  <2>2. /\ f \in FrameSet /\ Tail(fs) \in Seq(FrameSet)
        /\ Len(Tail(fs)) = Len(fs) - 1
    BY <1>4, <1>6, <2>1, TailFacts
  <2>3. Asked(t)
    <3>1. Via(Server) = x.transport
      BY <1>1, <1>6 DEF Via
    <3> QED BY <1>6, <3>1 DEF IInv, ServerSide
  <2>4. Len(fs) = 1 /\ (y.transport = t => y.resuming /\ AllEnd(Line(Client)))
    BY <1>2, <1>6, <2>1, <2>3 DEF Asked
  <2>5. Len(Tail(fs)) = 0
    BY <2>2, <2>4
  <2> QED BY <2>1, <2>2, <2>4, <2>5, EmptySeq
<1>14. PICK n \in Nat : n = Len(end[Peer(Server)].delivered)
  BY <1>1, <1>8, FeedFacts
<1>15. Retains(x.cache, n)
  BY <1>1, <1>6, <1>8, <1>14, FeedFacts
<1>16. AnswerOf(x, t, f, n, writes, z)
  BY <1>5, <1>6, <1>9, <1>12, <1>13, <1>14, <1>15 DEF AnswerOf
<1>17. /\ z \in EndSet /\ z.out \in Seq(FrameSet) /\ z.delivered = x.delivered
       /\ RefusesIs(z) \/ ResumesIs(x, t, f, n, z)
  <2>1. AnswerIs(x, t, f, n, z)
    BY <1>16, AnswerGives
  <2> QED BY <2>1, EndFacts DEF AnswerIs
<1>18. Sound(Client, z)
  <2>1. Sound(Client, x)
    BY <1>1, <1>8, StateSound
  <2> QED BY <1>16, <2>1, AnswerSound
<1>19. IF ClientPositionExists(x.cache, f.b) /\ IsPositionAvailable(x.cache, f.a)
       THEN ~z.closed ELSE z.closed
  BY <1>16, AnswerTells
<1>20. PICK s \in EndSet : /\ s = Settled(z) /\ s.transport = z.transport /\ s.closed = z.closed
                           /\ s.cache = z.cache /\ s.delivered = x.delivered
  BY <1>17, SettledFacts
<1>21. PICK o \in Seq(ItemSet) : o = z.out
  BY <1>17, FrameIsItem
<1>22. /\ streams \in [Transports -> [Ends -> StreamSet]]
       /\ \A u \in Transports : \A d \in Ends :
             streams[u][d].ended = wire[u][d].ended /\ streams[u][d].frames =
                IF u = t /\ d = Server THEN Tail(wire[u][d].frames) ELSE wire[u][d].frames
  BY <1>3, <1>6, <1>7, <1>8, ConsumeFacts
<1>23. CommitIs(Server, Client, z, t, streams)
  BY ONLY <1>6, <1>7, <1>8, <1>17, <1>22, CommitGives
<1>24. PlainWire' /\ PlainPending' /\ PlainTasks'
  <2>1. StreamsPlain(streams)
    BY <1>3, <1>6, <1>8, ConsumePlain DEF CInv
  <2>2. PlainWire' /\ PlainPending'
    BY <1>8, <1>17, <1>18, <1>23, <2>1, CommitPlain DEF CInv
  <2> QED BY <1>6, <2>2 DEF CInv, PlainTasks, PlainTask, MeantFor
<1>25. end'[Server] = s /\ end'[Client] = y
  BY <1>2, <1>20, <1>23 DEF CommitIs
<1>26. (z.closed /\ z.transport = 0) \/ (~z.closed /\ z.transport = t)
  BY <1>17 DEF RefusesIs, ResumesIs
<1>27. ASSUME NEW u \in Transports
       PROVE  /\ wire'[u][Server].frames = IF u = x.transport \/ u = t THEN << >>
                                           ELSE wire[u][Server].frames
              /\ wire'[u][Client].frames = IF u = t /\ ~wire[t][Client].ended
                                           THEN wire[t][Client].frames \o o
                                           ELSE wire[u][Client].frames
  <2>1. /\ wire'[u][Server] = IF Left(Server, z, t, u) THEN DeadStream ELSE streams[u][Server]
        /\ wire'[u][Client].frames = IF u = t /\ ~streams[u][Client].ended
                                     THEN streams[u][Client].frames \o o
                                     ELSE streams[u][Client].frames
    BY <1>21, <1>23 DEF CommitIs
  <2>2. /\ streams[u][Client].ended = wire[u][Client].ended
        /\ streams[u][Client].frames = wire[u][Client].frames
        /\ streams[u][Server].frames = IF u = t THEN << >> ELSE wire[u][Server].frames
    BY <1>8, <1>13, <1>22
  <2>3. DeadStream.frames = << >>
    BY DEF DeadStream
  <2>4. u # 0
    BY DEF Transports
  <2>5. /\ u = x.transport => Left(Server, z, t, u)
        /\ Left(Server, z, t, u) => u = x.transport \/ u = t
    BY <1>1, <1>6, <1>26, <2>4 DEF Left
  <2>6. CASE Left(Server, z, t, u)
    <3>1. wire'[u][Server].frames = << >>
      BY <2>1, <2>3, <2>6
    <3> QED BY <2>1, <2>2, <2>5, <2>6, <3>1
  <2>7. CASE ~Left(Server, z, t, u)
    <3>1. wire'[u][Server].frames = streams[u][Server].frames
      BY <2>1, <2>7
    <3> QED BY <2>1, <2>2, <2>5, <2>7, <3>1
  <2> QED BY <2>6, <2>7
<1>28. PICK live : live = (~wire[t][Client].ended)
  OBVIOUS
<1>29. live => /\ y.transport = t /\ y.resuming /\ Line(Client) = << >>
               /\ t = lastTransport /\ t >= accepted /\ ~y.closed
  <2>1. SUFFICES ASSUME live
                 PROVE  /\ y.transport = t /\ y.resuming /\ Line(Client) = << >>
                        /\ t = lastTransport /\ t >= accepted /\ ~y.closed
    OBVIOUS
  <2>2. y.transport = t
    BY <1>11, <1>12, <1>28, <2>1
  <2>3. \A i \in 1..Len(queue[Client]) : queue[Client][i].frame # << >>
    BY <1>2, <1>10, <1>12, <1>28, <2>1, <2>2 DEF Towards
  <2>4. ASSUME Line(Client) # << >> PROVE FALSE
    <3>1. Line(Client)[1].type # "END"
      BY <1>8, <2>3, <2>4, LineFrames
    <3>2. Line(Client) \in Seq(ItemSet)
      BY <1>8, StateFacts
    <3>3. 1 \in 1..Len(Line(Client))
      BY <2>4, <3>2, TailFacts
    <3> QED BY <1>13, <2>2, <3>1, <3>3 DEF AllEnd
  <2>5. t = lastTransport
    BY <1>11, <1>12, <2>2
  <2>6. t >= accepted
    BY <1>7, <2>5
  <2>7. ~y.closed
    BY <1>10, <1>12, <2>2 DEF Shape
  <2> QED BY <1>13, <2>2, <2>4, <2>5, <2>6, <2>7
<1>30. Line(Client)' = IF live THEN o ELSE Line(Client)
  <2>1. Via(Client)' = y.transport /\ Via(Client) = y.transport
    BY <1>2, <1>8, <1>25 DEF Via
  <2>2. CASE live
    <3>1. Arriving(Client) = wire[t][Client].frames
      BY <1>12, <1>29, <2>1, <2>2 DEF Arriving
    <3>2. Arriving(Client)' = Arriving(Client) \o o
      BY <1>12, <1>27, <1>28, <1>29, <2>1, <2>2, <3>1 DEF Arriving
    <3>3. queue[Client] \in Seq(TaskSet) /\ o \in Seq(FrameSet)
      BY <1>7, <1>8, <1>17, <1>21
    <3>4. Along(queue[Client], Arriving(Client) \o o) = Along(queue[Client], Arriving(Client)) \o o
      BY <1>10, <3>3, LineLonger
    <3>5. Line(Client)' = << >> \o o
      BY <1>6, <1>29, <2>2, <3>2, <3>4 DEF Line
    <3> QED BY <1>21, <2>2, <3>5, ConcatEmptySeq
  <2>3. CASE ~live
    <3>1. y.transport # 0 => y.transport \in Transports
      BY <1>2, <1>8, StateFacts, BoundsAssumption DEF Transports
    <3>2. Arriving(Client)' = Arriving(Client)
      BY <1>27, <1>28, <2>1, <2>3, <3>1 DEF Arriving
    <3> QED BY <1>6, <2>3, <3>2 DEF Line
  <2> QED BY <2>2, <2>3
<1>31. Held'
  <2>1. CASE ~live
    BY <1>2, <1>25, <1>30, <2>1 DEF CInv, Held, HoldsOk
  <2>2. CASE live
    <3>1. SUFFICES ASSUME NEW i \in 1..Len(o), o[i].type = "RESUME_OK"
                   PROVE  /\ y.cache.resetPosition <= o[i].a \/ Beyond(y, o[i].a)
                          /\ o[i].a <= y.cache.position
                          /\ i = 1
      <4>1. HoldsOk(o, y)
        BY <1>29, <2>2, <3>1 DEF HoldsOk
      <4>2. HoldsOk(Line(Client)', end'[Client])
        BY <1>25, <1>30, <2>2, <4>1
      <4> QED BY <4>2 DEF Held, HoldsOk
    <3>2. ResumesIs(x, t, f, n, z)
      BY <1>17, <1>21, <3>1 DEF RefusesIs
    <3>3. ~z.closed /\ o[1].a = Len(x.delivered) /\ AllIn(o, 2, {"PAYLOAD", "KEEPALIVE"})
      BY <1>21, <3>2 DEF ResumesIs
    <3>4. i = 1
      <4>1. SUFFICES ASSUME i # 1 PROVE FALSE
        OBVIOUS
      <4>2. Len(o) \in Nat /\ i >= 2
        BY <1>21, <3>1, <4>1
      <4>3. o[i].type \in {"PAYLOAD", "KEEPALIVE"}
        BY <3>1, <3>3, <4>2 DEF AllIn
      <4> QED BY <3>1, <4>3
    <3>5. FreshBy(f, Line(Client), y, x)
      BY <1>1, <1>2, <1>4, <1>6, <1>29, <2>2, LooksAtFresh
    <3>6. PositionInResume => y.cache.resetPosition <= x.cache.impliedPosition
      BY <1>19, <3>3, <3>5 DEF FreshBy, ClientPositionExists, CanResumeFrom
    <3>7. x.cache.impliedPosition = Len(x.delivered)
      BY <1>6, <1>9, LocalOpen
    <3>8. Len(x.delivered) <= y.cache.position
      BY <1>1, <1>2, <1>6, <1>8, <1>29, <2>2, WithinReach
    <3>9. y.cache.resetPosition <= Len(x.delivered) \/ Beyond(y, Len(x.delivered))
      <4>1. PICK d \in CacheSet : d = y.cache
        BY <1>2, <1>8, StateFacts, EndFacts
      <4>2. PICK r \in Nat, m \in Nat, k \in Nat :
              r = d.resetPosition /\ m = d.position /\ k = Len(x.delivered)
        BY <1>6, <1>9, <4>1, EndFacts DEF CacheSet
      <4>3. r <= k \/ m - r = Capacity
        BY <3>5, <4>1, <4>2 DEF FreshBy
      <4>4. ~(r <= k) => m - k > Capacity
        BY <4>2, <4>3, CapacityAssumption
      <4> QED BY <3>6, <3>7, <4>1, <4>2, <4>4 DEF Beyond
    <3> QED BY <3>3, <3>4, <3>8, <3>9
  <2> QED BY <2>1, <2>2
<1>32. accepted \in Nat /\ accepted' \in Nat /\ accepted' >= t /\ accepted' >= accepted
  BY <1>6, <1>7, <1>12
<1>33. ASSUME NEW u \in Transports, Waiting(u)'
       PROVE  FreshBy(wire'[u][Server].frames[1], Line(Client)', end'[Client], end'[Server])
  <2>1. /\ u >= accepted' /\ u # s.transport /\ u \in Nat
        /\ wire'[u][Server].frames # << >> /\ wire'[u][Server].frames[1].type = "RESUME"
    BY <1>25, <1>33 DEF Waiting, Transports
  <2>2. u # x.transport /\ u # t /\ wire'[u][Server].frames = wire[u][Server].frames
    BY <1>27, <2>1
  <2>3. u >= accepted /\ u > t
    BY <1>12, <1>32, <2>1, <2>2
  <2>4. Waiting(u)
    BY <1>1, <2>1, <2>2, <2>3 DEF Waiting
  <2>5. ~live
    <3>1. ~(u > lastTransport)
      BY <1>11, <2>1, <2>2
    <3> QED BY <1>29, <2>3, <3>1
  <2>6. PICK v \in Seq(FrameSet) : v = wire[u][Server].frames
    BY <1>7, <1>8, StreamFacts
  <2>7. PICK h : h = v[1]
    OBVIOUS
  <2>8. h \in FrameSet
    BY <2>1, <2>2, <2>6, <2>7, TailFacts
  <2>9. PICK w \in Seq(ItemSet) : w = Line(Client)
    BY <1>8, StateFacts
  <2>10. FreshBy(h, w, y, x)
    BY <1>1, <1>2, <2>4, <2>6, <2>7, <2>9 DEF CInv, Fresh
  <2>11. AllIn(w, 1, {"END", "ERROR"}) /\ (y.transport # 0 => y.resuming) /\ Frozen(y, y)
    BY <2>10 DEF FreshBy, Frozen
  <2>12. /\ Len(x.delivered) <= Len(s.delivered)
         /\ ~s.closed => ~x.closed /\ x.cache.position <= s.cache.position
    <3>1. Len(x.delivered) \in Nat
      BY <1>9, EndFacts
    <3>2. ~z.closed => x.cache.position <= z.cache.position
      BY <1>17 DEF RefusesIs, ResumesIs
    <3> QED BY <1>6, <1>20, <3>1, <3>2
  <2>13. y.cache.resetPosition \in Nat
    <3>1. PICK c \in CacheSet : c = y.cache
      BY <1>10, EndFacts
    <3> QED BY <3>1 DEF CacheSet
  <2>14. FreshBy(h, w, y, s)
    BY <1>9, <1>20, <2>8, <2>9, <2>10, <2>11, <2>12, <2>13, FreshNext
  <2>15. wire'[u][Server].frames[1] = h /\ Line(Client)' = w
    BY <1>30, <2>2, <2>5, <2>6, <2>7, <2>9
  <2> QED BY <1>25, <2>14, <2>15
<1>34. Fresh'
  BY <1>33 DEF Fresh, FreshBy, Waiting, AllIn
<1>35. Newest'
  BY <1>12, <1>20, <1>25, <1>26, <1>32 DEF Newest
<1>36. ForcedOnly
  <2>1. ASSUME z.closed PROVE Forced(Server)
    <3>1. ResumeOutOfReach(t)
      BY <1>1, <1>4, <1>6, <1>19, <2>1, RefusedIsOutOfReach
    <3>2. wire'[t] # wire[t]
      BY <1>6, <1>27
    <3> QED BY <3>1, <3>2 DEF Forced
  <2> QED BY <1>2, <1>8, <1>20, <1>25, <2>1 DEF ForcedOnly
<1> QED BY <1>24, <1>31, <1>34, <1>35, <1>36 DEF CInv

-----------------------------------------------------------------------------
(* All steps                                                               *)

LEMMA StutterDone ==
  ASSUME CInv, UNCHANGED vars
  PROVE  CInv' /\ ForcedOnly
<1> USE DEF vars
<1>1. (Line(Client))' = Line(Client)
  BY DEF Via, Arriving, Line
<1>2. PlainWire' /\ PlainTasks' /\ PlainPending'
  BY DEF CInv, PlainWire, PlainTasks, PlainTask, PlainPending, MeantFor
<1>3. Held' /\ Newest'
  BY <1>1 DEF CInv, Held, HoldsOk, Newest
<1>4. Fresh'
  BY <1>1 DEF CInv, Fresh, FreshBy, Waiting, AllIn
<1>5. ForcedOnly
  BY DEF ForcedOnly
<1> QED BY <1>2, <1>3, <1>4, <1>5 DEF CInv

LEMMA NextDone ==
  ASSUME Orderly, Sized, IInv, CInv, [Next]_vars
  PROVE  CInv' /\ ForcedOnly
<1> DEFINE G == CInv' /\ ForcedOnly
<1> HIDE DEF Sized
<1>1. ASSUME NEW e \in Ends, AppWrite(e) \/ AppDisconnect(e) \/ AppClose(e) PROVE G
  BY <1>1, AppDone
<1>2. ASSUME NEW writes \in BOOLEAN, ClientConnect(writes) PROVE G
  BY <1>2, ClientConnectDone
<1>3. ASSUME NEW writes \in BOOLEAN, TryClientResume(writes) PROVE G
  BY <1>3, TryClientResumeDone
<1>4. ASSUME NEW writes \in BOOLEAN, NEW t \in Transports, ServerSetup(t, writes) PROVE G
  BY <1>4, ServerSetupDone
<1>5. ASSUME NEW writes \in BOOLEAN, NEW t \in Transports, TryResumeServer(t, writes) PROVE G
  BY <1>5, TryResumeServerDone
<1>6. ASSUME NEW writes \in BOOLEAN, NEW e \in Ends, Receive(e, writes) PROVE G
  BY <1>6, ReceiveDone, QueuedDone
<1>7. ASSUME NEW writes \in BOOLEAN, NEW e \in Ends, RunTask(e, writes) PROVE G
  BY <1>7, RunTaskDone
<1>8. ASSUME NEW t \in Transports, RefuseResume(t) PROVE G
  BY <1>8, RefuseResumeDone
<1>9. ASSUME NEW t \in Transports, TransportFails(t) PROVE G
  BY <1>9, TransportFailsDone
<1>10. ASSUME NEW e \in Ends, ReceiveTerminal(e) PROVE G
  BY <1>10, ReceiveTerminalDone, EndQueuedDone
<1>11. ASSUME KeepaliveTick PROVE G
  BY <1>11, KeepaliveTickDone
<1>12. ASSUME UNCHANGED vars PROVE G
  BY <1>12, StutterDone
<1> HIDE DEF G
<1>13. G
  BY <1>1, <1>2, <1>3, <1>4, <1>5, <1>6, <1>7, <1>8, <1>9, <1>10, <1>11, <1>12 DEF Next
<1> QED BY <1>13 DEF G

LEMMA InitCInv == Init => CInv
<1>1. SUFFICES ASSUME Init PROVE CInv
  OBVIOUS
<1>2. /\ Client \in Ends /\ Server \in Ends /\ Client # Server
      /\ NewStream.frames = << >> /\ NewEnd.pending = << >> /\ NewEnd.transport = 0
  BY BoundsAssumption, NewEndFacts DEF Ends, NewStream
<1>3. /\ \A e \in Ends : end[e] = NewEnd /\ queue[e] = << >>
      /\ \A t \in Transports : \A e \in Ends : wire[t][e] = NewStream
      /\ accepted = 0
  BY <1>1 DEF Init
<1>4. \A e \in Ends : << >> \in Seq(MeantFor(e)) /\ << >> \in Seq(MeantFor(Peer(e)))
  OBVIOUS
<1>5. PlainWire
  BY <1>2, <1>3, <1>4 DEF PlainWire
<1>6. PlainTasks
  BY <1>3 DEF PlainTasks
<1>7. PlainPending
  BY <1>2, <1>3, <1>4 DEF PlainPending
<1>8. Held
  BY <1>2, <1>3 DEF Held, HoldsOk
<1>9. Fresh
  BY <1>2, <1>3 DEF Fresh, Waiting
<1>10. Newest
  BY <1>2, <1>3 DEF Newest
<1> QED BY <1>5, <1>6, <1>7, <1>8, <1>9, <1>10 DEF CInv

(***************************************************************************)
(* A resumable connection survives whatever happens to its transports.  An *)
(* end is closed only by its application, by an ERROR frame it is about to *)
(* process, by a RESUME that cannot be honoured (more than the capacity of *)
(* a cache behind, or older than the newest connection), in version 0.x by *)
(* a RESUME_OK more than the capacity behind, or by a task left over from  *)
(* another transport.  closeWithError in processFrameImpl and              *)
(* handleConnectionFrame is never reached in any other way: no KEEPALIVE   *)
(* has the wrong flag, no RESUME_OK comes unasked or names a position      *)
(* within the capacity that is gone, no frame of a stream comes before     *)
(* RESUME_OK, and resumeFromPositionOrClose refuses no position within the *)
(* capacity.                                                               *)
(***************************************************************************)
THEOREM EndsCloseOnlyWhenForced ==
  ASSUME Orderly, Sized PROVE Spec => ClosesOnlyWhenForced
<1> HIDE DEF Sized
<1>1. IInv /\ CInv /\ [Next]_vars => CInv' /\ ForcedOnly
  BY NextDone
<1>2. ForcedOnly <=> \A e \in Ends : end'[e].closed /\ ~end[e].closed =>
          \/ AppClose(e)
          \/ /\ e = Server
             /\ \E t \in Transports : ResumeOutOfReach(t) /\ wire'[t] # wire[t]
          \/ /\ e = Client
             /\ \E frame \in NextFrames(Client) : ResumeOkOutOfReach(frame)
          \/ queue'[e] # queue[e] /\ Head(queue[e]).transport # end[e].transport
          \/ ErrorFrame \in NextFrames(e)
  BY DEF ForcedOnly, Forced
<1> QED BY <1>1, <1>2, InitCInv, Invariance, PTL DEF Spec, ClosesOnlyWhenForced

=============================================================================
