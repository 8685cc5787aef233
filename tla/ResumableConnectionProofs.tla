--------------------- MODULE ResumableConnectionProofs ---------------------
(***************************************************************************)
(* Proofs about ResumableConnection, for any capacity, any number of       *)
(* frames and of transports, whatever fails and whenever.                  *)
(*                                                                         *)
(* The invariant follows the frames of a stream from one end to the other: *)
(* Local says that the cached frames are the last ones sent and the        *)
(* pending ones those after them, Towards that what is on its way          *)
(* continues what was delivered, and Answered that a RESUME_OK names the   *)
(* frame the server waits for.  A step of one end either keeps its         *)
(* transport (StayKeeps), leaves it (LeaveKeeps), or attaches to another   *)
(* one; what it does within the end is shown apart from what the frames it *)
(* outputs do on their way.                                                *)
(***************************************************************************)
EXTENDS ResumableConnection, FiniteSetTheorems, SequenceTheorems, WellFoundedInduction,
        TLAPS

(***************************************************************************)
(* What the executor and the application are assumed to do: resumption     *)
(* begins with an empty queue of tasks, and no frame is written in a       *)
(* callback of a resumption other than that of RESUME_OK.                  *)
(***************************************************************************)
Orderly ==
    /\ Deferred => Drained
    /\ CallbackSites \subseteq {"resumeOk"}

(***************************************************************************)
(* size_ can tell a full cache from an empty one.                          *)
(***************************************************************************)
Sized == Capacity > 0 /\ Capacity + 1 < SizeMod

-----------------------------------------------------------------------------
(* Types                                                                   *)

ItemTypes ==
    {"PAYLOAD", "SETUP", "ERROR", "RESUME", "RESUME_OK", "KEEPALIVE", "END"}

(***************************************************************************)
(* Frames, and the mark for the end of a transport among the tasks.        *)
(***************************************************************************)
ItemSet ==
    {f \in [type : ItemTypes, stream : {0, 1}, len : {1}, a : Nat, b : Nat] :
        /\ f.stream = 1 <=> f.type = "PAYLOAD"
        /\ f.stream = 1 => f.b = 0}

FrameSet == {f \in ItemSet : f.type # "END"}

EntrySet == [pos : Nat, frame : FrameSet]

CacheSet ==
    [position : Nat, resetPosition : Nat, impliedPosition : Nat,
     streamMap : [StreamIds -> Nat], frames : Seq(EntrySet), size : Int,
     failed : BOOLEAN]

EndSet ==
    [transport : Nat, closed : BOOLEAN, resuming : BOOLEAN, awaiting : BOOLEAN,
     cache : CacheSet, pending : Seq(FrameSet), out : Seq(FrameSet),
     written : Nat, delivered : Seq(Nat)]

StreamSet == [frames : Seq(FrameSet), ended : BOOLEAN]

TaskSet == [transport : Nat, frame : {<< >>} \cup {<<f>> : f \in FrameSet}]

Types ==
    /\ end \in [Ends -> EndSet]
    /\ wire \in [Transports -> [Ends -> StreamSet]]
    /\ queue \in [Ends -> Seq(TaskSet)]
    /\ lastTransport \in 0..MaxTransports
    /\ accepted \in 0..lastTransport

-----------------------------------------------------------------------------
(* Frames on their way                                                     *)

(***************************************************************************)
(* The frames of streams in w are those after the r-th, up to the m-th.    *)
(***************************************************************************)
Flow(w, r, m) ==
    \E P \in [Nat -> Nat] :
        /\ P[0] = r
        /\ P[Len(w)] = m
        /\ \A i \in 0..Len(w) : P[i] <= m
        /\ \A i \in 1..Len(w) :
              /\ P[i] = IF w[i].stream = 1 THEN P[i - 1] + 1 ELSE P[i - 1]
              /\ w[i].stream = 1 => w[i].a = P[i]

EndMark == Frame("END", 0, 0, 0)

AsItem(task) == IF task.frame = << >> THEN EndMark ELSE task.frame[1]

Items(q) == [i \in 1..Len(q) |-> AsItem(q[i])]

(***************************************************************************)
(* The transport that e gets frames from.  Before SETUP was looked at, it  *)
(* is the first one for the server.                                        *)
(***************************************************************************)
Via(e) == IF e = Server /\ accepted = 0 THEN 1 ELSE end[e].transport

Arriving(e) == IF Via(e) = 0 THEN << >> ELSE wire[Via(e)][e].frames

(***************************************************************************)
(* What e is going to process, in this order: the tasks, then the frames   *)
(* on their way.                                                           *)
(***************************************************************************)
Along(q, f) == Items(q) \o f

Line(e) == Along(queue[e], Arriving(e))

AllEnd(w) == \A i \in 1..Len(w) : w[i].type = "END"

AllIn(w, from, types) == \A i \in 1..Len(w) : i >= from => w[i].type \in types

Told(e) == IF e = Client THEN {"PAYLOAD", "KEEPALIVE", "ERROR", "END", "RESUME_OK"}
                         ELSE {"PAYLOAD", "KEEPALIVE", "ERROR", "END"}

-----------------------------------------------------------------------------
(* One end                                                                 *)

(***************************************************************************)
(* f are the last of q frames, by their positions and their numbers.       *)
(***************************************************************************)
Numbered(f, q) ==
    /\ Len(f) <= q
    /\ \A i \in 1..Len(f) : /\ f[i].pos = q - Len(f) + i - 1
                            /\ f[i].frame = StreamFrame(q - Len(f) + i)

(***************************************************************************)
(* The cached frames are the last ones sent.                               *)
(***************************************************************************)
Cached(c) ==
    /\ Numbered(c.frames, c.position)
    /\ Capacity = 0 => c.frames = << >>

Counted(c) ==
    Sized => /\ c.size = Len(c.frames)
             /\ c.resetPosition = c.position - Len(c.frames)
             /\ Len(c.frames) <= Capacity

(***************************************************************************)
(* A frame leaves the cache when the other end has got it, d frames in     *)
(* all, or when the cache is full.                                         *)
(***************************************************************************)
Retains(c, d) ==
    Sized => Len(c.frames) = Capacity \/ c.position - Len(c.frames) <= d

Acks(w, d) == \A i \in 1..Len(w) : w[i].type = "KEEPALIVE" => w[i].a <= d

Shape(e, x) ==
    /\ x.closed => x.transport = 0
    /\ x.resuming => e = Client /\ x.transport # 0
    /\ x.awaiting => x.transport # 0 /\ ~x.resuming
    /\ x.transport # 0 /\ ~x.resuming => x.pending = << >>

Local(x) ==
    /\ \A i \in 1..Len(x.delivered) : x.delivered[i] = i
    /\ ~x.closed =>
          /\ x.cache.impliedPosition = Len(x.delivered)
          /\ Cached(x.cache)
          /\ Counted(x.cache)
          /\ Flow(x.pending, x.cache.position, x.written)
          /\ AllIn(x.pending, 1, {"PAYLOAD", "KEEPALIVE"})
          /\ Acks(x.pending, Len(x.delivered))

-----------------------------------------------------------------------------
(* One direction: what x is going to process, and y sends                  *)

(***************************************************************************)
(* What y outputs reaches e.                                               *)
(***************************************************************************)
Sends(y, e) == y.transport # 0 /\ ~y.resuming /\ ~wire[y.transport][e].ended

(* live: whether what y sends still reaches x.                             *)
Fed(x, y, w, live) ==
    /\ Len(x.delivered) <= y.written
    /\ ~x.closed =>
         /\ Acks(w, Len(y.delivered))
         /\ \E m \in Nat :
              /\ Flow(w, Len(x.delivered), m)
              /\ m <= y.written
              /\ ~y.closed => m <= y.cache.position
              /\ live => m = y.cache.position
    /\ ~y.closed => Retains(y.cache, Len(x.delivered))

Towards(e) ==
    LET x == end[e]
        y == end[Peer(e)]
    IN  /\ Fed(x, y, Line(e), Sends(y, e))
        /\ Sends(y, e) => Via(e) = y.transport
        /\ ~x.closed => AllIn(Line(e), IF e = Server /\ accepted = 0 THEN 2 ELSE 1, Told(e))
        /\ ~Deferred => queue[e] = << >>
        /\ x.transport # 0 /\ ~wire[x.transport][e].ended =>
              \A i \in 1..Len(queue[e]) : queue[e][i].frame # << >>

-----------------------------------------------------------------------------
(* Transports                                                              *)

(* Before SETUP                                                            *)
Unset ==
    accepted = 0 =>
        /\ end[Server] = NewEnd
        /\ queue[Server] = << >>
        /\ wire[1][Server].frames # << >> => wire[1][Server].frames[1].type = "SETUP"
        /\ wire[1][Server].frames = << >> /\ lastTransport # 0 => wire[1][Server].ended

(* Before the first transport                                              *)
Unopened ==
    lastTransport = 0 =>
        /\ queue[Client] = << >>
        /\ ~end[Client].closed => end[Client].cache.position = 0

ClientSide ==
    /\ end[Client].transport \in {0, lastTransport}
    /\ end[Client].resuming => end[Client].transport > 1
    /\ \A t \in Transports :
          /\ t # end[Client].transport => wire[t][Client].frames = << >>
          /\ t # end[Client].transport /\ t <= lastTransport =>
                wire[t][Client].ended /\ wire[t][Server].ended
          /\ t > lastTransport =>
                /\ ~wire[t][Client].ended /\ ~wire[t][Server].ended
                /\ wire[t][Server].frames = << >>

(***************************************************************************)
(* A RESUME frame that the server has not yet looked at.                   *)
(***************************************************************************)
Asked(t) ==
    LET w == wire[t][Server].frames
    IN  \/ w = << >>
        \/ /\ Len(w) = 1
           /\ w[1].type = "RESUME"
           /\ end[Client].transport = t =>
                /\ end[Client].resuming
                /\ w[1].a = Len(end[Client].delivered)
                /\ AllEnd(Line(Client))

ServerSide ==
    /\ end[Server].transport <= lastTransport
    /\ \A t \in Transports : t # Via(Server) => Asked(t)

(***************************************************************************)
(* While the client resumes, what it processes first is the answer; a      *)
(* RESUME_OK names the frame the server waits for.                         *)
(***************************************************************************)
Leads(w) ==
    \A i \in 1..Len(w) :
        (\A j \in 1..i - 1 : w[j].type = "END")
            => w[i].type \in {"RESUME_OK", "ERROR", "END"}

Answered ==
    LET t == end[Client].transport
        w == Line(Client)
    IN  end[Client].resuming =>
          /\ Leads(w)
          /\ w # << >> /\ w[1].type = "RESUME_OK" =>
                /\ w[1].a = Len(end[Server].delivered)
                /\ AllEnd(Line(Server))
                /\ ~wire[t][Server].ended => end[Server].transport = t
          /\ end[Server].transport = t /\ ~wire[t][Client].ended => w # << >>

IInv ==
    /\ Types
    /\ \A e \in Ends :
          /\ Shape(e, end[e])
          /\ end[e].out = << >>
          /\ Local(end[e])
          /\ Towards(e)
    /\ Unset
    /\ Unopened
    /\ ClientSide
    /\ ServerSide
    /\ Answered

-----------------------------------------------------------------------------
(* Numbers and sequences                                                   *)

(***************************************************************************)
(* A nonempty set of naturals has a least element.                         *)
(***************************************************************************)
LEMMA LeastNat ==
  ASSUME NEW S \in SUBSET Nat, S # {}
  PROVE  \E m \in S : \A n \in S : m <= n
<1> DEFINE R == {ss \in Nat \X Nat : ss[1] < ss[2]}
<1>1. IsWellFoundedOn(R, Nat)
  BY NatLessThanWellFounded, Zenon DEF OpToRel
<1>2. \E x \in S : \A y \in S : ~(<<y, x>> \in R)
  <2> HIDE DEF R
  <2> QED BY <1>1, WFMin
<1>3. \A x, y \in Nat : <<y, x>> \in R <=> y < x
  BY SMT
<1>4. \A x, y \in Nat : ~(y < x) => x <= y
  BY SMT
<1> HIDE DEF R
<1> QED BY <1>2, <1>3, <1>4

(***************************************************************************)
(* The first element of a sequence, and the others.                        *)
(***************************************************************************)
LEMMA TailFacts ==
  ASSUME NEW S, NEW w \in Seq(S), w # << >>
  PROVE  /\ Len(w) \in Nat /\ Len(w) >= 1
         /\ w[1] \in S /\ Head(w) = w[1]
         /\ Tail(w) \in Seq(S) /\ Len(Tail(w)) = Len(w) - 1
         /\ \A i \in 1..Len(w) - 1 : Tail(w)[i] = w[i + 1]
BY HeadTailProperties

LEMMA ConcatFacts ==
  ASSUME NEW S, NEW v \in Seq(S), NEW w \in Seq(S)
  PROVE  /\ v \o w \in Seq(S)
         /\ Len(v) \in Nat /\ Len(w) \in Nat
         /\ Len(v \o w) = Len(v) + Len(w)
         /\ \A i \in 1..Len(v) : (v \o w)[i] = v[i]
         /\ \A i \in 1..Len(w) : (v \o w)[Len(v) + i] = w[i]
         /\ \A i \in 1..Len(v) + Len(w) :
               (v \o w)[i] = IF i <= Len(v) THEN v[i] ELSE w[i - Len(v)]
BY ConcatProperties

LEMMA SameSeq ==
  ASSUME NEW S, NEW v \in Seq(S), NEW w \in Seq(S), Len(v) = Len(w),
         \A i \in 1..Len(v) : v[i] = w[i]
  PROVE  v = w
BY SeqEqual

LEMMA ConcatIs ==
  ASSUME NEW S, NEW v \in Seq(S), NEW w \in Seq(S), NEW u \in Seq(S),
         Len(u) = Len(v) + Len(w),
         \A i \in 1..Len(v) : u[i] = v[i],
         \A i \in 1..Len(w) : u[Len(v) + i] = w[i]
  PROVE  u = v \o w
<1>1. PICK m \in Nat : m = Len(v)
  OBVIOUS
<1>2. PICK n \in Nat : n = Len(w)
  OBVIOUS
<1>3. PICK t \in Seq(S) : t = v \o w
  BY ConcatFacts
<1>4. Len(t) = m + n /\ (\A i \in 1..m : t[i] = v[i]) /\ \A i \in 1..n : t[m + i] = w[i]
  BY <1>1, <1>2, <1>3, ConcatFacts
<1>5. \A i \in 1..m + n : u[i] = t[i]
  <2> TAKE i \in 1..m + n
  <2>1. CASE i <= m
    <3>1. i \in 1..m
      BY <2>1
    <3> QED BY <1>1, <1>4, <3>1
  <2>2. CASE i > m
    <3>1. i - m \in 1..n /\ m + (i - m) = i
      BY <2>2
    <3>2. u[m + (i - m)] = w[i - m] /\ t[m + (i - m)] = w[i - m]
      BY <1>1, <1>2, <1>4, <3>1, Zenon
    <3> QED BY <3>1, <3>2
  <2> QED BY <2>1, <2>2
<1>6. Len(u) = m + n
  BY <1>1, <1>2
<1>7. u = t
  BY <1>4, <1>5, <1>6, SameSeq
<1> QED BY <1>3, <1>7

-----------------------------------------------------------------------------
(* Flow                                                                    *)

LEMMA FlowEmpty ==
  ASSUME NEW r \in Nat
  PROVE  Flow(<< >>, r, r)
<1>1. PICK P \in [Nat -> Nat] : P = [i \in Nat |-> r]
  OBVIOUS
<1>2. Len(<< >>) = 0
  OBVIOUS
<1> QED BY <1>1, <1>2 DEF Flow

LEMMA FlowGrows ==
  ASSUME NEW w \in Seq(ItemSet), NEW r \in Nat, NEW m, Flow(w, r, m)
  PROVE  m \in Nat /\ r <= m
<1>1. Len(w) \in Nat /\ 0 \in 0..Len(w)
  OBVIOUS
<1> QED BY <1>1 DEF Flow

(***************************************************************************)
(* After the first item the flow goes on.                                  *)
(***************************************************************************)
LEMMA FlowTail ==
  ASSUME NEW w \in Seq(ItemSet), w # << >>, NEW r \in Nat, NEW m \in Nat, Flow(w, r, m)
  PROVE  IF w[1].stream = 1
         THEN w[1].a = r + 1 /\ r + 1 <= m /\ Flow(Tail(w), r + 1, m)
         ELSE Flow(Tail(w), r, m)
<1>1. PICK P \in [Nat -> Nat] :
        /\ P[0] = r
        /\ P[Len(w)] = m
        /\ \A i \in 0..Len(w) : P[i] <= m
        /\ \A i \in 1..Len(w) :
              /\ P[i] = IF w[i].stream = 1 THEN P[i - 1] + 1 ELSE P[i - 1]
              /\ w[i].stream = 1 => w[i].a = P[i]
  BY DEF Flow
<1>2. Len(w) \in Nat /\ Len(w) >= 1
  BY TailFacts
<1>3. PICK n \in Nat : Len(w) = n + 1
  <2>1. Len(w) - 1 \in Nat /\ Len(w) = (Len(w) - 1) + 1
    BY <1>2
  <2> QED BY <2>1, Zenon
<1>4. PICK v : v = Tail(w)
  OBVIOUS
<1>10. Len(v) = n /\ \A i \in 1..n : v[i] = w[i + 1]
  <2>1. /\ Len(Tail(w)) = Len(w) - 1
        /\ \A i \in 1..Len(w) - 1 : Tail(w)[i] = w[i + 1]
    BY TailFacts
  <2>2. Len(w) - 1 = n
    BY <1>3
  <2> QED BY <1>4, <2>1, <2>2
<1>5. PICK Q \in [Nat -> Nat] : Q = [i \in Nat |-> P[i + 1]]
  <2>1. \A i \in Nat : P[i + 1] \in Nat
    <3> TAKE i \in Nat
    <3>1. i + 1 \in Nat
      OBVIOUS
    <3> QED BY <3>1, Zenon
  <2>2. [i \in Nat |-> P[i + 1]] \in [Nat -> Nat]
    BY <2>1, Zenon
  <2> QED BY <2>2
<1>6. \A i \in Nat : Q[i] = P[i + 1]
  BY <1>5
<1>7. P[1] = (IF w[1].stream = 1 THEN r + 1 ELSE r) /\ (w[1].stream = 1 => w[1].a = P[1])
  <2>1. 1 \in 1..Len(w) /\ 1 - 1 = 0
    BY <1>2
  <2>2. /\ P[1] = IF w[1].stream = 1 THEN P[1 - 1] + 1 ELSE P[1 - 1]
        /\ w[1].stream = 1 => w[1].a = P[1]
    BY <1>1, <2>1, Zenon
  <2> QED BY <1>1, <2>1, <2>2
<1>8. Flow(v, P[1], m)
  <2>1. Q[0] = P[1] /\ Q[n] = m
    BY <1>1, <1>3, <1>6
  <2>2. \A i \in 0..n : Q[i] <= m
    BY <1>1, <1>3, <1>6
  <2>3. \A i \in 1..n : /\ Q[i] = IF v[i].stream = 1 THEN Q[i - 1] + 1 ELSE Q[i - 1]
                        /\ v[i].stream = 1 => v[i].a = Q[i]
    <3> TAKE i \in 1..n
    <3>1. i + 1 \in 1..Len(w) /\ i - 1 \in Nat /\ i \in Nat
      BY <1>3
    <3>2. Q[i] = P[i + 1] /\ v[i] = w[i + 1]
      BY <1>10, <1>6, <3>1, Zenon
    <3>4. (i + 1) - 1 = i
      BY <3>1
    <3>3. Q[i - 1] = P[i]
      <4>1. Q[i - 1] = P[(i - 1) + 1]
        BY <1>6, <3>1, Zenon
      <4>2. (i - 1) + 1 = i
        BY <3>1
      <4> QED BY <4>1, <4>2
    <3> QED BY <1>1, <3>1, <3>2, <3>3, <3>4
  <2> QED BY <1>10, <2>1, <2>2, <2>3 DEF Flow
<1>9. P[1] <= m
  BY <1>1, <1>2
<1> QED BY <1>4, <1>7, <1>8, <1>9

(***************************************************************************)
(* Two counts, the second starting where the first ends, are one.          *)
(***************************************************************************)
LEMMA CountsJoin ==
  ASSUME NEW P \in [Nat -> Nat], NEW Q \in [Nat -> Nat], NEW m \in Nat, P[m] = Q[0]
  PROVE  \E R \in [Nat -> Nat] : /\ \A i \in 0..m : R[i] = P[i]
                                 /\ \A i \in Nat : i >= m => R[i] = Q[i - m]
<1> DEFINE R == [i \in Nat |-> IF i <= m THEN P[i] ELSE Q[i - m]]
<1>1. R \in [Nat -> Nat]
  OBVIOUS
<1>2. \A i \in 0..m : R[i] = P[i]
  OBVIOUS
<1>3. \A i \in Nat : i >= m => R[i] = Q[i - m]
  OBVIOUS
<1> HIDE DEF R
<1> QED BY <1>1, <1>2, <1>3

(***************************************************************************)
(* Frames sent after others continue their numbers.                        *)
(***************************************************************************)
LEMMA FlowJoin ==
  ASSUME NEW v \in Seq(ItemSet), NEW w \in Seq(ItemSet),
         NEW r \in Nat, NEW d \in Nat, NEW e \in Nat, Flow(v, r, d), Flow(w, d, e)
  PROVE  Flow(v \o w, r, e)
<1>1. PICK P \in [Nat -> Nat] :
        /\ P[0] = r /\ P[Len(v)] = d
        /\ \A i \in 0..Len(v) : P[i] <= d
        /\ \A i \in 1..Len(v) :
              /\ P[i] = IF v[i].stream = 1 THEN P[i - 1] + 1 ELSE P[i - 1]
              /\ v[i].stream = 1 => v[i].a = P[i]
  BY DEF Flow
<1>2. PICK Q \in [Nat -> Nat] :
        /\ Q[0] = d /\ Q[Len(w)] = e
        /\ \A i \in 0..Len(w) : Q[i] <= e
        /\ \A i \in 1..Len(w) :
              /\ Q[i] = IF w[i].stream = 1 THEN Q[i - 1] + 1 ELSE Q[i - 1]
              /\ w[i].stream = 1 => w[i].a = Q[i]
  BY DEF Flow
<1>3. PICK m \in Nat : m = Len(v)
  OBVIOUS
<1>4. PICK n \in Nat : n = Len(w)
  OBVIOUS
<1>5. PICK u : u = v \o w
  OBVIOUS
<1>6. P[m] = Q[0]
  BY <1>1, <1>2, <1>3
<1>7. PICK R \in [Nat -> Nat] : /\ \A i \in 0..m : R[i] = P[i]
                                /\ \A i \in Nat : i >= m => R[i] = Q[i - m]
  BY <1>6, CountsJoin
<1>8. /\ Len(u) = m + n
      /\ \A i \in 1..m : u[i] = v[i]
      /\ \A i \in 1..n : u[m + i] = w[i]
  BY <1>3, <1>4, <1>5, ConcatFacts
<1>9. d <= e
  BY FlowGrows
<1>10. R[0] = r
  <2>1. 0 \in 0..m
    OBVIOUS
  <2> QED BY <1>1, <1>7, <2>1
<1>11. R[m + n] = e
  <2>1. m + n \in Nat /\ m + n >= m /\ (m + n) - m = n
    OBVIOUS
  <2> QED BY <1>2, <1>4, <1>7, <2>1
<1>12. \A i \in 0..(m + n) : R[i] <= e
  <2> SUFFICES ASSUME NEW i \in 0..(m + n) PROVE R[i] <= e
    OBVIOUS
  <2>1. CASE i <= m
    <3>1. i \in 0..m /\ i \in Nat
      BY <2>1
    <3>2. P[i] <= d
      BY <1>1, <1>3, <3>1
    <3>3. P[i] \in Nat
      BY <3>1, Zenon
    <3> QED BY <1>7, <1>9, <3>1, <3>2, <3>3
  <2>2. CASE i > m
    <3>1. i - m \in 0..n /\ i \in Nat /\ i >= m
      BY <2>2
    <3>2. Q[i - m] <= e
      BY <1>2, <1>4, <3>1
    <3> QED BY <1>7, <3>1, <3>2
  <2> QED BY <2>1, <2>2
<1>13. \A i \in 1..(m + n) :
          /\ R[i] = IF u[i].stream = 1 THEN R[i - 1] + 1 ELSE R[i - 1]
          /\ u[i].stream = 1 => u[i].a = R[i]
  <2> SUFFICES ASSUME NEW i \in 1..(m + n)
               PROVE  /\ R[i] = IF u[i].stream = 1 THEN R[i - 1] + 1 ELSE R[i - 1]
                      /\ u[i].stream = 1 => u[i].a = R[i]
    OBVIOUS
  <2>1. CASE i <= m
    <3>1. i \in 1..m /\ i \in 0..m /\ i - 1 \in 0..m
      BY <2>1
    <3>2. u[i] = v[i]
      BY <1>8, <3>1
    <3> QED BY <1>1, <1>3, <1>7, <3>1, <3>2
  <2>2. CASE i > m
    <3>1. i - m \in 1..n /\ i \in Nat /\ i >= m /\ i - 1 \in Nat /\ i - 1 >= m
          /\ (i - 1) - m = (i - m) - 1 /\ m + (i - m) = i
      BY <2>2
    <3>2. u[i] = w[i - m]
      <4>1. u[m + (i - m)] = w[i - m]
        BY <1>8, <3>1, Zenon
      <4> QED BY <3>1, <4>1
    <3>3. R[i] = Q[i - m] /\ R[i - 1] = Q[(i - m) - 1]
      BY <1>7, <3>1
    <3> QED BY <1>2, <1>4, <3>1, <3>2, <3>3
  <2> QED BY <2>1, <2>2
<1> QED BY <1>5, <1>7, <1>8, <1>10, <1>11, <1>12, <1>13 DEF Flow

(***************************************************************************)
(* What is left of a flow that is cut.                                     *)
(***************************************************************************)
LEMMA FlowCut ==
  ASSUME NEW u \in Seq(ItemSet), NEW v \in Seq(ItemSet), NEW r \in Nat, NEW e \in Nat,
         Len(v) <= Len(u), \A i \in 1..Len(v) : v[i] = u[i], Flow(u, r, e)
  PROVE  \E d \in Nat : Flow(v, r, d) /\ d <= e
<1>1. PICK P \in [Nat -> Nat] :
        /\ P[0] = r /\ P[Len(u)] = e
        /\ \A i \in 0..Len(u) : P[i] <= e
        /\ \A i \in 1..Len(u) :
              /\ P[i] = IF u[i].stream = 1 THEN P[i - 1] + 1 ELSE P[i - 1]
              /\ u[i].stream = 1 => u[i].a = P[i]
  BY DEF Flow
<1>2. PICK m \in Nat : m = Len(v)
  OBVIOUS
<1>3. PICK n \in Nat : n = Len(u)
  OBVIOUS
<1>4. m <= n
  BY <1>2, <1>3
<1>5. PICK d \in Nat : d = P[m]
  OBVIOUS
<1>6. \A i \in 1..m :
          /\ P[i] = IF v[i].stream = 1 THEN P[i - 1] + 1 ELSE P[i - 1]
          /\ v[i].stream = 1 => v[i].a = P[i]
  <2> TAKE i \in 1..m
  <2>1. i \in 1..Len(u) /\ v[i] = u[i]
    BY <1>2, <1>3, <1>4
  <2> QED BY <1>1, <2>1
<1>7. \A i \in 1..n : P[i - 1] <= P[i]
  <2> TAKE i \in 1..n
  <2>1. i \in 1..Len(u) /\ i \in Nat /\ i - 1 \in Nat
    BY <1>3
  <2>2. P[i] \in Nat /\ P[i - 1] \in Nat
    BY <2>1, Zenon
  <2>3. P[i] = IF u[i].stream = 1 THEN P[i - 1] + 1 ELSE P[i - 1]
    BY <1>1, <2>1, Zenon
  <2>4. PICK b \in Nat : b = P[i - 1]
    BY <2>2
  <2>5. P[i] = b + 1 \/ P[i] = b
    BY <2>3, <2>4, Zenon
  <2>6. PICK c \in Nat : c = P[i]
    BY <2>2
  <2>7. c = b + 1 \/ c = b
    BY <2>5, <2>6, Zenon
  <2>8. b <= c
    BY <2>7
  <2> QED BY <2>4, <2>6, <2>8, Zenon
<1>8. \A i \in 0..m : P[i] <= d
  <2> DEFINE Bad == {j \in 0..m : \E i \in 0..m : i = m - j /\ P[i] > d}
  <2>1. Bad = {}
    <3> SUFFICES ASSUME Bad # {} PROVE FALSE
      OBVIOUS
    <3>1. Bad \in SUBSET Nat
      OBVIOUS
    <3>2. PICK j \in Bad : \A k \in Bad : j <= k
      <4> HIDE DEF Bad
      <4> QED BY <3>1, LeastNat
    <3>3. j \in 0..m /\ m - j \in 0..m /\ P[m - j] > d
      BY <3>2
    <3>4. j # 0
      <4> SUFFICES ASSUME j = 0 PROVE FALSE
        OBVIOUS
      <4>1. P[m] > d /\ m - 0 = m
        BY <3>3
      <4> QED BY <1>5, <4>1
    <3>5. j - 1 \in 0..m /\ m - (j - 1) \in 0..m /\ m - (j - 1) \in 1..n
          /\ (m - (j - 1)) - 1 = m - j
      BY <1>4, <3>3, <3>4
    <3>6. P[m - j] <= P[m - (j - 1)]
      <4>1. P[(m - (j - 1)) - 1] <= P[m - (j - 1)]
        BY <1>7, <3>5, Zenon
      <4> QED BY <3>5, <4>1
    <3>7. P[m - (j - 1)] \in Nat /\ P[m - j] \in Nat
      <4>1. m - (j - 1) \in Nat /\ m - j \in Nat
        BY <3>3, <3>5
      <4> QED BY <4>1, Zenon
    <3>8. P[m - (j - 1)] > d
      <4>1. PICK b \in Nat : b = P[m - (j - 1)]
        BY <3>7, Zenon
      <4>2. PICK c \in Nat : c = P[m - j]
        BY <3>7, Zenon
      <4> QED BY <3>3, <3>6, <4>1, <4>2
    <3>9. j - 1 \in Bad
      BY <3>5, <3>8
    <3> HIDE DEF Bad
    <3>10. j <= j - 1
      BY <3>2, <3>9, Zenon
    <3> QED BY <3>3, <3>10
  <2> TAKE i \in 0..m
  <2>2. m - i \in 0..m /\ i = m - (m - i) /\ i \in Nat
    OBVIOUS
  <2>3. ~(P[i] > d)
    BY <2>1, <2>2
  <2>4. PICK b \in Nat : b = P[i]
    BY <2>2
  <2> QED BY <2>3, <2>4
<1>9. Flow(v, r, d)
  BY <1>1, <1>2, <1>5, <1>6, <1>8 DEF Flow
<1>10. d <= e
  BY <1>1, <1>3, <1>4, <1>5
<1> QED BY <1>9, <1>10

(***************************************************************************)
(* Frames of the connection have no number.                                *)
(***************************************************************************)
LEMMA FlowQuiet ==
  ASSUME NEW w \in Seq(ItemSet), NEW r \in Nat, \A i \in 1..Len(w) : w[i].stream # 1
  PROVE  Flow(w, r, r)
<1> DEFINE P == [i \in Nat |-> r]
<1>1. P \in [Nat -> Nat] /\ \A i \in Nat : P[i] = r
  OBVIOUS
<1>2. Len(w) \in Nat
  OBVIOUS
<1> HIDE DEF P
<1>3. \A i \in 1..Len(w) : i \in Nat /\ i - 1 \in Nat
  BY <1>2
<1>4. \A i \in 0..Len(w) : P[i] <= r
  BY <1>1, <1>2
<1>5. \A i \in 1..Len(w) :
          /\ P[i] = IF w[i].stream = 1 THEN P[i - 1] + 1 ELSE P[i - 1]
          /\ w[i].stream = 1 => w[i].a = P[i]
  <2> TAKE i \in 1..Len(w)
  <2>1. P[i] = r /\ P[i - 1] = r
    BY <1>1, <1>3
  <2> QED BY <2>1
<1>6. P[0] = r /\ P[Len(w)] = r
  BY <1>1, <1>2
<1> QED BY <1>1, <1>4, <1>5, <1>6 DEF Flow

(***************************************************************************)
(* One frame.                                                              *)
(***************************************************************************)
LEMMA FlowOne ==
  ASSUME NEW r \in Nat, NEW f \in ItemSet, f.stream = 1, f.a = r + 1
  PROVE  Flow(<<f>>, r, r + 1)
<1> DEFINE P == [i \in Nat |-> IF i = 0 THEN r ELSE r + 1]
<1>1. P \in [Nat -> Nat]
  OBVIOUS
<1>2. P[0] = r /\ P[1] = r + 1
  OBVIOUS
<1>3. Len(<<f>>) = 1 /\ <<f>>[1] = f
  OBVIOUS
<1> HIDE DEF P
<1>4. \A i \in 0..1 : P[i] <= r + 1
  BY <1>2
<1>5. \A i \in 1..1 : /\ P[i] = IF f.stream = 1 THEN P[i - 1] + 1 ELSE P[i - 1]
                      /\ f.stream = 1 => f.a = P[i]
  BY <1>2
<1>6. \A i \in 1..1 : <<f>>[i] = f
  BY <1>3
<1> QED BY <1>1, <1>2, <1>3, <1>4, <1>5, <1>6 DEF Flow

(***************************************************************************)
(* Consecutive frames.                                                     *)
(***************************************************************************)
LEMMA FlowRange ==
  ASSUME NEW w \in Seq(ItemSet), NEW r \in Nat,
         \A i \in 1..Len(w) : w[i].stream = 1 /\ w[i].a = r + i
  PROVE  Flow(w, r, r + Len(w))
<1> DEFINE P == [i \in Nat |-> r + i]
<1>1. P \in [Nat -> Nat] /\ \A i \in Nat : P[i] = r + i
  OBVIOUS
<1>2. PICK n \in Nat : n = Len(w)
  OBVIOUS
<1> HIDE DEF P
<1>3. \A i \in 0..n : P[i] <= r + n
  BY <1>1
<1>4. \A i \in 1..n :
          /\ P[i] = IF w[i].stream = 1 THEN P[i - 1] + 1 ELSE P[i - 1]
          /\ w[i].stream = 1 => w[i].a = P[i]
  <2> TAKE i \in 1..n
  <2>1. w[i].stream = 1 /\ w[i].a = r + i
    BY <1>2
  <2>2. i \in Nat /\ i - 1 \in Nat
    OBVIOUS
  <2>3. P[i] = r + i /\ P[i - 1] = r + (i - 1)
    BY <1>1, <2>2, Zenon
  <2>4. P[i] = P[i - 1] + 1
    BY <2>2, <2>3
  <2> QED BY <2>1, <2>3, <2>4
<1>5. P[0] = r /\ P[n] = r + n
  BY <1>1
<1> QED BY <1>1, <1>2, <1>3, <1>4, <1>5 DEF Flow

(***************************************************************************)
(* A frame added to a flow, with the next number or with none.             *)
(***************************************************************************)
LEMMA FlowAppend ==
  ASSUME NEW w \in Seq(ItemSet), NEW f \in ItemSet, NEW r \in Nat, NEW m \in Nat,
         Flow(w, r, m), f.stream = 1 => f.a = m + 1
  PROVE  Flow(Append(w, f), r, IF f.stream = 1 THEN m + 1 ELSE m)
<1>1. Append(w, f) = w \o <<f>> /\ <<f>> \in Seq(ItemSet)
  OBVIOUS
<1>2. CASE f.stream = 1
  <2>1. Flow(<<f>>, m, m + 1)
    BY <1>2, FlowOne
  <2>2. m + 1 \in Nat
    OBVIOUS
  <2> QED BY <1>1, <1>2, <2>1, <2>2, FlowJoin
<1>3. CASE f.stream # 1
  <2>1. \A i \in 1..Len(<<f>>) : <<f>>[i].stream # 1
    BY <1>3
  <2>2. Flow(<<f>>, m, m)
    BY <1>1, <2>1, FlowQuiet
  <2> QED BY <1>1, <1>3, <2>2, FlowJoin
<1> QED BY <1>2, <1>3

-----------------------------------------------------------------------------
(* Frames                                                                  *)

LEMMA FrameFacts ==
  /\ \A n \in Nat : /\ StreamFrame(n) \in FrameSet
                    /\ StreamFrame(n).type = "PAYLOAD" /\ StreamFrame(n).stream = 1
                    /\ StreamFrame(n).a = n /\ StreamFrame(n).len = 1
  /\ SetupFrame \in FrameSet /\ SetupFrame.type = "SETUP" /\ SetupFrame.stream = 0
  /\ ErrorFrame \in FrameSet /\ ErrorFrame.type = "ERROR" /\ ErrorFrame.stream = 0
  /\ \A p, q \in Nat : /\ ResumeFrame(p, q) \in FrameSet
                       /\ ResumeFrame(p, q).type = "RESUME"
                       /\ ResumeFrame(p, q).stream = 0
                       /\ ResumeFrame(p, q).a = p
  /\ \A p \in Nat : /\ ResumeOkFrame(p) \in FrameSet
                    /\ ResumeOkFrame(p).type = "RESUME_OK"
                    /\ ResumeOkFrame(p).stream = 0
                    /\ ResumeOkFrame(p).a = p
  /\ \A p \in Nat : \A respond : /\ KeepaliveFrame(p, respond) \in FrameSet
                                 /\ KeepaliveFrame(p, respond).type = "KEEPALIVE"
                                 /\ KeepaliveFrame(p, respond).stream = 0
                                 /\ KeepaliveFrame(p, respond).a = p
  /\ EndMark \in ItemSet /\ EndMark.type = "END" /\ EndMark.stream = 0
BY DEF StreamFrame, SetupFrame, ErrorFrame, ResumeFrame, ResumeOkFrame,
       KeepaliveFrame, EndMark, Frame, FrameSet, ItemSet, ItemTypes

LEMMA ItemFacts ==
  ASSUME NEW f \in ItemSet
  PROVE  /\ f.type \in ItemTypes /\ f.stream \in {0, 1} /\ f.len = 1 /\ f.a \in Nat
         /\ f.stream = 1 <=> f.type = "PAYLOAD"
         /\ f.type # "END" => f \in FrameSet
         /\ f.stream = 1 => f = StreamFrame(f.a)
BY DEF ItemSet, FrameSet, StreamFrame, Frame

LEMMA FrameIsItem == FrameSet \subseteq ItemSet /\ \A w \in Seq(FrameSet) : w \in Seq(ItemSet)
<1>1. FrameSet \subseteq ItemSet
  BY DEF FrameSet
<1> QED BY <1>1

-----------------------------------------------------------------------------
(* The cache                                                               *)

(***************************************************************************)
(* What is left of a sequence after its first b - 1 elements are dropped.  *)
(***************************************************************************)
LEMMA DropFacts ==
  ASSUME NEW S, NEW s \in Seq(S), NEW b \in 1..Len(s) + 1
  PROVE  /\ SubSeq(s, b, Len(s)) \in Seq(S)
         /\ Len(SubSeq(s, b, Len(s))) = Len(s) - b + 1
         /\ \A k \in 1..Len(s) - b + 1 : SubSeq(s, b, Len(s))[k] = s[b + k - 1]
<1>1. Len(s) \in Nat /\ b \in Int
  OBVIOUS
<1>2. \A i \in b..Len(s) : s[i] \in S
  OBVIOUS
<1> QED BY <1>1, <1>2, SubSeqProperties

(***************************************************************************)
(* Where lower_bound finds position p.                                     *)
(***************************************************************************)
FirstFrom(f, q, p) == IF p <= q - Len(f) THEN 1 ELSE p - (q - Len(f)) + 1

LEMMA LowerBoundIs ==
  ASSUME NEW f \in Seq(EntrySet), NEW q \in Nat, Numbered(f, q), NEW p \in 0..q
  PROVE  /\ LowerBound(f, p) = FirstFrom(f, q, p)
         /\ FirstFrom(f, q, p) \in 1..Len(f) + 1
<1>1. PICK n \in Nat : n = Len(f)
  OBVIOUS
<1>2. n <= q /\ \A i \in 1..n : f[i].pos = q - n + i - 1
  BY <1>1 DEF Numbered
<1>3. PICK b : b = FirstFrom(f, q, p)
  OBVIOUS
<1>4. b = IF p <= q - n THEN 1 ELSE p - (q - n) + 1
  BY <1>1, <1>3 DEF FirstFrom
<1>5. b \in 1..n + 1
  BY <1>2, <1>4
<1>6. b = n + 1 \/ f[b].pos >= p
  <2> SUFFICES ASSUME b # n + 1 PROVE f[b].pos >= p
    OBVIOUS
  <2>1. b \in 1..n
    BY <1>5
  <2>2. f[b].pos = q - n + b - 1
    BY <1>2, <2>1
  <2> QED BY <1>2, <1>4, <2>1, <2>2
<1>7. \A j \in 1..b - 1 : f[j].pos < p
  <2> TAKE j \in 1..b - 1
  <2>1. j \in 1..n
    BY <1>5
  <2>2. f[j].pos = q - n + j - 1
    BY <1>2, <2>1
  <2> QED BY <1>2, <1>4, <1>5, <2>2
<1>8. ASSUME NEW i \in 1..n + 1, i = n + 1 \/ f[i].pos >= p,
             \A j \in 1..i - 1 : f[j].pos < p
      PROVE  i = b
  <2>1. CASE i < b
    <3>1. i \in 1..n /\ i \in 1..b - 1
      BY <1>5, <2>1
    <3>2. f[i].pos < p /\ f[i].pos >= p /\ f[i].pos = q - n + i - 1
      BY <1>2, <1>7, <1>8, <3>1
    <3> QED BY <3>1, <3>2
  <2>2. CASE b < i
    <3>1. b \in 1..n /\ b \in 1..i - 1
      BY <1>5, <2>2
    <3>2. f[b].pos < p /\ f[b].pos >= p /\ f[b].pos = q - n + b - 1
      BY <1>2, <1>6, <1>8, <3>1
    <3> QED BY <3>1, <3>2
  <2> QED BY <1>5, <2>1, <2>2
<1>9. LowerBound(f, p) = b
  <2>1. LowerBound(f, p) = CHOOSE i \in 1..n + 1 :
                              /\ i = n + 1 \/ f[i].pos >= p
                              /\ \A j \in 1..i - 1 : f[j].pos < p
    BY <1>1, Zenon DEF LowerBound
  <2> QED BY <1>5, <1>6, <1>7, <1>8, <2>1, Zenon
<1> QED BY <1>1, <1>3, <1>5, <1>9

(***************************************************************************)
(* The last frames of the last frames.                                     *)
(***************************************************************************)
LEMMA DropNumbered ==
  ASSUME NEW f \in Seq(EntrySet), NEW q \in Nat, Numbered(f, q), NEW b \in 1..Len(f) + 1,
         NEW g, g = SubSeq(f, b, Len(f))
  PROVE  g \in Seq(EntrySet) /\ Len(g) = Len(f) - b + 1 /\ Numbered(g, q)
<1>1. PICK n \in Nat : n = Len(f)
  OBVIOUS
<1>2. /\ g \in Seq(EntrySet) /\ Len(g) = n - b + 1
      /\ \A k \in 1..n - b + 1 : g[k] = f[b + k - 1]
  BY <1>1, DropFacts
<1>3. n <= q /\ \A i \in 1..n : f[i].pos = q - n + i - 1 /\ f[i].frame = StreamFrame(q - n + i)
  BY <1>1 DEF Numbered
<1>4. PICK m \in Nat : m = n - b + 1
  BY <1>1
<1>5. m <= q /\ Len(g) = m
  BY <1>1, <1>2, <1>3, <1>4
<1>6. \A k \in 1..m : g[k].pos = q - m + k - 1 /\ g[k].frame = StreamFrame(q - m + k)
  <2> TAKE k \in 1..m
  <2>1. k \in 1..n - b + 1 /\ b + k - 1 \in 1..n
    BY <1>1, <1>4
  <2>2. g[k] = f[b + k - 1]
    BY <1>2, <2>1, Zenon
  <2>3. q - n + (b + k - 1) - 1 = q - m + k - 1 /\ q - n + (b + k - 1) = q - m + k
    BY <1>1, <1>4
  <2>4. /\ f[b + k - 1].pos = q - n + (b + k - 1) - 1
        /\ f[b + k - 1].frame = StreamFrame(q - n + (b + k - 1))
    BY <1>3, <2>1, Zenon
  <2> QED BY <2>2, <2>3, <2>4
<1>7. Numbered(g, q)
  BY <1>5, <1>6 DEF Numbered
<1> QED BY <1>1, <1>2, <1>7

(***************************************************************************)
(* resetUpToPosition, when it does not return early, to position p.        *)
(***************************************************************************)
Kept(c, p) == SubSeq(c.frames, LowerBound(c.frames, p), Len(c.frames))

KeptSize(c, p) ==
    LET b == LowerBound(c.frames, p)
        pos == IF b = Len(c.frames) + 1 THEN p ELSE c.frames[b].pos
    IN  IF c.frames = << >> THEN c.size
        ELSE SizeMinus(c.size, pos - c.resetPosition)

ResetTo(c, p, m, x) ==
    [c EXCEPT !.resetPosition = p, !.streamMap = m,
              !.frames = IF c.frames = << >> THEN << >> ELSE Kept(c, p),
              !.size = KeptSize(c, p), !.failed = x]

LEMMA ResetRecord ==
  ASSUME NEW c \in CacheSet, NEW q \in Nat, ~(q <= c.resetPosition),
         NEW p, p = IF q > c.position THEN c.position ELSE q
  PROVE  \E m \in [StreamIds -> Nat], x \in BOOLEAN :
            ResetUpToPosition(c, q) = ResetTo(c, p, m, x)
<1>1. PICK m : m = ForgetStreams(c.streamMap, p)
  OBVIOUS
<1>2. m \in [StreamIds -> Nat]
  BY <1>1 DEF ForgetStreams, CacheSet
<1>3. PICK c1 : c1 = [c EXCEPT !.streamMap = m]
  OBVIOUS
<1>4. /\ c1 \in CacheSet /\ c1.frames = c.frames /\ c1.position = c.position
      /\ c1.resetPosition = c.resetPosition /\ c1.size = c.size /\ c1.failed = c.failed
  BY <1>2, <1>3 DEF CacheSet
<1>5. PICK d1 : d1 = ClearFrames(c1, p)
  OBVIOUS
<1>6. PICK x : x = (d1.failed \/ ~FrontIs(d1.frames, p))
  OBVIOUS
<1>7. x \in BOOLEAN
  BY <1>6, Zenon
<1>8. ResetUpToPosition(c, q) = [d1 EXCEPT !.resetPosition = p, !.failed = x]
  BY <1>1, <1>3, <1>5, <1>6, Zenon DEF ResetUpToPosition
<1>9. CASE c.frames = << >>
  <2>1. d1 = c1
    BY <1>4, <1>5, <1>9, Zenon DEF ClearFrames
  <2>2. KeptSize(c, p) = c.size
    BY <1>9, Zenon DEF KeptSize
  <2>3. [d1 EXCEPT !.resetPosition = p, !.failed = x]
          = [c EXCEPT !.resetPosition = p, !.streamMap = m, !.frames = << >>,
                      !.size = c.size, !.failed = x]
    BY <1>3, <1>9, <2>1 DEF CacheSet
  <2>4. ResetUpToPosition(c, q) = ResetTo(c, p, m, x)
    BY <1>8, <1>9, <2>2, <2>3, Zenon DEF ResetTo
  <2> QED BY <1>2, <1>7, <2>4, Zenon
<1>10. CASE c.frames # << >>
  <2>1. PICK y : y = (c1.failed \/ p > c1.position \/ p < c1.resetPosition)
    OBVIOUS
  <2>2. PICK f : f = Kept(c, p)
    OBVIOUS
  <2>3. PICK s : s = KeptSize(c, p)
    OBVIOUS
  <2>4. d1 = [c1 EXCEPT !.frames = f, !.size = s, !.failed = y]
    BY <1>4, <1>5, <1>10, <2>1, <2>2, <2>3, Zenon DEF ClearFrames, Kept, KeptSize
  <2>5. [d1 EXCEPT !.resetPosition = p, !.failed = x]
          = [c EXCEPT !.resetPosition = p, !.streamMap = m, !.frames = f,
                      !.size = s, !.failed = x]
    BY <1>3, <2>4 DEF CacheSet
  <2>6. ResetUpToPosition(c, q) = ResetTo(c, p, m, x)
    BY <1>8, <1>10, <2>2, <2>3, <2>5, Zenon DEF ResetTo
  <2> QED BY <1>2, <1>7, <2>6, Zenon
<1> QED BY <1>9, <1>10

(***************************************************************************)
(* The number of frames left of n, the last of P, after a reset to q.      *)
(***************************************************************************)
LeftOver(n, P, q) == IF q <= P - n THEN n ELSE IF q > P THEN 0 ELSE P - q

LEMMA ResetFacts ==
  ASSUME NEW c \in CacheSet, Cached(c), NEW q \in Nat, NEW d, d = ResetUpToPosition(c, q)
  PROVE  /\ d \in CacheSet /\ Cached(d)
         /\ d.position = c.position
         /\ d.impliedPosition = c.impliedPosition
         /\ Len(d.frames) <= Len(c.frames)
         /\ c.resetPosition = c.position - Len(c.frames) /\ c.size >= Len(c.frames) =>
               /\ d.resetPosition = d.position - Len(d.frames)
               /\ d.size = c.size - (Len(c.frames) - Len(d.frames))
               /\ Len(d.frames) = LeftOver(Len(c.frames), c.position, q)
<1>1. /\ c.position \in Nat /\ c.resetPosition \in Nat /\ c.size \in Int
      /\ c.frames \in Seq(EntrySet) /\ Numbered(c.frames, c.position)
  BY DEF CacheSet, Cached
<1>2. PICK n \in Nat : n = Len(c.frames)
  BY <1>1
<1>3. PICK P \in Nat : P = c.position
  BY <1>1
<1>4. n <= P
  BY <1>1, <1>2, <1>3 DEF Numbered
<1>5. CASE q <= c.resetPosition
  <2>1. d = c
    BY <1>5, Zenon DEF ResetUpToPosition
  <2>2. ASSUME c.resetPosition = P - n PROVE n = LeftOver(n, P, q)
    BY <1>5, <2>2 DEF LeftOver
  <2> QED BY <1>1, <1>2, <1>3, <2>1, <2>2
<1>6. CASE ~(q <= c.resetPosition)
  <2>1. PICK p : p = IF q > P THEN P ELSE q
    OBVIOUS
  <2>2. p \in 0..P
    BY <2>1
  <2>3. PICK m \in [StreamIds -> Nat], x \in BOOLEAN :
          d = ResetTo(c, p, m, x)
    <3>1. p = IF q > c.position THEN c.position ELSE q
      BY <1>3, <2>1, Zenon
    <3> QED BY <1>6, <3>1, ResetRecord
  <2>4. PICK f : f = IF c.frames = << >> THEN << >> ELSE Kept(c, p)
    OBVIOUS
  <2>5. PICK s : s = KeptSize(c, p)
    OBVIOUS
  <2>6. PICK b : b = FirstFrom(c.frames, P, p)
    OBVIOUS
  <2>7. /\ b \in 1..n + 1 /\ LowerBound(c.frames, p) = b
        /\ b = IF p <= P - n THEN 1 ELSE p - (P - n) + 1
    BY <1>1, <1>2, <1>3, <2>2, <2>6, LowerBoundIs DEF FirstFrom
  <2>8. /\ f \in Seq(EntrySet) /\ Numbered(f, P) /\ Len(f) = n - b + 1
    <3>1. CASE c.frames = << >>
      <4>1. n = 0 /\ f = << >> /\ b = 1
        BY <1>2, <2>4, <2>7, <3>1
      <4> QED BY <4>1 DEF Numbered
    <3>2. CASE c.frames # << >>
      <4>1. f = SubSeq(c.frames, b, Len(c.frames))
        BY <2>4, <2>7, <3>2 DEF Kept
      <4> QED BY <1>1, <1>2, <1>3, <2>7, <4>1, DropNumbered
    <3> QED BY <3>1, <3>2
  <2>9. s \in Int
    <3>1. CASE c.frames = << >>
      BY <1>1, <2>5, <3>1 DEF KeptSize
    <3>2. CASE c.frames # << >>
      <4>1. PICK pos : pos = IF b = n + 1 THEN p ELSE c.frames[b].pos
        OBVIOUS
      <4>2. s = SizeMinus(c.size, pos - c.resetPosition)
        BY <1>2, <2>5, <2>7, <3>2, <4>1, Zenon DEF KeptSize
      <4>3. pos \in Nat
        <5>1. b # n + 1 => b \in 1..n
          BY <2>7
        <5>2. b # n + 1 => c.frames[b] \in EntrySet
          BY <1>1, <1>2, <5>1
        <5> QED BY <2>2, <4>1, <5>2 DEF EntrySet
      <4> QED BY <1>1, <4>2, <4>3, CapacityAssumption DEF SizeMinus
    <3> QED BY <3>1, <3>2
  <2>10. p \in Nat
    BY <2>2
  <2>11. d = [c EXCEPT !.resetPosition = p, !.streamMap = m, !.frames = f,
                       !.size = s, !.failed = x]
    BY <2>3, <2>4, <2>5 DEF ResetTo
  <2>12. /\ d \in CacheSet /\ d.position = P /\ d.resetPosition = p /\ d.frames = f
         /\ d.size = s /\ d.impliedPosition = c.impliedPosition
    BY <1>3, <2>8, <2>9, <2>10, <2>11 DEF CacheSet
  <2>13. Capacity = 0 => f = << >>
    BY <2>4 DEF Cached
  <2>14. Cached(d)
    BY <2>8, <2>12, <2>13 DEF Cached
  <2>15. ASSUME c.resetPosition = P - n, c.size >= n
         PROVE  p = P - Len(f) /\ s = c.size - (n - Len(f)) /\ Len(f) = LeftOver(n, P, q)
    <3>1. CASE n = 0
      <4>1. c.frames = << >>
        BY <1>1, <1>2, <3>1, EmptySeq
      <4>3. c.resetPosition = P /\ q > P
        BY <1>1, <1>6, <2>15, <3>1
      <4>2. s = c.size /\ p = P /\ Len(f) = 0
        BY <2>1, <2>4, <2>5, <4>1, <4>3 DEF KeptSize
      <4> QED BY <1>1, <3>1, <4>2, <4>3 DEF LeftOver
    <3>2. CASE n # 0
      <4>1. p > P - n
        BY <1>4, <1>6, <2>1, <2>15, <3>2
      <4>2. b = p - (P - n) + 1 /\ Len(f) = P - p
        BY <1>4, <2>2, <2>7, <2>8, <4>1
      <4>3. n # 0 /\ c.frames # << >>
        BY <1>2, <2>2, <4>1
      <4>4. PICK pos : pos = IF b = n + 1 THEN p ELSE c.frames[b].pos
        OBVIOUS
      <4>5. s = SizeMinus(c.size, pos - c.resetPosition)
        BY <1>2, <2>5, <2>7, <4>3, <4>4, Zenon DEF KeptSize
      <4>6. pos = p
        <5>1. ASSUME b # n + 1 PROVE c.frames[b].pos = p
          <6>1. b \in 1..n
            BY <2>7, <5>1
          <6>2. c.frames[b].pos = P - n + b - 1
            BY <1>1, <1>2, <1>3, <6>1 DEF Numbered
          <6> QED BY <1>4, <2>2, <4>2, <6>1, <6>2
        <5> QED BY <4>4, <5>1
      <4>7. s = c.size - (p - (P - n))
        <5>1. p - (P - n) <= c.size
          BY <1>1, <1>4, <2>2, <2>15
        <5> QED BY <1>1, <1>4, <2>2, <2>15, <4>5, <4>6, <5>1 DEF SizeMinus
      <4>8. Len(f) = LeftOver(n, P, q)
        BY <1>4, <2>1, <2>15, <4>1, <4>2, <1>6 DEF LeftOver
      <4> QED BY <1>1, <1>4, <2>2, <4>2, <4>7, <4>8
    <3> QED BY <3>1, <3>2
  <2>16. Len(f) <= n
    BY <2>7, <2>8
  <2>17. c.resetPosition = c.position - Len(c.frames) /\ c.size >= Len(c.frames) =>
            /\ d.resetPosition = d.position - Len(d.frames)
            /\ d.size = c.size - (Len(c.frames) - Len(d.frames))
            /\ Len(d.frames) = LeftOver(Len(c.frames), c.position, q)
    BY <1>2, <1>3, <2>12, <2>15, Zenon
  <2> QED BY <1>2, <1>3, <2>12, <2>14, <2>16, <2>17, Zenon
<1> QED BY <1>5, <1>6

(***************************************************************************)
(* A KEEPALIVE with position q resets the cache; what the other end has    *)
(* not got stays.                                                          *)
(***************************************************************************)
LEMMA AckFacts ==
  ASSUME NEW c \in CacheSet, Cached(c), Counted(c), NEW q \in Nat,
         NEW d, d = ResetUpToPosition(c, q)
  PROVE  /\ d \in CacheSet /\ Cached(d) /\ Counted(d)
         /\ d.position = c.position
         /\ d.impliedPosition = c.impliedPosition
         /\ \A n \in Nat : q <= n /\ Retains(c, n) => Retains(d, n)
<1>1. /\ d \in CacheSet /\ Cached(d)
      /\ d.position = c.position
      /\ d.impliedPosition = c.impliedPosition
      /\ Len(d.frames) <= Len(c.frames)
      /\ c.resetPosition = c.position - Len(c.frames) /\ c.size >= Len(c.frames) =>
            /\ d.resetPosition = d.position - Len(d.frames)
            /\ d.size = c.size - (Len(c.frames) - Len(d.frames))
            /\ Len(d.frames) = LeftOver(Len(c.frames), c.position, q)
  BY ResetFacts
<1>2. PICK P \in Nat : P = c.position
  BY DEF CacheSet
<1>3. PICK k \in Nat : k = Len(c.frames)
  BY DEF CacheSet
<1>4. PICK l \in Nat : l = Len(d.frames)
  BY <1>1 DEF CacheSet
<1>5. k <= P
  BY <1>2, <1>3 DEF Cached, Numbered
<1>6. CASE ~Sized
  BY <1>1, <1>6 DEF Counted, Retains
<1>7. CASE Sized
  <2>1. c.size = k /\ c.resetPosition = P - k /\ k <= Capacity
    BY <1>2, <1>3, <1>7 DEF Counted
  <2>2. d.resetPosition = P - l /\ d.size = k - (k - l) /\ l = LeftOver(k, P, q) /\ l <= k
    BY <1>1, <1>2, <1>3, <1>4, <2>1
  <2>3. Counted(d)
    BY <1>1, <1>2, <1>4, <2>1, <2>2, CapacityAssumption DEF Counted
  <2>4. ASSUME NEW n \in Nat, q <= n, Retains(c, n) PROVE Retains(d, n)
    <3>1. k = Capacity \/ P - k <= n
      BY <1>2, <1>3, <1>7, <2>4 DEF Retains
    <3>2. l = k \/ P - l <= n
      BY <1>5, <2>2, <2>4 DEF LeftOver
    <3> QED BY <1>1, <1>2, <1>4, <3>1, <3>2 DEF Retains
  <2> QED BY <1>1, <2>3, <2>4
<1> QED BY <1>6, <1>7

(***************************************************************************)
(* The loop of addFrame leaves the last of the frames, and evicts one of   *)
(* them when the cache is full and its size_ is right.                     *)
(***************************************************************************)
Grown(c) == [c EXCEPT !.size = SizePlus(@, 1)]

LEMMA EvictFacts ==
  ASSUME NEW c \in CacheSet, Cached(c), NEW d, d = EvictUntilFits(Grown(c))
  PROVE  /\ d \in CacheSet /\ Cached(d)
         /\ d.position = c.position
         /\ d.impliedPosition = c.impliedPosition
         /\ Sized /\ Counted(c) =>
               /\ d.resetPosition = d.position - Len(d.frames)
               /\ d.size = Len(d.frames) + 1
               /\ Len(d.frames) = IF Len(c.frames) < Capacity THEN Len(c.frames)
                                  ELSE Len(c.frames) - 1
<1>1. PICK c1 : c1 = Grown(c)
  OBVIOUS
<1>2. /\ c1 \in CacheSet /\ c1.position = c.position /\ c1.frames = c.frames
      /\ c1.resetPosition = c.resetPosition /\ c1.size = SizePlus(c.size, 1)
      /\ c1.impliedPosition = c.impliedPosition
  BY <1>1, CapacityAssumption DEF Grown, CacheSet, SizePlus
<1>3. Cached(c1)
  BY <1>2 DEF Cached
<1>4. PICK n \in Nat : n = Len(c.frames)
  BY DEF CacheSet
<1>5. PICK P \in Nat : P = c.position
  BY DEF CacheSet
<1>6. n <= P /\ \A i \in 1..n : c.frames[i].pos = P - n + i - 1
  BY <1>4, <1>5 DEF Cached, Numbered
<1>7. \A k \in 1..n : RoundPosition(c1, k) = P - n + k
  <2> TAKE k \in 1..n
  <2>1. RoundPosition(c1, k) = IF k < n THEN c.frames[k + 1].pos ELSE P
    BY <1>2, <1>4, <1>5 DEF RoundPosition
  <2>2. CASE k < n
    <3>1. k + 1 \in 1..n
      BY <2>2
    <3>2. c.frames[k + 1].pos = P - n + (k + 1) - 1
      BY <1>6, <3>1
    <3> QED BY <2>1, <2>2, <3>2
  <2>3. CASE ~(k < n)
    BY <2>1, <2>3
  <2> QED BY <2>2, <2>3
<1>8. \A k \in 1..n : RoundPosition(c1, k) \in Nat
  BY <1>6, <1>7
<1>9. PICK q \in Nat, x \in BOOLEAN :
        \/ d = c1 /\ c1.size <= Capacity
        \/ d = ResetUpToPosition(c1, q) /\ ~(c1.size <= Capacity)
           /\ \E k \in 1..n : /\ q = RoundPosition(c1, k) /\ FitsAfter(c1, k)
                              /\ \A j \in 1..k - 1 : ~FitsAfter(c1, j)
        \/ d = [ResetUpToPosition(c1, q) EXCEPT !.failed = x]
           /\ ~(c1.size <= Capacity) /\ ~\E k \in 1..n : FitsAfter(c1, k)
  <2>1. CASE c1.size <= Capacity
    <3>1. d = c1
      BY <1>1, <2>1, Zenon DEF EvictUntilFits
    <3> QED BY <2>1, <3>1
  <2>2. CASE ~(c1.size <= Capacity) /\ \E k \in 1..n : FitsAfter(c1, k)
    <3> DEFINE T == {k \in 1..n : FitsAfter(c1, k)}
    <3>1. PICK m \in T : \A k \in T : m <= k
      <4>1. T \in SUBSET Nat /\ T # {}
        BY <2>2
      <4> HIDE DEF T
      <4> QED BY <4>1, LeastNat
    <3>2. m \in 1..n /\ FitsAfter(c1, m) /\ \A j \in 1..m - 1 : ~FitsAfter(c1, j)
      <4>1. m \in 1..n /\ FitsAfter(c1, m)
        BY <3>1
      <4>2. ASSUME NEW j \in 1..m - 1, FitsAfter(c1, j) PROVE FALSE
        <5>1. j \in T
          BY <4>1, <4>2
        <5>2. m <= j
          BY <3>1, <5>1
        <5> QED BY <4>1, <5>2
      <4> QED BY <4>1, <4>2
    <3>3. PICK rounds : rounds = CHOOSE k \in 1..n : /\ FitsAfter(c1, k)
                                              /\ \A j \in 1..k - 1 : ~FitsAfter(c1, j)
      OBVIOUS
    <3>4. /\ rounds \in 1..n /\ FitsAfter(c1, rounds)
          /\ \A j \in 1..rounds - 1 : ~FitsAfter(c1, j)
      BY <3>2, <3>3, Zenon
    <3>5. d = ResetUpToPosition(c1, RoundPosition(c1, rounds))
      BY <1>1, <1>2, <1>4, <2>2, <3>3, Zenon DEF EvictUntilFits
    <3>6. RoundPosition(c1, rounds) \in Nat
      BY <1>8, <3>4
    <3> QED BY <2>2, <3>4, <3>5, <3>6, Zenon
  <2>3. CASE ~(c1.size <= Capacity) /\ ~\E k \in 1..n : FitsAfter(c1, k)
    <3>1. d = [ResetUpToPosition(c1, c1.position) EXCEPT !.failed = TRUE]
      BY <1>1, <1>2, <1>4, <2>3, Zenon DEF EvictUntilFits
    <3>2. c1.position \in Nat /\ TRUE \in BOOLEAN
      BY <1>2, <1>5
    <3> QED BY <2>3, <3>1, <3>2
  <2> QED BY <2>1, <2>2, <2>3
<1>10. PICK r : r = ResetUpToPosition(c1, q)
  OBVIOUS
<1>11. /\ r \in CacheSet /\ Cached(r) /\ r.position = c.position
       /\ r.impliedPosition = c.impliedPosition
       /\ c1.resetPosition = c1.position - Len(c1.frames) /\ c1.size >= Len(c1.frames) =>
            /\ r.resetPosition = r.position - Len(r.frames)
            /\ r.size = c1.size - (Len(c1.frames) - Len(r.frames))
            /\ Len(r.frames) = LeftOver(Len(c1.frames), c1.position, q)
  BY <1>2, <1>3, <1>10, ResetFacts
<1>12. /\ d \in CacheSet /\ Cached(d) /\ d.position = c.position
       /\ d.impliedPosition = c.impliedPosition
  <2>1. CASE d = c1
    BY <1>2, <1>3, <2>1
  <2>2. CASE d = r
    BY <1>11, <2>2
  <2>3. CASE d = [r EXCEPT !.failed = x]
    <3>1. /\ d \in CacheSet /\ d.position = r.position /\ d.frames = r.frames
          /\ d.impliedPosition = r.impliedPosition
      BY <1>11, <2>3 DEF CacheSet
    <3> QED BY <1>11, <3>1 DEF Cached
  <2> QED BY <1>9, <1>10, <2>1, <2>2, <2>3
<1>13. ASSUME Sized, Counted(c)
       PROVE  /\ d.resetPosition = P - Len(d.frames)
              /\ d.size = Len(d.frames) + 1
              /\ Len(d.frames) = IF n < Capacity THEN n ELSE n - 1
  <2>1. c.size = n /\ c.resetPosition = P - n /\ n <= Capacity /\ n + 1 < SizeMod
        /\ Capacity > 0 /\ Capacity \in Nat /\ SizeMod \in Nat
    BY <1>4, <1>5, <1>13, CapacityAssumption DEF Counted, Sized
  <2>2. c1.size = n + 1 /\ c1.resetPosition = P - n /\ Len(c1.frames) = n
        /\ c1.position = P
    BY <1>2, <1>4, <1>5, <2>1 DEF SizePlus
  <2>3. CASE n < Capacity
    <3>1. c1.size <= Capacity
      BY <2>1, <2>2, <2>3
    <3>2. d = c1
      BY <1>9, <3>1
    <3> QED BY <2>2, <2>3, <3>2
  <2>4. CASE n = Capacity
    <3>1. ~(c1.size <= Capacity)
      BY <2>1, <2>2, <2>4
    <3>2. 1 \in 1..n /\ FitsAfter(c1, 1)
      <4>1. 1 \in 1..n
        BY <2>1, <2>4
      <4>2. RoundPosition(c1, 1) = P - n + 1
        BY <1>7, <4>1
      <4>3. SizeMinus(n + 1, 1) = n
        BY DEF SizeMinus
      <4>4. (P - n + 1) - (P - n) = 1
        OBVIOUS
      <4> QED BY <2>2, <2>4, <4>1, <4>2, <4>3, <4>4 DEF FitsAfter
    <3>3. PICK k \in 1..n : /\ d = r /\ q = RoundPosition(c1, k)
                            /\ \A j \in 1..k - 1 : ~FitsAfter(c1, j)
      BY <1>9, <1>10, <3>1, <3>2
    <3>4. k = 1
      <4> SUFFICES ASSUME k # 1 PROVE FALSE
        OBVIOUS
      <4>1. 1 \in 1..k - 1
        OBVIOUS
      <4> QED BY <3>2, <3>3, <4>1
    <3>5. q = P - n + 1
      BY <1>7, <3>3, <3>4
    <3>6. PICK l \in Nat : l = Len(r.frames)
      <4>1. r \in CacheSet
        BY <1>11
      <4>2. r.frames \in Seq(EntrySet)
        BY <4>1 DEF CacheSet
      <4>3. Len(r.frames) \in Nat
        BY <4>2
      <4> QED BY <4>3
    <3>7. /\ r.resetPosition = P - l /\ r.size = (n + 1) - (n - l)
          /\ l = LeftOver(n, P, q)
      <4>1. c1.resetPosition = c1.position - Len(c1.frames) /\ c1.size >= Len(c1.frames)
        BY <2>2
      <4>2. /\ r.resetPosition = r.position - Len(r.frames)
            /\ r.size = c1.size - (Len(c1.frames) - Len(r.frames))
            /\ Len(r.frames) = LeftOver(Len(c1.frames), c1.position, q)
        BY <1>11, <4>1, Zenon
      <4>3. r.position = P
        BY <1>5, <1>11, Zenon
      <4> QED BY <2>2, <3>6, <4>2, <4>3, Zenon
    <3>8. l = n - 1
      BY <1>6, <2>1, <2>4, <3>5, <3>7 DEF LeftOver
    <3> QED BY <2>4, <3>3, <3>6, <3>7, <3>8
  <2> QED BY <2>1, <2>3, <2>4
<1> QED BY <1>4, <1>5, <1>12, <1>13, Zenon

(***************************************************************************)
(* A frame that is sent is the last one in the cache, if there is one.     *)
(***************************************************************************)
LEMMA NumberedAppend ==
  ASSUME NEW f \in Seq(EntrySet), NEW q \in Nat, Numbered(f, q),
         NEW g, g = Append(f, [pos |-> q, frame |-> StreamFrame(q + 1)])
  PROVE  g \in Seq(EntrySet) /\ Len(g) = Len(f) + 1 /\ Numbered(g, q + 1)
<1>1. PICK n \in Nat : n = Len(f)
  OBVIOUS
<1>2. PICK x : x = [pos |-> q, frame |-> StreamFrame(q + 1)]
  OBVIOUS
<1>3. x \in EntrySet /\ x.pos = q /\ x.frame = StreamFrame(q + 1)
  <2>1. q + 1 \in Nat
    OBVIOUS
  <2> QED BY <1>2, <2>1, FrameFacts DEF EntrySet
<1>4. /\ g \in Seq(EntrySet) /\ Len(g) = n + 1 /\ g[n + 1] = x
      /\ \A i \in 1..n : g[i] = f[i]
  BY <1>1, <1>2, <1>3, AppendProperties
<1>5. n <= q /\ \A i \in 1..n : f[i].pos = q - n + i - 1 /\ f[i].frame = StreamFrame(q - n + i)
  BY <1>1 DEF Numbered
<1>6. \A i \in 1..n + 1 : /\ g[i].pos = (q + 1) - (n + 1) + i - 1
                          /\ g[i].frame = StreamFrame((q + 1) - (n + 1) + i)
  <2> TAKE i \in 1..n + 1
  <2>1. (q + 1) - (n + 1) + i = q - n + i /\ (q + 1) - (n + 1) + i - 1 = q - n + i - 1
    OBVIOUS
  <2>2. CASE i \in 1..n
    <3>1. g[i].pos = q - n + i - 1 /\ g[i].frame = StreamFrame(q - n + i)
      BY <1>4, <1>5, <2>2, Zenon
    <3> QED BY <2>1, <3>1, Zenon
  <2>3. CASE i = n + 1
    <3>1. q - n + i - 1 = q /\ q - n + i = q + 1
      BY <2>3
    <3>2. g[i] = x
      BY <1>4, <2>3, Zenon
    <3>3. g[i].pos = q - n + i - 1 /\ g[i].frame = StreamFrame(q - n + i)
      BY <1>3, <3>1, <3>2, Zenon
    <3> QED BY <2>1, <3>3, Zenon
  <2>4. i \in 1..n \/ i = n + 1
    OBVIOUS
  <2> QED BY <2>2, <2>3, <2>4, Zenon
<1>7. n + 1 <= q + 1
  BY <1>5
<1> QED BY <1>1, <1>4, <1>6, <1>7 DEF Numbered

(***************************************************************************)
(* trackSentFrame of a frame that is tracked: what becomes of the cache    *)
(* after the eviction.                                                     *)
(***************************************************************************)
Passed(g, x) == [g EXCEPT !.position = @ + 1, !.failed = x]

Added(g, f, m) ==
    [g EXCEPT !.frames = Append(@, [pos |-> g.position, frame |-> f]),
              !.position = @ + 1, !.streamMap = m]

LEMMA TrackRecord ==
  ASSUME NEW c \in CacheSet, Cached(c), NEW f \in FrameSet, ShouldTrackFrame(f.type),
         NEW d, d = TrackSentFrame(c, f)
  PROVE  \E m \in [StreamIds -> Nat], g \in CacheSet, x \in BOOLEAN :
            /\ Cached(g) /\ g.position = c.position /\ g.impliedPosition = c.impliedPosition
            /\ \/ /\ Capacity = 0
                  /\ d = Passed(g, x)
               \/ /\ Capacity > 0
                  /\ g = EvictUntilFits(Grown(c))
                  /\ d = Added(g, f, m)
<1>1. f.len = 1 /\ f.stream \in StreamIds
  BY FrameIsItem, ItemFacts, BoundsAssumption
<1>2. Capacity \in Nat
  BY CapacityAssumption
<1>3. PICK m0 \in [StreamIds -> Nat] : TRUE
  BY DEF CacheSet
<1>4. CASE Capacity = 0
  <2>1. f.len > Capacity
    BY <1>1, <1>4
  <2>2. PICK g : g = ResetUpToPosition(c, c.position)
    OBVIOUS
  <2>3. g \in CacheSet /\ Cached(g) /\ g.position = c.position
        /\ g.impliedPosition = c.impliedPosition
    <3>1. c.position \in Nat
      BY DEF CacheSet
    <3> QED BY <2>2, <3>1, ResetFacts
  <2>4. PICK x : x = (g.failed \/ g.size # 0)
    OBVIOUS
  <2>5. x \in BOOLEAN
    BY <2>4, Zenon
  <2>6. d = [g EXCEPT !.position = g.position + f.len, !.failed = x]
    BY <2>1, <2>2, <2>4, Zenon DEF TrackSentFrame, TrackHugeFrame
  <2>7. d = Passed(g, x)
    BY <1>1, <2>6, Zenon DEF Passed
  <2> QED BY <1>3, <1>4, <2>3, <2>5, <2>7, Zenon
<1>5. CASE Capacity > 0
  <2>1. ~(f.len > Capacity)
    BY <1>1, <1>2, <1>5
  <2>2. PICK g : g = EvictUntilFits(Grown(c))
    OBVIOUS
  <2>3. g \in CacheSet /\ Cached(g) /\ g.position = c.position
        /\ g.impliedPosition = c.impliedPosition
    BY <2>2, EvictFacts
  <2>4. PICK h : h = Append(g.frames, [pos |-> c.position, frame |-> f])
    OBVIOUS
  <2>5. AddFrame(c, f) = [g EXCEPT !.frames = h]
    <3>1. [c EXCEPT !.size = SizePlus(@, f.len)] = Grown(c)
      BY <1>1, Zenon DEF Grown
    <3> QED BY <2>2, <2>4, <3>1, Zenon DEF AddFrame
  <2>6. PICK g1 : g1 = [g EXCEPT !.frames = h]
    OBVIOUS
  <2>7. PICK q : q = c.position + 1
    OBVIOUS
  <2>8. d = [g1 EXCEPT !.position = q, !.streamMap[f.stream] = q]
    BY <1>1, <2>1, <2>5, <2>6, <2>7, Zenon DEF TrackSentFrame, CacheFrame
  <2>9. PICK m : m = [g.streamMap EXCEPT ![f.stream] = q]
    OBVIOUS
  <2>10. m \in [StreamIds -> Nat]
    <3>1. q \in Nat /\ g.streamMap \in [StreamIds -> Nat]
      BY <2>3, <2>7 DEF CacheSet
    <3> QED BY <2>9, <3>1
  <2>11. d = [g EXCEPT !.frames = h, !.position = q, !.streamMap = m]
    BY <2>3, <2>6, <2>8, <2>9 DEF CacheSet
  <2>12. d = Added(g, f, m)
    BY <2>3, <2>4, <2>7, <2>11, Zenon DEF Added
  <2> QED BY <1>5, <2>2, <2>3, <2>10, <2>12, Zenon
<1> QED BY <1>2, <1>4, <1>5

LEMMA TrackAny ==
  ASSUME NEW c \in CacheSet, Cached(c), NEW f \in FrameSet
  PROVE  TrackSentFrame(c, f) \in CacheSet
<1>1. CASE ~ShouldTrackFrame(f.type)
  BY <1>1, Zenon DEF TrackSentFrame
<1>2. CASE ShouldTrackFrame(f.type)
  <2>1. PICK d : d = TrackSentFrame(c, f)
    OBVIOUS
  <2>2. PICK m \in [StreamIds -> Nat], g \in CacheSet, x \in BOOLEAN :
            d = Passed(g, x) \/ d = Added(g, f, m)
    BY <1>2, <2>1, TrackRecord
  <2>3. g.position \in Nat /\ g.frames \in Seq(EntrySet)
    BY DEF CacheSet
  <2>4. PICK h : h = Append(g.frames, [pos |-> g.position, frame |-> f])
    OBVIOUS
  <2>5. h \in Seq(EntrySet)
    BY <2>3, <2>4 DEF EntrySet
  <2>6. PICK q \in Nat : q = g.position + 1
    BY <2>3
  <2>7. CASE d = [g EXCEPT !.position = q, !.failed = x]
    BY <2>1, <2>7 DEF CacheSet
  <2>8. CASE d = [g EXCEPT !.frames = h, !.position = q, !.streamMap = m]
    BY <2>1, <2>5, <2>8 DEF CacheSet
  <2> QED BY <2>2, <2>4, <2>6, <2>7, <2>8 DEF Passed, Added
<1> QED BY <1>1, <1>2

(***************************************************************************)
(* The next frame of the stream is sent.                                   *)
(***************************************************************************)
LEMMA TrackNext ==
  ASSUME NEW c \in CacheSet, Cached(c), Counted(c),
         NEW d, d = TrackSentFrame(c, StreamFrame(c.position + 1))
  PROVE  /\ d \in CacheSet /\ Cached(d) /\ Counted(d)
         /\ d.position = c.position + 1
         /\ d.impliedPosition = c.impliedPosition
         /\ \A n \in Nat : Retains(c, n) => Retains(d, n)
<1>1. PICK P \in Nat : P = c.position
  BY DEF CacheSet
<1>2. PICK f : f = StreamFrame(P + 1)
  OBVIOUS
<1>3. f \in FrameSet /\ f.type = "PAYLOAD"
  <2>1. P + 1 \in Nat
    OBVIOUS
  <2> QED BY <1>2, <2>1, FrameFacts
<1>4. ShouldTrackFrame(f.type)
  BY <1>3 DEF ShouldTrackFrame, TrackedTypes
<1>5. d = TrackSentFrame(c, f)
  BY <1>1, <1>2, Zenon
<1>6. PICK m \in [StreamIds -> Nat], g \in CacheSet, x \in BOOLEAN :
            /\ Cached(g) /\ g.position = c.position /\ g.impliedPosition = c.impliedPosition
            /\ \/ /\ Capacity = 0
                  /\ d = Passed(g, x)
               \/ /\ Capacity > 0
                  /\ g = EvictUntilFits(Grown(c))
                  /\ d = Added(g, f, m)
  BY <1>3, <1>4, <1>5, TrackRecord
<1>7. P + 1 \in Nat /\ g.frames \in Seq(EntrySet) /\ Numbered(g.frames, P)
  BY <1>1, <1>6 DEF Cached, CacheSet
<1>8. CASE Capacity = 0
  <2>1. d = [g EXCEPT !.position = P + 1, !.failed = x]
    BY <1>1, <1>6, <1>8 DEF Passed
  <2>2. d \in CacheSet /\ d.position = P + 1 /\ d.frames = g.frames
        /\ d.impliedPosition = g.impliedPosition
    BY <1>7, <2>1 DEF CacheSet
  <2>3. d.frames = << >>
    BY <1>6, <1>8, <2>2 DEF Cached
  <2>4. ~Sized
    BY <1>8 DEF Sized
  <2>5. Cached(d)
    BY <2>2, <2>3 DEF Cached, Numbered
  <2> QED BY <1>1, <1>6, <2>2, <2>4, <2>5 DEF Counted, Retains
<1>9. CASE Capacity > 0
  <2>1. PICK h : h = Append(g.frames, [pos |-> P, frame |-> f])
    OBVIOUS
  <2>2. h \in Seq(EntrySet) /\ Len(h) = Len(g.frames) + 1 /\ Numbered(h, P + 1)
    BY <1>2, <1>7, <2>1, NumberedAppend
  <2>3. d = [g EXCEPT !.frames = h, !.position = P + 1, !.streamMap = m]
        /\ g = EvictUntilFits(Grown(c))
    BY <1>1, <1>6, <1>9, <2>1 DEF Added
  <2>4. /\ d \in CacheSet /\ d.position = P + 1 /\ d.frames = h
        /\ d.impliedPosition = g.impliedPosition
        /\ d.size = g.size /\ d.resetPosition = g.resetPosition
    BY <1>7, <2>2, <2>3 DEF CacheSet
  <2>5. Cached(d)
    BY <1>9, <2>2, <2>4 DEF Cached
  <2>6. CASE ~Sized
    BY <1>1, <1>6, <2>4, <2>5, <2>6 DEF Counted, Retains
  <2>7. CASE Sized
    <3>1. PICK n \in Nat : n = Len(c.frames)
      BY DEF CacheSet
    <3>2. PICK l \in Nat : l = Len(g.frames)
      BY <1>7
    <3>3. n <= Capacity /\ n <= P /\ Capacity \in Nat
      BY <1>1, <2>7, <3>1, CapacityAssumption DEF Counted, Cached, Numbered
    <3>4. /\ g.resetPosition = P - l /\ g.size = l + 1
          /\ l = IF n < Capacity THEN n ELSE n - 1
      BY <1>1, <1>6, <2>3, <2>7, <3>1, <3>2, EvictFacts
    <3>5. Counted(d)
      BY <1>9, <2>2, <2>4, <3>2, <3>3, <3>4 DEF Counted
    <3>6. ASSUME NEW k \in Nat, Retains(c, k) PROVE Retains(d, k)
      <4>1. n = Capacity \/ P - n <= k
        BY <1>1, <2>7, <3>1, <3>6 DEF Retains
      <4>2. l + 1 = Capacity \/ (P + 1) - (l + 1) <= k
        BY <3>3, <3>4, <4>1
      <4> QED BY <2>2, <2>4, <3>2, <4>2 DEF Retains
    <3> QED BY <1>1, <1>6, <2>4, <2>5, <3>5, <3>6
  <2> QED BY <2>6, <2>7
<1> QED BY <1>8, <1>9, CapacityAssumption

(***************************************************************************)
(* What is sent again from position p is what followed the p-th frame.     *)
(***************************************************************************)
Replay(c, p) ==
    [i \in DOMAIN SendFramesFromPosition(c, p) |-> SendFramesFromPosition(c, p)[i].frame]

LEMMA ReplayFacts ==
  ASSUME NEW c \in CacheSet, Cached(c), NEW p \in Nat, IsPositionAvailable(c, p),
         NEW w, w = Replay(c, p)
  PROVE  /\ w \in Seq(FrameSet)
         /\ \A i \in 1..Len(w) : w[i].type = "PAYLOAD"
         /\ p <= c.position /\ Flow(w, p, c.position)
<1>1. PICK P \in Nat : P = c.position
  BY DEF CacheSet
<1>2. PICK n \in Nat : n = Len(c.frames)
  BY DEF CacheSet
<1>3. /\ c.frames \in Seq(EntrySet) /\ Numbered(c.frames, P) /\ n <= P
      /\ \A i \in 1..n : /\ c.frames[i].pos = P - n + i - 1
                         /\ c.frames[i].frame = StreamFrame(P - n + i)
  BY <1>1, <1>2 DEF CacheSet, Cached, Numbered
<1>4. PICK s : s = SendFramesFromPosition(c, p)
  OBVIOUS
<1>5. CASE p = P
  <2>1. s = << >>
    BY <1>1, <1>4, <1>5 DEF SendFramesFromPosition
  <2>2. w = << >>
    BY <1>4, <2>1 DEF Replay
  <2>3. Flow(w, p, P)
    BY <1>5, <2>2, FlowEmpty
  <2>4. w \in Seq(FrameSet) /\ Len(w) = 0
    BY <2>2
  <2> QED BY <1>1, <1>5, <2>3, <2>4
<1>6. CASE p # P
  <2>1. PICK j \in 1..n : c.frames[j].pos = p
    BY <1>1, <1>2, <1>6 DEF IsPositionAvailable
  <2>2. p = P - n + j - 1 /\ p \in 0..P
    BY <1>3, <2>1
  <2>3. LowerBound(c.frames, p) = j
    <3>1. LowerBound(c.frames, p) = FirstFrom(c.frames, P, p)
      BY <1>3, <2>2, LowerBoundIs
    <3>2. FirstFrom(c.frames, P, p) = j
      BY <1>2, <1>3, <2>2 DEF FirstFrom
    <3> QED BY <3>1, <3>2
  <2>4. s = SubSeq(c.frames, j, Len(c.frames))
    BY <1>1, <1>4, <1>6, <2>3 DEF SendFramesFromPosition
  <2>5. j \in 1..Len(c.frames) + 1
    BY <1>2
  <2>6. s \in Seq(EntrySet) /\ Len(s) = P - p /\ Numbered(s, P)
    <3>1. s \in Seq(EntrySet) /\ Len(s) = Len(c.frames) - j + 1 /\ Numbered(s, P)
      BY <1>3, <2>4, <2>5, DropNumbered
    <3>2. n - j + 1 = P - p
      BY <2>2
    <3> QED BY <1>2, <3>1, <3>2
  <2>7. PICK l \in Nat : l = P - p
    BY <2>2
  <2>8. DOMAIN s = 1..l
    BY <2>6, <2>7
  <2>9. w = [i \in 1..l |-> s[i].frame]
    BY <1>4, <2>8 DEF Replay
  <2>10. \A i \in 1..l : s[i].frame = StreamFrame(p + i) /\ p + i \in Nat
    <3> TAKE i \in 1..l
    <3>1. s[i].frame = StreamFrame(P - l + i)
      BY <2>6, <2>7 DEF Numbered
    <3>2. P - l + i = p + i
      BY <2>7
    <3> QED BY <3>1, <3>2
  <2>11. \A i \in 1..l : /\ s[i].frame \in FrameSet
                         /\ s[i].frame.type = "PAYLOAD" /\ s[i].frame.stream = 1
                         /\ s[i].frame.a = p + i
    BY <2>10, FrameFacts
  <2>12. w \in Seq(FrameSet) /\ Len(w) = l /\ \A i \in 1..l : w[i] = s[i].frame
    BY <2>9, <2>11
  <2>13. w \in Seq(ItemSet)
    BY <2>12, FrameIsItem
  <2>14. \A i \in 1..Len(w) : w[i].stream = 1 /\ w[i].a = p + i
    BY <2>11, <2>12
  <2>15. Flow(w, p, p + Len(w))
    BY <2>13, <2>14, FlowRange
  <2>16. p + Len(w) = P
    BY <2>7, <2>12
  <2>17. \A i \in 1..Len(w) : w[i].type = "PAYLOAD"
    BY <2>11, <2>12
  <2>18. p <= P /\ Flow(w, p, P)
    BY <2>2, <2>15, <2>16
  <2> QED BY <1>1, <2>12, <2>17, <2>18, Zenon
<1> QED BY <1>5, <1>6

-----------------------------------------------------------------------------
(* Conditions on all frames of a sequence                                  *)

LEMMA AppendAll ==
  ASSUME NEW w \in Seq(ItemSet), NEW f \in ItemSet
  PROVE  /\ \A T : AllIn(w, 1, T) /\ f.type \in T => AllIn(Append(w, f), 1, T)
         /\ \A d \in Nat : Acks(w, d) /\ (f.type = "KEEPALIVE" => f.a <= d)
                              => Acks(Append(w, f), d)
<1>1. PICK n \in Nat : n = Len(w)
  OBVIOUS
<1>2. PICK v : v = Append(w, f)
  OBVIOUS
<1>3. Len(v) = n + 1 /\ v[n + 1] = f /\ \A i \in 1..n : v[i] = w[i]
  BY <1>1, <1>2, AppendProperties
<1>4. \A i \in 1..n + 1 : i \in 1..n \/ i = n + 1
  OBVIOUS
<1>5. \A i \in 1..n : i >= 1
  OBVIOUS
<1>6. \A T : AllIn(w, 1, T) /\ f.type \in T => AllIn(v, 1, T)
  BY <1>1, <1>3, <1>4, <1>5 DEF AllIn
<1>7. \A d \in Nat : Acks(w, d) /\ (f.type = "KEEPALIVE" => f.a <= d) => Acks(v, d)
  BY <1>1, <1>3, <1>4 DEF Acks
<1> QED BY <1>2, <1>6, <1>7

LEMMA JoinAll ==
  ASSUME NEW v \in Seq(ItemSet), NEW w \in Seq(ItemSet)
  PROVE  /\ \A T : AllIn(v, 1, T) /\ AllIn(w, 1, T) => AllIn(v \o w, 1, T)
         /\ \A T : AllIn(v, 2, T) /\ AllIn(w, 1, T) => AllIn(v \o w, 2, T)
         /\ \A d \in Nat : Acks(v, d) /\ Acks(w, d) => Acks(v \o w, d)
         /\ AllEnd(v) /\ AllEnd(w) => AllEnd(v \o w)
<1>1. PICK m \in Nat : m = Len(v)
  OBVIOUS
<1>2. PICK n \in Nat : n = Len(w)
  OBVIOUS
<1>3. PICK u : u = v \o w
  OBVIOUS
<1>4. Len(u) = m + n /\ (\A i \in 1..m : u[i] = v[i]) /\ \A i \in 1..n : u[m + i] = w[i]
  BY <1>1, <1>2, <1>3, ConcatFacts
<1>5. ASSUME NEW i \in 1..m + n
      PROVE  (i \in 1..m /\ u[i] = v[i]) \/ \E j \in 1..n : j >= 1 /\ u[i] = w[j]
  <2>1. CASE i <= m
    <3>1. i \in 1..m
      BY <2>1
    <3> QED BY <1>4, <3>1
  <2>2. CASE i > m
    <3>1. i - m \in 1..n /\ m + (i - m) = i /\ i - m >= 1
      BY <2>2
    <3>2. u[m + (i - m)] = w[i - m]
      BY <1>4, <3>1, Zenon
    <3> QED BY <3>1, <3>2
  <2> QED BY <2>1, <2>2
<1>6. \A i \in 1..m : i >= 1
  OBVIOUS
<1>7. \A T : AllIn(v, 1, T) /\ AllIn(w, 1, T) => AllIn(u, 1, T)
  BY <1>1, <1>2, <1>4, <1>5, <1>6, Zenon DEF AllIn
<1>8. \A T : AllIn(v, 2, T) /\ AllIn(w, 1, T) => AllIn(u, 2, T)
  BY <1>1, <1>2, <1>4, <1>5, <1>6, Zenon DEF AllIn
<1>9. \A d \in Nat : Acks(v, d) /\ Acks(w, d) => Acks(u, d)
  <2> SUFFICES ASSUME NEW d \in Nat, Acks(v, d), Acks(w, d), NEW i \in 1..m + n,
                      u[i].type = "KEEPALIVE"
               PROVE  u[i].a <= d
    BY <1>4, Zenon DEF Acks
  <2> QED BY <1>1, <1>2, <1>5 DEF Acks
<1>10. AllEnd(v) /\ AllEnd(w) => AllEnd(u)
  <2> SUFFICES ASSUME AllEnd(v), AllEnd(w), NEW i \in 1..m + n
               PROVE  u[i].type = "END"
    BY <1>4, Zenon DEF AllEnd
  <2> QED BY <1>1, <1>2, <1>5 DEF AllEnd
<1> QED BY <1>3, <1>7, <1>8, <1>9, <1>10

-----------------------------------------------------------------------------
(* One end: what its operations do                                         *)

LEMMA EndFacts ==
  ASSUME NEW x \in EndSet
  PROVE  /\ x.transport \in Nat /\ x.closed \in BOOLEAN /\ x.resuming \in BOOLEAN
         /\ x.awaiting \in BOOLEAN /\ x.cache \in CacheSet
         /\ x.pending \in Seq(FrameSet) /\ x.out \in Seq(FrameSet)
         /\ x.pending \in Seq(ItemSet) /\ x.out \in Seq(ItemSet)
         /\ x.written \in Nat /\ x.delivered \in Seq(Nat) /\ Len(x.delivered) \in Nat
         /\ x.cache.position \in Nat /\ x.cache.impliedPosition \in Nat
<1>1. /\ x.transport \in Nat /\ x.closed \in BOOLEAN /\ x.resuming \in BOOLEAN
      /\ x.awaiting \in BOOLEAN /\ x.cache \in CacheSet
      /\ x.pending \in Seq(FrameSet) /\ x.out \in Seq(FrameSet)
      /\ x.written \in Nat /\ x.delivered \in Seq(Nat)
  BY DEF EndSet
<1>2. x.cache.position \in Nat /\ x.cache.impliedPosition \in Nat
  BY <1>1 DEF CacheSet
<1>3. Len(x.delivered) \in Nat
  BY <1>1
<1> QED BY <1>1, <1>2, <1>3, FrameIsItem

(***************************************************************************)
(* What is passed on with the pending frames.                              *)
(***************************************************************************)
Sent(x, c, w) == [x EXCEPT !.cache = c, !.pending = << >>, !.out = w]

LEMMA SentFacts ==
  ASSUME NEW x \in EndSet, NEW c \in CacheSet, NEW w \in Seq(FrameSet),
         NEW z, z = Sent(x, c, w)
  PROVE  /\ z \in EndSet
         /\ z.transport = x.transport /\ z.closed = x.closed /\ z.resuming = x.resuming
         /\ z.awaiting = x.awaiting /\ z.cache = c /\ z.pending = << >> /\ z.out = w
         /\ z.written = x.written /\ z.delivered = x.delivered
<1>1. << >> \in Seq(FrameSet)
  OBVIOUS
<1> QED BY <1>1 DEF Sent, EndSet

LEMMA SendOne ==
  ASSUME NEW x \in EndSet, x.transport # 0, ~x.resuming,
         NEW c \in CacheSet, NEW w \in Seq(FrameSet), NEW f \in FrameSet
  PROVE  OutputFrameOrEnqueue(Sent(x, c, w), f)
            = Sent(x, TrackSentFrame(c, f), Append(w, f))
<1>1. PICK y : y = Sent(x, c, w)
  OBVIOUS
<1>2. y.transport # 0 /\ ~y.resuming /\ y.cache = c /\ y.out = w
  BY <1>1, SentFacts
<1>3. PICK c1 : c1 = TrackSentFrame(c, f)
  OBVIOUS
<1>4. PICK w1 : w1 = Append(w, f)
  OBVIOUS
<1>5. OutputFrameOrEnqueue(y, f) = [y EXCEPT !.cache = c1, !.out = w1]
  BY <1>2, <1>3, <1>4, Zenon DEF OutputFrameOrEnqueue
<1>6. [y EXCEPT !.cache = c1, !.out = w1] = Sent(x, c1, w1)
  BY <1>1 DEF Sent, EndSet
<1> QED BY <1>1, <1>3, <1>4, <1>5, <1>6

(***************************************************************************)
(* sendPendingFrames is well defined.                                      *)
(***************************************************************************)
IsAfter(f, y, p, l) ==
    f = [n \in 0..l |-> IF n = 0 THEN y ELSE OutputFrameOrEnqueue(f[n - 1], p[n])]

LEMMA AfterExists ==
  ASSUME NEW y, NEW p, NEW l \in Nat
  PROVE  \E f : IsAfter(f, y, p, l)
<1> DEFINE Is(f, k) == f = [n \in 0..k |-> IF n = 0 THEN y
                                          ELSE OutputFrameOrEnqueue(f[n - 1], p[n])]
<1> DEFINE Bad == {k \in Nat : ~\E f : Is(f, k)}
<1>1. Bad = {}
  <2> SUFFICES ASSUME Bad # {} PROVE FALSE
    OBVIOUS
  <2>1. PICK k \in Bad : \A j \in Bad : k <= j
    <3>1. Bad \in SUBSET Nat
      OBVIOUS
    <3> HIDE DEF Bad
    <3> QED BY <3>1, LeastNat
  <2>2. k \in Nat /\ ~\E f : Is(f, k)
    OBVIOUS
  <2>3. k # 0
    <3> SUFFICES ASSUME k = 0 PROVE FALSE
      OBVIOUS
    <3>1. PICK f : f = [n \in 0..0 |-> y]
      OBVIOUS
    <3>2. f = [n \in 0..0 |-> IF n = 0 THEN y ELSE OutputFrameOrEnqueue(f[n - 1], p[n])]
      <4>1. \A n \in 0..0 : n = 0
        OBVIOUS
      <4> QED BY <3>1, <4>1
    <3>3. Is(f, 0)
      BY <3>2
    <3> HIDE DEF Is
    <3> QED BY <2>2, <3>3
  <2>4. k - 1 \in Nat /\ k - 1 \notin Bad
    <3>1. k - 1 \in Nat /\ ~(k <= k - 1)
      BY <2>2, <2>3
    <3> HIDE DEF Bad
    <3> QED BY <2>1, <3>1
  <2>5. PICK f : Is(f, k - 1)
    <3> HIDE DEF Is
    <3> QED BY <2>4
  <2>6. PICK j \in Nat : j = k - 1
    BY <2>4
  <2>7. k = j + 1 /\ j \in 0..j
    BY <2>2, <2>6
  <2>8. PICK last : last = OutputFrameOrEnqueue(f[j], p[k])
    OBVIOUS
  <2>9. PICK g : g = [n \in 0..k |-> IF n <= j THEN f[n] ELSE last]
    OBVIOUS
  <2>10. \A n \in 0..j : f[n] = IF n = 0 THEN y ELSE OutputFrameOrEnqueue(f[n - 1], p[n])
    BY <2>5, <2>6
  <2>11. /\ \A n \in 0..j : g[n] = f[n]
         /\ g[k] = last
    BY <2>7, <2>9
  <2>12. \A n \in 0..k : g[n] = IF n = 0 THEN y ELSE OutputFrameOrEnqueue(g[n - 1], p[n])
    <3> TAKE n \in 0..k
    <3>1. CASE n = 0
      <4>1. 0 \in 0..j
        OBVIOUS
      <4> QED BY <2>10, <2>11, <3>1, <4>1
    <3>2. CASE n # 0 /\ n <= j
      <4>1. n \in 0..j /\ n - 1 \in 0..j
        BY <3>2
      <4>2. g[n] = f[n] /\ g[n - 1] = f[n - 1]
        BY <2>11, <4>1, Zenon
      <4>3. f[n] = OutputFrameOrEnqueue(f[n - 1], p[n])
        BY <2>10, <3>2, <4>1, Zenon
      <4> QED BY <3>2, <4>2, <4>3, Zenon
    <3>3. CASE n = k
      <4>1. n # 0 /\ n - 1 = j
        BY <2>3, <2>7, <3>3
      <4>2. g[n - 1] = f[j]
        BY <2>7, <2>11, <4>1
      <4> QED BY <2>8, <2>11, <3>3, <4>1, <4>2
    <3>4. n = 0 \/ (n # 0 /\ n <= j) \/ n = k
      BY <2>7
    <3> QED BY <3>1, <3>2, <3>3, <3>4, Zenon
  <2>13. Is(g, k)
    BY <2>9, <2>12, Zenon
  <2> HIDE DEF Is
  <2> QED BY <2>2, <2>13
<1>2. \E f : Is(f, l)
  <2> HIDE DEF Is
  <2> QED BY <1>1
<1> QED BY <1>2 DEF IsAfter

(***************************************************************************)
(* sendPendingFrames outputs what is pending, in order, and the cache then *)
(* stands at the last frame written.                                       *)
(***************************************************************************)
LEMMA SendPendingFacts ==
  ASSUME NEW x \in EndSet, Local(x), ~x.closed, x.transport # 0, ~x.resuming
  PROVE  \E c \in CacheSet :
            /\ SendPending(x) = Sent(x, c, x.out \o x.pending)
            /\ Cached(c) /\ Counted(c)
            /\ c.position = x.written
            /\ c.impliedPosition = x.cache.impliedPosition
            /\ \A n \in Nat : Retains(x.cache, n) => Retains(c, n)
<1>1. PICK l \in Nat : l = Len(x.pending)
  BY EndFacts
<1>2. PICK q \in Nat : q = Len(x.out)
  BY EndFacts
<1>3. PICK p : p = x.pending
  OBVIOUS
<1>4. PICK y : y = [x EXCEPT !.pending = << >>]
  OBVIOUS
<1>5. /\ p \in Seq(FrameSet) /\ Len(p) = l
      /\ \A i \in 1..l : p[i] \in FrameSet /\ p[i] \in ItemSet
  BY <1>1, <1>3, EndFacts
<1>6. /\ x.cache.impliedPosition = Len(x.delivered) /\ Cached(x.cache) /\ Counted(x.cache)
      /\ Flow(p, x.cache.position, x.written)
      /\ AllIn(p, 1, {"PAYLOAD", "KEEPALIVE"})
  BY <1>3 DEF Local
<1>7. PICK P \in [Nat -> Nat] :
        /\ P[0] = x.cache.position /\ P[l] = x.written
        /\ \A i \in 1..l : /\ P[i] = IF p[i].stream = 1 THEN P[i - 1] + 1 ELSE P[i - 1]
                           /\ p[i].stream = 1 => p[i].a = P[i]
  BY <1>5, <1>6 DEF Flow
<1>8. PICK after : /\ after = [n \in 0..l |-> IF n = 0 THEN y
                                    ELSE OutputFrameOrEnqueue(after[n - 1], p[n])]
                   /\ SendPending(x) = after[l]
  <2> DEFINE A == CHOOSE f : IsAfter(f, y, p, l)
  <2>1. SendPending(x) = A[l]
    BY <1>1, <1>3, <1>4, Zenon DEF SendPending, IsAfter
  <2>2. A = [n \in 0..l |-> IF n = 0 THEN y ELSE OutputFrameOrEnqueue(A[n - 1], p[n])]
    <3>1. \E f : IsAfter(f, y, p, l)
      BY AfterExists
    <3>2. IsAfter(A, y, p, l)
      BY <3>1, Zenon
    <3> HIDE DEF A
    <3> QED BY <3>2, Zenon DEF IsAfter
  <2> HIDE DEF A
  <2> QED BY <2>1, <2>2
<1>9. after[0] = y /\ \A n \in 1..l : after[n] = OutputFrameOrEnqueue(after[n - 1], p[n])
  <2>1. 0 \in 0..l /\ \A n \in 1..l : n \in 0..l /\ n # 0
    OBVIOUS
  <2> QED BY <1>8, <2>1
<1> DEFINE Upto(n, c, w) ==
      /\ after[n] = Sent(x, c, w)
      /\ Cached(c) /\ Counted(c)
      /\ c.position = P[n] /\ c.impliedPosition = x.cache.impliedPosition
      /\ \A k \in Nat : Retains(x.cache, k) => Retains(c, k)
      /\ Len(w) = q + n
      /\ \A i \in 1..q : w[i] = x.out[i]
      /\ \A i \in 1..n : w[q + i] = p[i]
<1> DEFINE Bad == {n \in 0..l : ~\E c \in CacheSet, w \in Seq(FrameSet) : Upto(n, c, w)}
<1>10. 0 \notin Bad
  <2>1. y = Sent(x, x.cache, x.out)
    BY <1>4 DEF Sent, EndSet
  <2>2. x.cache \in CacheSet /\ x.out \in Seq(FrameSet)
    BY EndFacts
  <2>3. Len(x.out) = q + 0 /\ \A i \in 1..0 : x.out[q + i] = p[i]
    BY <1>2
  <2>4. Upto(0, x.cache, x.out)
    BY <1>6, <1>7, <1>9, <2>1, <2>3
  <2> HIDE DEF Upto
  <2> QED BY <2>2, <2>4
<1>11. ASSUME NEW n \in 1..l, NEW c \in CacheSet, NEW w \in Seq(FrameSet), Upto(n - 1, c, w)
       PROVE  \E c1 \in CacheSet, w1 \in Seq(FrameSet) : Upto(n, c1, w1)
  <2>1. PICK f \in FrameSet : f = p[n]
    BY <1>5
  <2>2. PICK c1 : c1 = TrackSentFrame(c, f)
    OBVIOUS
  <2>3. PICK w1 : w1 = Append(w, f)
    OBVIOUS
  <2>4. after[n] = Sent(x, c1, w1)
    <3>1. after[n] = OutputFrameOrEnqueue(Sent(x, c, w), f)
      BY <1>9, <1>11, <2>1
    <3> QED BY <2>2, <2>3, <3>1, SendOne
  <2>5. /\ w1 \in Seq(FrameSet) /\ Len(w1) = q + n
        /\ \A i \in 1..q : w1[i] = x.out[i]
        /\ \A i \in 1..n : w1[q + i] = p[i]
    <3>1. PICK j \in Nat : n = j + 1
      <4>1. n - 1 \in Nat /\ n = (n - 1) + 1
        OBVIOUS
      <4> QED BY <4>1, Zenon
    <3>2. Len(w) = q + j /\ n - 1 = j
      BY <1>11, <3>1
    <3>3. /\ w1 \in Seq(FrameSet) /\ Len(w1) = (q + j) + 1 /\ w1[(q + j) + 1] = f
          /\ \A i \in 1..q + j : w1[i] = w[i]
      <4> HIDE DEF Upto
      <4>1. /\ w1 \in Seq(FrameSet) /\ Len(w1) = Len(w) + 1 /\ w1[Len(w) + 1] = f
            /\ \A i \in 1..Len(w) : w1[i] = w[i]
        BY <2>3, AppendProperties
      <4> QED BY <3>2, <4>1
    <3>4. \A i \in 1..q : w1[i] = x.out[i]
      <4> TAKE i \in 1..q
      <4>1. i \in 1..q + j
        OBVIOUS
      <4> QED BY <1>11, <3>3, <4>1
    <3>5. \A i \in 1..n : w1[q + i] = p[i]
      <4> TAKE i \in 1..n
      <4>1. CASE i \in 1..j
        <5>1. q + i \in 1..q + j
          BY <4>1
        <5>2. w[q + i] = p[i]
          BY <1>11, <3>2, <4>1
        <5> QED BY <3>3, <5>1, <5>2
      <4>2. CASE i = n
        <5>1. q + i = (q + j) + 1
          BY <3>1, <4>2
        <5> QED BY <2>1, <3>3, <4>2, <5>1
      <4>3. i \in 1..j \/ i = n
        BY <3>1
      <4> QED BY <4>1, <4>2, <4>3
    <3>6. (q + j) + 1 = q + n
      BY <3>1
    <3> QED BY <3>3, <3>4, <3>5, <3>6
  <2>6. /\ c1 \in CacheSet /\ Cached(c1) /\ Counted(c1)
        /\ c1.position = P[n] /\ c1.impliedPosition = x.cache.impliedPosition
        /\ \A k \in Nat : Retains(x.cache, k) => Retains(c1, k)
    <3>1. /\ P[n] = IF f.stream = 1 THEN P[n - 1] + 1 ELSE P[n - 1]
          /\ f.stream = 1 => f.a = P[n]
      BY <1>7, <2>1, Zenon
    <3>2. c.position = P[n - 1] /\ c.position \in Nat
      BY <1>11 DEF CacheSet
    <3>3. f \in ItemSet
      BY FrameIsItem
    <3>4. CASE f.stream = 1
      <4>1. f = StreamFrame(c.position + 1) /\ P[n] = c.position + 1
        BY <3>1, <3>2, <3>3, <3>4, ItemFacts
      <4>2. c1 = TrackSentFrame(c, StreamFrame(c.position + 1))
        BY <2>2, <4>1, Zenon
      <4>3. Cached(c) /\ Counted(c)
        BY <1>11
      <4>4. /\ c1 \in CacheSet /\ Cached(c1) /\ Counted(c1)
            /\ c1.position = c.position + 1
            /\ c1.impliedPosition = c.impliedPosition
            /\ \A k \in Nat : Retains(c, k) => Retains(c1, k)
        BY <4>2, <4>3, TrackNext
      <4> QED BY <1>11, <4>1, <4>4
    <3>5. CASE f.stream # 1
      <4>1. f.type # "PAYLOAD"
        BY <3>3, <3>5, ItemFacts
      <4>2. f.type \in {"PAYLOAD", "KEEPALIVE"}
        <5> HIDE DEF Upto
        <5>1. n \in 1..Len(p) /\ n >= 1
          BY <1>5
        <5> QED BY <1>6, <2>1, <5>1, Zenon DEF AllIn
      <4>3. ~ShouldTrackFrame(f.type)
        BY <4>1, <4>2 DEF ShouldTrackFrame, TrackedTypes
      <4>4. c1 = c
        BY <2>2, <4>3, Zenon DEF TrackSentFrame
      <4> QED BY <1>11, <3>1, <3>2, <3>5, <4>4
    <3> QED BY <3>4, <3>5
  <2>7. Upto(n, c1, w1)
    BY <2>4, <2>5, <2>6
  <2> HIDE DEF Upto
  <2> QED BY <2>5, <2>6, <2>7
<1>12. Bad = {}
  <2> SUFFICES ASSUME Bad # {} PROVE FALSE
    OBVIOUS
  <2>1. Bad \in SUBSET Nat
    OBVIOUS
  <2>2. PICK n \in Bad : \A j \in Bad : n <= j
    <3> HIDE DEF Bad
    <3> QED BY <2>1, LeastNat
  <2>3. n \in 0..l /\ n # 0 /\ ~\E c \in CacheSet, w \in Seq(FrameSet) : Upto(n, c, w)
    BY <1>10, <2>2
  <2>4. n \in 1..l /\ n - 1 \in 0..l /\ ~(n <= n - 1)
    <3> HIDE DEF Upto, Bad
    <3> QED BY <2>3
  <2>5. n - 1 \notin Bad
    <3> HIDE DEF Bad
    <3> QED BY <2>2, <2>4
  <2>6. PICK c \in CacheSet, w \in Seq(FrameSet) : Upto(n - 1, c, w)
    <3> HIDE DEF Upto
    <3> QED BY <2>4, <2>5
  <2> HIDE DEF Upto
  <2> QED BY <1>11, <2>3, <2>4, <2>6
<1>13. PICK c \in CacheSet, w \in Seq(FrameSet) : Upto(l, c, w)
  <2>1. l \in 0..l /\ l \notin Bad
    <3> HIDE DEF Upto, Bad
    <3> QED BY <1>12
  <2> HIDE DEF Upto
  <2> QED BY <2>1
<1>14. w = x.out \o p
  <2>1. x.out \in Seq(FrameSet) /\ Len(x.out) = q
    BY <1>2, EndFacts
  <2>2. /\ Len(w) = q + l
        /\ \A i \in 1..q : w[i] = x.out[i]
        /\ \A i \in 1..l : w[q + i] = p[i]
    BY <1>13
  <2> HIDE DEF Upto, Bad
  <2> QED BY <1>5, <2>1, <2>2, ConcatIs
<1> QED BY <1>3, <1>7, <1>8, <1>13, <1>14

(***************************************************************************)
(* z is x after a step in which it keeps its transport and outputs z.out.  *)
(* The other end has got n frames.                                         *)
(***************************************************************************)
Stays(e, x, z, n) ==
    /\ z \in EndSet /\ Shape(e, z) /\ Local(z)
    /\ z.transport = x.transport /\ z.closed = x.closed
    /\ z.resuming => x.resuming
    /\ x.written <= z.written
    /\ ~z.closed => x.cache.position <= z.cache.position /\ Retains(z.cache, n)
    /\ AllIn(z.out, 1, {"PAYLOAD", "KEEPALIVE"})
    /\ Acks(z.out, Len(x.delivered))
    /\ z.transport = 0 \/ z.resuming => z.out = << >>

(***************************************************************************)
(* What z has output continues from the r-th frame.                        *)
(***************************************************************************)
Emits(z, r) == ~z.closed => Flow(z.out, r, z.cache.position)

(***************************************************************************)
(* z is x after a step in which it leaves its transport.                   *)
(***************************************************************************)
Leaves(x, z) ==
    /\ z \in EndSet /\ Local(z)
    /\ z.transport = 0 /\ ~z.resuming /\ ~z.awaiting
    /\ z.written = x.written /\ z.delivered = x.delivered
    /\ x.closed => z.closed
    /\ ~z.closed => z.cache = x.cache /\ z.out = << >>
    /\ AllIn(z.out, 1, {"ERROR"})
    /\ x.transport = 0 \/ x.resuming => z.out = << >>

LEMMA OutputFields ==
  ASSUME NEW x \in EndSet, Cached(x.cache), NEW f \in FrameSet,
         NEW z, z = OutputFrameOrEnqueue(x, f)
  PROVE  /\ z \in EndSet
         /\ z.transport = x.transport /\ z.closed = x.closed /\ z.resuming = x.resuming
         /\ z.awaiting = x.awaiting /\ z.written = x.written /\ z.delivered = x.delivered
         /\ IF x.transport # 0 /\ ~x.resuming
            THEN /\ z.cache = TrackSentFrame(x.cache, f)
                 /\ z.out = Append(x.out, f) /\ z.pending = x.pending
            ELSE /\ z.cache = x.cache
                 /\ z.out = x.out /\ z.pending = Append(x.pending, f)
<1>1. x.cache \in CacheSet /\ x.out \in Seq(FrameSet) /\ x.pending \in Seq(FrameSet)
  BY EndFacts
<1>2. CASE x.transport # 0 /\ ~x.resuming
  <2>1. PICK c \in CacheSet : c = TrackSentFrame(x.cache, f)
    BY <1>1, TrackAny
  <2>2. PICK w \in Seq(FrameSet) : w = Append(x.out, f)
    BY <1>1, AppendProperties
  <2>3. z = [x EXCEPT !.cache = c, !.out = w]
    BY <1>2, <2>1, <2>2, Zenon DEF OutputFrameOrEnqueue
  <2>4. /\ z \in EndSet
        /\ z.transport = x.transport /\ z.closed = x.closed /\ z.resuming = x.resuming
        /\ z.awaiting = x.awaiting /\ z.written = x.written /\ z.delivered = x.delivered
        /\ z.cache = c /\ z.out = w /\ z.pending = x.pending
    BY <2>3 DEF EndSet
  <2> QED BY <1>2, <2>1, <2>2, <2>4, Zenon
<1>3. CASE ~(x.transport # 0 /\ ~x.resuming)
  <2>2. PICK w \in Seq(FrameSet) : w = Append(x.pending, f)
    BY <1>1, AppendProperties
  <2>3. z = [x EXCEPT !.pending = w]
    BY <1>3, <2>2, Zenon DEF OutputFrameOrEnqueue
  <2>4. /\ z \in EndSet
        /\ z.transport = x.transport /\ z.closed = x.closed /\ z.resuming = x.resuming
        /\ z.awaiting = x.awaiting /\ z.written = x.written /\ z.delivered = x.delivered
        /\ z.cache = x.cache /\ z.out = x.out /\ z.pending = w
    BY <2>3 DEF EndSet
  <2> QED BY <1>3, <2>2, <2>4, Zenon
<1> QED BY <1>2, <1>3

LEMMA LeaveRecord ==
  ASSUME NEW x \in EndSet, NEW z,
         z = [x EXCEPT !.transport = 0, !.resuming = FALSE, !.awaiting = FALSE]
  PROVE  /\ z \in EndSet /\ z.transport = 0 /\ z.closed = x.closed /\ z.resuming = FALSE
         /\ z.awaiting = FALSE /\ z.cache = x.cache /\ z.pending = x.pending
         /\ z.out = x.out /\ z.written = x.written /\ z.delivered = x.delivered
<1>1. PICK t \in Nat : t = 0
  OBVIOUS
<1>2. PICK b \in BOOLEAN : b = FALSE
  OBVIOUS
<1>3. z = [x EXCEPT !.transport = t, !.resuming = b, !.awaiting = b]
  BY <1>1, <1>2, Zenon
<1>4. /\ z \in EndSet /\ z.transport = t /\ z.closed = x.closed /\ z.resuming = b
      /\ z.awaiting = b /\ z.cache = x.cache /\ z.pending = x.pending
      /\ z.out = x.out /\ z.written = x.written /\ z.delivered = x.delivered
  BY <1>3 DEF EndSet
<1> QED BY <1>1, <1>2, <1>4, Zenon

LEMMA LocalOpen ==
  ASSUME NEW x \in EndSet, Local(x), ~x.closed
  PROVE  /\ \A i \in 1..Len(x.delivered) : x.delivered[i] = i
         /\ x.cache.impliedPosition = Len(x.delivered)
         /\ Cached(x.cache) /\ Counted(x.cache)
         /\ Flow(x.pending, x.cache.position, x.written)
         /\ AllIn(x.pending, 1, {"PAYLOAD", "KEEPALIVE"})
         /\ Acks(x.pending, Len(x.delivered))
         /\ x.cache.position <= x.written
<1>1. x.cache.position <= x.written
  BY EndFacts, FlowGrows DEF Local
<1> QED BY <1>1 DEF Local

LEMMA DisconnectLeaves ==
  ASSUME NEW e, NEW x \in EndSet, Local(x), Shape(e, x), x.out = << >>,
         NEW z, z = Disconnect(x)
  PROVE  Leaves(x, z) /\ z.closed = x.closed
<1>1. AllIn(<< >>, 1, {"ERROR"})
  BY DEF AllIn
<1>2. CASE x.transport = 0
  <2>1. z = x
    BY <1>2, Zenon DEF Disconnect, CloseFrameTransport
  <2> QED BY <1>1, <1>2, <2>1 DEF Leaves, Shape
<1>3. CASE x.transport # 0
  <2>1. z = [x EXCEPT !.transport = 0, !.resuming = FALSE, !.awaiting = FALSE]
    BY <1>3, Zenon DEF Disconnect, CloseFrameTransport
  <2>2. /\ z \in EndSet /\ z.transport = 0 /\ z.closed = x.closed /\ z.resuming = FALSE
        /\ z.awaiting = FALSE /\ z.cache = x.cache /\ z.pending = x.pending
        /\ z.out = x.out /\ z.written = x.written /\ z.delivered = x.delivered
    BY <2>1, LeaveRecord
  <2>3. Local(z)
    BY <2>2 DEF Local
  <2> QED BY <1>1, <2>2, <2>3 DEF Leaves
<1> QED BY <1>2, <1>3

LEMMA CloseFields ==
  ASSUME NEW e, NEW x \in EndSet, Shape(e, x), ~x.closed, NEW z, z = Close(x)
  PROVE  /\ z \in EndSet /\ z.transport = 0 /\ z.closed /\ ~z.resuming /\ ~z.awaiting
         /\ z.written = x.written /\ z.delivered = x.delivered /\ z.out = x.out
<1>1. PICK y : y = [x EXCEPT !.closed = TRUE, !.resuming = FALSE]
  OBVIOUS
<1>2. z = CloseFrameTransport(y)
  BY <1>1, Zenon DEF Close
<1>3. /\ y \in EndSet /\ y.transport = x.transport /\ y.closed = TRUE /\ y.resuming = FALSE
      /\ y.awaiting = x.awaiting /\ y.out = x.out
      /\ y.written = x.written /\ y.delivered = x.delivered
  BY <1>1 DEF EndSet
<1>4. CASE x.transport = 0
  <2>1. z = y
    BY <1>2, <1>3, <1>4, Zenon DEF CloseFrameTransport
  <2> QED BY <1>3, <1>4, <2>1 DEF Shape
<1>5. CASE x.transport # 0
  <2>1. z = [y EXCEPT !.transport = 0, !.resuming = FALSE, !.awaiting = FALSE]
    BY <1>2, <1>3, <1>5, Zenon DEF CloseFrameTransport
  <2>2. /\ z \in EndSet /\ z.transport = 0 /\ z.closed = y.closed /\ z.resuming = FALSE
        /\ z.awaiting = FALSE
        /\ z.out = y.out /\ z.written = y.written /\ z.delivered = y.delivered
    BY <1>3, <2>1, LeaveRecord
  <2> QED BY <1>3, <2>2
<1> QED BY <1>4, <1>5

LEMMA CloseLeaves ==
  ASSUME NEW e, NEW x \in EndSet, Local(x), Shape(e, x), ~x.closed, x.out = << >>,
         NEW z, z = Close(x)
  PROVE  Leaves(x, z) /\ z.closed
<1>1. AllIn(<< >>, 1, {"ERROR"})
  BY DEF AllIn
<1>2. /\ z \in EndSet /\ z.transport = 0 /\ z.closed /\ ~z.resuming /\ ~z.awaiting
      /\ z.written = x.written /\ z.delivered = x.delivered /\ z.out = x.out
  BY CloseFields
<1>3. Local(z)
  BY <1>2 DEF Local
<1> QED BY <1>1, <1>2, <1>3 DEF Leaves

(***************************************************************************)
(* y is x, with the frame at hand tracked.                                 *)
(***************************************************************************)
LEMMA CloseWithErrorGives ==
  ASSUME NEW x \in EndSet, NEW y \in EndSet, Local(x), Cached(y.cache),
         y.transport = 0 => ~y.awaiting, ~x.closed, ~y.closed, y.out = << >>,
         y.written = x.written, y.delivered = x.delivered,
         y.transport = x.transport, y.resuming = x.resuming,
         NEW z, z = CloseWithError(y)
  PROVE  Leaves(x, z) /\ z.closed
<1>1. PICK v : v = OutputFrameOrEnqueue(y, ErrorFrame)
  OBVIOUS
<1>2. ErrorFrame \in FrameSet /\ ErrorFrame.type = "ERROR"
  BY FrameFacts
<1>3. /\ v \in EndSet
      /\ v.transport = y.transport /\ v.closed = y.closed /\ v.resuming = y.resuming
      /\ v.awaiting = y.awaiting /\ v.written = y.written /\ v.delivered = y.delivered
      /\ IF y.transport # 0 /\ ~y.resuming
            THEN /\ v.cache = TrackSentFrame(y.cache, ErrorFrame)
                 /\ v.out = Append(y.out, ErrorFrame) /\ v.pending = y.pending
            ELSE /\ v.cache = y.cache
                 /\ v.out = y.out /\ v.pending = Append(y.pending, ErrorFrame)
  BY <1>1, <1>2, OutputFields
<1>4. PICK u : u = [v EXCEPT !.closed = TRUE, !.resuming = FALSE]
  OBVIOUS
<1>5. z = CloseFrameTransport(u)
  BY <1>1, <1>3, <1>4, Zenon DEF Close, CloseWithError
<1>6. /\ u \in EndSet /\ u.transport = v.transport /\ u.closed = TRUE /\ u.resuming = FALSE
      /\ u.awaiting = v.awaiting /\ u.out = v.out
      /\ u.written = v.written /\ u.delivered = v.delivered
  BY <1>3, <1>4 DEF EndSet
<1>7. /\ z \in EndSet /\ z.transport = 0 /\ z.closed /\ ~z.resuming /\ ~z.awaiting
      /\ z.written = v.written /\ z.delivered = v.delivered /\ z.out = v.out
  <2>1. CASE u.transport = 0
    <3>1. z = u
      BY <1>5, <2>1, Zenon DEF CloseFrameTransport
    <3> QED BY <1>3, <1>6, <2>1, <3>1
  <2>2. CASE u.transport # 0
    <3>1. z = [u EXCEPT !.transport = 0, !.resuming = FALSE, !.awaiting = FALSE]
      BY <1>5, <2>2, Zenon DEF CloseFrameTransport
    <3>2. u \in EndSet
      BY <1>6
    <3>3. /\ z \in EndSet /\ z.transport = 0 /\ z.closed = u.closed /\ z.resuming = FALSE
          /\ z.awaiting = FALSE
          /\ z.out = u.out /\ z.written = u.written /\ z.delivered = u.delivered
      BY ONLY <3>1, <3>2, LeaveRecord
    <3> QED BY <1>6, <3>3
  <2> QED BY <2>1, <2>2
<1>8. AllIn(v.out, 1, {"ERROR"})
  <2>1. AllIn(<< >>, 1, {"ERROR"}) /\ AllIn(<<ErrorFrame>>, 1, {"ERROR"})
    BY <1>2 DEF AllIn
  <2>2. Append(<< >>, ErrorFrame) = <<ErrorFrame>>
    OBVIOUS
  <2> QED BY <1>3, <2>1, <2>2
<1>9. Local(z)
  BY <1>3, <1>7 DEF Local
<1> QED BY <1>3, <1>7, <1>8, <1>9 DEF Leaves

LEMMA CloseWithErrorLeaves ==
  ASSUME NEW e, NEW x \in EndSet, NEW y \in EndSet, Local(x), Cached(y.cache),
         Shape(e, y), ~x.closed, ~y.closed, y.out = << >>,
         y.written = x.written, y.delivered = x.delivered,
         y.transport = x.transport, y.resuming = x.resuming,
         NEW z, z = CloseWithError(y)
  PROVE  Leaves(x, z) /\ z.closed
<1>1. y.transport = 0 => ~y.awaiting
  BY DEF Shape
<1> QED BY <1>1, CloseWithErrorGives

(***************************************************************************)
(* The application writes a frame.                                         *)
(***************************************************************************)
LEMMA WriteStays ==
  ASSUME NEW e, NEW x \in EndSet, Local(x), Shape(e, x), ~x.closed, x.out = << >>,
         NEW n \in Nat, Retains(x.cache, n), NEW z, z = Write(x)
  PROVE  /\ Stays(e, x, z, n)
         /\ ~x.resuming => Emits(z, x.cache.position)
         /\ z.written = x.written + 1 /\ z.delivered = x.delivered
         /\ z.resuming = x.resuming
         /\ x.resuming => z.cache = x.cache
<1>1. PICK f : f = StreamFrame(x.written + 1)
  OBVIOUS
<1>2. PICK q \in Nat : q = x.written + 1
  BY EndFacts
<1>3. f = StreamFrame(q)
  BY <1>1, <1>2
<1>4. f \in FrameSet /\ f \in ItemSet /\ f.type = "PAYLOAD" /\ f.stream = 1 /\ f.a = q
  BY <1>3, FrameFacts, FrameIsItem
<1>5. PICK y : y = [x EXCEPT !.written = q]
  OBVIOUS
<1>6. /\ y \in EndSet
      /\ y.transport = x.transport /\ y.closed = x.closed /\ y.resuming = x.resuming
      /\ y.awaiting = x.awaiting /\ y.written = q /\ y.delivered = x.delivered
      /\ y.cache = x.cache /\ y.out = x.out /\ y.pending = x.pending
  BY <1>5 DEF EndSet
<1>7. z = OutputFrameOrEnqueue(y, f)
  BY <1>1, <1>2, <1>5, Zenon DEF Write
<1>8. /\ x.cache.impliedPosition = Len(x.delivered)
      /\ \A i \in 1..Len(x.delivered) : x.delivered[i] = i
      /\ Cached(x.cache) /\ Counted(x.cache)
      /\ Flow(x.pending, x.cache.position, x.written)
      /\ AllIn(x.pending, 1, {"PAYLOAD", "KEEPALIVE"})
      /\ Acks(x.pending, Len(x.delivered))
      /\ x.cache.position <= x.written
  BY LocalOpen
<1>9. /\ z \in EndSet
      /\ z.transport = x.transport /\ z.closed = x.closed /\ z.resuming = x.resuming
      /\ z.awaiting = x.awaiting /\ z.written = q /\ z.delivered = x.delivered
      /\ IF x.transport # 0 /\ ~x.resuming
            THEN /\ z.cache = TrackSentFrame(x.cache, f)
                 /\ z.out = Append(x.out, f) /\ z.pending = x.pending
            ELSE /\ z.cache = x.cache
                 /\ z.out = x.out /\ z.pending = Append(x.pending, f)
  <2>1. Cached(y.cache)
    BY <1>6, <1>8
  <2> QED BY <1>4, <1>6, <1>7, <2>1, OutputFields
<1>10. x.written <= q /\ x.written \in Nat /\ x.cache.position \in Nat /\ x.cache \in CacheSet
       /\ x.pending \in Seq(ItemSet) /\ Len(x.delivered) \in Nat
  BY <1>2, EndFacts
<1>11. CASE x.transport # 0 /\ ~x.resuming
  <2>1. x.pending = << >>
    BY <1>11 DEF Shape
  <2>2. x.cache.position = x.written
    <3>1. Flow(<< >>, x.cache.position, x.written)
      BY <1>8, <2>1
    <3> QED BY <3>1 DEF Flow
  <2>3. z.cache = TrackSentFrame(x.cache, StreamFrame(x.cache.position + 1))
    BY <1>1, <1>9, <1>11, <2>2, Zenon
  <2>4. /\ z.cache \in CacheSet /\ Cached(z.cache) /\ Counted(z.cache)
        /\ z.cache.position = x.cache.position + 1
        /\ z.cache.impliedPosition = x.cache.impliedPosition
        /\ Retains(z.cache, n)
    BY <1>8, <1>10, <2>3, TrackNext
  <2>5. z.cache.position = q
    BY <1>2, <2>2, <2>4
  <2>6. z.out = <<f>>
    BY <1>9, <1>11
  <2>7. Flow(z.out, x.cache.position, z.cache.position)
    <3>1. f.a = x.cache.position + 1
      BY <1>2, <1>4, <2>2
    <3>2. Flow(<<f>>, x.cache.position, x.cache.position + 1)
      BY <1>4, <1>10, <3>1, FlowOne
    <3> QED BY <2>4, <2>6, <3>2
  <2>8. Local(z)
    <3>1. Flow(z.pending, z.cache.position, z.written)
      BY <1>9, <1>11, <2>1, <2>5, FlowEmpty
    <3> QED BY <1>8, <1>9, <1>11, <2>4, <3>1 DEF Local
  <2>9. AllIn(z.out, 1, {"PAYLOAD", "KEEPALIVE"}) /\ Acks(z.out, Len(x.delivered))
    BY <1>4, <2>6 DEF AllIn, Acks
  <2>10. Shape(e, z)
    BY <1>9, <1>11 DEF Shape
  <2> QED BY <1>2, <1>9, <1>10, <1>11, <2>2, <2>4, <2>5, <2>7, <2>8, <2>9, <2>10
          DEF Stays, Emits
<1>12. CASE ~(x.transport # 0 /\ ~x.resuming)
  <2>1. z.out = << >> /\ z.cache = x.cache /\ z.pending = Append(x.pending, f)
    BY <1>9, <1>12
  <2>2. Flow(z.pending, z.cache.position, q)
    <3>1. f.a = x.written + 1
      BY <1>2, <1>4
    <3>2. Flow(Append(x.pending, f), x.cache.position, x.written + 1)
      BY <1>4, <1>8, <1>10, <3>1, FlowAppend
    <3> QED BY <1>2, <2>1, <3>2
  <2>3. /\ AllIn(z.pending, 1, {"PAYLOAD", "KEEPALIVE"})
        /\ Acks(z.pending, Len(x.delivered))
    <3>1. "PAYLOAD" \in {"PAYLOAD", "KEEPALIVE"} /\ "PAYLOAD" # "KEEPALIVE"
      OBVIOUS
    <3> QED BY <1>4, <1>8, <1>10, <2>1, <3>1, AppendAll
  <2>4. Local(z)
    BY <1>8, <1>9, <2>1, <2>2, <2>3 DEF Local
  <2>5. AllIn(z.out, 1, {"PAYLOAD", "KEEPALIVE"}) /\ Acks(z.out, Len(x.delivered))
    BY <2>1 DEF AllIn, Acks
  <2>6. Shape(e, z)
    BY <1>9, <1>12 DEF Shape
  <2>7. ~x.resuming => Emits(z, x.cache.position)
    BY <1>10, <2>1, FlowEmpty DEF Emits
  <2> QED BY <1>2, <1>9, <1>10, <2>1, <2>4, <2>5, <2>6, <2>7 DEF Stays
<1> QED BY <1>11, <1>12

(***************************************************************************)
(* A KEEPALIVE frame is sent, or waits.                                    *)
(***************************************************************************)
LEMMA KeepaliveStays ==
  ASSUME NEW e, NEW x \in EndSet, Local(x), Shape(e, x), ~x.closed, x.out = << >>,
         NEW n \in Nat, Retains(x.cache, n), NEW respond \in BOOLEAN,
         NEW z, z = OutputFrameOrEnqueue(x, KeepaliveFrame(x.cache.impliedPosition, respond))
  PROVE  /\ Stays(e, x, z, n)
         /\ Emits(z, x.cache.position)
         /\ z.written = x.written /\ z.delivered = x.delivered
         /\ z.resuming = x.resuming /\ z.awaiting = x.awaiting
<1>1. PICK f : f = KeepaliveFrame(x.cache.impliedPosition, respond)
  OBVIOUS
<1>2. /\ x.cache.impliedPosition = Len(x.delivered)
      /\ \A i \in 1..Len(x.delivered) : x.delivered[i] = i
      /\ Cached(x.cache) /\ Counted(x.cache)
      /\ Flow(x.pending, x.cache.position, x.written)
      /\ AllIn(x.pending, 1, {"PAYLOAD", "KEEPALIVE"})
      /\ Acks(x.pending, Len(x.delivered))
  BY LocalOpen
<1>3. x.written \in Nat /\ x.cache.position \in Nat /\ x.cache \in CacheSet
      /\ x.pending \in Seq(ItemSet) /\ Len(x.delivered) \in Nat
      /\ x.cache.position <= x.cache.position /\ x.written <= x.written
  BY EndFacts
<1>4. /\ f \in FrameSet /\ f \in ItemSet /\ f.type = "KEEPALIVE" /\ f.stream = 0
      /\ f.a = Len(x.delivered) /\ f.a <= Len(x.delivered)
  BY <1>1, <1>2, <1>3, FrameFacts, FrameIsItem
<1>5. /\ z \in EndSet
      /\ z.transport = x.transport /\ z.closed = x.closed /\ z.resuming = x.resuming
      /\ z.awaiting = x.awaiting /\ z.written = x.written /\ z.delivered = x.delivered
      /\ IF x.transport # 0 /\ ~x.resuming
            THEN /\ z.cache = TrackSentFrame(x.cache, f)
                 /\ z.out = Append(x.out, f) /\ z.pending = x.pending
            ELSE /\ z.cache = x.cache
                 /\ z.out = x.out /\ z.pending = Append(x.pending, f)
  BY <1>1, <1>2, <1>4, OutputFields
<1>6. CASE x.transport # 0 /\ ~x.resuming
  <2>1. ~ShouldTrackFrame(f.type)
    BY <1>4 DEF ShouldTrackFrame, TrackedTypes
  <2>2. z.cache = x.cache
    BY <1>5, <1>6, <2>1, Zenon DEF TrackSentFrame
  <2>3. z.out = <<f>> /\ z.pending = x.pending
    BY <1>5, <1>6
  <2>4. Flow(z.out, x.cache.position, x.cache.position)
    <3>1. <<f>> \in Seq(ItemSet) /\ \A i \in 1..Len(<<f>>) : <<f>>[i].stream # 1
      BY <1>4
    <3> QED BY <1>3, <2>3, <3>1, FlowQuiet
  <2>5. Local(z)
    BY <1>2, <1>5, <2>2, <2>3 DEF Local
  <2>6. AllIn(z.out, 1, {"PAYLOAD", "KEEPALIVE"}) /\ Acks(z.out, Len(x.delivered))
    BY <1>4, <2>3 DEF AllIn, Acks
  <2>7. Shape(e, z)
    BY <1>5, <2>3 DEF Shape
  <2> QED BY <1>3, <1>5, <1>6, <2>2, <2>4, <2>5, <2>6, <2>7 DEF Stays, Emits
<1>7. CASE ~(x.transport # 0 /\ ~x.resuming)
  <2>1. z.out = << >> /\ z.cache = x.cache /\ z.pending = Append(x.pending, f)
    BY <1>5, <1>7
  <2>2. Flow(z.pending, z.cache.position, x.written)
    <3>1. Flow(Append(x.pending, f), x.cache.position, x.written)
      BY <1>2, <1>3, <1>4, FlowAppend
    <3> QED BY <2>1, <3>1
  <2>3. /\ AllIn(z.pending, 1, {"PAYLOAD", "KEEPALIVE"})
        /\ Acks(z.pending, Len(x.delivered))
    <3>1. "KEEPALIVE" \in {"PAYLOAD", "KEEPALIVE"}
      OBVIOUS
    <3> QED BY <1>2, <1>3, <1>4, <2>1, <3>1, AppendAll
  <2>4. Local(z)
    BY <1>2, <1>5, <2>1, <2>2, <2>3 DEF Local
  <2>5. AllIn(z.out, 1, {"PAYLOAD", "KEEPALIVE"}) /\ Acks(z.out, Len(x.delivered))
    BY <2>1 DEF AllIn, Acks
  <2>6. Shape(e, z)
    BY <1>5, <1>7 DEF Shape
  <2>7. Emits(z, x.cache.position)
    BY <1>3, <2>1, FlowEmpty DEF Emits
  <2> QED BY <1>3, <1>5, <2>1, <2>4, <2>5, <2>6, <2>7 DEF Stays
<1> QED BY <1>6, <1>7

(***************************************************************************)
(* Callbacks in which no frame is written.                                 *)
(***************************************************************************)
LEMMA CallbackIdle ==
  ASSUME Orderly, NEW site \in {"connected", "streamsResumed"}, NEW x, NEW writes
  PROVE  Callback(x, site, writes) = x
<1>1. site \notin CallbackSites
  BY DEF Orderly
<1> QED BY <1>1, Zenon DEF Callback

(***************************************************************************)
(* What an end outputs when it is connected, w after what it had output.   *)
(***************************************************************************)
Passes(x, z, w, n) ==
    /\ z \in EndSet /\ Local(z)
    /\ z.transport = x.transport /\ z.closed = x.closed /\ z.resuming = x.resuming
    /\ z.awaiting = x.awaiting /\ z.written = x.written /\ z.delivered = x.delivered
    /\ z.pending = << >>
    /\ x.cache.position <= z.cache.position
    /\ Retains(z.cache, n)
    /\ z.out = x.out \o w
    /\ AllIn(w, 1, {"PAYLOAD", "KEEPALIVE"})
    /\ Acks(w, Len(x.delivered))

LEMMA PendingPasses ==
  ASSUME NEW x \in EndSet, Local(x), ~x.closed, x.transport # 0, ~x.resuming,
         NEW n \in Nat, Retains(x.cache, n), NEW z, z = SendPending(x)
  PROVE  /\ Passes(x, z, x.pending, n)
         /\ Flow(x.pending, x.cache.position, z.cache.position)
<1>1. PICK c \in CacheSet :
            /\ z = Sent(x, c, x.out \o x.pending)
            /\ Cached(c) /\ Counted(c)
            /\ c.position = x.written
            /\ c.impliedPosition = x.cache.impliedPosition
            /\ Retains(c, n)
  BY SendPendingFacts
<1>2. x.out \o x.pending \in Seq(FrameSet)
  BY EndFacts, ConcatFacts, Zenon
<1>3. /\ z \in EndSet
      /\ z.transport = x.transport /\ z.closed = x.closed /\ z.resuming = x.resuming
      /\ z.awaiting = x.awaiting /\ z.cache = c /\ z.pending = << >>
      /\ z.out = x.out \o x.pending
      /\ z.written = x.written /\ z.delivered = x.delivered
  <2>1. PICK w \in Seq(FrameSet) : w = x.out \o x.pending
    BY <1>2
  <2>2. z = Sent(x, c, w)
    BY <1>1, <2>1, Zenon
  <2>3. /\ z \in EndSet
        /\ z.transport = x.transport /\ z.closed = x.closed /\ z.resuming = x.resuming
        /\ z.awaiting = x.awaiting /\ z.cache = c /\ z.pending = << >> /\ z.out = w
        /\ z.written = x.written /\ z.delivered = x.delivered
    BY <2>2, SentFacts
  <2> QED BY <2>1, <2>3, Zenon
<1>4. /\ x.cache.impliedPosition = Len(x.delivered)
      /\ \A i \in 1..Len(x.delivered) : x.delivered[i] = i
      /\ Flow(x.pending, x.cache.position, x.written)
      /\ AllIn(x.pending, 1, {"PAYLOAD", "KEEPALIVE"})
      /\ Acks(x.pending, Len(x.delivered))
      /\ x.cache.position <= x.written
  BY LocalOpen
<1>5. Local(z)
  <2>1. Flow(z.pending, z.cache.position, z.written)
    BY <1>1, <1>3, EndFacts, FlowEmpty
  <2>2. AllIn(<< >>, 1, {"PAYLOAD", "KEEPALIVE"}) /\ Acks(<< >>, Len(x.delivered))
    BY DEF AllIn, Acks
  <2> QED BY <1>1, <1>3, <1>4, <2>1, <2>2 DEF Local
<1>6. Flow(x.pending, x.cache.position, z.cache.position)
  BY <1>1, <1>3, <1>4
<1>7. x.cache.position <= z.cache.position
  BY <1>1, <1>3, <1>4
<1>8. Retains(z.cache, n)
  BY <1>1, <1>3
<1> QED BY <1>3, <1>4, <1>5, <1>6, <1>7, <1>8 DEF Passes

(***************************************************************************)
(* resumeFromPosition: the cached frames from p on, then the pending ones. *)
(***************************************************************************)
LEMMA ReplayPasses ==
  ASSUME Orderly, NEW x \in EndSet, Local(x), ~x.closed, x.transport # 0, ~x.resuming,
         NEW n \in Nat, Retains(x.cache, n), NEW p \in Nat, IsPositionAvailable(x.cache, p),
         NEW writes, NEW z, z = ResumeFromPosition(x, p, writes)
  PROVE  \E w \in Seq(FrameSet) : Passes(x, z, w, n) /\ Flow(w, p, z.cache.position)
<1>1. PICK v : v = Replay(x.cache, p)
  OBVIOUS
<1>2. PICK y : y = [x EXCEPT !.out = x.out \o v]
  OBVIOUS
<1>3. z = SendPending(y)
  <2>1. "streamsResumed" \in {"connected", "streamsResumed"}
    OBVIOUS
  <2>2. Callback(x, "streamsResumed", writes) = x
    BY <2>1, CallbackIdle
  <2> QED BY <1>1, <1>2, <2>2, Zenon DEF ResumeFromPosition, Replay
<1>4. /\ x.cache.impliedPosition = Len(x.delivered)
      /\ \A i \in 1..Len(x.delivered) : x.delivered[i] = i
      /\ Cached(x.cache) /\ Counted(x.cache)
      /\ Flow(x.pending, x.cache.position, x.written)
      /\ AllIn(x.pending, 1, {"PAYLOAD", "KEEPALIVE"})
      /\ Acks(x.pending, Len(x.delivered))
      /\ x.cache.position <= x.written
  BY LocalOpen
<1>5. /\ v \in Seq(FrameSet) /\ v \in Seq(ItemSet)
      /\ \A i \in 1..Len(v) : v[i].type = "PAYLOAD"
      /\ p <= x.cache.position /\ Flow(v, p, x.cache.position)
  <2>1. x.cache \in CacheSet
    BY EndFacts
  <2> QED BY <1>1, <1>4, <2>1, ReplayFacts, FrameIsItem
<1>6. x.out \in Seq(FrameSet) /\ x.pending \in Seq(FrameSet) /\ x.pending \in Seq(ItemSet)
  BY EndFacts
<1>7. x.out \o v \in Seq(FrameSet)
  BY <1>5, <1>6, ConcatFacts, Zenon
<1>8. /\ y \in EndSet
      /\ y.transport = x.transport /\ y.closed = x.closed /\ y.resuming = x.resuming
      /\ y.awaiting = x.awaiting /\ y.written = x.written /\ y.delivered = x.delivered
      /\ y.cache = x.cache /\ y.out = x.out \o v /\ y.pending = x.pending
  <2>1. PICK u \in Seq(FrameSet) : u = x.out \o v
    BY <1>7
  <2>2. y = [x EXCEPT !.out = u]
    BY <1>2, <2>1, Zenon
  <2>3. /\ y \in EndSet
        /\ y.transport = x.transport /\ y.closed = x.closed /\ y.resuming = x.resuming
        /\ y.awaiting = x.awaiting /\ y.written = x.written /\ y.delivered = x.delivered
        /\ y.cache = x.cache /\ y.out = u /\ y.pending = x.pending
    BY <2>2 DEF EndSet
  <2> QED BY <2>1, <2>3
<1>9. Local(y) /\ ~y.closed /\ y.transport # 0 /\ ~y.resuming /\ Retains(y.cache, n)
  BY <1>8 DEF Local
<1>10. Passes(y, z, y.pending, n) /\ Flow(y.pending, y.cache.position, z.cache.position)
  BY <1>3, <1>8, <1>9, PendingPasses
<1>11. PICK w : w = v \o x.pending
  OBVIOUS
<1>12. w \in Seq(FrameSet)
  BY <1>5, <1>6, <1>11, ConcatFacts, Zenon
<1>13. z.out = x.out \o w
  <2>1. z.out = (x.out \o v) \o x.pending
    BY <1>8, <1>10 DEF Passes
  <2>2. PICK a \in Seq(FrameSet) : a = x.out
    BY <1>6
  <2>3. PICK b \in Seq(FrameSet) : b = v
    BY <1>5
  <2>4. PICK c \in Seq(FrameSet) : c = x.pending
    BY <1>6
  <2>5. (a \o b) \o c = a \o (b \o c)
    BY ConcatAssociative
  <2> QED BY <1>11, <2>1, <2>2, <2>3, <2>4, <2>5, Zenon
<1>14. AllIn(w, 1, {"PAYLOAD", "KEEPALIVE"}) /\ Acks(w, Len(x.delivered))
  <2>1. AllIn(v, 1, {"PAYLOAD", "KEEPALIVE"}) /\ Acks(v, Len(x.delivered))
    BY <1>5 DEF AllIn, Acks
  <2>2. Len(x.delivered) \in Nat
    BY EndFacts
  <2> QED BY <1>4, <1>5, <1>6, <1>11, <2>1, <2>2, JoinAll
<1>15. Flow(w, p, z.cache.position)
  <2>1. z.cache.position \in Nat /\ x.cache.position \in Nat
    BY <1>10, EndFacts DEF Passes
  <2>2. Flow(x.pending, x.cache.position, z.cache.position)
    BY <1>8, <1>10
  <2> QED BY <1>5, <1>6, <1>11, <2>1, <2>2, FlowJoin
<1>16. Passes(x, z, w, n)
  BY <1>8, <1>10, <1>13, <1>14 DEF Passes
<1> QED BY <1>12, <1>15, <1>16

(***************************************************************************)
(* RESUME_OK for an available position.                                    *)
(***************************************************************************)
LEMMA ResumeOkStays ==
  ASSUME Orderly, NEW e, NEW x \in EndSet, Local(x), Shape(e, x), ~x.closed, x.out = << >>,
         x.resuming, NEW n \in Nat, Retains(x.cache, n),
         NEW p \in Nat, IsPositionAvailable(x.cache, p), NEW writes, NEW z,
         z = ResumeFromPosition([Callback(x, "resumeOk", writes) EXCEPT !.resuming = FALSE],
                                p, writes)
  PROVE  /\ Stays(e, x, z, n)
         /\ Emits(z, p)
         /\ z.written \in {x.written, x.written + 1} /\ z.delivered = x.delivered
         /\ ~z.resuming
<1>1. PICK u : u = Callback(x, "resumeOk", writes)
  OBVIOUS
<1>2. x.transport # 0 /\ ~x.awaiting
  BY DEF Shape
<1>3. x.written \in Nat /\ x.cache.position \in Nat
  BY EndFacts
<1>4. /\ u \in EndSet /\ Local(u) /\ u.transport = x.transport /\ ~u.closed /\ ~u.awaiting
      /\ u.written \in {x.written, x.written + 1} /\ u.delivered = x.delivered
      /\ u.out = << >> /\ u.cache = x.cache
  <2>1. CASE u = x
    BY <1>2, <2>1
  <2>2. CASE u = Write(x)
    <3>1. /\ Stays(e, x, u, n) /\ u.written = x.written + 1 /\ u.delivered = x.delivered
          /\ u.resuming = x.resuming /\ u.cache = x.cache
      BY <2>2, WriteStays
    <3> QED BY <3>1 DEF Stays, Shape
  <2> QED BY <1>1, <2>1, <2>2 DEF Callback
<1>5. PICK v : v = [u EXCEPT !.resuming = FALSE]
  OBVIOUS
<1>6. /\ v \in EndSet
      /\ v.transport = u.transport /\ v.closed = u.closed /\ v.resuming = FALSE
      /\ v.awaiting = u.awaiting /\ v.written = u.written /\ v.delivered = u.delivered
      /\ v.cache = u.cache /\ v.out = u.out /\ v.pending = u.pending
  <2>1. PICK b \in BOOLEAN : b = FALSE
    OBVIOUS
  <2>2. v = [u EXCEPT !.resuming = b]
    BY <1>5, <2>1, Zenon
  <2>3. /\ v \in EndSet
        /\ v.transport = u.transport /\ v.closed = u.closed /\ v.resuming = b
        /\ v.awaiting = u.awaiting /\ v.written = u.written /\ v.delivered = u.delivered
        /\ v.cache = u.cache /\ v.out = u.out /\ v.pending = u.pending
    BY <1>4, <2>2 DEF EndSet
  <2> QED BY <2>1, <2>3, Zenon
<1>7. Local(v) /\ ~v.closed /\ v.transport # 0 /\ ~v.resuming
      /\ Retains(v.cache, n) /\ IsPositionAvailable(v.cache, p)
  <2>1. Local(v)
    BY <1>4, <1>6 DEF Local
  <2> QED BY <1>2, <1>4, <1>6, <2>1
<1>8. z = ResumeFromPosition(v, p, writes)
  BY <1>1, <1>5, Zenon
<1>9. PICK w \in Seq(FrameSet) : Passes(v, z, w, n) /\ Flow(w, p, z.cache.position)
  BY <1>6, <1>7, <1>8, ReplayPasses
<1>10. z.out = w
  <2>1. z.out = << >> \o w
    BY <1>4, <1>6, <1>9 DEF Passes
  <2> QED BY <2>1, ConcatEmptySeq
<1>11. Shape(e, z)
  BY <1>4, <1>6, <1>9 DEF Shape, Passes
<1>12. Stays(e, x, z, n)
  <2>1. /\ z.transport = x.transport /\ ~z.closed /\ ~z.resuming
        /\ z.written \in {x.written, x.written + 1}
        /\ x.cache.position <= z.cache.position
        /\ z \in EndSet /\ Local(z) /\ Retains(z.cache, n)
        /\ AllIn(z.out, 1, {"PAYLOAD", "KEEPALIVE"}) /\ Acks(z.out, Len(x.delivered))
    BY <1>4, <1>6, <1>9, <1>10 DEF Passes
  <2>2. x.written <= z.written
    BY <1>3, <2>1
  <2>3. z.closed = x.closed
    BY <2>1, EndFacts, Zenon
  <2> QED BY <1>2, <1>11, <2>1, <2>2, <2>3 DEF Stays
<1>13. Emits(z, p)
  BY <1>9, <1>10 DEF Emits
<1>14. z.written \in {x.written, x.written + 1} /\ z.delivered = x.delivered /\ ~z.resuming
  BY <1>4, <1>6, <1>9 DEF Passes
<1> QED BY <1>12, <1>13, <1>14

(***************************************************************************)
(* z is x after it has processed f and kept its transport.                 *)
(***************************************************************************)
Processed(e, x, z, f, n) ==
    /\ Stays(e, x, z, n)
    /\ Emits(z, IF x.resuming THEN f.a ELSE x.cache.position)
    /\ x.resuming => ~z.resuming /\ f.type = "RESUME_OK"
    /\ z.delivered = IF f.stream = 1 THEN Append(x.delivered, f.a) ELSE x.delivered
    /\ z.written \in {x.written, x.written + 1}
    /\ f.stream = 1 => z.written = x.written

LEMMA DeliverStays ==
  ASSUME NEW e, NEW x \in EndSet, Local(x), Shape(e, x), ~x.closed, x.out = << >>,
         ~x.resuming, NEW n \in Nat, Retains(x.cache, n),
         NEW f \in FrameSet, f.stream = 1, f.a = Len(x.delivered) + 1,
         NEW y, y = [x EXCEPT !.cache = TrackReceivedFrame(@, f)],
         NEW z, z = [y EXCEPT !.delivered = Append(@, f.a)]
  PROVE  Processed(e, x, z, f, n)
<1>1. /\ f \in ItemSet /\ f.type = "PAYLOAD" /\ f.len = 1
  BY ItemFacts, FrameIsItem
<1>2. /\ x.cache.impliedPosition = Len(x.delivered)
      /\ \A i \in 1..Len(x.delivered) : x.delivered[i] = i
      /\ Cached(x.cache) /\ Counted(x.cache)
      /\ Flow(x.pending, x.cache.position, x.written)
      /\ AllIn(x.pending, 1, {"PAYLOAD", "KEEPALIVE"})
      /\ Acks(x.pending, Len(x.delivered))
  BY LocalOpen
<1>3. PICK d \in Nat : d = Len(x.delivered)
  BY EndFacts
<1>4. PICK c : c = [x.cache EXCEPT !.impliedPosition = d + 1]
  OBVIOUS
<1>5. TrackReceivedFrame(x.cache, f) = c
  <2>1. ShouldTrackFrame(f.type)
    BY <1>1 DEF ShouldTrackFrame, TrackedTypes
  <2>2. x.cache.impliedPosition + f.len = d + 1
    BY <1>1, <1>2, <1>3
  <2> QED BY <1>4, <2>1, <2>2, Zenon DEF TrackReceivedFrame
<1>6. x.cache \in CacheSet /\ x.cache.position \in Nat /\ x.delivered \in Seq(Nat)
      /\ x.written \in Nat /\ x.pending \in Seq(ItemSet)
  BY EndFacts
<1>7. /\ c \in CacheSet /\ c.position = x.cache.position /\ c.impliedPosition = d + 1
      /\ c.frames = x.cache.frames /\ c.size = x.cache.size
      /\ c.resetPosition = x.cache.resetPosition
  <2>1. PICK q \in Nat : q = d + 1
    OBVIOUS
  <2>2. PICK k \in CacheSet : k = x.cache
    BY <1>6
  <2>3. c = [k EXCEPT !.impliedPosition = q]
    BY <1>4, <2>1, <2>2, Zenon
  <2>4. /\ c \in CacheSet /\ c.position = k.position /\ c.impliedPosition = q
        /\ c.frames = k.frames /\ c.size = k.size
        /\ c.resetPosition = k.resetPosition
    BY <2>3 DEF CacheSet
  <2> QED BY <2>1, <2>2, <2>4, Zenon
<1>8. PICK g : g = Append(x.delivered, f.a)
  OBVIOUS
<1>9. f.a = d + 1 /\ f.a \in Nat
  BY <1>3
<1>10. /\ g \in Seq(Nat) /\ Len(g) = d + 1 /\ g[d + 1] = d + 1
       /\ \A i \in 1..d : g[i] = x.delivered[i]
  BY <1>3, <1>6, <1>8, <1>9, AppendProperties
<1>11. z = [x EXCEPT !.cache = c, !.delivered = g]
  BY <1>5, <1>8 DEF EndSet
<1>12. /\ z \in EndSet
       /\ z.transport = x.transport /\ z.closed = x.closed /\ z.resuming = x.resuming
       /\ z.awaiting = x.awaiting /\ z.written = x.written /\ z.delivered = g
       /\ z.cache = c /\ z.out = x.out /\ z.pending = x.pending
  BY <1>7, <1>10, <1>11 DEF EndSet
<1>13. Cached(c) /\ Counted(c) /\ Retains(c, n)
  BY <1>2, <1>7 DEF Cached, Counted, Retains
<1>14. Local(z)
  <2>1. \A i \in 1..d + 1 : g[i] = i
    <3> TAKE i \in 1..d + 1
    <3>1. i \in 1..d \/ i = d + 1
      OBVIOUS
    <3> QED BY <1>2, <1>3, <1>10, <3>1
  <2>2. Acks(x.pending, d + 1)
    <3> SUFFICES ASSUME NEW i \in 1..Len(x.pending), x.pending[i].type = "KEEPALIVE"
                 PROVE  x.pending[i].a <= d + 1
      BY DEF Acks
    <3>1. x.pending[i].a <= d
      BY <1>2, <1>3 DEF Acks
    <3>2. x.pending[i] \in ItemSet
      BY <1>6
    <3>3. x.pending[i].a \in Nat
      BY <3>2, ItemFacts
    <3> QED BY <3>1, <3>3
  <2> QED BY <1>2, <1>7, <1>10, <1>12, <1>13, <2>1, <2>2 DEF Local
<1>15. Shape(e, z)
  BY <1>12 DEF Shape
<1>16. AllIn(z.out, 1, {"PAYLOAD", "KEEPALIVE"}) /\ Acks(z.out, Len(x.delivered))
  BY <1>12 DEF AllIn, Acks
<1>17. x.cache.position <= z.cache.position /\ x.written <= z.written
  BY <1>6, <1>7, <1>12
<1>18. Stays(e, x, z, n)
  BY <1>12, <1>13, <1>14, <1>15, <1>16, <1>17 DEF Stays
<1>19. Emits(z, x.cache.position)
  BY <1>6, <1>7, <1>12, FlowEmpty DEF Emits
<1> QED BY <1>8, <1>12, <1>18, <1>19 DEF Processed

LEMMA HandleKeepaliveStays ==
  ASSUME NEW e, NEW x \in EndSet, Local(x), Shape(e, x), ~x.closed, x.out = << >>,
         ~x.resuming, NEW n \in Nat, Retains(x.cache, n),
         NEW f \in FrameSet, f.type = "KEEPALIVE", f.a <= n,
         NEW z, z = HandleKeepalive(e, x, f)
  PROVE  (Leaves(x, z) /\ z.closed) \/ Processed(e, x, z, f, n)
<1>1. /\ f \in ItemSet /\ f.a \in Nat /\ f.stream # 1
  BY ItemFacts, FrameIsItem
<1>2. /\ x.cache.impliedPosition = Len(x.delivered)
      /\ \A i \in 1..Len(x.delivered) : x.delivered[i] = i
      /\ Cached(x.cache) /\ Counted(x.cache)
      /\ Flow(x.pending, x.cache.position, x.written)
      /\ AllIn(x.pending, 1, {"PAYLOAD", "KEEPALIVE"})
      /\ Acks(x.pending, Len(x.delivered))
  BY LocalOpen
<1>3. x.cache \in CacheSet /\ x.cache.position \in Nat /\ x.written \in Nat
  BY EndFacts
<1>4. PICK c : c = ResetUpToPosition(x.cache, f.a)
  OBVIOUS
<1>5. /\ c \in CacheSet /\ Cached(c) /\ Counted(c)
      /\ c.position = x.cache.position
      /\ c.impliedPosition = x.cache.impliedPosition
      /\ Retains(c, n)
  <2>1. PICK k \in CacheSet : k = x.cache
    BY <1>3
  <2>2. Cached(k) /\ Counted(k) /\ Retains(k, n)
    BY <1>2, <2>1
  <2>3. c = ResetUpToPosition(k, f.a)
    BY <1>4, <2>1
  <2>4. /\ c \in CacheSet /\ Cached(c) /\ Counted(c)
        /\ c.position = k.position
        /\ c.impliedPosition = k.impliedPosition
        /\ \A j \in Nat : f.a <= j /\ Retains(k, j) => Retains(c, j)
    BY <1>1, <2>2, <2>3, AckFacts
  <2> QED BY <2>1, <2>2, <2>4, Zenon
<1>6. PICK y : y = [x EXCEPT !.cache = c]
  OBVIOUS
<1>7. /\ y \in EndSet
      /\ y.transport = x.transport /\ y.closed = x.closed /\ y.resuming = x.resuming
      /\ y.awaiting = x.awaiting /\ y.written = x.written /\ y.delivered = x.delivered
      /\ y.cache = c /\ y.out = x.out /\ y.pending = x.pending
  BY <1>5, <1>6 DEF EndSet
<1>8. Local(y) /\ Shape(e, y)
  BY <1>2, <1>5, <1>7 DEF Local, Shape
<1>9. x.cache.position <= x.cache.position /\ x.written <= x.written
  BY <1>3
<1>10. CASE z = CloseWithError(y)
  BY <1>5, <1>7, <1>8, <1>10, CloseWithErrorLeaves
<1>11. CASE z = OutputFrameOrEnqueue(y, KeepaliveFrame(y.cache.impliedPosition, FALSE))
  <2>1. /\ Stays(e, y, z, n) /\ Emits(z, y.cache.position)
        /\ z.written = y.written /\ z.delivered = y.delivered
    <3>1. ~y.closed /\ y.out = << >> /\ Retains(y.cache, n)
      BY <1>5, <1>7
    <3>2. PICK b \in BOOLEAN : b = FALSE
      OBVIOUS
    <3>3. z = OutputFrameOrEnqueue(y, KeepaliveFrame(y.cache.impliedPosition, b))
      BY <1>11, <3>2, Zenon
    <3> QED BY <1>7, <1>8, <3>1, <3>3, KeepaliveStays
  <2>2. Stays(e, x, z, n)
    BY <1>5, <1>7, <2>1 DEF Stays
  <2> QED BY <1>1, <1>5, <1>7, <2>1, <2>2 DEF Processed
<1>12. CASE z = [y EXCEPT !.awaiting = FALSE]
  <2>1. /\ z \in EndSet
        /\ z.transport = y.transport /\ z.closed = y.closed /\ z.resuming = y.resuming
        /\ z.awaiting = FALSE /\ z.written = y.written /\ z.delivered = y.delivered
        /\ z.cache = y.cache /\ z.out = y.out /\ z.pending = y.pending
    <3>1. PICK b \in BOOLEAN : b = FALSE
      OBVIOUS
    <3>2. z = [y EXCEPT !.awaiting = b]
      BY <1>12, <3>1, Zenon
    <3>3. /\ z \in EndSet
          /\ z.transport = y.transport /\ z.closed = y.closed /\ z.resuming = y.resuming
          /\ z.awaiting = b /\ z.written = y.written /\ z.delivered = y.delivered
          /\ z.cache = y.cache /\ z.out = y.out /\ z.pending = y.pending
      BY <1>7, <3>2 DEF EndSet
    <3> QED BY <3>1, <3>3, Zenon
  <2>2. Local(z) /\ Shape(e, z)
    BY <1>8, <2>1 DEF Local, Shape
  <2>3. AllIn(z.out, 1, {"PAYLOAD", "KEEPALIVE"}) /\ Acks(z.out, Len(x.delivered))
    BY <1>7, <2>1 DEF AllIn, Acks
  <2>4. Stays(e, x, z, n)
    BY <1>5, <1>7, <1>9, <2>1, <2>2, <2>3 DEF Stays
  <2>5. Emits(z, x.cache.position)
    BY <1>3, <1>5, <1>7, <2>1, FlowEmpty DEF Emits
  <2> QED BY <1>1, <1>7, <2>1, <2>4, <2>5 DEF Processed
<1>13. \/ z = CloseWithError(y)
       \/ z = OutputFrameOrEnqueue(y, KeepaliveFrame(y.cache.impliedPosition, FALSE))
       \/ z = [y EXCEPT !.awaiting = FALSE]
  BY <1>4, <1>6, Zenon DEF HandleKeepalive
<1> QED BY <1>10, <1>11, <1>12, <1>13

(***************************************************************************)
(* processFrameImpl, for the frames that an end can meet.                  *)
(***************************************************************************)
Met(e, x, f, n) ==
    /\ f \in FrameSet /\ f.type \in Told(e)
    /\ f.stream = 1 => f.a = Len(x.delivered) + 1
    /\ x.resuming => f.type \in {"RESUME_OK", "ERROR"}
    /\ f.type = "KEEPALIVE" => f.a <= n

LEMMA ProcessFrameFacts ==
  ASSUME Orderly, NEW e, NEW x \in EndSet, Local(x), Shape(e, x), ~x.closed, x.out = << >>,
         NEW n \in Nat, Retains(x.cache, n), NEW f, Met(e, x, f, n), NEW writes,
         NEW z, z = ProcessFrame(e, x, f, writes)
  PROVE  (Leaves(x, z) /\ z.closed) \/ Processed(e, x, z, f, n)
<1>1. /\ f \in FrameSet /\ f \in ItemSet /\ f.a \in Nat /\ f.stream \in {0, 1} /\ f.len = 1
      /\ f.stream = 1 <=> f.type = "PAYLOAD"
  BY ItemFacts, FrameIsItem DEF Met
<1>2. f.type \in {"PAYLOAD", "KEEPALIVE", "ERROR", "RESUME_OK"}
  BY <1>1 DEF Met, Told, FrameSet
<1>3. PICK y : y = [x EXCEPT !.cache = TrackReceivedFrame(@, f)]
  OBVIOUS
<1>4. CASE f.type = "PAYLOAD"
  <2>1. f.stream = 1 /\ f.stream # 0 /\ ~x.resuming
    BY <1>1, <1>4 DEF Met
  <2>2. z = [y EXCEPT !.delivered = Append(@, f.a)]
    BY <1>3, <2>1, Zenon DEF ProcessFrame
  <2>3. f.a = Len(x.delivered) + 1
    BY <2>1 DEF Met
  <2> QED BY <1>1, <1>3, <2>1, <2>2, <2>3, DeliverStays
<1>5. CASE f.type = "KEEPALIVE" \/ f.type = "RESUME_OK"
  <2>1. ~ShouldTrackFrame(f.type)
    BY <1>5 DEF ShouldTrackFrame, TrackedTypes
  <2>2. y = x
    <3>1. y = [x EXCEPT !.cache = x.cache]
      BY <1>3, <2>1, Zenon DEF TrackReceivedFrame
    <3> QED BY <3>1 DEF EndSet
  <2>3. f.stream = 0
    BY <1>1, <1>5
  <2>4. z = HandleConnectionFrame(e, x, f, writes)
    BY <1>3, <2>2, <2>3, Zenon DEF ProcessFrame
  <2>5. CASE f.type = "KEEPALIVE"
    <3>1. ~x.resuming /\ f.a <= n
      BY <2>5 DEF Met
    <3>2. z = HandleKeepalive(e, x, f)
      BY <2>4, <2>5 DEF HandleConnectionFrame
    <3> QED BY <1>1, <2>5, <3>1, <3>2, HandleKeepaliveStays
  <2>6. CASE f.type = "RESUME_OK"
    <3>1. z = HandleResumeOk(x, f, writes)
      BY <2>4, <2>6 DEF HandleConnectionFrame
    <3>2. CASE x.resuming /\ IsPositionAvailable(x.cache, f.a)
      <4>1. z = ResumeFromPosition(
                  [Callback(x, "resumeOk", writes) EXCEPT !.resuming = FALSE], f.a, writes)
        BY <3>1, <3>2, Zenon DEF HandleResumeOk
      <4>2. /\ Stays(e, x, z, n)
            /\ Emits(z, f.a)
            /\ z.written \in {x.written, x.written + 1} /\ z.delivered = x.delivered
            /\ ~z.resuming
        BY <1>1, <3>2, <4>1, ResumeOkStays
      <4> QED BY <2>3, <2>6, <3>2, <4>2 DEF Processed
    <3>3. CASE ~(x.resuming /\ IsPositionAvailable(x.cache, f.a))
      <4>1. z = CloseWithError(x)
        BY <3>1, <3>3, Zenon DEF HandleResumeOk
      <4>2. Cached(x.cache)
        BY LocalOpen
      <4> QED BY <4>1, <4>2, CloseWithErrorLeaves
    <3> QED BY <3>2, <3>3
  <2> QED BY <1>5, <2>5, <2>6
<1>6. CASE f.type = "ERROR"
  <2>1. ShouldTrackFrame(f.type) /\ f.stream = 0
    BY <1>1, <1>6 DEF ShouldTrackFrame, TrackedTypes
  <2>2. PICK q \in Nat : q = x.cache.impliedPosition + f.len
    <3>1. x.cache.impliedPosition \in Nat
      BY EndFacts
    <3> QED BY <1>1, <3>1
  <2>3. PICK c : c = [x.cache EXCEPT !.impliedPosition = q]
    OBVIOUS
  <2>4. c \in CacheSet
    BY <2>3, EndFacts DEF CacheSet
  <2>5. y = [x EXCEPT !.cache = c]
    BY <1>3, <2>1, <2>2, <2>3, Zenon DEF TrackReceivedFrame
  <2>6. /\ y \in EndSet
        /\ y.transport = x.transport /\ y.closed = x.closed /\ y.resuming = x.resuming
        /\ y.awaiting = x.awaiting /\ y.written = x.written /\ y.delivered = x.delivered
        /\ y.out = x.out /\ y.pending = x.pending
    BY <2>4, <2>5 DEF EndSet
  <2>7. z = HandleConnectionFrame(e, y, f, writes)
    BY <1>3, <2>1, Zenon DEF ProcessFrame
  <2>8. z = Close(y)
    BY <1>6, <2>7 DEF HandleConnectionFrame
  <2>9. Shape(e, y)
    BY <2>6 DEF Shape
  <2>10. /\ z \in EndSet /\ z.transport = 0 /\ z.closed /\ ~z.resuming /\ ~z.awaiting
         /\ z.written = x.written /\ z.delivered = x.delivered /\ z.out = << >>
    BY <2>6, <2>8, <2>9, CloseFields
  <2>11. Local(z) /\ AllIn(z.out, 1, {"ERROR"})
    BY <2>10 DEF Local, AllIn
  <2> QED BY <2>10, <2>11 DEF Leaves
<1> QED BY <1>2, <1>4, <1>5, <1>6

-----------------------------------------------------------------------------
(* What an end is going to process                                         *)

LEMMA TaskFacts ==
  ASSUME NEW task \in TaskSet
  PROVE  /\ AsItem(task) \in ItemSet
         /\ task.frame = << >> => AsItem(task) = EndMark
         /\ task.frame # << >> => /\ task.frame[1] \in FrameSet
                                  /\ AsItem(task) = task.frame[1]
                                  /\ AsItem(task).type # "END"
         /\ task = Terminal(task.transport) <=> task.frame = << >>
<1>1. CASE task.frame = << >>
  <2>1. AsItem(task) = EndMark
    BY <1>1, Zenon DEF AsItem
  <2>2. task = Terminal(task.transport)
    BY <1>1 DEF TaskSet, Terminal
  <2> QED BY <1>1, <2>1, <2>2, FrameFacts
<1>2. CASE task.frame # << >>
  <2>1. PICK f \in FrameSet : task.frame = <<f>>
    BY <1>2 DEF TaskSet
  <2>2. task.frame[1] = f
    BY <2>1
  <2>3. AsItem(task) = f
    BY <1>2, <2>2, Zenon DEF AsItem
  <2>4. f \in ItemSet /\ f.type # "END"
    BY DEF FrameSet
  <2>5. Terminal(task.transport).frame = << >>
    BY DEF Terminal
  <2> QED BY <1>2, <2>2, <2>3, <2>4, <2>5
<1> QED BY <1>1, <1>2

LEMMA ItemsFacts ==
  ASSUME NEW q \in Seq(TaskSet)
  PROVE  /\ Items(q) \in Seq(ItemSet) /\ Len(Items(q)) = Len(q) /\ Len(q) \in Nat
         /\ \A i \in 1..Len(q) : Items(q)[i] = AsItem(q[i]) /\ q[i] \in TaskSet
<1>1. \A i \in 1..Len(q) : AsItem(q[i]) \in ItemSet /\ q[i] \in TaskSet
  BY TaskFacts
<1> QED BY <1>1 DEF Items

(***************************************************************************)
(* q are the tasks and f the frames on their way.                          *)
(***************************************************************************)
LEMMA LineSeq ==
  ASSUME NEW q \in Seq(TaskSet), NEW f \in Seq(FrameSet), NEW w, w = Along(q, f)
  PROVE  /\ w \in Seq(ItemSet) /\ Len(w) = Len(q) + Len(f)
         /\ Len(q) \in Nat /\ Len(f) \in Nat
         /\ \A i \in 1..Len(q) : w[i] = AsItem(q[i])
         /\ \A i \in 1..Len(f) : w[Len(q) + i] = f[i]
<1>1. PICK v \in Seq(ItemSet) : /\ v = Items(q) /\ Len(v) = Len(q)
                                /\ \A i \in 1..Len(q) : v[i] = AsItem(q[i])
  BY ItemsFacts
<1>2. f \in Seq(ItemSet)
  BY FrameIsItem
<1>3. PICK g \in Seq(ItemSet) : g = f
  BY <1>2
<1>4. /\ v \o g \in Seq(ItemSet)
      /\ Len(v) \in Nat /\ Len(g) \in Nat
      /\ Len(v \o g) = Len(v) + Len(g)
      /\ \A i \in 1..Len(v) : (v \o g)[i] = v[i]
      /\ \A i \in 1..Len(g) : (v \o g)[Len(v) + i] = g[i]
  BY ConcatFacts
<1>5. w = v \o g
  BY <1>1, <1>3 DEF Along
<1> QED BY <1>1, <1>3, <1>4, <1>5

LEMMA LineNoTasks ==
  ASSUME NEW q \in Seq(TaskSet), q = << >>, NEW f \in Seq(FrameSet)
  PROVE  Along(q, f) = f
<1>1. Len(q) = 0
  OBVIOUS
<1>2. Items(q) = << >>
  BY <1>1, ItemsFacts, EmptySeq
<1> QED BY <1>2, ConcatEmptySeq DEF Along

(***************************************************************************)
(* The first task is run.                                                  *)
(***************************************************************************)
LEMMA LineRun ==
  ASSUME NEW q \in Seq(TaskSet), q # << >>, NEW f \in Seq(FrameSet)
  PROVE  /\ Along(q, f) # << >>
         /\ Along(q, f)[1] = AsItem(q[1])
         /\ Along(Tail(q), f) = Tail(Along(q, f))
<1>1. PICK w : w = Along(q, f)
  OBVIOUS
<1>2. /\ w \in Seq(ItemSet) /\ Len(w) = Len(q) + Len(f)
      /\ Len(q) \in Nat /\ Len(f) \in Nat
      /\ \A i \in 1..Len(q) : w[i] = AsItem(q[i])
      /\ \A i \in 1..Len(f) : w[Len(q) + i] = f[i]
  BY <1>1, LineSeq
<1>3. PICK r \in Seq(TaskSet) : r = Tail(q)
  BY TailFacts
<1>4. PICK k \in Nat : k = Len(f)
  BY <1>2
<1>5. PICK n \in Nat : Len(q) = n + 1
  <2>1. Len(q) \in Nat /\ Len(q) >= 1
    BY TailFacts
  <2>2. Len(q) - 1 \in Nat /\ Len(q) = (Len(q) - 1) + 1
    BY <2>1
  <2> QED BY <2>2, Zenon
<1>6. Len(r) = n /\ \A i \in 1..n : r[i] = q[i + 1]
  <2>1. /\ Len(Tail(q)) = Len(q) - 1
        /\ \A i \in 1..Len(q) - 1 : Tail(q)[i] = q[i + 1]
    BY TailFacts
  <2>2. Len(q) - 1 = n
    BY <1>5
  <2> QED BY <1>3, <2>1, <2>2
<1>7. PICK v : v = Along(r, f)
  OBVIOUS
<1>8. /\ v \in Seq(ItemSet) /\ Len(v) = n + k
      /\ \A i \in 1..n : v[i] = AsItem(r[i])
      /\ \A i \in 1..k : v[n + i] = f[i]
  BY <1>4, <1>6, <1>7, LineSeq
<1>9. Len(w) = (n + 1) + k /\ w # << >>
  BY <1>2, <1>4, <1>5
<1>10. w[1] = AsItem(q[1])
  <2>1. 1 \in 1..Len(q)
    BY <1>5
  <2> QED BY <1>2, <2>1
<1>11. PICK u \in Seq(ItemSet) : u = Tail(w)
  BY <1>2, <1>9, TailFacts
<1>12. Len(u) = n + k /\ \A i \in 1..n + k : u[i] = w[i + 1]
  <2>1. /\ Len(Tail(w)) = Len(w) - 1
        /\ \A i \in 1..Len(w) - 1 : Tail(w)[i] = w[i + 1]
    BY <1>2, <1>9, TailFacts
  <2>2. Len(w) - 1 = n + k
    BY <1>9
  <2> QED BY <1>11, <2>1, <2>2
<1>13. \A i \in 1..n + k : v[i] = u[i]
  <2> TAKE i \in 1..n + k
  <2>1. CASE i <= n
    <3>1. i \in 1..n /\ i + 1 \in 1..n + 1
      BY <2>1
    <3>2. v[i] = AsItem(q[i + 1])
      BY <1>6, <1>8, <3>1, Zenon
    <3>3. w[i + 1] = AsItem(q[i + 1])
      BY <1>2, <1>5, <3>1, Zenon
    <3> QED BY <1>12, <3>2, <3>3
  <2>2. CASE i > n
    <3>1. i - n \in 1..k /\ n + (i - n) = i /\ (n + 1) + (i - n) = i + 1
      BY <2>2
    <3>2. v[n + (i - n)] = f[i - n]
      BY <1>8, <3>1, Zenon
    <3>3. w[(n + 1) + (i - n)] = f[i - n]
      BY <1>2, <1>4, <1>5, <3>1, Zenon
    <3> QED BY <1>12, <3>1, <3>2, <3>3
  <2> QED BY <2>1, <2>2
<1>14. v = u
  BY <1>8, <1>12, <1>13, SameSeq
<1> QED BY <1>1, <1>3, <1>7, <1>9, <1>10, <1>11, <1>14

(***************************************************************************)
(* A frame moves into the executor.                                        *)
(***************************************************************************)
LEMMA LineMove ==
  ASSUME NEW q \in Seq(TaskSet), NEW f \in Seq(FrameSet), f # << >>,
         NEW task \in TaskSet, AsItem(task) = f[1]
  PROVE  Along(Append(q, task), Tail(f)) = Along(q, f)
<1>1. PICK m \in Nat : m = Len(q)
  OBVIOUS
<1>2. PICK n \in Nat : Len(f) = n + 1
  <2>1. Len(f) \in Nat /\ Len(f) >= 1
    BY TailFacts
  <2>2. Len(f) - 1 \in Nat /\ Len(f) = (Len(f) - 1) + 1
    BY <2>1
  <2> QED BY <2>2, Zenon
<1>3. PICK g \in Seq(FrameSet) : g = Tail(f)
  BY TailFacts
<1>4. Len(g) = n /\ \A i \in 1..n : g[i] = f[i + 1]
  <2>1. /\ Len(Tail(f)) = Len(f) - 1
        /\ \A i \in 1..Len(f) - 1 : Tail(f)[i] = f[i + 1]
    BY TailFacts
  <2>2. Len(f) - 1 = n
    BY <1>2
  <2> QED BY <1>3, <2>1, <2>2
<1>5. PICK r \in Seq(TaskSet) : r = Append(q, task)
  BY AppendProperties
<1>6. Len(r) = m + 1 /\ r[m + 1] = task /\ \A i \in 1..m : r[i] = q[i]
  BY <1>1, <1>5, AppendProperties
<1>8. PICK v : v = Along(r, g)
  OBVIOUS
<1>9. PICK w : w = Along(q, f)
  OBVIOUS
<1>10. /\ v \in Seq(ItemSet) /\ Len(v) = (m + 1) + n
       /\ \A i \in 1..m + 1 : v[i] = AsItem(r[i])
       /\ \A i \in 1..n : v[(m + 1) + i] = g[i]
  <2>1. /\ v \in Seq(ItemSet) /\ Len(v) = Len(r) + Len(g)
        /\ Len(r) \in Nat /\ Len(g) \in Nat
        /\ \A i \in 1..Len(r) : v[i] = AsItem(r[i])
        /\ \A i \in 1..Len(g) : v[Len(r) + i] = g[i]
    BY <1>8, LineSeq
  <2>2. Len(r) = m + 1 /\ Len(g) = n
    BY <1>4, <1>6
  <2> QED BY ONLY <2>1, <2>2
<1>11. /\ w \in Seq(ItemSet) /\ Len(w) = m + (n + 1)
       /\ \A i \in 1..m : w[i] = AsItem(q[i])
       /\ \A i \in 1..n + 1 : w[m + i] = f[i]
  <2>1. /\ w \in Seq(ItemSet) /\ Len(w) = Len(q) + Len(f)
        /\ Len(q) \in Nat /\ Len(f) \in Nat
        /\ \A i \in 1..Len(q) : w[i] = AsItem(q[i])
        /\ \A i \in 1..Len(f) : w[Len(q) + i] = f[i]
    BY <1>9, LineSeq
  <2> QED BY ONLY <1>1, <1>2, <2>1
<1>12. \A i \in 1..(m + 1) + n : v[i] = w[i]
  <2> TAKE i \in 1..(m + 1) + n
  <2>1. CASE i <= m
    <3>1. i \in 1..m /\ i \in 1..m + 1
      BY <2>1
    <3> QED BY <1>6, <1>10, <1>11, <3>1
  <2>2. CASE i = m + 1
    <3>1. i \in 1..m + 1 /\ 1 \in 1..n + 1
      BY <2>2
    <3>2. v[i] = f[1]
      BY <1>6, <1>10, <2>2, <3>1
    <3>3. w[m + 1] = f[1]
      BY <1>11, <3>1
    <3> QED BY <2>2, <3>2, <3>3
  <2>3. CASE i > m + 1
    <3>1. i - (m + 1) \in 1..n /\ (m + 1) + (i - (m + 1)) = i
          /\ (i - (m + 1)) + 1 \in 1..n + 1 /\ m + ((i - (m + 1)) + 1) = i
      BY <2>3
    <3>2. v[(m + 1) + (i - (m + 1))] = g[i - (m + 1)]
      BY <1>10, <3>1, Zenon
    <3>3. g[i - (m + 1)] = f[(i - (m + 1)) + 1]
      BY <1>4, <3>1, Zenon
    <3>4. w[m + ((i - (m + 1)) + 1)] = f[(i - (m + 1)) + 1]
      BY <1>11, <3>1, Zenon
    <3> QED BY <3>1, <3>2, <3>3, <3>4
  <2> QED BY <2>1, <2>2, <2>3
<1>13. (m + 1) + n = m + (n + 1)
  OBVIOUS
<1>14. v = w
  BY <1>10, <1>11, <1>12, <1>13, SameSeq
<1> QED BY <1>3, <1>5, <1>8, <1>9, <1>14

(***************************************************************************)
(* The end of the transport goes into the executor.                        *)
(***************************************************************************)
LEMMA LineMark ==
  ASSUME NEW q \in Seq(TaskSet), NEW task \in TaskSet, task.frame = << >>
  PROVE  Along(Append(q, task), << >>) = Append(Along(q, << >>), EndMark)
<1>1. PICK m \in Nat : m = Len(q)
  OBVIOUS
<1>2. PICK r \in Seq(TaskSet) : r = Append(q, task)
  BY AppendProperties
<1>3. Len(r) = m + 1 /\ r[m + 1] = task /\ \A i \in 1..m : r[i] = q[i]
  BY <1>1, <1>2, AppendProperties
<1>4. PICK v \in Seq(ItemSet) : /\ v = Items(r) /\ Len(v) = m + 1
                                /\ \A i \in 1..m + 1 : v[i] = AsItem(r[i])
  BY <1>3, ItemsFacts
<1>5. PICK w \in Seq(ItemSet) : /\ w = Items(q) /\ Len(w) = m
                                /\ \A i \in 1..m : w[i] = AsItem(q[i])
  BY <1>1, ItemsFacts
<1>6. EndMark \in ItemSet /\ AsItem(task) = EndMark
  BY FrameFacts, TaskFacts
<1>7. PICK u \in Seq(ItemSet) : u = Append(w, EndMark)
  BY <1>6, AppendProperties
<1>8. Len(u) = m + 1 /\ u[m + 1] = EndMark /\ \A i \in 1..m : u[i] = w[i]
  BY <1>5, <1>6, <1>7, AppendProperties
<1>9. \A i \in 1..m + 1 : v[i] = u[i]
  <2> TAKE i \in 1..m + 1
  <2>1. i \in 1..m \/ i = m + 1
    OBVIOUS
  <2> QED BY <1>3, <1>4, <1>5, <1>6, <1>8, <2>1
<1>10. v = u
  BY <1>4, <1>8, <1>9, SameSeq
<1>11. v \o << >> = v /\ w \o << >> = w
  BY ConcatEmptySeq
<1> QED BY <1>2, <1>4, <1>5, <1>7, <1>10, <1>11 DEF Along

LEMMA LineLonger ==
  ASSUME NEW q \in Seq(TaskSet), NEW f \in Seq(FrameSet), NEW g \in Seq(FrameSet)
  PROVE  Along(q, f \o g) = Along(q, f) \o g
<1>1. PICK a \in Seq(ItemSet) : a = Items(q)
  BY ItemsFacts
<1>2. PICK b \in Seq(ItemSet) : b = f
  BY FrameIsItem
<1>3. PICK c \in Seq(ItemSet) : c = g
  BY FrameIsItem
<1>4. (a \o b) \o c = a \o (b \o c)
  BY ConcatAssociative
<1> QED BY <1>1, <1>2, <1>3, <1>4, Zenon DEF Along

(***************************************************************************)
(* v is what is left of u when its end is lost.                            *)
(***************************************************************************)
Cut(v, u) == Len(v) <= Len(u) /\ \A i \in 1..Len(v) : v[i] = u[i]

LEMMA LineCut ==
  ASSUME NEW q \in Seq(TaskSet), NEW f \in Seq(FrameSet), NEW g \in Seq(FrameSet), Cut(g, f)
  PROVE  Cut(Along(q, g), Along(q, f))
<1>1. PICK m \in Nat : m = Len(q)
  OBVIOUS
<1>2. PICK k \in Nat : k = Len(g)
  OBVIOUS
<1>3. PICK n \in Nat : n = Len(f)
  OBVIOUS
<1>4. PICK v : v = Along(q, g)
  OBVIOUS
<1>5. PICK u : u = Along(q, f)
  OBVIOUS
<1>6. /\ Len(v) = m + k
      /\ \A i \in 1..m : v[i] = AsItem(q[i])
      /\ \A i \in 1..k : v[m + i] = g[i]
  BY <1>1, <1>2, <1>4, LineSeq
<1>7. /\ Len(u) = m + n
      /\ \A i \in 1..m : u[i] = AsItem(q[i])
      /\ \A i \in 1..n : u[m + i] = f[i]
  BY <1>1, <1>3, <1>5, LineSeq
<1>8. k <= n /\ \A i \in 1..k : g[i] = f[i]
  BY <1>2, <1>3 DEF Cut
<1>9. \A i \in 1..m + k : v[i] = u[i]
  <2> TAKE i \in 1..m + k
  <2>1. CASE i <= m
    <3>1. i \in 1..m
      BY <2>1
    <3> QED BY <1>6, <1>7, <3>1
  <2>2. CASE i > m
    <3>1. i - m \in 1..k /\ i - m \in 1..n /\ m + (i - m) = i
      BY <1>8, <2>2
    <3>2. v[m + (i - m)] = g[i - m] /\ u[m + (i - m)] = f[i - m] /\ g[i - m] = f[i - m]
      BY <1>6, <1>7, <1>8, <3>1, Zenon
    <3> QED BY <3>1, <3>2
  <2> QED BY <2>1, <2>2
<1>10. m + k <= m + n
  BY <1>8
<1> QED BY <1>4, <1>5, <1>6, <1>7, <1>9, <1>10 DEF Cut

-----------------------------------------------------------------------------
(* What consuming, losing and sending frames does to what is on its way    *)

LEMMA TailAll ==
  ASSUME NEW w \in Seq(ItemSet), w # << >>, NEW v, v = Tail(w)
  PROVE  /\ v \in Seq(ItemSet)
         /\ \A T : AllIn(w, 1, T) => AllIn(v, 1, T)
         /\ \A T : AllIn(w, 2, T) => AllIn(v, 1, T)
         /\ \A d \in Nat : Acks(w, d) => Acks(v, d)
         /\ AllEnd(w) => AllEnd(v)
<1>1. PICK n \in Nat : n = Len(w) - 1
  BY TailFacts
<1>2. v \in Seq(ItemSet) /\ Len(v) = n /\ \A i \in 1..n : v[i] = w[i + 1]
  BY <1>1, TailFacts
<1>3. Len(w) = n + 1
  BY <1>1, TailFacts
<1>4. \A i \in 1..n : i + 1 \in 1..n + 1 /\ i + 1 >= 1 /\ i + 1 >= 2
  OBVIOUS
<1>5. ASSUME NEW T, AllIn(w, 1, T) \/ AllIn(w, 2, T)
      PROVE  AllIn(v, 1, T)
  <2>1. \A i \in 1..n : w[i + 1].type \in T
    BY <1>3, <1>4, <1>5 DEF AllIn
  <2> QED BY <1>2, <2>1 DEF AllIn
<1>6. ASSUME NEW d \in Nat, Acks(w, d)
      PROVE  Acks(v, d)
  BY <1>2, <1>3, <1>4, <1>6 DEF Acks
<1>7. ASSUME AllEnd(w) PROVE AllEnd(v)
  BY <1>2, <1>3, <1>4, <1>7 DEF AllEnd
<1> QED BY <1>2, <1>5, <1>6, <1>7

LEMMA CutAll ==
  ASSUME NEW u \in Seq(ItemSet), NEW v \in Seq(ItemSet), Cut(v, u)
  PROVE  /\ \A T : \A k \in {1, 2} : AllIn(u, k, T) => AllIn(v, k, T)
         /\ \A d \in Nat : Acks(u, d) => Acks(v, d)
         /\ AllEnd(u) => AllEnd(v)
         /\ Leads(u) => Leads(v)
         /\ v # << >> => u # << >> /\ v[1] = u[1]
<1>1. PICK n \in Nat : n = Len(v)
  OBVIOUS
<1>2. PICK m \in Nat : m = Len(u)
  OBVIOUS
<1>3. n <= m /\ \A i \in 1..n : v[i] = u[i]
  BY <1>1, <1>2 DEF Cut
<1>4. \A i \in 1..n : i \in 1..m
  BY <1>3
<1>5. \A T : \A k \in {1, 2} : AllIn(u, k, T) => AllIn(v, k, T)
  BY <1>1, <1>2, <1>3, <1>4 DEF AllIn
<1>6. \A d \in Nat : Acks(u, d) => Acks(v, d)
  BY <1>1, <1>2, <1>3, <1>4 DEF Acks
<1>7. AllEnd(u) => AllEnd(v)
  BY <1>1, <1>2, <1>3, <1>4 DEF AllEnd
<1>8. ASSUME Leads(u) PROVE Leads(v)
  <2>1. SUFFICES ASSUME NEW i \in 1..n, \A j \in 1..i - 1 : v[j].type = "END"
                 PROVE  v[i].type \in {"RESUME_OK", "ERROR", "END"}
    BY <1>1 DEF Leads
  <2>2. \A j \in 1..i - 1 : j \in 1..n
    OBVIOUS
  <2>3. \A j \in 1..i - 1 : u[j].type = "END"
    BY <1>3, <2>1, <2>2
  <2>4. u[i].type \in {"RESUME_OK", "ERROR", "END"}
    BY <1>2, <1>4, <1>8, <2>3 DEF Leads
  <2> QED BY <1>3, <2>4
<1>9. v # << >> => u # << >> /\ v[1] = u[1]
  <2>1. SUFFICES ASSUME v # << >> PROVE u # << >> /\ v[1] = u[1]
    OBVIOUS
  <2>2. n >= 1
    BY <1>1, <2>1, TailFacts
  <2>3. m >= 1 /\ 1 \in 1..n
    BY <1>3, <2>2
  <2>4. u # << >>
    BY <1>2, <2>3
  <2> QED BY <1>3, <2>3, <2>4
<1> QED BY <1>5, <1>6, <1>7, <1>8, <1>9

(***************************************************************************)
(* What leads w still leads it, whatever follows.                          *)
(***************************************************************************)
LEMMA LeadsJoin ==
  ASSUME NEW w \in Seq(ItemSet), NEW v \in Seq(ItemSet), Leads(w),
         \/ w # << >> /\ w[1].type # "END"
         \/ AllIn(v, 1, {"ERROR", "END"})
  PROVE  Leads(w \o v)
<1>1. PICK m \in Nat : m = Len(w)
  OBVIOUS
<1>2. PICK n \in Nat : n = Len(v)
  OBVIOUS
<1>3. PICK u \in Seq(ItemSet) : u = w \o v
  BY ConcatFacts
<1>4. /\ Len(u) = m + n
      /\ \A i \in 1..m : u[i] = w[i]
      /\ \A i \in 1..n : u[m + i] = v[i]
  BY <1>1, <1>2, <1>3, ConcatFacts
<1>5. SUFFICES ASSUME NEW i \in 1..m + n, \A j \in 1..i - 1 : u[j].type = "END"
               PROVE  u[i].type \in {"RESUME_OK", "ERROR", "END"}
  BY <1>3, <1>4 DEF Leads
<1>6. CASE i <= m
  <2>1. i \in 1..m /\ \A j \in 1..i - 1 : j \in 1..m
    BY <1>6
  <2>2. \A j \in 1..i - 1 : w[j].type = "END"
    BY <1>4, <1>5, <2>1
  <2>3. w[i].type \in {"RESUME_OK", "ERROR", "END"}
    BY <1>1, <2>1, <2>2 DEF Leads
  <2> QED BY <1>4, <2>1, <2>3
<1>7. CASE i > m
  <2>1. i - m \in 1..n /\ m + (i - m) = i
    BY <1>7
  <2>2. u[i] = v[i - m]
    BY <1>4, <2>1
  <2>3. CASE w # << >> /\ w[1].type # "END"
    <3>1. m >= 1
      BY <1>1, <2>3, TailFacts
    <3>2. 1 \in 1..m /\ 1 \in 1..i - 1
      BY <1>7, <3>1
    <3>3. u[1].type = "END" /\ u[1] = w[1]
      BY <1>4, <1>5, <3>2
    <3> QED BY <2>3, <3>3
  <2>4. CASE AllIn(v, 1, {"ERROR", "END"})
    BY <1>2, <2>1, <2>2, <2>4 DEF AllIn
  <2> QED BY <2>3, <2>4
<1> QED BY <1>6, <1>7

LEMMA RetainsMore ==
  ASSUME NEW c \in CacheSet, NEW d \in Nat, NEW n \in Nat, d <= n, Retains(c, d)
  PROVE  Retains(c, n)
<1>1. PICK k \in Nat : k = Len(c.frames)
  BY DEF CacheSet
<1>2. PICK q \in Nat : q = c.position
  BY DEF CacheSet
<1>3. q - k <= d => q - k <= n
  OBVIOUS
<1> QED BY <1>1, <1>2, <1>3 DEF Retains

(***************************************************************************)
(* x becomes z, which has processed the first item of w, or none.          *)
(***************************************************************************)
LEMMA ConsumeFed ==
  ASSUME NEW x \in EndSet, NEW y \in EndSet, NEW z \in EndSet, NEW live,
         NEW w \in Seq(ItemSet), Fed(x, y, w, live), z.closed = x.closed, NEW v,
         \/ v = w /\ z.delivered = x.delivered
         \/ /\ w # << >> /\ v = Tail(w)
            /\ z.delivered = IF w[1].stream = 1 /\ ~x.closed
                             THEN Append(x.delivered, w[1].a) ELSE x.delivered
  PROVE  Fed(z, y, v, live)
<1>1. CASE v = w /\ z.delivered = x.delivered
  BY <1>1 DEF Fed
<1>2. CASE /\ w # << >> /\ v = Tail(w)
           /\ z.delivered = IF w[1].stream = 1 /\ ~x.closed
                            THEN Append(x.delivered, w[1].a) ELSE x.delivered
  <2>1. PICK r \in Nat : r = Len(x.delivered)
    BY EndFacts
  <2>2. PICK s \in Nat : s = Len(z.delivered)
    BY EndFacts
  <2>3. CASE x.closed
    <3>1. s = r
      BY <1>2, <2>1, <2>2, <2>3
    <3> QED BY <2>1, <2>2, <2>3, <3>1 DEF Fed
  <2>4. CASE ~x.closed
    <3>1. PICK m \in Nat :
             /\ Flow(w, r, m)
             /\ m <= y.written
             /\ ~y.closed => m <= y.cache.position
             /\ live => m = y.cache.position
      BY <2>1, <2>4 DEF Fed
    <3>2. Acks(v, Len(y.delivered))
      <4>1. Acks(w, Len(y.delivered)) /\ Len(y.delivered) \in Nat
        BY <2>4, EndFacts DEF Fed
      <4> QED BY <1>2, <4>1, TailAll
    <3>3. IF w[1].stream = 1
          THEN w[1].a = r + 1 /\ r + 1 <= m /\ Flow(v, r + 1, m)
          ELSE Flow(v, r, m)
      BY <1>2, <3>1, FlowTail
    <3>4. s = IF w[1].stream = 1 THEN r + 1 ELSE r
      <4>1. w[1].a \in Nat
        BY <1>2, TailFacts, ItemFacts
      <4>2. x.delivered \in Seq(Nat)
        BY EndFacts
      <4>3. Len(Append(x.delivered, w[1].a)) = Len(x.delivered) + 1
        BY <4>1, <4>2, AppendProperties
      <4> QED BY <1>2, <2>1, <2>2, <2>4, <4>3
    <3>5. Flow(v, s, m) /\ r <= s
      BY <3>3, <3>4
    <3>6. s <= m
      <4>1. v \in Seq(ItemSet)
        BY <1>2, TailAll
      <4> QED BY <3>5, <4>1, FlowGrows
    <3>7. s <= y.written
      BY <3>1, <3>6, EndFacts
    <3>8. ~y.closed => Retains(y.cache, s)
      <4>1. ~y.closed => Retains(y.cache, r)
        BY <2>1 DEF Fed
      <4> QED BY <3>5, <4>1, EndFacts, RetainsMore
    <3> QED BY <2>2, <2>4, <3>1, <3>2, <3>5, <3>7, <3>8 DEF Fed
  <2> QED BY <2>3, <2>4
<1> QED BY <1>1, <1>2

(***************************************************************************)
(* The end of w is lost, and perhaps its first item was one of no stream   *)
(* and was processed.                                                      *)
(***************************************************************************)
LEMMA CutFed ==
  ASSUME NEW x \in EndSet, NEW y \in EndSet, NEW z \in EndSet, NEW live,
         NEW w \in Seq(ItemSet), Fed(x, y, w, live), z.delivered = x.delivered,
         NEW v \in Seq(ItemSet),
         ~z.closed => /\ ~x.closed
                      /\ \/ Cut(v, w)
                         \/ w # << >> /\ w[1].stream # 1 /\ Cut(v, Tail(w))
  PROVE  Fed(z, y, v, FALSE)
<1>1. CASE z.closed
  BY <1>1 DEF Fed
<1>2. CASE ~z.closed
  <2>1. PICK r \in Nat : r = Len(x.delivered)
    BY EndFacts
  <2>2. PICK m \in Nat :
             /\ Flow(w, r, m)
             /\ m <= y.written
             /\ ~y.closed => m <= y.cache.position
    BY <1>2, <2>1 DEF Fed
  <2>3. Acks(w, Len(y.delivered)) /\ Len(y.delivered) \in Nat
    BY <1>2, EndFacts DEF Fed
  <2>4. PICK u \in Seq(ItemSet) : Cut(v, u) /\ Flow(u, r, m) /\ Acks(u, Len(y.delivered))
    <3>1. CASE Cut(v, w)
      BY <2>2, <2>3, <3>1
    <3>2. CASE w # << >> /\ w[1].stream # 1 /\ Cut(v, Tail(w))
      <4>1. Flow(Tail(w), r, m)
        BY <2>2, <3>2, FlowTail
      <4>2. Tail(w) \in Seq(ItemSet) /\ Acks(Tail(w), Len(y.delivered))
        BY <2>3, <3>2, TailAll
      <4> QED BY <3>2, <4>1, <4>2
    <3> QED BY <1>2, <3>1, <3>2
  <2>5. PICK d \in Nat : Flow(v, r, d) /\ d <= m
    BY <2>4, FlowCut DEF Cut
  <2>6. Acks(v, Len(y.delivered))
    BY <2>3, <2>4, CutAll
  <2>7. d <= y.written /\ (~y.closed => d <= y.cache.position)
    BY <2>2, <2>5, EndFacts
  <2>8. Len(z.delivered) = r /\ r <= y.written /\ (~y.closed => Retains(y.cache, r))
    BY <2>1 DEF Fed
  <2> QED BY <2>5, <2>6, <2>7, <2>8 DEF Fed
<1> QED BY <1>1, <1>2

(***************************************************************************)
(* y becomes z, and sends nothing of a stream.                             *)
(***************************************************************************)
LEMMA QuietFed ==
  ASSUME NEW x \in EndSet, NEW y \in EndSet, NEW z \in EndSet, NEW live,
         NEW w \in Seq(ItemSet), Fed(x, y, w, live),
         y.written <= z.written, Len(y.delivered) <= Len(z.delivered),
         y.closed => z.closed,
         ~z.closed => /\ y.cache.position <= z.cache.position
                      /\ Retains(z.cache, Len(x.delivered)),
         NEW g \in Seq(ItemSet), \A i \in 1..Len(g) : g[i].stream # 1,
         Acks(g, Len(z.delivered)), NEW v, v = w \o g
  PROVE  Fed(x, z, v, FALSE)
<1>1. PICK r \in Nat : r = Len(x.delivered)
  BY EndFacts
<1>2. r <= z.written
  BY <1>1, EndFacts DEF Fed
<1>3. CASE x.closed
  BY <1>1, <1>2, <1>3 DEF Fed
<1>4. CASE ~x.closed
  <2>1. PICK m \in Nat :
             /\ Flow(w, r, m)
             /\ m <= y.written
             /\ ~y.closed => m <= y.cache.position
    BY <1>1, <1>4 DEF Fed
  <2>2. Flow(v, r, m)
    BY <2>1, FlowQuiet, FlowJoin
  <2>3. m <= z.written /\ (~z.closed => m <= z.cache.position)
    BY <2>1, EndFacts
  <2>4. Acks(v, Len(z.delivered))
    <3>1. Len(y.delivered) \in Nat /\ Len(z.delivered) \in Nat
      BY EndFacts
    <3>2. Acks(w, Len(z.delivered))
      <4>1. \A i \in 1..Len(w) : w[i].a \in Nat
        BY ItemFacts
      <4> QED BY <1>4, <3>1, <4>1 DEF Fed, Acks
    <3> QED BY <3>1, <3>2, JoinAll
  <2> QED BY <1>1, <1>2, <2>2, <2>3, <2>4 DEF Fed
<1> QED BY <1>3, <1>4

(***************************************************************************)
(* y becomes z, and what it sends continues what is on its way.            *)
(***************************************************************************)
LEMMA GrowFed ==
  ASSUME NEW x \in EndSet, NEW y \in EndSet, NEW z \in EndSet, NEW live,
         NEW w \in Seq(ItemSet), Fed(x, y, w, live),
         y.written <= z.written, Len(y.delivered) <= Len(z.delivered),
         ~z.closed, z.cache.position <= z.written, Retains(z.cache, Len(x.delivered)),
         NEW g \in Seq(ItemSet), Acks(g, Len(z.delivered)), NEW v, v = w \o g,
         ~x.closed => \E r \in Nat : /\ Flow(w, Len(x.delivered), r)
                                     /\ Flow(g, r, z.cache.position)
  PROVE  Fed(x, z, v, TRUE)
<1>1. PICK r \in Nat : r = Len(x.delivered)
  BY EndFacts
<1>2. r <= z.written
  BY <1>1, EndFacts DEF Fed
<1>3. CASE x.closed
  BY <1>1, <1>2, <1>3 DEF Fed
<1>4. CASE ~x.closed
  <2>1. PICK d \in Nat : Flow(w, r, d) /\ Flow(g, d, z.cache.position)
    BY <1>1, <1>4
  <2>2. PICK m \in Nat : m = z.cache.position
    BY EndFacts
  <2>3. Flow(v, r, m)
    BY <2>1, <2>2, FlowJoin
  <2>4. Acks(v, Len(z.delivered))
    <3>1. Len(y.delivered) \in Nat /\ Len(z.delivered) \in Nat
      BY EndFacts
    <3>2. Acks(w, Len(z.delivered))
      <4>1. \A i \in 1..Len(w) : w[i].a \in Nat
        BY ItemFacts
      <4> QED BY <1>4, <3>1, <4>1 DEF Fed, Acks
    <3> QED BY <3>1, <3>2, JoinAll
  <2> QED BY <1>1, <1>2, <2>2, <2>3, <2>4 DEF Fed
<1> QED BY <1>3, <1>4

-----------------------------------------------------------------------------
(* A step of one end                                                       *)

LEMMA PeerFacts ==
  ASSUME NEW e \in Ends
  PROVE  /\ Peer(e) \in Ends /\ Peer(e) # e /\ Peer(Peer(e)) = e
         /\ \A d \in Ends : d = e \/ d = Peer(e)
         /\ e = Client \/ e = Server
         /\ e = Client => Peer(e) = Server
         /\ e = Server => Peer(e) = Client
         /\ Client \in Ends /\ Server \in Ends /\ Client # Server
BY BoundsAssumption DEF Ends, Peer

Settled(z) == [z EXCEPT !.out = << >>]

LEMMA SettledFacts ==
  ASSUME NEW z \in EndSet, NEW s, s = Settled(z)
  PROVE  /\ s \in EndSet /\ s.out = << >>
         /\ s.transport = z.transport /\ s.closed = z.closed /\ s.resuming = z.resuming
         /\ s.awaiting = z.awaiting /\ s.cache = z.cache /\ s.pending = z.pending
         /\ s.written = z.written /\ s.delivered = z.delivered
         /\ \A e : Shape(e, z) => Shape(e, s)
         /\ Local(z) => Local(s)
<1>0. << >> \in Seq(FrameSet)
  OBVIOUS
<1>1. PICK w \in Seq(FrameSet) : w = << >>
  BY <1>0
<1>2. s = [z EXCEPT !.out = w]
  BY <1>1, Zenon DEF Settled
<1>3. /\ s \in EndSet /\ s.out = w
      /\ s.transport = z.transport /\ s.closed = z.closed /\ s.resuming = z.resuming
      /\ s.awaiting = z.awaiting /\ s.cache = z.cache /\ s.pending = z.pending
      /\ s.written = z.written /\ s.delivered = z.delivered
  BY <1>2 DEF EndSet
<1>4. \A e : Shape(e, z) => Shape(e, s)
  BY <1>3 DEF Shape
<1>5. Local(z) => Local(s)
  BY <1>3 DEF Local
<1> QED BY <1>1, <1>3, <1>4, <1>5

LEMMA ExtendFacts ==
  ASSUME NEW s \in StreamSet, NEW f \in Seq(FrameSet), NEW r, r = Extend(s, f)
  PROVE  /\ r \in StreamSet /\ r.ended = s.ended
         /\ r.frames = IF s.ended THEN s.frames ELSE s.frames \o f
<1>1. s.frames \in Seq(FrameSet) /\ s.ended \in BOOLEAN
  BY DEF StreamSet
<1>2. PICK g \in Seq(FrameSet) : g = s.frames \o f
  BY <1>1, ConcatFacts
<1>3. CASE s.ended
  BY <1>3 DEF Extend
<1>4. CASE ~s.ended
  <2>1. r = [s EXCEPT !.frames = g]
    BY <1>2, <1>4, Zenon DEF Extend
  <2>2. r \in StreamSet /\ r.ended = s.ended /\ r.frames = g
    BY <2>1 DEF StreamSet
  <2> QED BY <1>2, <1>4, <2>2
<1> QED BY <1>3, <1>4

LEMMA StreamFacts ==
  ASSUME NEW s \in StreamSet
  PROVE  s.frames \in Seq(FrameSet) /\ s.ended \in BOOLEAN
BY DEF StreamSet

LEMMA StreamRecords ==
  ASSUME NEW s \in StreamSet
  PROVE  /\ \A r : r = [s EXCEPT !.ended = TRUE] =>
               r \in StreamSet /\ r.ended /\ r.frames = s.frames
         /\ \A f \in Seq(FrameSet) : \A r : r = [s EXCEPT !.frames = f] =>
               r \in StreamSet /\ r.ended = s.ended /\ r.frames = f
BY DEF StreamSet

(***************************************************************************)
(* The transport u is one that e leaves when it becomes z.                 *)
(***************************************************************************)
Left(e, z, t, u) == u \in {end[e].transport, t} \ {0, z.transport}

LEMMA CommitFacts ==
  ASSUME Types, NEW e \in Ends, NEW p, p = Peer(e), NEW z \in EndSet, NEW t,
         NEW streams \in [Transports -> [Ends -> StreamSet]], Commit(e, z, t, streams)
  PROVE  /\ end' \in [Ends -> EndSet] /\ end'[e] = Settled(z) /\ end'[p] = end[p]
         /\ wire' \in [Transports -> [Ends -> StreamSet]]
         /\ \A u \in Transports :
               /\ wire'[u][e] = IF Left(e, z, t, u) THEN DeadStream ELSE streams[u][e]
               /\ wire'[u][p].ended <=> Left(e, z, t, u) \/ streams[u][p].ended
               /\ wire'[u][p].frames = IF u = t /\ ~streams[u][p].ended
                                       THEN streams[u][p].frames \o z.out
                                       ELSE streams[u][p].frames
<1> DEFINE sent(u) == IF u = t THEN [streams[u] EXCEPT ![p] = Extend(@, z.out)]
                      ELSE streams[u]
           final(u) == IF Left(e, z, t, u)
                       THEN [sent(u) EXCEPT ![e] = DeadStream, ![p].ended = TRUE]
                       ELSE sent(u)
<1>1. p \in Ends /\ p # e
  BY PeerFacts
<1>2. end' \in [Ends -> EndSet] /\ end'[e] = Settled(z) /\ end'[p] = end[p]
  <2>1. PICK s \in EndSet : s = Settled(z)
    BY SettledFacts
  <2>2. end' = [end EXCEPT ![e] = s]
    BY <2>1, Zenon DEF Commit, Settled
  <2> QED BY <1>1, <2>1, <2>2 DEF Types
<1>3. wire' = [u \in Transports |-> final(u)]
  <2>1. wire' = [u \in Transports |->
                   IF u \in {end[e].transport, t} \ {0, z.transport}
                   THEN [[v \in Transports |->
                            IF v = t THEN [streams[v] EXCEPT ![p] = Extend(@, z.out)]
                            ELSE streams[v]][u]
                         EXCEPT ![e] = DeadStream, ![p].ended = TRUE]
                   ELSE [v \in Transports |->
                            IF v = t THEN [streams[v] EXCEPT ![p] = Extend(@, z.out)]
                            ELSE streams[v]][u]]
    BY Zenon DEF Commit
  <2>2. \A u \in Transports :
           [v \in Transports |-> IF v = t THEN [streams[v] EXCEPT ![p] = Extend(@, z.out)]
                                 ELSE streams[v]][u] = sent(u)
    BY Zenon
  <2> QED BY <2>1, <2>2, Zenon DEF Left
<1>4. DeadStream \in StreamSet /\ DeadStream.ended
  BY DEF DeadStream, StreamSet
<1>5. ASSUME NEW u \in Transports
      PROVE  /\ final(u) \in [Ends -> StreamSet]
             /\ final(u)[e] = IF Left(e, z, t, u) THEN DeadStream ELSE streams[u][e]
             /\ final(u)[p].ended <=> Left(e, z, t, u) \/ streams[u][p].ended
             /\ final(u)[p].frames = IF u = t /\ ~streams[u][p].ended
                                     THEN streams[u][p].frames \o z.out
                                     ELSE streams[u][p].frames
  <2>1. PICK a \in [Ends -> StreamSet] : a = streams[u]
    OBVIOUS
  <2>2. PICK r \in StreamSet :
           /\ r = IF u = t THEN Extend(a[p], z.out) ELSE a[p]
           /\ r.ended = a[p].ended
           /\ r.frames = IF u = t /\ ~a[p].ended THEN a[p].frames \o z.out ELSE a[p].frames
    <3>1. a[p] \in StreamSet /\ z.out \in Seq(FrameSet)
      BY <1>1, EndFacts
    <3> QED BY <3>1, ExtendFacts
  <2>3. PICK b \in [Ends -> StreamSet] : b = [a EXCEPT ![p] = r]
    BY <1>1
  <2>4. b[e] = a[e] /\ b[p] = r
    BY <1>1, <2>3
  <2>5. sent(u) = b
    <3>1. CASE u = t
      BY <2>1, <2>2, <2>3, <3>1, Zenon
    <3>2. CASE u # t
      <4>1. b = a
        BY <1>1, <2>2, <2>3, <3>2
      <4> QED BY <2>1, <3>2, <4>1
    <3> QED BY <3>1, <3>2
  <2> HIDE DEF sent
  <2>6. CASE Left(e, z, t, u)
    <3>0. PICK s : s = [r EXCEPT !.ended = TRUE]
      OBVIOUS
    <3>1. s \in StreamSet /\ s.ended /\ s.frames = r.frames
      BY <3>0, StreamRecords
    <3>2. final(u) = [b EXCEPT ![e] = DeadStream, ![p].ended = TRUE]
      BY <2>5, <2>6, Zenon
    <3>3. final(u) = [b EXCEPT ![e] = DeadStream, ![p] = s]
      BY <1>1, <2>4, <3>0, <3>2
    <3> HIDE DEF final
    <3>4. PICK c \in [Ends -> StreamSet] : c = [b EXCEPT ![e] = DeadStream, ![p] = s]
      BY <1>1, <1>4, <3>1
    <3>5. c[e] = DeadStream /\ c[p] = s
      BY <1>1, <3>4
    <3> QED BY <2>1, <2>2, <2>6, <3>1, <3>3, <3>4, <3>5
  <2>7. CASE ~Left(e, z, t, u)
    <3>1. final(u) = b
      BY <2>5, <2>7, Zenon
    <3> HIDE DEF final
    <3> QED BY <2>1, <2>2, <2>4, <2>7, <3>1
  <2> QED BY <2>6, <2>7
<1> HIDE DEF final
<1>6. wire' \in [Transports -> [Ends -> StreamSet]]
  BY <1>3, <1>5
<1>7. \A u \in Transports : wire'[u] = final(u)
  BY <1>3
<1> QED BY <1>2, <1>5, <1>6, <1>7

-----------------------------------------------------------------------------
(* The state, and the items that are taken from it                         *)

LEMMA StateFacts ==
  ASSUME IInv, NEW e \in Ends
  PROVE  /\ end[e] \in EndSet /\ queue[e] \in Seq(TaskSet)
         /\ end[e].transport \in 0..lastTransport
         /\ end[e].transport \in 0..MaxTransports
         /\ Via(e) \in 0..MaxTransports
         /\ \A u \in Transports : wire[u][e] \in StreamSet
         /\ Arriving(e) \in Seq(FrameSet)
         /\ Line(e) \in Seq(ItemSet)
         /\ Shape(e, end[e]) /\ Local(end[e]) /\ end[e].out = << >> /\ Towards(e)
<1>1. /\ end[e] \in EndSet /\ queue[e] \in Seq(TaskSet)
      /\ \A u \in Transports : wire[u][e] \in StreamSet
      /\ lastTransport \in 0..MaxTransports /\ MaxTransports \in Nat \ {0}
  BY BoundsAssumption DEF IInv, Types
<1>2. end[e].transport \in 0..lastTransport
  <2>1. end[e].transport \in Nat
    BY <1>1, EndFacts
  <2>2. end[Client].transport \in {0, lastTransport} /\ end[Server].transport <= lastTransport
    BY DEF IInv, ClientSide, ServerSide
  <2>3. CASE e = Client
    BY <1>1, <2>2, <2>3
  <2>4. CASE e = Server
    BY <1>1, <2>1, <2>2, <2>4
  <2> QED BY <2>3, <2>4, PeerFacts
<1>3. end[e].transport \in 0..MaxTransports
  BY <1>1, <1>2
<1>4. Via(e) \in 0..MaxTransports
  <2>1. 1 \in 0..MaxTransports
    BY <1>1
  <2> QED BY <1>3, <2>1 DEF Via
<1>5. Arriving(e) \in Seq(FrameSet)
  <2>1. Via(e) # 0 => Via(e) \in Transports
    BY <1>4, BoundsAssumption DEF Transports
  <2>2. << >> \in Seq(FrameSet)
    OBVIOUS
  <2> QED BY <1>1, <2>1, <2>2, StreamFacts DEF Arriving
<1>6. Line(e) \in Seq(ItemSet)
  BY <1>1, <1>5, LineSeq DEF Line
<1>7. Shape(e, end[e]) /\ Local(end[e]) /\ end[e].out = << >> /\ Towards(e)
  BY DEF IInv
<1> QED BY <1>1, <1>2, <1>3, <1>4, <1>5, <1>6, <1>7

(***************************************************************************)
(* e takes no item; e takes its first one, a task or a frame.              *)
(***************************************************************************)
Idle(streams) == streams = wire /\ queue' = queue

Taken(e, streams) ==
    \/ /\ queue[e] # << >>
       /\ streams = wire
       /\ queue' = [queue EXCEPT ![e] = Tail(@)]
    \/ /\ queue[e] = << >>
       /\ end[e].transport # 0
       /\ wire[end[e].transport][e].frames # << >>
       /\ streams = Consume(end[e].transport, e)
       /\ queue' = queue

LEMMA ConsumeFacts ==
  ASSUME Types, NEW e \in Ends, NEW t \in Transports, wire[t][e].frames # << >>,
         NEW streams, streams = Consume(t, e)
  PROVE  /\ streams \in [Transports -> [Ends -> StreamSet]]
         /\ \A u \in Transports : \A d \in Ends :
               streams[u][d].ended = wire[u][d].ended /\ streams[u][d].frames =
                  IF u = t /\ d = e THEN Tail(wire[u][d].frames) ELSE wire[u][d].frames
         /\ \A u \in Transports : \A d \in Ends :
               ~(u = t /\ d = e) => streams[u][d] = wire[u][d]
<1>1. wire \in [Transports -> [Ends -> StreamSet]]
  BY DEF Types
<1>2. PICK s \in StreamSet : s = wire[t][e]
  BY <1>1
<1>3. PICK f \in Seq(FrameSet) : f = Tail(s.frames)
  BY <1>2, StreamFacts, TailFacts
<1>4. PICK r : r = [s EXCEPT !.frames = f]
  OBVIOUS
<1>0. r \in StreamSet /\ r.frames = f /\ r.ended = s.ended
  BY <1>4, StreamRecords
<1>5. streams = [wire EXCEPT ![t][e].frames = f]
  BY <1>2, <1>3, Zenon DEF Consume
<1>6. streams = [wire EXCEPT ![t] = [wire[t] EXCEPT ![e] = r]]
  BY <1>1, <1>2, <1>4, <1>5
<1>7. PICK a \in [Ends -> StreamSet] : a = [wire[t] EXCEPT ![e] = r]
  BY <1>0, <1>1
<1>8. streams = [wire EXCEPT ![t] = a]
  BY <1>6, <1>7
<1>9. streams \in [Transports -> [Ends -> StreamSet]]
  BY <1>1, <1>8
<1>10. \A u \in Transports : streams[u] = IF u = t THEN a ELSE wire[u]
  BY <1>1, <1>8
<1>11. \A d \in Ends : a[d] = IF d = e THEN r ELSE wire[t][d]
  BY <1>0, <1>1, <1>7
<1>12. \A u \in Transports : \A d \in Ends :
          streams[u][d] = IF u = t /\ d = e THEN r ELSE wire[u][d]
  BY <1>10, <1>11
<1> QED BY <1>0, <1>2, <1>3, <1>9, <1>12

LEMMA TailDiffers ==
  ASSUME NEW S, NEW w \in Seq(S), w # << >>
  PROVE  Tail(w) # w
<1>1. PICK n \in Nat : n = Len(w)
  BY TailFacts
<1>2. Len(Tail(w)) = n - 1
  BY <1>1, TailFacts
<1>3. n - 1 # n
  OBVIOUS
<1> QED BY <1>1, <1>2, <1>3

(***************************************************************************)
(* What e still has to process when it has taken an item, or none.         *)
(***************************************************************************)
RestOf(e, p, t, streams, f) ==
    /\ IInv
    /\ e \in Ends
    /\ ~(e = Server /\ accepted = 0)
    /\ p = Peer(e)
    /\ t = end[e].transport
    /\ Idle(streams) \/ Taken(e, streams)
    /\ f = IF t = 0 THEN << >> ELSE streams[t][e].frames

RestIs(e, p, t, streams, f) ==
    /\ streams \in [Transports -> [Ends -> StreamSet]]
    /\ queue' \in [Ends -> Seq(TaskSet)] /\ queue'[p] = queue[p]
    /\ \A u \in Transports : /\ streams[u][p] = wire[u][p]
                             /\ streams[u][e].ended = wire[u][e].ended
                             /\ u # t => streams[u][e] = wire[u][e]
    /\ f \in Seq(FrameSet)
    /\ Idle(streams) => Along(queue'[e], f) = Line(e)
    /\ Taken(e, streams) => Line(e) # << >> /\ Along(queue'[e], f) = Tail(Line(e))
    /\ Taken(e, streams) => queue'[e] = << >> \/ Deferred
    /\ (\A i \in 1..Len(queue[e]) : queue[e][i].frame # << >>)
          => \A i \in 1..Len(queue'[e]) : queue'[e][i].frame # << >>

LEMMA RestFacts ==
  ASSUME NEW e, NEW p, NEW t, NEW streams, NEW f, RestOf(e, p, t, streams, f)
  PROVE  RestIs(e, p, t, streams, f)
<1> USE DEF RestOf, RestIs
<1>1. /\ end[e] \in EndSet /\ queue[e] \in Seq(TaskSet)
      /\ t \in 0..MaxTransports /\ Towards(e)
      /\ Arriving(e) \in Seq(FrameSet)
  BY StateFacts
<1>2. /\ Types /\ queue \in [Ends -> Seq(TaskSet)]
      /\ wire \in [Transports -> [Ends -> StreamSet]]
      /\ MaxTransports \in Nat \ {0}
  BY BoundsAssumption DEF IInv, Types
<1>3. p \in Ends /\ p # e
  BY PeerFacts
<1>4. Arriving(e) = IF t = 0 THEN << >> ELSE wire[t][e].frames
  BY DEF Arriving, Via
<1>5. Line(e) = Along(queue[e], Arriving(e))
  BY DEF Line
<1>6. t # 0 => t \in Transports
  BY <1>1, <1>2 DEF Transports
<1>7. queue[e] # << >> => Deferred
  BY <1>1 DEF Towards
<1>8. CASE Idle(streams)
  <2>1. streams = wire /\ queue' = queue
    BY <1>8 DEF Idle
  <2>2. f = Arriving(e)
    BY <1>4, <2>1
  <2>3. ~Taken(e, streams)
    <3>1. queue[e] # << >> => Tail(queue[e]) # queue[e]
      BY <1>1, TailDiffers
    <3>2. SUFFICES ASSUME Taken(e, streams) PROVE FALSE
      OBVIOUS
    <3>3. CASE queue[e] # << >> /\ queue' = [queue EXCEPT ![e] = Tail(@)]
      BY <1>2, <2>1, <3>1, <3>3
    <3>4. CASE /\ end[e].transport # 0
               /\ wire[end[e].transport][e].frames # << >>
               /\ streams = Consume(end[e].transport, e)
      <4>1. streams[t][e].frames = Tail(wire[t][e].frames)
        BY <1>2, <1>6, <3>4, ConsumeFacts
      <4>2. wire[t][e].frames \in Seq(FrameSet)
        BY <1>2, <1>6, <3>4, StreamFacts
      <4> QED BY <2>1, <3>4, <4>1, <4>2, TailDiffers
    <3> QED BY <3>2, <3>3, <3>4 DEF Taken
  <2> QED BY <1>1, <1>2, <1>5, <1>8, <2>1, <2>2, <2>3
<1>9. CASE queue[e] # << >> /\ streams = wire /\ queue' = [queue EXCEPT ![e] = Tail(@)]
  <2>1. PICK r \in Seq(TaskSet) : r = Tail(queue[e])
    BY <1>1, <1>9, TailFacts
  <2>2. queue' = [queue EXCEPT ![e] = r]
    BY <1>9, <2>1
  <2>3. /\ queue' \in [Ends -> Seq(TaskSet)]
        /\ queue'[p] = queue[p] /\ queue'[e] = r
    BY <1>2, <1>3, <2>2
  <2>4. f = Arriving(e)
    BY <1>4, <1>9
  <2>5. Along(queue[e], Arriving(e)) # << >>
        /\ Along(r, Arriving(e)) = Tail(Along(queue[e], Arriving(e)))
    BY <1>1, <1>9, <2>1, LineRun
  <2>6. (\A i \in 1..Len(queue[e]) : queue[e][i].frame # << >>)
               => \A i \in 1..Len(r) : r[i].frame # << >>
    <3>1. /\ Len(queue[e]) \in Nat /\ Len(r) = Len(queue[e]) - 1
          /\ \A i \in 1..Len(queue[e]) - 1 : r[i] = queue[e][i + 1]
      BY <1>1, <1>9, <2>1, TailFacts
    <3>2. \A i \in 1..Len(queue[e]) - 1 : i + 1 \in 1..Len(queue[e])
      BY <3>1
    <3> QED BY <3>1, <3>2
  <2>7. ~Idle(streams)
    <3>1. r # queue[e]
      BY <1>1, <1>9, <2>1, TailDiffers
    <3> QED BY <2>3, <3>1 DEF Idle
  <2>8. Deferred
    BY <1>7, <1>9
  <2> QED BY <1>1, <1>2, <1>5, <1>9, <2>3, <2>4, <2>5, <2>6, <2>7, <2>8
<1>10. CASE /\ queue[e] = << >>
            /\ t # 0
            /\ wire[t][e].frames # << >>
            /\ streams = Consume(t, e)
            /\ queue' = queue
  <2>1. t \in Transports
    BY <1>6, <1>10
  <2>2. /\ streams \in [Transports -> [Ends -> StreamSet]]
        /\ \A u \in Transports : \A d \in Ends :
               streams[u][d].ended = wire[u][d].ended /\ streams[u][d].frames =
                  IF u = t /\ d = e THEN Tail(wire[u][d].frames) ELSE wire[u][d].frames
        /\ \A u \in Transports : \A d \in Ends :
               ~(u = t /\ d = e) => streams[u][d] = wire[u][d]
    BY <1>2, <1>10, <2>1, ConsumeFacts
  <2>3. PICK g \in Seq(FrameSet) : g = wire[t][e].frames
    BY <1>2, <2>1, StreamFacts
  <2>4. f = Tail(g)
    BY <1>10, <2>1, <2>2, <2>3
  <2>5. f \in Seq(FrameSet)
    BY <1>10, <2>3, <2>4, TailFacts
  <2>6. Arriving(e) = g
    BY <1>4, <1>10, <2>3
  <2>7. Along(queue[e], g) = g /\ Along(queue[e], f) = f
    BY <1>1, <1>10, <2>5, LineNoTasks
  <2>8. ~Idle(streams)
    <3>1. f # g
      BY <1>10, <2>3, <2>4, TailDiffers
    <3>2. streams[t][e].frames = f
      BY <1>10
    <3> QED BY <2>3, <3>1, <3>2 DEF Idle
  <2>9. Along(queue'[e], f) = Tail(Line(e)) /\ Line(e) # << >>
    BY <1>5, <1>10, <2>3, <2>4, <2>6, <2>7
  <2>10. \A u \in Transports : /\ streams[u][p] = wire[u][p]
                               /\ streams[u][e].ended = wire[u][e].ended
                               /\ u # t => streams[u][e] = wire[u][e]
    BY <1>3, <2>2
  <2> QED BY <1>2, <1>10, <2>2, <2>5, <2>8, <2>9, <2>10
<1> QED BY <1>8, <1>9, <1>10 DEF Taken

(***************************************************************************)
(* e becomes z, on its transport t or on none.  g is what reaches p.       *)
(***************************************************************************)
StepOf(e, p, t, streams, f, z, g) ==
    /\ RestOf(e, p, t, streams, f)
    /\ z \in EndSet
    /\ z.transport = t \/ z.transport = 0
    /\ Commit(e, z, t, streams)
    /\ lastTransport' = lastTransport
    /\ accepted' = accepted
    /\ g = IF t # 0 /\ Via(p) = t /\ ~wire[t][p].ended THEN z.out ELSE << >>

StepIs(e, p, t, streams, f, z, g) ==
    /\ Types'
    /\ end'[e] = Settled(z) /\ end'[p] = end[p]
    /\ Via(e) = t /\ Via(e)' = z.transport /\ Via(p)' = Via(p)
    /\ g \in Seq(FrameSet) /\ Line(p)' = Line(p) \o g
    /\ z.transport = t => Line(e)' = Along(queue'[e], f)
    /\ z.transport # t => Line(e)' = Along(queue'[e], << >>)
    /\ \A u \in Transports :
          /\ z.transport = t \/ u # t =>
                /\ wire'[u][e].ended <=> wire[u][e].ended
                /\ wire'[u][p].ended <=> wire[u][p].ended
          /\ z.transport # t /\ u = t => wire'[u][e] = DeadStream /\ wire'[u][p].ended
          /\ u # t => wire'[u][e].frames = wire[u][e].frames
          /\ wire'[u][p].frames = IF u = t /\ ~wire[u][p].ended
                                  THEN wire[u][p].frames \o z.out
                                  ELSE wire[u][p].frames

LEMMA StepFacts ==
  ASSUME NEW e, NEW p, NEW t, NEW streams, NEW f, NEW z, NEW g,
         StepOf(e, p, t, streams, f, z, g)
  PROVE  StepIs(e, p, t, streams, f, z, g)
<1>0. RestOf(e, p, t, streams, f)
  BY DEF StepOf
<1>14. RestIs(e, p, t, streams, f)
  BY <1>0, RestFacts
<1> USE DEF StepOf, RestOf
<1>1. /\ end[e] \in EndSet /\ queue[e] \in Seq(TaskSet)
      /\ t \in 0..MaxTransports
  BY StateFacts
<1>2. p \in Ends /\ p # e /\ \A d \in Ends : d = e \/ d = p
  BY PeerFacts
<1>3. /\ Types /\ queue \in [Ends -> Seq(TaskSet)]
      /\ wire \in [Transports -> [Ends -> StreamSet]]
      /\ lastTransport \in 0..MaxTransports /\ accepted \in 0..lastTransport
  BY DEF IInv, Types
<1>4. /\ streams \in [Transports -> [Ends -> StreamSet]]
      /\ queue' \in [Ends -> Seq(TaskSet)] /\ queue'[p] = queue[p]
      /\ \A u \in Transports : /\ streams[u][p] = wire[u][p]
                               /\ streams[u][e].ended = wire[u][e].ended
                               /\ u # t => streams[u][e] = wire[u][e]
      /\ f \in Seq(FrameSet)
  BY ONLY <1>14 DEF RestIs
<1>5. /\ end' \in [Ends -> EndSet] /\ end'[e] = Settled(z) /\ end'[p] = end[p]
      /\ wire' \in [Transports -> [Ends -> StreamSet]]
      /\ \A u \in Transports :
            /\ wire'[u][e] = IF Left(e, z, t, u) THEN DeadStream ELSE streams[u][e]
            /\ wire'[u][p].ended <=> Left(e, z, t, u) \/ streams[u][p].ended
            /\ wire'[u][p].frames = IF u = t /\ ~streams[u][p].ended
                                    THEN streams[u][p].frames \o z.out
                                    ELSE streams[u][p].frames
  BY <1>3, <1>4, CommitFacts
<1>6. Types'
  BY <1>3, <1>4, <1>5 DEF Types
<1>7. \A u \in Transports : Left(e, z, t, u) <=> u = t /\ z.transport # t
  BY DEF Left, Transports
<1>8. \A u \in Transports :
         /\ z.transport = t \/ u # t =>
               /\ wire'[u][e].ended <=> wire[u][e].ended
               /\ wire'[u][p].ended <=> wire[u][p].ended
         /\ z.transport # t /\ u = t => wire'[u][e] = DeadStream /\ wire'[u][p].ended
         /\ u # t => wire'[u][e].frames = wire[u][e].frames
         /\ wire'[u][p].frames = IF u = t /\ ~wire[u][p].ended
                                 THEN wire[u][p].frames \o z.out
                                 ELSE wire[u][p].frames
  BY <1>4, <1>5, <1>7
<1>9. end'[e].transport = z.transport
  BY <1>5, SettledFacts
<1>10. Via(e) = t /\ Via(e)' = z.transport /\ Via(p)' = Via(p)
  BY <1>5, <1>9 DEF Via
<1>11. Line(p)' = Line(p) \o g /\ g \in Seq(FrameSet)
  <2>1. /\ queue[p] \in Seq(TaskSet) /\ Via(p) \in 0..MaxTransports
        /\ Arriving(p) \in Seq(FrameSet)
    BY <1>2, StateFacts
  <2>2. Via(p) # 0 => Via(p) \in Transports
    BY <2>1, BoundsAssumption DEF Transports
  <2>3. << >> \in Seq(FrameSet) /\ z.out \in Seq(FrameSet)
    BY EndFacts
  <2>4. g \in Seq(FrameSet)
    BY <2>3
  <2>5. Arriving(p)' = Arriving(p) \o g
    <3>1. CASE t # 0 /\ Via(p) = t /\ ~wire[t][p].ended
      <4>1. Arriving(p)' = wire'[t][p].frames /\ Arriving(p) = wire[t][p].frames
        BY <1>10, <3>1 DEF Arriving
      <4> QED BY <1>8, <2>2, <3>1, <4>1
    <3>2. CASE ~(t # 0 /\ Via(p) = t /\ ~wire[t][p].ended)
      <4>1. Arriving(p)' = Arriving(p)
        <5>1. CASE Via(p) = 0
          BY <1>10, <5>1 DEF Arriving
        <5>2. CASE Via(p) # 0
          <6>1. Via(p) = t => wire[Via(p)][p].ended
            BY <3>2, <5>2
          <6>2. wire'[Via(p)][p].frames = wire[Via(p)][p].frames
            BY <1>8, <2>2, <5>2, <6>1
          <6> QED BY <1>10, <5>2, <6>2 DEF Arriving
        <5> QED BY <5>1, <5>2
      <4>2. g = << >>
        BY <3>2
      <4> QED BY <2>1, <4>1, <4>2, ConcatEmptySeq
    <3> QED BY <3>1, <3>2
  <2>6. Along(queue[p], Arriving(p) \o g) = Along(queue[p], Arriving(p)) \o g
    BY <2>1, <2>4, LineLonger
  <2>7. Line(p)' = Along(queue'[p], Arriving(p)') /\ Line(p) = Along(queue[p], Arriving(p))
    BY DEF Line
  <2> QED BY <1>4, <2>4, <2>5, <2>6, <2>7
<1>12. /\ z.transport = t => Line(e)' = Along(queue'[e], f)
       /\ z.transport # t => Line(e)' = Along(queue'[e], << >>)
  <2>1. Line(e)' = Along(queue'[e], Arriving(e)')
    BY DEF Line
  <2>2. z.transport # t => Arriving(e)' = << >>
    BY <1>10 DEF Arriving
  <2>3. ASSUME z.transport = t
        PROVE  Arriving(e)' = f
    <3>1. CASE t = 0
      BY <1>10, <2>3, <3>1 DEF Arriving
    <3>2. CASE t # 0
      <4>1. t \in Transports
        BY <1>1, <3>2, BoundsAssumption DEF Transports
      <4>2. Arriving(e)' = wire'[t][e].frames
        BY <1>10, <2>3, <3>2 DEF Arriving
      <4>3. wire'[t][e] = streams[t][e]
        BY <1>5, <1>7, <2>3, <4>1
      <4> QED BY <3>2, <4>2, <4>3
    <3> QED BY <3>1, <3>2
  <2> QED BY <2>1, <2>2, <2>3
<1> QED BY <1>5, <1>6, <1>8, <1>10, <1>11, <1>12 DEF StepIs

LEMMA ConcatFirst ==
  ASSUME NEW S, NEW v \in Seq(S), NEW w \in Seq(S), v # << >>
  PROVE  v \o w # << >> /\ (v \o w)[1] = v[1]
<1>1. Len(v) \in Nat /\ Len(v) >= 1
  BY TailFacts
<1>2. /\ Len(w) \in Nat /\ Len(v \o w) = Len(v) + Len(w)
      /\ \A i \in 1..Len(v) : (v \o w)[i] = v[i]
  BY ConcatFacts
<1>3. Len(v \o w) # 0 /\ 1 \in 1..Len(v)
  BY <1>1, <1>2
<1>4. v \o w # << >>
  <2>1. Len(<< >>) = 0
    OBVIOUS
  <2> QED BY <1>3, <2>1
<1> QED BY <1>2, <1>3, <1>4

LEMMA FedLive ==
  ASSUME NEW x, NEW y, NEW w, NEW live, NEW live1, Fed(x, y, w, live), live1 => live
  PROVE  Fed(x, y, w, live1)
BY DEF Fed

LEMMA LineFrames ==
  ASSUME IInv, NEW e \in Ends, Line(e) # << >>,
         \A i \in 1..Len(queue[e]) : queue[e][i].frame # << >>
  PROVE  Line(e)[1].type # "END"
<1>1. PICK q \in Seq(TaskSet) : q = queue[e]
  BY StateFacts
<1>2. PICK f \in Seq(FrameSet) : f = Arriving(e)
  BY StateFacts
<1>3. PICK w : w = Along(q, f)
  OBVIOUS
<1>4. w = Line(e)
  BY <1>1, <1>2, <1>3 DEF Line
<1>5. CASE q # << >>
  <2>1. w[1] = AsItem(q[1])
    BY <1>3, <1>5, LineRun
  <2>2. q[1] \in TaskSet /\ Len(q) \in Nat /\ Len(q) >= 1
    BY <1>5, TailFacts
  <2>3. q[1].frame # << >>
    <3>1. 1 \in 1..Len(q)
      BY <2>2
    <3> QED BY <1>1, <3>1
  <2> QED BY <1>4, <2>1, <2>2, <2>3, TaskFacts
<1>6. CASE q = << >>
  <2>1. w = f
    BY <1>3, <1>6, LineNoTasks
  <2>2. f[1] \in FrameSet
    BY <1>4, <2>1, TailFacts
  <2> QED BY <1>4, <2>1, <2>2 DEF FrameSet
<1> QED BY <1>5, <1>6

(***************************************************************************)
(* A step in which e keeps its transport t.                                *)
(***************************************************************************)
LEMMA StayKeeps ==
  ASSUME IInv, NEW e \in Ends, ~(e = Server /\ accepted = 0),
         NEW p, p = Peer(e), NEW x, x = end[e], NEW y, y = end[p], NEW t, t = x.transport,
         NEW streams, Idle(streams) \/ Taken(e, streams),
         NEW z, Stays(e, x, z, Len(y.delivered)),
         Commit(e, z, t, streams), lastTransport' = lastTransport, accepted' = accepted,
         NEW w, w = Line(e),
         Idle(streams) => z.delivered = x.delivered,
         Taken(e, streams) => z.delivered = IF w[1].stream = 1 /\ ~x.closed
                                            THEN Append(x.delivered, w[1].a)
                                            ELSE x.delivered,
         t # 0 /\ ~z.resuming /\ ~wire[t][p].ended =>
            /\ Via(p) = t
            /\ ~y.closed => \E r \in Nat : Flow(Line(p), Len(y.delivered), r) /\ Emits(z, r),
         ~x.resuming => Emits(z, x.cache.position),
         x.resuming => \/ z.resuming /\ Idle(streams)
                       \/ ~z.resuming /\ Taken(e, streams) /\ w[1].type = "RESUME_OK"
  PROVE  IInv'
<1>1. /\ x \in EndSet /\ queue[e] \in Seq(TaskSet)
      /\ t \in 0..lastTransport /\ t \in 0..MaxTransports
      /\ w \in Seq(ItemSet) /\ Shape(e, x) /\ Local(x) /\ Towards(e)
  BY StateFacts
<1>2. /\ p \in Ends /\ p # e /\ Peer(p) = e
      /\ \A d \in Ends : d = e \/ d = p
  BY PeerFacts
<1>3. /\ y \in EndSet /\ queue[p] \in Seq(TaskSet)
      /\ y.transport \in 0..lastTransport /\ y.transport \in 0..MaxTransports
      /\ Line(p) \in Seq(ItemSet) /\ Shape(p, y) /\ Local(y) /\ Towards(p)
      /\ y.out = << >>
  BY <1>2, StateFacts
<1>4. /\ z \in EndSet /\ Shape(e, z) /\ Local(z)
      /\ z.transport = t /\ z.closed = x.closed
      /\ z.resuming => x.resuming
      /\ x.written <= z.written
      /\ ~z.closed => x.cache.position <= z.cache.position /\ Retains(z.cache, Len(y.delivered))
      /\ AllIn(z.out, 1, {"PAYLOAD", "KEEPALIVE"})
      /\ Acks(z.out, Len(x.delivered))
      /\ t = 0 \/ z.resuming => z.out = << >>
  BY DEF Stays
<1>5. PICK s : s = Settled(z)
  OBVIOUS
<1>6. /\ s \in EndSet /\ s.out = << >>
      /\ s.transport = t /\ s.closed = x.closed /\ s.resuming = z.resuming
      /\ s.cache = z.cache
      /\ s.written = z.written /\ s.delivered = z.delivered
      /\ Shape(e, s) /\ Local(s)
  BY <1>4, <1>5, SettledFacts
<1>7. PICK f : f = IF t = 0 THEN << >> ELSE streams[t][e].frames
  OBVIOUS
<1>8. PICK g : g = IF t # 0 /\ Via(p) = t /\ ~wire[t][p].ended THEN z.out ELSE << >>
  OBVIOUS
<1>9. /\ Types'
      /\ end'[e] = s /\ end'[p] = y
      /\ Via(e) = t /\ Via(e)' = t /\ Via(p)' = Via(p)
      /\ g \in Seq(FrameSet) /\ Line(p)' = Line(p) \o g
      /\ Line(e)' = Along(queue'[e], f)
      /\ \A u \in Transports :
            /\ wire'[u][e].ended <=> wire[u][e].ended
            /\ wire'[u][p].ended <=> wire[u][p].ended
            /\ u # t => wire'[u][e].frames = wire[u][e].frames
            /\ wire'[u][p].frames = IF u = t /\ ~wire[u][p].ended
                                    THEN wire[u][p].frames \o z.out
                                    ELSE wire[u][p].frames
  <2>1. t = end[e].transport /\ (z.transport = t \/ z.transport = 0) /\ z \in EndSet
    BY <1>4
  <2>2. StepIs(e, p, t, streams, f, z, g)
    <3>1. StepOf(e, p, t, streams, f, z, g)
      BY <1>7, <1>8, <2>1 DEF StepOf, RestOf
    <3> QED BY <3>1, StepFacts
  <2> QED BY <1>4, <1>5, <2>2 DEF StepIs
<1>10. /\ queue'[p] = queue[p]
       /\ Idle(streams) => Along(queue'[e], f) = w
       /\ Taken(e, streams) => w # << >> /\ Along(queue'[e], f) = Tail(w)
       /\ Taken(e, streams) => queue'[e] = << >> \/ Deferred
       /\ (\A i \in 1..Len(queue[e]) : queue[e][i].frame # << >>)
             => \A i \in 1..Len(queue'[e]) : queue'[e][i].frame # << >>
  <2>1. t = end[e].transport
    OBVIOUS
  <2>2. RestIs(e, p, t, streams, f)
    <3>1. RestOf(e, p, t, streams, f)
      BY <1>7, <2>1 DEF RestOf
    <3> QED BY <3>1, RestFacts
  <2> QED BY <2>2 DEF RestIs
<1>11. PICK v \in Seq(ItemSet) : /\ v = Line(e)'
                                 /\ Idle(streams) => v = w
                                 /\ Taken(e, streams) => w # << >> /\ v = Tail(w)
  <2>1. Taken(e, streams) => Tail(w) \in Seq(ItemSet)
    BY <1>1, <1>10, TailAll
  <2> QED BY <1>1, <1>9, <1>10, <2>1
<1>12. \A u : u \in Nat /\ u # 0 /\ u <= MaxTransports => u \in Transports
  BY BoundsAssumption DEF Transports
<1>13. Len(x.delivered) <= Len(s.delivered) /\ Len(x.delivered) \in Nat /\ Len(s.delivered) \in Nat
  <2>1. Len(x.delivered) \in Nat /\ Len(s.delivered) \in Nat /\ x.delivered \in Seq(Nat)
    BY <1>1, <1>6, EndFacts
  <2>2. CASE s.delivered = x.delivered
    BY <2>1, <2>2
  <2>3. CASE Taken(e, streams) /\ s.delivered = Append(x.delivered, w[1].a)
    <3>1. w[1].a \in Nat
      BY <1>1, <1>11, <2>3, TailFacts, ItemFacts
    <3>2. Len(Append(x.delivered, w[1].a)) = Len(x.delivered) + 1
      BY <2>1, <3>1, AppendProperties
    <3> QED BY <2>1, <2>3, <3>2
  <2> QED BY <1>6, <2>2, <2>3
<1>14. g \in Seq(ItemSet) /\ AllIn(g, 1, {"PAYLOAD", "KEEPALIVE"}) /\ Acks(g, Len(s.delivered))
  <2>1. g \in Seq(ItemSet)
    BY <1>9, FrameIsItem
  <2>2. CASE g = << >>
    BY <2>1, <2>2 DEF AllIn, Acks
  <2>3. CASE g = z.out
    <3>1. \A i \in 1..Len(g) : g[i].a \in Nat
      BY <2>1, ItemFacts
    <3>2. Acks(g, Len(s.delivered))
      BY <1>4, <1>13, <2>3, <3>1 DEF Acks
    <3> QED BY <1>4, <2>1, <2>3, <3>2
  <2> QED BY <1>8, <2>2, <2>3
<1>15. Towards(e)'
  <2>1. Sends(y, e)' <=> Sends(y, e)
    <3>1. y.transport # 0 => y.transport \in Transports
      BY <1>3, <1>12
    <3> QED BY <1>9, <3>1 DEF Sends
  <2>2. Fed(s, y, v, Sends(y, e))
    <3>1. Fed(x, y, w, Sends(y, e))
      BY <1>1 DEF Towards
    <3> QED BY <1>1, <1>3, <1>6, <1>11, <3>1, ConsumeFed
  <2>3. Fed(s, y, v, Sends(y, e)')
    BY <2>1, <2>2, FedLive
  <2>4. Sends(y, e)' => Via(e)' = y.transport
    BY <1>1, <1>9, <2>1 DEF Towards
  <2>5. ~s.closed => AllIn(v, 1, Told(e))
    <3>1. ~x.closed => AllIn(w, 1, Told(e))
      BY <1>1 DEF Towards
    <3> QED BY <1>1, <1>6, <1>11, <3>1, TailAll
  <2>6. ~Deferred => queue'[e] = << >>
    <3>1. ~Deferred => queue[e] = << >>
      BY <1>1 DEF Towards
    <3> QED BY <1>10, <3>1 DEF Idle
  <2>7. t # 0 /\ ~wire'[t][e].ended => \A i \in 1..Len(queue'[e]) : queue'[e][i].frame # << >>
    <3>1. t # 0 /\ ~wire[t][e].ended => \A i \in 1..Len(queue[e]) : queue[e][i].frame # << >>
      BY <1>1 DEF Towards
    <3>2. t # 0 => t \in Transports
      BY <1>1, <1>12
    <3> QED BY <1>9, <1>10, <3>1, <3>2
  <2>8. ~(e = Server /\ accepted' = 0)
    OBVIOUS
  <2> QED BY <1>6, <1>9, <1>11, <2>3, <2>4, <2>5, <2>6, <2>7, <2>8 DEF Towards
<1>16. Fed(y, x, Line(p), Sends(x, p)) /\ (Sends(x, p) => Via(p) = t)
  BY <1>2, <1>3 DEF Towards
<1>17. /\ ~y.closed => AllIn(Line(p), IF p = Server /\ accepted = 0 THEN 2 ELSE 1, Told(p))
       /\ ~Deferred => queue[p] = << >>
       /\ y.transport # 0 /\ ~wire[y.transport][p].ended =>
             \A i \in 1..Len(queue[p]) : queue[p][i].frame # << >>
  BY <1>2, <1>3 DEF Towards
<1>18. Sends(s, p)' <=> t # 0 /\ ~z.resuming /\ ~wire[t][p].ended
  <2>1. t # 0 => t \in Transports
    BY <1>1, <1>12
  <2> QED BY <1>6, <1>9, <2>1 DEF Sends
<1>19. Fed(y, s, Line(p) \o g, Sends(s, p)')
  <2>1. CASE Sends(s, p)'
    <3>1. t # 0 /\ ~z.resuming /\ ~wire[t][p].ended
      BY <1>18, <2>1
    <3>2. Via(p) = t /\ g = z.out
      BY <1>8, <3>1
    <3>3. ~z.closed
      BY <1>4, <3>1 DEF Shape
    <3>4. ~y.closed => \E r \in Nat : /\ Flow(Line(p), Len(y.delivered), r)
                                      /\ Flow(g, r, s.cache.position)
      BY <1>6, <3>1, <3>2, <3>3 DEF Emits
    <3>5. s.cache.position <= s.written
      BY <1>4, <1>6, <3>3, LocalOpen
    <3>6. Fed(y, s, Line(p) \o g, TRUE)
      BY <1>1, <1>3, <1>4, <1>6, <1>13, <1>14, <1>16, <3>3, <3>4, <3>5, GrowFed
    <3> QED BY <3>6, FedLive
  <2>2. CASE ~Sends(s, p)'
    <3>1. g = << >>
      BY <1>4, <1>8, <1>18, <2>2
    <3>2. \A i \in 1..Len(g) : g[i].stream # 1
      BY <3>1
    <3>3. Fed(y, s, Line(p) \o g, FALSE)
      BY <1>1, <1>3, <1>4, <1>6, <1>13, <1>14, <1>16, <3>2, QuietFed
    <3> QED BY <2>2, <3>3, FedLive
  <2> QED BY <2>1, <2>2
<1>20. Towards(p)'
  <2>1. Sends(s, p)' => Via(p)' = s.transport
    BY <1>6, <1>9, <1>18
  <2>2. ~y.closed => AllIn(Line(p) \o g, IF p = Server /\ accepted' = 0 THEN 2 ELSE 1, Told(p))
    <3>1. AllIn(g, 1, Told(p))
      BY <1>14 DEF AllIn, Told
    <3> QED BY <1>3, <1>14, <1>17, <3>1, JoinAll
  <2>3. y.transport # 0 /\ ~wire'[y.transport][p].ended =>
             \A i \in 1..Len(queue'[p]) : queue'[p][i].frame # << >>
    <3>1. y.transport # 0 => y.transport \in Transports
      BY <1>3, <1>12
    <3> QED BY <1>9, <1>10, <1>17, <3>1
  <2> QED BY <1>2, <1>6, <1>9, <1>10, <1>17, <1>19, <2>1, <2>2, <2>3 DEF Towards
<1>21. Unset'
  <2>1. SUFFICES ASSUME accepted = 0
                 PROVE  Unset'
    BY DEF Unset
  <2>2. e = Client /\ p = Server
    BY <2>1, PeerFacts
  <2>3. /\ end[Server] = NewEnd
        /\ queue[Server] = << >>
        /\ wire[1][Server].frames # << >> => wire[1][Server].frames[1].type = "SETUP"
        /\ wire[1][Server].frames = << >> /\ lastTransport # 0 => wire[1][Server].ended
    BY <2>1 DEF IInv, Unset
  <2>4. 1 \in Transports /\ wire[1][Server].frames \in Seq(FrameSet)
    <3>1. 1 \in Transports
      BY BoundsAssumption DEF Transports
    <3>2. wire[1][Server] \in StreamSet
      BY <3>1, PeerFacts, StateFacts
    <3> QED BY <3>1, <3>2, StreamFacts
  <2>5. CASE 1 = t /\ ~wire[1][p].ended
    <3>1. lastTransport # 0
      BY <1>1, <2>5
    <3>2. wire[1][Server].frames # << >>
      BY <2>2, <2>3, <2>5, <3>1
    <3>3. wire'[1][Server].frames = wire[1][Server].frames \o z.out
      BY <1>9, <2>2, <2>4, <2>5
    <3>4. z.out \in Seq(FrameSet)
      BY <1>4, EndFacts
    <3>5. /\ wire'[1][Server].frames # << >>
          /\ wire'[1][Server].frames[1] = wire[1][Server].frames[1]
      <4>1. PICK a \in Seq(FrameSet) : a = wire[1][Server].frames
        BY <2>4
      <4>2. PICK b \in Seq(FrameSet) : b = z.out
        BY <3>4
      <4>3. a # << >>
        BY <3>2, <4>1
      <4>4. a \o b # << >> /\ (a \o b)[1] = a[1]
        BY <4>3, ConcatFirst
      <4> QED BY <3>3, <4>1, <4>2, <4>4
    <3> QED BY <1>9, <1>10, <2>2, <2>3, <3>2, <3>5 DEF Unset
  <2>6. CASE ~(1 = t /\ ~wire[1][p].ended)
    <3>1. wire'[1][Server].frames = wire[1][Server].frames
      BY <1>9, <2>2, <2>4, <2>6
    <3>2. wire'[1][Server].ended <=> wire[1][Server].ended
      BY <1>9, <2>2, <2>4
    <3> QED BY <1>9, <1>10, <2>2, <2>3, <3>1, <3>2 DEF Unset
  <2> QED BY <2>5, <2>6
<1>22. /\ end'[Client].transport = end[Client].transport
       /\ end'[Client].resuming => end[Client].resuming
       /\ end'[Server].transport = end[Server].transport
       /\ (e = Client /\ p = Server) \/ (e = Server /\ p = Client)
  BY <1>4, <1>6, <1>9, PeerFacts
<1>23. ClientSide'
  <2>1. /\ end[Client].transport \in {0, lastTransport}
        /\ end[Client].resuming => end[Client].transport > 1
        /\ \A u \in Transports :
              /\ u # end[Client].transport => wire[u][Client].frames = << >>
              /\ u # end[Client].transport /\ u <= lastTransport =>
                    wire[u][Client].ended /\ wire[u][Server].ended
              /\ u > lastTransport =>
                    /\ ~wire[u][Client].ended /\ ~wire[u][Server].ended
                    /\ wire[u][Server].frames = << >>
    BY DEF IInv, ClientSide
  <2>2. ASSUME NEW u \in Transports
        PROVE  /\ u # end[Client].transport => wire'[u][Client].frames = << >>
               /\ wire'[u][Client].ended <=> wire[u][Client].ended
               /\ wire'[u][Server].ended <=> wire[u][Server].ended
               /\ u > lastTransport => wire'[u][Server].frames = << >>
    <3>1. u > lastTransport => u # t
      <4>1. lastTransport \in Nat /\ u \in Nat
        BY BoundsAssumption DEF IInv, Types, Transports
      <4> QED BY <1>1, <4>1
    <3>2. CASE e = Client /\ p = Server
      BY <1>9, <2>1, <3>1, <3>2
    <3>3. CASE e = Server /\ p = Client
      <4>1. u = t => u <= lastTransport
        BY <1>1
      <4>2. u = t /\ u # end[Client].transport => wire[u][Client].ended
        BY <2>1, <4>1
      <4> QED BY <1>9, <2>1, <3>1, <3>3, <4>2
    <3> QED BY <1>22, <3>2, <3>3
  <2> QED BY <1>22, <2>1, <2>2 DEF ClientSide
<1>24. ServerSide'
  <2>1. end'[Server].transport <= lastTransport'
    BY <1>22 DEF IInv, ServerSide
  <2>2. Via(Server)' = Via(Server)
    BY <1>9, <1>22
  <2>3. ASSUME NEW u \in Transports, u # Via(Server)
        PROVE  Asked(u)'
    <3>1. Asked(u)
      BY <2>3 DEF IInv, ServerSide
    <3>2. wire'[u][Server].frames = wire[u][Server].frames
      <4>1. CASE e = Server /\ p = Client
        BY <1>9, <2>3, <4>1
      <4>2. CASE e = Client /\ p = Server
        <5>1. wire[u][p].frames \in Seq(FrameSet)
          BY <1>2, StateFacts, StreamFacts
        <5>2. CASE u = t /\ ~wire[u][p].ended
          <6>1. t # 0
            BY <5>2 DEF Transports
          <6>2. z.out = << >>
            BY <1>4, <2>3, <4>2, <5>2, <6>1
          <6>3. wire[u][p].frames \o << >> = wire[u][p].frames
            BY <5>1, ConcatEmptySeq
          <6> QED BY <1>9, <4>2, <6>2, <6>3
        <5>3. CASE ~(u = t /\ ~wire[u][p].ended)
          BY <1>9, <4>2, <5>3
        <5> QED BY <5>2, <5>3
      <4> QED BY <1>22, <4>1, <4>2
    <3>3. CASE wire[u][Server].frames = << >>
      BY <3>2, <3>3 DEF Asked
    <3>4. CASE /\ Len(wire[u][Server].frames) = 1
               /\ wire[u][Server].frames[1].type = "RESUME"
               /\ end[Client].transport = u =>
                     /\ end[Client].resuming
                     /\ wire[u][Server].frames[1].a = Len(end[Client].delivered)
                     /\ AllEnd(Line(Client))
      <4>1. ASSUME end[Client].transport = u
            PROVE  /\ end'[Client].resuming
                   /\ wire[u][Server].frames[1].a = Len(end'[Client].delivered)
                   /\ AllEnd(Line(Client)')
        <5>1. CASE e = Client
          <6>1. x.resuming /\ AllEnd(w)
            BY <3>4, <4>1, <5>1
          <6>2. ~(Taken(e, streams) /\ w[1].type = "RESUME_OK")
            <7>1. SUFFICES ASSUME Taken(e, streams) PROVE w[1].type # "RESUME_OK"
              OBVIOUS
            <7>2. Len(w) \in Nat /\ Len(w) >= 1
              BY <1>1, <1>11, <7>1, TailFacts
            <7>3. 1 \in 1..Len(w)
              BY <7>2
            <7> QED BY <6>1, <7>3 DEF AllEnd
          <6>3. z.resuming /\ Idle(streams)
            BY <6>1, <6>2
          <6> QED BY <1>6, <1>9, <1>11, <3>4, <4>1, <5>1, <6>1, <6>3
        <5>2. CASE e = Server /\ p = Client
          <6>1. Via(p) = u /\ Via(Server) = t
            BY <1>2, <1>9, <4>1, <5>2, PeerFacts DEF Via
          <6>2. g = << >>
            BY <1>8, <2>3, <6>1
          <6>3. Line(p)' = Line(p)
            BY <1>3, <1>9, <6>2, ConcatEmptySeq
          <6> QED BY <1>9, <3>4, <4>1, <5>2, <6>3
        <5> QED BY <1>22, <5>1, <5>2
      <4> QED BY <1>22, <3>2, <3>4, <4>1 DEF Asked
    <3> QED BY <3>1, <3>3, <3>4 DEF Asked
  <2> QED BY <2>1, <2>2, <2>3 DEF ServerSide
<1>25. Answered'
  <2>1. SUFFICES ASSUME end'[Client].resuming
                 PROVE  Answered'
    BY DEF Answered
  <2>2. PICK c : c = end[Client].transport
    OBVIOUS
  <2>3. /\ Leads(Line(Client))
        /\ Line(Client) # << >> /\ Line(Client)[1].type = "RESUME_OK" =>
              /\ Line(Client)[1].a = Len(end[Server].delivered)
              /\ AllEnd(Line(Server))
              /\ ~wire[c][Server].ended => end[Server].transport = c
        /\ end[Server].transport = c /\ ~wire[c][Client].ended => Line(Client) # << >>
    BY <1>22, <2>1, <2>2 DEF IInv, Answered
  <2>4. c \in Transports
    <3>1. c > 1 /\ c \in 0..MaxTransports
      BY <1>22, <2>1, <2>2, PeerFacts, StateFacts DEF IInv, ClientSide
    <3> QED BY <3>1, BoundsAssumption DEF Transports
  <2>5. /\ wire'[c][Client].ended <=> wire[c][Client].ended
        /\ wire'[c][Server].ended <=> wire[c][Server].ended
    BY <1>9, <1>22, <2>4
  <2>6. CASE e = Client /\ p = Server
    <3>1. x.resuming /\ z.resuming /\ Idle(streams)
      BY <1>4, <1>6, <1>9, <2>1, <2>6
    <3>2. Line(Client)' = Line(Client)
      BY <1>11, <2>6, <3>1
    <3>3. g = << >>
      BY <1>4, <1>8, <3>1
    <3>4. Line(Server)' = Line(Server)
      BY <1>3, <1>9, <2>6, <3>3, ConcatEmptySeq
    <3>5. end'[Server] = end[Server]
      BY <1>9, <2>6
    <3> QED BY <1>22, <2>2, <2>3, <2>5, <3>2, <3>4, <3>5 DEF Answered
  <2>7. CASE e = Server /\ p = Client
    <3>1. PICK a \in Seq(ItemSet) : a = Line(Client)
      BY <1>3, <2>7
    <3>2. Line(Client)' = a \o g
      BY <1>9, <2>7, <3>1
    <3>3. y.transport = c /\ c # 0
      BY <2>2, <2>4, <2>7 DEF Transports
    <3>4. ASSUME g # << >>
          PROVE  a # << >> /\ a[1].type # "END"
      <4>1. t = c /\ ~wire[c][Client].ended
        BY <1>2, <1>8, <2>7, <3>3, <3>4, PeerFacts DEF Via
      <4>2. a # << >>
        BY <2>3, <2>7, <3>1, <4>1
      <4>3. \A i \in 1..Len(queue[Client]) : queue[Client][i].frame # << >>
        BY <1>17, <2>7, <3>3, <4>1
      <4>4. a[1].type # "END"
        BY <1>2, <2>7, <3>1, <4>2, <4>3, LineFrames
      <4> QED BY <4>2, <4>4
    <3>5. Leads(a \o g)
      <4>1. CASE g = << >>
        BY <2>3, <3>1, <4>1, ConcatEmptySeq
      <4>2. CASE g # << >>
        BY <1>14, <2>3, <3>1, <3>4, <4>2, LeadsJoin
      <4> QED BY <4>1, <4>2
    <3>6. ASSUME a \o g # << >>
          PROVE  a # << >> /\ (a \o g)[1] = a[1]
      <4>1. g = << >> => a \o g = a
        BY ConcatEmptySeq
      <4>2. a # << >>
        BY <3>4, <3>6, <4>1
      <4> QED BY <1>14, <4>2, ConcatFirst
    <3>7. ASSUME a \o g # << >>, (a \o g)[1].type = "RESUME_OK"
          PROVE  /\ (a \o g)[1].a = Len(s.delivered)
                 /\ AllEnd(v)
                 /\ ~wire'[c][Server].ended => s.transport = c
      <4>1. a # << >> /\ (a \o g)[1] = a[1]
        BY <3>6, <3>7
      <4>2. /\ a[1].a = Len(x.delivered)
            /\ AllEnd(w)
            /\ ~wire[c][Server].ended => t = c
        BY <2>3, <2>7, <3>1, <3>7, <4>1
      <4>3. s.delivered = x.delivered /\ AllEnd(v)
        <5>1. CASE Idle(streams)
          BY <1>6, <1>11, <4>2, <5>1
        <5>2. CASE Taken(e, streams)
          <6>1. w # << >> /\ v = Tail(w)
            BY <1>11, <5>2
          <6>2. Len(w) \in Nat /\ Len(w) >= 1 /\ w[1] \in ItemSet
            BY <1>1, <6>1, TailFacts
          <6>3. 1 \in 1..Len(w)
            BY <6>2
          <6>4. w[1].type = "END"
            BY <4>2, <6>3 DEF AllEnd
          <6>5. w[1].stream # 1
            BY <6>2, <6>4, ItemFacts
          <6> QED BY <1>1, <1>6, <4>2, <5>2, <6>1, <6>5, TailAll
        <5> QED BY <5>1, <5>2
      <4> QED BY <1>6, <2>5, <4>1, <4>2, <4>3
    <3>8. end'[Server].transport = c /\ ~wire'[c][Client].ended => a \o g # << >>
      <4>1. end[Server].transport = c /\ ~wire[c][Client].ended => a # << >>
        BY <2>3, <3>1
      <4> QED BY <1>14, <1>22, <2>5, <4>1, ConcatFirst
    <3> QED BY <1>9, <1>11, <1>22, <2>2, <2>7, <3>2, <3>5, <3>7, <3>8 DEF Answered
  <2> QED BY <1>22, <2>6, <2>7
<1>26. ASSUME NEW d \in Ends
       PROVE  /\ Shape(d, end'[d]) /\ end'[d].out = << >>
              /\ Local(end'[d]) /\ Towards(d)'
  BY <1>2, <1>3, <1>6, <1>9, <1>15, <1>20
<1>27. Unopened'
  <2>1. SUFFICES ASSUME lastTransport = 0
                 PROVE  /\ queue'[Client] = << >>
                        /\ ~end'[Client].closed => end'[Client].cache.position = 0
    BY DEF Unopened
  <2>2. /\ queue[Client] = << >>
        /\ ~end[Client].closed => end[Client].cache.position = 0
    BY <2>1 DEF IInv, Unopened
  <2>3. t = 0
    BY <1>1, <2>1
  <2>4. queue'[Client] = << >>
    <3>1. e = Client => ~Taken(e, streams)
      BY <2>2, <2>3 DEF Taken
    <3> QED BY <1>10, <1>22, <2>2, <3>1 DEF Idle
  <2>5. e = Client /\ ~s.closed => s.cache.position = 0
    <3>1. SUFFICES ASSUME e = Client, ~s.closed PROVE s.cache.position = 0
      OBVIOUS
    <3>2. x.cache.position = 0 /\ ~x.resuming /\ z.out = << >>
      BY <1>1, <1>4, <1>6, <2>2, <2>3, <3>1 DEF Shape
    <3>3. Flow(<< >>, 0, s.cache.position)
      BY <1>4, <1>6, <3>1, <3>2 DEF Emits
    <3> QED BY <3>3 DEF Flow
  <2> QED BY <1>9, <1>22, <2>2, <2>4, <2>5
<1> QED BY <1>9, <1>21, <1>23, <1>24, <1>25, <1>26, <1>27 DEF IInv

(***************************************************************************)
(* A step in which e leaves its transport t, or has none.                  *)
(***************************************************************************)
LEMMA LeaveKeeps ==
  ASSUME IInv, NEW e \in Ends, ~(e = Server /\ accepted = 0),
         NEW p, p = Peer(e), NEW x, x = end[e], NEW y, y = end[p], NEW t, t = x.transport,
         NEW streams, Idle(streams) \/ Taken(e, streams),
         NEW z, Leaves(x, z),
         Commit(e, z, t, streams), lastTransport' = lastTransport, accepted' = accepted,
         NEW w, w = Line(e),
         ~z.closed => Idle(streams) \/ w[1].type = "END"
  PROVE  IInv'
<1>1. /\ x \in EndSet /\ queue[e] \in Seq(TaskSet)
      /\ t \in 0..lastTransport /\ t \in 0..MaxTransports
      /\ w \in Seq(ItemSet) /\ Shape(e, x) /\ Local(x) /\ Towards(e)
  BY StateFacts
<1>2. /\ p \in Ends /\ p # e /\ Peer(p) = e
      /\ \A d \in Ends : d = e \/ d = p
  BY PeerFacts
<1>3. /\ y \in EndSet /\ queue[p] \in Seq(TaskSet)
      /\ y.transport \in 0..lastTransport /\ y.transport \in 0..MaxTransports
      /\ Line(p) \in Seq(ItemSet) /\ Shape(p, y) /\ Local(y) /\ Towards(p)
      /\ y.out = << >>
  BY <1>2, StateFacts
<1>4. /\ z \in EndSet /\ Local(z)
      /\ z.transport = 0 /\ ~z.resuming /\ ~z.awaiting
      /\ z.written = x.written /\ z.delivered = x.delivered
      /\ x.closed => z.closed
      /\ ~z.closed => z.cache = x.cache /\ z.out = << >>
      /\ AllIn(z.out, 1, {"ERROR"})
      /\ t = 0 \/ x.resuming => z.out = << >>
  BY DEF Leaves
<1>5. PICK s : s = Settled(z)
  OBVIOUS
<1>6. /\ s \in EndSet /\ s.out = << >>
      /\ s.transport = 0 /\ s.closed = z.closed /\ ~s.resuming
      /\ s.cache = z.cache
      /\ s.written = x.written /\ s.delivered = x.delivered
      /\ Shape(e, s) /\ Local(s)
  <2>1. Shape(e, z)
    BY <1>4 DEF Shape
  <2> QED BY <1>4, <1>5, <2>1, SettledFacts
<1>7. PICK f : f = IF t = 0 THEN << >> ELSE streams[t][e].frames
  OBVIOUS
<1>8. PICK g : g = IF t # 0 /\ Via(p) = t /\ ~wire[t][p].ended THEN z.out ELSE << >>
  OBVIOUS
<1>9. /\ Types'
      /\ end'[e] = s /\ end'[p] = y
      /\ Via(e) = t /\ Via(e)' = 0 /\ Via(p)' = Via(p)
      /\ g \in Seq(FrameSet) /\ Line(p)' = Line(p) \o g
      /\ Line(e)' = Along(queue'[e], << >>)
      /\ \A u \in Transports :
            /\ u = t => wire'[u][e] = DeadStream /\ wire'[u][p].ended
            /\ u # t => /\ wire'[u][e].ended <=> wire[u][e].ended
                        /\ wire'[u][p].ended <=> wire[u][p].ended
                        /\ wire'[u][e].frames = wire[u][e].frames
            /\ wire'[u][p].frames = IF u = t /\ ~wire[u][p].ended
                                    THEN wire[u][p].frames \o z.out
                                    ELSE wire[u][p].frames
  <2>1. t = end[e].transport /\ (z.transport = t \/ z.transport = 0) /\ z \in EndSet
    BY <1>4
  <2>2. StepIs(e, p, t, streams, f, z, g)
    <3>1. StepOf(e, p, t, streams, f, z, g)
      BY <1>7, <1>8, <2>1 DEF StepOf, RestOf
    <3> QED BY <3>1, StepFacts
  <2>3. \A u \in Transports : u # 0
    BY DEF Transports
  <2> QED BY <1>4, <1>5, <1>7, <2>2, <2>3 DEF StepIs
<1>10. RestIs(e, p, t, streams, f)
  <2>1. RestOf(e, p, t, streams, f)
    BY <1>7 DEF RestOf
  <2> QED BY <2>1, RestFacts
<1>11. /\ queue'[p] = queue[p] /\ queue'[e] \in Seq(TaskSet) /\ f \in Seq(FrameSet)
       /\ Idle(streams) => Along(queue'[e], f) = w
       /\ Taken(e, streams) => w # << >> /\ Along(queue'[e], f) = Tail(w)
       /\ Taken(e, streams) => queue'[e] = << >> \/ Deferred
  BY <1>10 DEF RestIs
<1>12. PICK v \in Seq(ItemSet) : /\ v = Line(e)'
                                 /\ Idle(streams) => Cut(v, w)
                                 /\ Taken(e, streams) => w # << >> /\ Cut(v, Tail(w))
  <2>1. << >> \in Seq(FrameSet) /\ Cut(<< >>, f)
    BY <1>11 DEF Cut
  <2>2. Along(queue'[e], << >>) \in Seq(ItemSet)
    BY <1>11, <2>1, LineSeq
  <2>3. Cut(Along(queue'[e], << >>), Along(queue'[e], f))
    BY <1>11, <2>1, LineCut
  <2> QED BY <1>9, <1>11, <2>2, <2>3
<1>13. \A u : u \in Nat /\ u # 0 /\ u <= MaxTransports => u \in Transports
  BY BoundsAssumption DEF Transports
<1>14. /\ g \in Seq(ItemSet) /\ AllIn(g, 1, {"ERROR"}) /\ Acks(g, Len(s.delivered))
       /\ \A i \in 1..Len(g) : g[i].stream # 1
  <2>1. g \in Seq(ItemSet)
    BY <1>9, FrameIsItem
  <2>2. AllIn(g, 1, {"ERROR"})
    <3>1. AllIn(<< >>, 1, {"ERROR"})
      BY DEF AllIn
    <3> QED BY <1>4, <1>8, <3>1
  <2>3. \A i \in 1..Len(g) : g[i].type = "ERROR" /\ g[i] \in ItemSet
    BY <2>1, <2>2 DEF AllIn
  <2>4. Acks(g, Len(s.delivered))
    BY <2>3 DEF Acks
  <2>5. \A i \in 1..Len(g) : g[i].stream # 1
    BY <2>3, ItemFacts
  <2> QED BY <2>1, <2>2, <2>4, <2>5
<1>15. Towards(e)'
  <2>1. ~Sends(y, e)'
    <3>1. SUFFICES ASSUME y.transport # 0, ~y.resuming, ~wire'[y.transport][e].ended
                   PROVE  FALSE
      BY DEF Sends
    <3>2. y.transport \in Transports
      BY <1>3, <1>13, <3>1
    <3>3. y.transport # t
      <4>1. DeadStream.ended
        BY DEF DeadStream
      <4> QED BY <1>9, <3>1, <3>2, <4>1
    <3>4. Sends(y, e)
      BY <1>9, <3>1, <3>2, <3>3 DEF Sends
    <3> QED BY <1>1, <1>9, <3>3, <3>4 DEF Towards
  <2>2. Fed(s, y, v, FALSE)
    <3>1. Fed(x, y, w, Sends(y, e))
      BY <1>1 DEF Towards
    <3>2. ~z.closed /\ Taken(e, streams) /\ ~Idle(streams) => w[1].stream # 1
      <4>1. w # << >> => w[1] \in ItemSet
        BY <1>1, TailFacts
      <4>2. w # << >> /\ w[1].type = "END" => w[1].stream # 1
        BY <4>1, ItemFacts
      <4> QED BY <1>12, <4>2
    <3>3. ~s.closed => /\ ~x.closed
                       /\ \/ Cut(v, w)
                          \/ w # << >> /\ w[1].stream # 1 /\ Cut(v, Tail(w))
      BY <1>4, <1>6, <1>12, <3>2
    <3> QED BY <1>1, <1>3, <1>6, <3>1, <3>3, CutFed
  <2>3. Fed(s, y, v, Sends(y, e)')
    BY <2>1, <2>2, FedLive
  <2>5. ~s.closed => AllIn(v, 1, Told(e))
    <3>1. ~x.closed => AllIn(w, 1, Told(e))
      BY <1>1 DEF Towards
    <3>2. ASSUME ~s.closed, Taken(e, streams) PROVE AllIn(v, 1, Told(e))
      <4>1. Tail(w) \in Seq(ItemSet) /\ AllIn(Tail(w), 1, Told(e))
        BY <1>1, <1>4, <1>6, <1>12, <3>1, <3>2, TailAll
      <4> QED BY <1>12, <3>2, <4>1, CutAll
    <3>3. ASSUME ~s.closed, Idle(streams) PROVE AllIn(v, 1, Told(e))
      BY <1>1, <1>4, <1>6, <1>12, <3>1, <3>3, CutAll
    <3> QED BY <3>2, <3>3
  <2>6. ~Deferred => queue'[e] = << >>
    <3>1. ~Deferred => queue[e] = << >>
      BY <1>1 DEF Towards
    <3> QED BY <1>11, <3>1 DEF Idle
  <2>8. ~(e = Server /\ accepted' = 0)
    OBVIOUS
  <2> QED BY <1>6, <1>9, <1>12, <2>1, <2>3, <2>5, <2>6, <2>8 DEF Towards
<1>16. Fed(y, x, Line(p), Sends(x, p)) /\ (Sends(x, p) => Via(p) = t)
  BY <1>2, <1>3 DEF Towards
<1>17. /\ ~y.closed => AllIn(Line(p), IF p = Server /\ accepted = 0 THEN 2 ELSE 1, Told(p))
       /\ ~Deferred => queue[p] = << >>
       /\ y.transport # 0 /\ ~wire[y.transport][p].ended =>
             \A i \in 1..Len(queue[p]) : queue[p][i].frame # << >>
  BY <1>2, <1>3 DEF Towards
<1>18. ~Sends(s, p)'
  BY <1>6 DEF Sends
<1>19. Fed(y, s, Line(p) \o g, Sends(s, p)')
  <2>1. /\ x.written <= s.written /\ Len(x.delivered) <= Len(s.delivered)
        /\ x.closed => s.closed
    BY <1>1, <1>4, <1>6, EndFacts
  <2>2. ~s.closed => /\ x.cache.position <= s.cache.position
                     /\ Retains(s.cache, Len(y.delivered))
    BY <1>1, <1>4, <1>6, <1>16, EndFacts DEF Fed
  <2>3. Fed(y, s, Line(p) \o g, FALSE)
    BY <1>1, <1>3, <1>6, <1>14, <1>16, <2>1, <2>2, QuietFed
  <2> QED BY <1>18, <2>3, FedLive
<1>20. Towards(p)'
  <2>2. ~y.closed => AllIn(Line(p) \o g, IF p = Server /\ accepted' = 0 THEN 2 ELSE 1, Told(p))
    <3>1. AllIn(g, 1, Told(p))
      BY <1>14 DEF AllIn, Told
    <3> QED BY <1>3, <1>14, <1>17, <3>1, JoinAll
  <2>3. y.transport # 0 /\ ~wire'[y.transport][p].ended =>
             \A i \in 1..Len(queue'[p]) : queue'[p][i].frame # << >>
    <3>1. y.transport # 0 => y.transport \in Transports
      BY <1>3, <1>13
    <3> QED BY <1>9, <1>11, <1>17, <3>1
  <2> QED BY <1>2, <1>6, <1>9, <1>11, <1>17, <1>18, <1>19, <2>2, <2>3 DEF Towards
<1>21. Unset'
  <2>1. SUFFICES ASSUME accepted = 0
                 PROVE  Unset'
    BY DEF Unset
  <2>2. e = Client /\ p = Server
    BY <2>1, PeerFacts
  <2>3. /\ end[Server] = NewEnd
        /\ queue[Server] = << >>
        /\ wire[1][Server].frames # << >> => wire[1][Server].frames[1].type = "SETUP"
        /\ wire[1][Server].frames = << >> /\ lastTransport # 0 => wire[1][Server].ended
    BY <2>1 DEF IInv, Unset
  <2>4. 1 \in Transports /\ wire[1][Server].frames \in Seq(FrameSet)
    <3>1. 1 \in Transports
      BY BoundsAssumption DEF Transports
    <3>2. wire[1][Server] \in StreamSet
      BY <3>1, PeerFacts, StateFacts
    <3> QED BY <3>1, <3>2, StreamFacts
  <2>5. CASE 1 = t /\ ~wire[1][p].ended
    <3>1. lastTransport # 0
      BY <1>1, <2>5
    <3>2. wire[1][Server].frames # << >>
      BY <2>2, <2>3, <2>5, <3>1
    <3>3. wire'[1][Server].frames = wire[1][Server].frames \o z.out
      BY <1>9, <2>2, <2>4, <2>5
    <3>4. z.out \in Seq(FrameSet)
      BY <1>4, EndFacts
    <3>5. /\ wire'[1][Server].frames # << >>
          /\ wire'[1][Server].frames[1] = wire[1][Server].frames[1]
      <4>1. PICK a \in Seq(FrameSet) : a = wire[1][Server].frames
        BY <2>4
      <4>2. PICK b \in Seq(FrameSet) : b = z.out
        BY <3>4
      <4>3. a # << >>
        BY <3>2, <4>1
      <4>4. a \o b # << >> /\ (a \o b)[1] = a[1]
        BY <4>3, ConcatFirst
      <4> QED BY <3>3, <4>1, <4>2, <4>4
    <3> QED BY <1>9, <1>11, <2>2, <2>3, <3>2, <3>5 DEF Unset
  <2>6. CASE ~(1 = t /\ ~wire[1][p].ended)
    <3>1. wire'[1][Server].frames = wire[1][Server].frames
      BY <1>9, <2>2, <2>4, <2>6
    <3>2. wire[1][Server].ended => wire'[1][Server].ended
      BY <1>9, <2>2, <2>4
    <3> QED BY <1>9, <1>11, <2>2, <2>3, <3>1, <3>2 DEF Unset
  <2> QED BY <2>5, <2>6
<1>22. (e = Client /\ p = Server) \/ (e = Server /\ p = Client)
  BY PeerFacts
<1>23. ClientSide'
  <2>1. /\ end[Client].transport \in {0, lastTransport}
        /\ end[Client].resuming => end[Client].transport > 1
        /\ \A u \in Transports :
              /\ u # end[Client].transport => wire[u][Client].frames = << >>
              /\ u # end[Client].transport /\ u <= lastTransport =>
                    wire[u][Client].ended /\ wire[u][Server].ended
              /\ u > lastTransport =>
                    /\ ~wire[u][Client].ended /\ ~wire[u][Server].ended
                    /\ wire[u][Server].frames = << >>
    BY DEF IInv, ClientSide
  <2>2. /\ end'[Client].transport \in {0, lastTransport}
        /\ end'[Client].resuming => end'[Client].transport > 1
        /\ end'[Client].transport = IF e = Client THEN 0 ELSE end[Client].transport
    BY <1>6, <1>9, <1>22, <2>1
  <2>3. DeadStream.frames = << >> /\ DeadStream.ended
    BY DEF DeadStream
  <2>4. ASSUME NEW u \in Transports
        PROVE  /\ u # end'[Client].transport => wire'[u][Client].frames = << >>
               /\ u # end'[Client].transport /\ u <= lastTransport =>
                    wire'[u][Client].ended /\ wire'[u][Server].ended
               /\ u > lastTransport =>
                    /\ ~wire'[u][Client].ended /\ ~wire'[u][Server].ended
                    /\ wire'[u][Server].frames = << >>
    <3>1. (u > lastTransport => u # t) /\ (u = t => u <= lastTransport)
      <4>1. lastTransport \in Nat /\ u \in Nat
        BY BoundsAssumption DEF IInv, Types, Transports
      <4> QED BY <1>1, <4>1
    <3>2. CASE e = Client /\ p = Server
      <4>1. CASE u = t
        BY <1>9, <2>3, <3>1, <3>2, <4>1
      <4>2. CASE u # t
        BY <1>9, <2>1, <3>2, <4>2
      <4> QED BY <4>1, <4>2
    <3>3. CASE e = Server /\ p = Client
      <4>0. end'[Client].transport = end[Client].transport
        BY <1>9, <3>3
      <4>1. CASE u = t
        <5>1. u # end[Client].transport => wire[u][Client].ended
          BY <2>1, <3>1, <4>1
        <5> QED BY <1>9, <2>1, <2>3, <3>1, <3>3, <4>0, <4>1, <5>1
      <4>2. CASE u # t
        <5>3. /\ wire'[u][Client].ended <=> wire[u][Client].ended
              /\ wire'[u][Server].ended <=> wire[u][Server].ended
              /\ wire'[u][Client].frames = wire[u][Client].frames
              /\ wire'[u][Server].frames = wire[u][Server].frames
          BY <1>9, <3>3, <4>2
        <5>4. u \in Transports
          OBVIOUS
        <5> QED BY ONLY <2>1, <4>0, <5>3, <5>4
      <4> QED BY <4>1, <4>2
    <3> QED BY <1>22, <3>2, <3>3
  <2> QED BY <2>2, <2>4 DEF ClientSide
<1>24. ServerSide'
  <2>1. end'[Server].transport <= lastTransport'
    <3>1. end[Server].transport <= lastTransport /\ 0 <= lastTransport
      BY BoundsAssumption DEF IInv, ServerSide, Types
    <3> QED BY <1>6, <1>9, <1>22, <3>1
  <2>3. ASSUME NEW u \in Transports, u # Via(Server)'
        PROVE  Asked(u)'
    <3>1. CASE e = Server /\ p = Client
      <4>1. CASE u = t
        <5>1. wire'[u][Server].frames = << >>
          BY <1>9, <3>1, <4>1 DEF DeadStream
        <5> QED BY <5>1 DEF Asked
      <4>2. CASE u # t
        <5>1. Asked(u)
          BY <1>9, <3>1, <4>2 DEF IInv, ServerSide
        <5>2. wire'[u][Server].frames = wire[u][Server].frames
          BY <1>9, <3>1, <4>2
        <5>3. end'[Client] = end[Client]
          BY <1>9, <3>1
        <5>4. ASSUME end[Client].transport = u
              PROVE  Line(Client)' = Line(Client)
          <6>1. Via(p) = u
            BY <1>2, <3>1, <5>4, PeerFacts DEF Via
          <6>2. g = << >>
            BY <1>8, <4>2, <6>1
          <6> QED BY <1>3, <1>9, <3>1, <6>2, ConcatEmptySeq
        <5> QED BY <5>1, <5>2, <5>3, <5>4 DEF Asked
      <4> QED BY <4>1, <4>2
    <3>2. CASE e = Client /\ p = Server
      <4>1. u # Via(Server)
        BY <1>9, <2>3, <3>2
      <4>2. Asked(u)
        BY <4>1 DEF IInv, ServerSide
      <4>3. wire'[u][Server].frames = wire[u][Server].frames
        <5>1. wire[u][p].frames \in Seq(FrameSet)
          BY <1>2, StateFacts, StreamFacts
        <5>2. CASE u = t /\ ~wire[u][p].ended
          <6>1. t # 0
            BY <5>2 DEF Transports
          <6>2. x.resuming
            BY <1>16, <3>2, <4>1, <5>2, <6>1 DEF Sends
          <6>3. z.out = << >>
            BY <1>4, <6>2
          <6>4. wire[u][p].frames \o << >> = wire[u][p].frames
            BY <5>1, ConcatEmptySeq
          <6> QED BY <1>9, <3>2, <6>3, <6>4
        <5>3. CASE ~(u = t /\ ~wire[u][p].ended)
          BY <1>9, <3>2, <5>3
        <5> QED BY <5>2, <5>3
      <4>4. end'[Client].transport # u
        BY <1>6, <1>9, <3>2 DEF Transports
      <4> QED BY <4>2, <4>3, <4>4 DEF Asked
    <3> QED BY <1>22, <3>1, <3>2
  <2> QED BY <2>1, <2>3 DEF ServerSide
<1>25. Answered'
  <2>1. SUFFICES ASSUME end'[Client].resuming
                 PROVE  Answered'
    BY DEF Answered
  <2>2. e = Server /\ p = Client
    BY <1>6, <1>9, <1>22, <2>1
  <2>3. PICK c : c = end[Client].transport
    OBVIOUS
  <2>4. /\ Leads(Line(Client))
        /\ Line(Client) # << >> /\ Line(Client)[1].type = "RESUME_OK" =>
              /\ Line(Client)[1].a = Len(end[Server].delivered)
              /\ AllEnd(Line(Server))
              /\ ~wire[c][Server].ended => end[Server].transport = c
    BY <1>9, <2>1, <2>2, <2>3 DEF IInv, Answered
  <2>5. c \in Transports /\ c # 0
    <3>1. c > 1 /\ c \in 0..MaxTransports
      BY <1>9, <2>1, <2>2, <2>3, PeerFacts, StateFacts DEF IInv, ClientSide
    <3> QED BY <3>1, BoundsAssumption DEF Transports
  <2>6. PICK a \in Seq(ItemSet) : a = Line(Client)
    BY <1>3, <2>2
  <2>7. Line(Client)' = a \o g
    BY <1>9, <2>2, <2>6
  <2>8. Leads(a \o g)
    <3>1. AllIn(g, 1, {"ERROR", "END"})
      BY <1>14 DEF AllIn
    <3> QED BY <1>14, <2>4, <2>6, <3>1, LeadsJoin
  <2>9. ASSUME a \o g # << >>, (a \o g)[1].type = "RESUME_OK"
        PROVE  /\ (a \o g)[1].a = Len(s.delivered)
               /\ AllEnd(v)
               /\ wire'[c][Server].ended
    <3>1. a # << >>
      <4>1. SUFFICES ASSUME a = << >> PROVE FALSE
        OBVIOUS
      <4>2. a \o g = g
        BY <1>14, <4>1, ConcatEmptySeq
      <4>3. g # << >> /\ g[1].type = "RESUME_OK"
        BY <2>9, <4>2
      <4>4. Len(g) \in Nat /\ Len(g) >= 1
        BY <1>14, <4>3, TailFacts
      <4>5. 1 \in 1..Len(g) /\ 1 >= 1
        BY <4>4
      <4> QED BY <1>14, <4>3, <4>5 DEF AllIn
    <3>2. (a \o g)[1] = a[1]
      BY <1>14, <3>1, ConcatFirst
    <3>3. /\ a[1].a = Len(x.delivered)
          /\ AllEnd(w)
          /\ ~wire[c][Server].ended => t = c
      BY <2>2, <2>4, <2>6, <2>9, <3>1, <3>2
    <3>4. AllEnd(v)
      <4>1. CASE Idle(streams)
        BY <1>1, <1>12, <3>3, <4>1, CutAll
      <4>2. CASE Taken(e, streams)
        <5>1. Tail(w) \in Seq(ItemSet) /\ AllEnd(Tail(w))
          BY <1>1, <1>12, <3>3, <4>2, TailAll
        <5> QED BY <1>12, <4>2, <5>1, CutAll
      <4> QED BY <4>1, <4>2
    <3>5. wire'[c][Server].ended
      <4>1. DeadStream.ended
        BY DEF DeadStream
      <4> QED BY <1>9, <2>2, <2>5, <3>3, <4>1
    <3> QED BY <1>6, <3>2, <3>3, <3>4, <3>5
  <2>10. end'[Server].transport # c
    BY <1>6, <1>9, <2>2, <2>5
  <2> QED BY <1>9, <1>12, <2>2, <2>3, <2>7, <2>8, <2>9, <2>10 DEF Answered
<1>26. ASSUME NEW d \in Ends
       PROVE  /\ Shape(d, end'[d]) /\ end'[d].out = << >>
              /\ Local(end'[d]) /\ Towards(d)'
  BY <1>2, <1>3, <1>6, <1>9, <1>15, <1>20
<1>27. Unopened'
  <2>1. SUFFICES ASSUME lastTransport = 0
                 PROVE  /\ queue'[Client] = << >>
                        /\ ~end'[Client].closed => end'[Client].cache.position = 0
    BY DEF Unopened
  <2>2. /\ queue[Client] = << >>
        /\ ~end[Client].closed => end[Client].cache.position = 0
    BY <2>1 DEF IInv, Unopened
  <2>3. t = 0
    BY <1>1, <2>1
  <2>4. queue'[Client] = << >>
    <3>1. e = Client => ~Taken(e, streams)
      BY <2>2, <2>3 DEF Taken
    <3> QED BY <1>11, <1>22, <2>2, <3>1 DEF Idle
  <2> QED BY <1>4, <1>6, <1>9, <1>22, <2>2, <2>4
<1> QED BY <1>9, <1>21, <1>23, <1>24, <1>25, <1>26, <1>27 DEF IInv

-----------------------------------------------------------------------------
(* The steps of an end that stays with its transport, or leaves it         *)

LEMMA FeedFacts ==
  ASSUME IInv, NEW e \in Ends, NEW p, p = Peer(e), NEW x, x = end[e], NEW y, y = end[p]
  PROVE  /\ Len(y.delivered) \in Nat
         /\ ~x.closed => Retains(x.cache, Len(y.delivered))
         /\ x.transport # 0 /\ ~x.resuming /\ ~wire[x.transport][p].ended =>
               /\ Via(p) = x.transport
               /\ ~y.closed => Flow(Line(p), Len(y.delivered), x.cache.position)
<1>1. p \in Ends /\ Peer(p) = e
  BY PeerFacts
<1>2. y \in EndSet /\ Towards(p)
  BY <1>1, StateFacts
<1>3. Len(y.delivered) \in Nat
  BY <1>2, EndFacts
<1>4. Fed(y, x, Line(p), Sends(x, p)) /\ (Sends(x, p) => Via(p) = x.transport)
  BY <1>1, <1>2 DEF Towards
<1> QED BY <1>3, <1>4 DEF Fed, Sends

(***************************************************************************)
(* Taking something changes the queue or the streams.                      *)
(***************************************************************************)
LEMMA TakenNotIdle ==
  ASSUME IInv, NEW e \in Ends, NEW streams, Taken(e, streams)
  PROVE  ~Idle(streams)
<1>1. PICK t : t = end[e].transport
  OBVIOUS
<1>2. /\ queue[e] \in Seq(TaskSet) /\ t \in 0..MaxTransports
      /\ \A u \in Transports : wire[u][e] \in StreamSet
  BY <1>1, StateFacts
<1>3. CASE queue[e] # << >> /\ queue' = [queue EXCEPT ![e] = Tail(@)]
  <2>1. Tail(queue[e]) # queue[e]
    BY <1>2, <1>3, TailDiffers
  <2>2. queue \in [Ends -> Seq(TaskSet)]
    BY DEF IInv, Types
  <2> QED BY <1>3, <2>1, <2>2 DEF Idle
<1>4. CASE t # 0 /\ wire[t][e].frames # << >> /\ streams = Consume(t, e)
  <2>1. t \in Transports
    BY <1>2, <1>4, BoundsAssumption DEF Transports
  <2>2. Types
    BY DEF IInv
  <2>3. streams[t][e].frames = Tail(wire[t][e].frames)
    BY <1>4, <2>1, <2>2, ConsumeFacts
  <2>4. wire[t][e].frames \in Seq(FrameSet)
    BY <1>2, <2>1, StreamFacts
  <2> QED BY <1>4, <2>3, <2>4, TailDiffers DEF Idle
<1> QED BY <1>1, <1>3, <1>4 DEF Taken

LEMMA IdleKeeps ==
  ASSUME IInv, NEW e \in Ends, ~(e = Server /\ accepted = 0), NEW x, x = end[e],
         NEW y, y = end[Peer(e)], NEW z, Stays(e, x, z, Len(y.delivered)),
         z.delivered = x.delivered, z.resuming = x.resuming,
         ~x.resuming => Emits(z, x.cache.position),
         Step(e, z), UNCHANGED <<queue, lastTransport, accepted>>
  PROVE  IInv'
<1>1. PICK p : p = Peer(e)
  OBVIOUS
<1>2. PICK t : t = x.transport
  OBVIOUS
<1>3. Commit(e, z, t, wire)
  BY <1>2 DEF Step
<1>4. Idle(wire) /\ ~Taken(e, wire)
  BY TakenNotIdle DEF Idle
<1>5. t # 0 /\ ~z.resuming /\ ~wire[t][p].ended =>
         /\ Via(p) = t
         /\ ~y.closed => \E r \in Nat : Flow(Line(p), Len(y.delivered), r) /\ Emits(z, r)
  <2>1. x.cache.position \in Nat
    BY StateFacts, EndFacts
  <2> QED BY <1>1, <1>2, <2>1, FeedFacts
<1> QED BY <1>1, <1>2, <1>3, <1>4, <1>5, StayKeeps

LEMMA LeaveIdle ==
  ASSUME IInv, NEW e \in Ends, ~(e = Server /\ accepted = 0), NEW x, x = end[e],
         NEW z, Leaves(x, z), Step(e, z), UNCHANGED <<queue, lastTransport, accepted>>
  PROVE  IInv'
<1>1. PICK t : t = x.transport
  OBVIOUS
<1>2. Commit(e, z, t, wire) /\ Idle(wire)
  BY <1>1 DEF Step, Idle
<1> QED BY <1>1, <1>2, LeaveKeeps

LEMMA AppWriteKeeps ==
  ASSUME IInv, NEW e \in Ends, AppWrite(e)
  PROVE  IInv'
<1>1. PICK x : x = end[e]
  OBVIOUS
<1>2. PICK z : z = Write(x)
  OBVIOUS
<1>3. /\ ~x.closed /\ ~(e = Server /\ accepted = 0)
      /\ Step(e, z) /\ UNCHANGED <<queue, lastTransport, accepted>>
  BY <1>1, <1>2 DEF AppWrite, IsOpen
<1>4. x \in EndSet /\ Local(x) /\ Shape(e, x) /\ x.out = << >>
  BY <1>1, StateFacts
<1>5. PICK n \in Nat : n = Len(end[Peer(e)].delivered)
  BY <1>1, FeedFacts
<1>6. Retains(x.cache, n)
  BY <1>1, <1>3, <1>5, FeedFacts
<1>7. /\ Stays(e, x, z, n) /\ z.delivered = x.delivered /\ z.resuming = x.resuming
      /\ ~x.resuming => Emits(z, x.cache.position)
  BY <1>2, <1>3, <1>4, <1>6, WriteStays
<1> QED BY <1>1, <1>3, <1>5, <1>7, IdleKeeps

LEMMA AppDisconnectKeeps ==
  ASSUME IInv, NEW e \in Ends, AppDisconnect(e)
  PROVE  IInv'
<1>1. PICK x : x = end[e]
  OBVIOUS
<1>2. PICK z : z = Disconnect(x)
  OBVIOUS
<1>3. x \in EndSet /\ Local(x) /\ Shape(e, x) /\ x.out = << >>
  BY <1>1, StateFacts
<1>4. Leaves(x, z)
  BY <1>2, <1>3, DisconnectLeaves
<1> QED BY <1>1, <1>2, <1>4, LeaveIdle DEF AppDisconnect, IsOpen

LEMMA AppCloseKeeps ==
  ASSUME IInv, NEW e \in Ends, AppClose(e)
  PROVE  IInv'
<1>1. PICK x : x = end[e]
  OBVIOUS
<1>2. PICK z : z = Close(x)
  OBVIOUS
<1>3. x \in EndSet /\ Local(x) /\ Shape(e, x) /\ x.out = << >> /\ ~x.closed
  BY <1>1, StateFacts DEF AppClose, IsOpen
<1>4. Leaves(x, z)
  BY <1>2, <1>3, CloseLeaves
<1> QED BY <1>1, <1>2, <1>4, LeaveIdle DEF AppClose, IsOpen

LEMMA AwaitStays ==
  ASSUME NEW e, NEW x, NEW k, NEW n, Stays(e, x, k, n), k.transport # 0, ~k.resuming,
         NEW z, z = [k EXCEPT !.awaiting = TRUE]
  PROVE  /\ Stays(e, x, z, n)
         /\ z.delivered = k.delivered /\ z.resuming = k.resuming
         /\ z.out = k.out /\ z.cache = k.cache /\ z.closed = k.closed
<1>1. k \in EndSet
  BY DEF Stays
<1>2. /\ z \in EndSet
      /\ z.transport = k.transport /\ z.closed = k.closed /\ z.resuming = k.resuming
      /\ z.cache = k.cache /\ z.pending = k.pending /\ z.out = k.out
      /\ z.written = k.written /\ z.delivered = k.delivered
  BY <1>1 DEF EndSet
<1>3. Shape(e, z)
  BY <1>2 DEF Stays, Shape
<1>4. Local(z)
  BY <1>2 DEF Stays, Local
<1> QED BY <1>2, <1>3, <1>4 DEF Stays

LEMMA KeepaliveTickKeeps ==
  ASSUME IInv, KeepaliveTick
  PROVE  IInv'
<1>1. PICK x : x = end[Client]
  OBVIOUS
<1>2. PICK k : k = OutputFrameOrEnqueue(x, KeepaliveFrame(x.cache.impliedPosition, TRUE))
  OBVIOUS
<1>3. Client \in Ends /\ ~(Client = Server /\ accepted = 0)
  BY BoundsAssumption DEF Ends
<1>4. /\ x.transport # 0 /\ ~x.resuming
      /\ Step(Client, IF x.awaiting THEN Disconnect(x) ELSE [k EXCEPT !.awaiting = TRUE])
      /\ UNCHANGED <<queue, lastTransport, accepted>>
  BY <1>1, <1>2 DEF KeepaliveTick
<1>5. x \in EndSet /\ Local(x) /\ Shape(Client, x) /\ x.out = << >>
  BY <1>1, <1>3, StateFacts
<1>6. CASE x.awaiting
  <2>1. PICK z : z = Disconnect(x)
    OBVIOUS
  <2>2. Leaves(x, z) /\ Step(Client, z)
    BY <1>4, <1>5, <1>6, <2>1, DisconnectLeaves
  <2> QED BY <1>1, <1>3, <1>4, <2>2, LeaveIdle
<1>7. CASE ~x.awaiting
  <2>1. PICK z : z = [k EXCEPT !.awaiting = TRUE]
    OBVIOUS
  <2>2. PICK n \in Nat : n = Len(end[Peer(Client)].delivered)
    BY <1>1, <1>3, FeedFacts
  <2>3. ~x.closed
    BY <1>4, <1>5 DEF Shape
  <2>4. Retains(x.cache, n)
    BY <1>1, <1>3, <2>2, <2>3, FeedFacts
  <2>5. /\ Stays(Client, x, k, n) /\ Emits(k, x.cache.position)
        /\ k.delivered = x.delivered /\ k.resuming = x.resuming
    <3>1. TRUE \in BOOLEAN
      OBVIOUS
    <3> QED BY <1>2, <1>5, <2>3, <2>4, <3>1, KeepaliveStays
  <2>6. /\ Stays(Client, x, z, n) /\ Emits(z, x.cache.position)
        /\ z.delivered = x.delivered /\ z.resuming = x.resuming
    <3>1. k.transport # 0 /\ ~k.resuming
      BY <1>4, <2>5 DEF Stays
    <3>2. /\ Stays(Client, x, z, n)
          /\ z.delivered = k.delivered /\ z.resuming = k.resuming
          /\ z.out = k.out /\ z.cache = k.cache /\ z.closed = k.closed
      BY <2>1, <2>5, <3>1, AwaitStays
    <3> QED BY <2>5, <3>2 DEF Emits
  <2>7. Step(Client, z)
    BY <1>4, <1>7, <2>1
  <2> QED BY <1>1, <1>3, <1>4, <2>2, <2>6, <2>7, IdleKeeps
<1> QED BY <1>5, <1>6, <1>7, EndFacts

(***************************************************************************)
(* What an end is about to process is what it is waiting for.              *)
(***************************************************************************)
LEMMA LineMet ==
  ASSUME IInv, NEW e \in Ends, ~(e = Server /\ accepted = 0), NEW x, x = end[e], ~x.closed,
         NEW w, w = Line(e), w # << >>, w[1].type # "END"
  PROVE  Met(e, x, w[1], Len(end[Peer(e)].delivered))
<1>1. PICK y : y = end[Peer(e)]
  OBVIOUS
<1>2. /\ x \in EndSet /\ w \in Seq(ItemSet) /\ Shape(e, x) /\ Towards(e)
  BY StateFacts
<1>3. PICK r \in Nat : r = Len(x.delivered)
  BY <1>2, EndFacts
<1>4. w[1] \in ItemSet /\ 1 \in 1..Len(w) /\ 1 >= 1
  BY <1>2, TailFacts
<1>5. w[1] \in FrameSet
  BY <1>4, ItemFacts
<1>6. w[1].type \in Told(e)
  <2>1. AllIn(w, 1, Told(e))
    BY <1>2 DEF Towards
  <2> QED BY <1>4, <2>1 DEF AllIn
<1>7. PICK m \in Nat : Flow(w, r, m) /\ Acks(w, Len(y.delivered))
  BY <1>1, <1>2, <1>3 DEF Towards, Fed
<1>8. w[1].stream = 1 => w[1].a = r + 1
  BY <1>2, <1>7, FlowTail
<1>9. w[1].type = "KEEPALIVE" => w[1].a <= Len(y.delivered)
  BY <1>4, <1>7 DEF Acks
<1>10. x.resuming => w[1].type \in {"RESUME_OK", "ERROR"}
  <2>1. SUFFICES ASSUME x.resuming PROVE w[1].type \in {"RESUME_OK", "ERROR"}
    OBVIOUS
  <2>2. e = Client
    BY <1>2, <2>1 DEF Shape
  <2>3. Leads(w)
    BY <2>1, <2>2 DEF IInv, Answered
  <2>4. \A j \in 1..1 - 1 : w[j].type = "END"
    OBVIOUS
  <2>5. w[1].type \in {"RESUME_OK", "ERROR", "END"}
    BY <1>4, <2>3, <2>4 DEF Leads
  <2> QED BY <2>5
<1> QED BY <1>1, <1>3, <1>5, <1>6, <1>8, <1>9, <1>10 DEF Met

(***************************************************************************)
(* When RESUME_OK is next, the server waits for the frame it names and     *)
(* nothing is on its way to it.                                            *)
(***************************************************************************)
LEMMA AnswerFacts ==
  ASSUME IInv, end[Client].resuming, NEW w, w = Line(Client), w # << >>,
         w[1].type = "RESUME_OK", NEW d, d = Len(end[Server].delivered)
  PROVE  /\ d \in Nat /\ w[1].a = d
         /\ Flow(Line(Server), d, d)
         /\ ~wire[end[Client].transport][Server].ended => Via(Server) = end[Client].transport
<1>1. Client \in Ends /\ Server \in Ends
  BY DEF Ends
<1>2. /\ end[Server] \in EndSet /\ Line(Server) \in Seq(ItemSet)
      /\ Shape(Client, end[Client])
  BY <1>1, StateFacts
<1>3. d \in Nat
  BY <1>2, EndFacts
<1>4. /\ w[1].a = d /\ AllEnd(Line(Server))
      /\ ~wire[end[Client].transport][Server].ended => end[Server].transport = end[Client].transport
  BY DEF IInv, Answered
<1>5. \A i \in 1..Len(Line(Server)) : Line(Server)[i].stream # 1
  <2>1. SUFFICES ASSUME NEW i \in 1..Len(Line(Server)) PROVE Line(Server)[i].stream # 1
    OBVIOUS
  <2>2. Line(Server)[i] \in ItemSet /\ Line(Server)[i].type = "END"
    BY <1>2, <1>4, <2>1 DEF AllEnd
  <2> QED BY <2>2, ItemFacts
<1>6. Flow(Line(Server), d, d)
  BY <1>2, <1>3, <1>5, FlowQuiet
<1>7. ~wire[end[Client].transport][Server].ended => Via(Server) = end[Client].transport
  <2>1. SUFFICES ASSUME end[Server].transport = end[Client].transport
                 PROVE  Via(Server) = end[Client].transport
    BY <1>4
  <2>2. end[Client].transport # 0
    BY <1>2 DEF Shape
  <2>3. accepted # 0
    <3>1. NewEnd.transport = 0
      BY DEF NewEnd
    <3> QED BY <2>1, <2>2, <3>1 DEF IInv, Unset
  <2> QED BY <2>1, <2>3 DEF Via
<1> QED BY <1>3, <1>4, <1>6, <1>7

LEMMA SelfStays ==
  ASSUME NEW e, NEW x \in EndSet, Shape(e, x), Local(x), x.closed, x.out = << >>, NEW n
  PROVE  Stays(e, x, x, n) /\ ~x.resuming /\ x.transport = 0
<1>1. x.written \in Nat
  BY EndFacts
<1>2. AllIn(x.out, 1, {"PAYLOAD", "KEEPALIVE"}) /\ Acks(x.out, Len(x.delivered))
  BY DEF AllIn, Acks
<1> QED BY <1>1, <1>2 DEF Stays, Shape

LEMMA TakeKeeps ==
  ASSUME Orderly, IInv, NEW e \in Ends, ~(e = Server /\ accepted = 0), NEW x, x = end[e],
         NEW t, t = x.transport, NEW streams, Taken(e, streams), ~Idle(streams),
         NEW w, w = Line(e), w # << >>, w[1].type # "END", NEW writes,
         Commit(e, ProcessFrame(e, x, w[1], writes), t, streams),
         lastTransport' = lastTransport, accepted' = accepted
  PROVE  IInv'
<1>1. PICK p : p = Peer(e)
  OBVIOUS
<1>2. PICK y : y = end[p]
  OBVIOUS
<1>3. PICK z : z = ProcessFrame(e, x, w[1], writes)
  OBVIOUS
<1>4. PICK n \in Nat : n = Len(y.delivered)
  BY <1>1, <1>2, FeedFacts
<1>5. x \in EndSet /\ Local(x) /\ Shape(e, x) /\ x.out = << >>
  BY StateFacts
<1>6. CASE x.closed
  <2>1. z = x
    BY <1>3, <1>6 DEF ProcessFrame
  <2>2. Stays(e, x, z, n) /\ ~x.resuming /\ t = 0
    BY <1>5, <1>6, <2>1, SelfStays
  <2>3. Emits(z, x.cache.position)
    BY <1>6, <2>1 DEF Emits
  <2>4. Commit(e, z, t, streams)
    BY <1>3
  <2> QED BY <1>1, <1>2, <1>4, <1>6, <2>1, <2>2, <2>3, <2>4, StayKeeps
<1>7. CASE ~x.closed
  <2>1. Met(e, x, w[1], n)
    BY <1>1, <1>2, <1>4, <1>7, LineMet
  <2>2. Retains(x.cache, n)
    BY <1>1, <1>2, <1>4, <1>7, FeedFacts
  <2>3. (Leaves(x, z) /\ z.closed) \/ Processed(e, x, z, w[1], n)
    BY <1>3, <1>5, <1>7, <2>1, <2>2, ProcessFrameFacts
  <2>4. Commit(e, z, t, streams)
    BY <1>3
  <2>5. CASE Leaves(x, z) /\ z.closed
    BY <1>1, <1>2, <2>4, <2>5, LeaveKeeps
  <2>6. CASE Processed(e, x, z, w[1], n)
    <3>1. /\ Stays(e, x, z, n)
          /\ Emits(z, IF x.resuming THEN w[1].a ELSE x.cache.position)
          /\ x.resuming => ~z.resuming /\ w[1].type = "RESUME_OK"
          /\ z.delivered = IF w[1].stream = 1 THEN Append(x.delivered, w[1].a) ELSE x.delivered
      BY <2>6 DEF Processed
    <3>2. t # 0 /\ ~z.resuming /\ ~wire[t][p].ended =>
            /\ Via(p) = t
            /\ ~y.closed => \E r \in Nat : Flow(Line(p), Len(y.delivered), r) /\ Emits(z, r)
      <4>1. CASE x.resuming
        <5>1. e = Client /\ p = Server
          BY <1>1, <1>5, <4>1, PeerFacts DEF Shape
        <5>2. /\ w[1].a = n /\ Flow(Line(p), n, n)
              /\ ~wire[t][p].ended => Via(p) = t
          BY <1>2, <1>4, <3>1, <4>1, <5>1, AnswerFacts
        <5>3. Emits(z, n)
          BY <3>1, <4>1, <5>2
        <5> QED BY <1>4, <5>2, <5>3
      <4>2. CASE ~x.resuming
        <5>1. x.cache.position \in Nat
          BY <1>5, EndFacts
        <5>2. Emits(z, x.cache.position)
          BY <3>1, <4>2
        <5> QED BY <1>1, <1>2, <4>2, <5>1, <5>2, FeedFacts
      <4> QED BY <1>5, <4>1, <4>2
    <3>3. ~x.resuming => Emits(z, x.cache.position)
      BY <3>1
    <3> QED BY <1>1, <1>2, <1>4, <1>7, <2>4, <3>1, <3>2, <3>3, StayKeeps
  <2> QED BY <2>3, <2>5, <2>6
<1> QED BY <1>6, <1>7

(***************************************************************************)
(* An end that has a task, or a transport, is one that was set up.         *)
(***************************************************************************)
LEMMA BusyIsSetUp ==
  ASSUME IInv, NEW e \in Ends, queue[e] # << >> \/ end[e].transport # 0
  PROVE  ~(e = Server /\ accepted = 0)
<1>1. NewEnd.transport = 0
  BY DEF NewEnd
<1> QED BY <1>1 DEF IInv, Unset

LEMMA RunTaskKeeps ==
  ASSUME Orderly, IInv, NEW e \in Ends, NEW writes, RunTask(e, writes)
  PROVE  IInv'
<1>1. PICK x : x = end[e]
  OBVIOUS
<1>2. PICK t : t = x.transport
  OBVIOUS
<1>3. PICK task : task = Head(queue[e])
  OBVIOUS
<1>4. PICK w : w = Line(e)
  OBVIOUS
<1>5. /\ queue[e] # << >>
      /\ Commit(e, IF task = Terminal(task.transport) THEN Disconnect(x)
                   ELSE ProcessFrame(e, x, task.frame[1], writes), t, wire)
      /\ queue' = [queue EXCEPT ![e] = Tail(@)]
      /\ lastTransport' = lastTransport /\ accepted' = accepted
  BY <1>1, <1>2, <1>3 DEF RunTask, Step
<1>6. Taken(e, wire)
  BY <1>5 DEF Taken
<1>7. ~Idle(wire)
  BY <1>6, TakenNotIdle
<1>8. ~(e = Server /\ accepted = 0)
  BY <1>5, BusyIsSetUp
<1>9. /\ queue[e] \in Seq(TaskSet) /\ Arriving(e) \in Seq(FrameSet)
      /\ x \in EndSet /\ Local(x) /\ Shape(e, x) /\ x.out = << >>
  BY <1>1, StateFacts
<1>10. task \in TaskSet /\ task = queue[e][1]
  BY <1>3, <1>5, <1>9, TailFacts
<1>11. w # << >> /\ w[1] = AsItem(task)
  BY <1>4, <1>5, <1>9, <1>10, LineRun DEF Line
<1>12. CASE task.frame = << >>
  <2>1. w[1].type = "END"
    BY <1>10, <1>11, <1>12, TaskFacts, FrameFacts
  <2>2. PICK z : z = Disconnect(x)
    OBVIOUS
  <2>3. Commit(e, z, t, wire)
    BY <1>5, <1>10, <1>12, <2>2, TaskFacts
  <2>4. Leaves(x, z)
    BY <1>9, <2>2, DisconnectLeaves
  <2> QED BY <1>1, <1>2, <1>4, <1>5, <1>6, <1>8, <2>1, <2>3, <2>4, LeaveKeeps
<1>13. CASE task.frame # << >>
  <2>1. w[1].type # "END" /\ w[1] = task.frame[1] /\ task # Terminal(task.transport)
    BY <1>10, <1>11, <1>13, TaskFacts
  <2>2. Commit(e, ProcessFrame(e, x, w[1], writes), t, wire)
    BY <1>5, <2>1
  <2> QED BY <1>1, <1>2, <1>4, <1>5, <1>6, <1>7, <1>8, <1>11, <2>1, <2>2, TakeKeeps
<1> QED BY <1>12, <1>13

(***************************************************************************)
(* A frame that is processed as it arrives.                                *)
(***************************************************************************)
LEMMA ReceiveKeeps ==
  ASSUME Orderly, IInv, NEW e \in Ends, NEW writes, Receive(e, writes), ~Deferred
  PROVE  IInv'
<1>1. PICK x : x = end[e]
  OBVIOUS
<1>2. PICK t : t = x.transport
  OBVIOUS
<1>3. PICK w : w = Line(e)
  OBVIOUS
<1>4. /\ t # 0 /\ wire[t][e].frames # << >>
      /\ Commit(e, ProcessFrame(e, x, Head(wire[t][e].frames), writes), t, Consume(t, e))
      /\ queue' = queue /\ lastTransport' = lastTransport /\ accepted' = accepted
  BY <1>1, <1>2 DEF Receive
<1>5. queue[e] = << >>
  BY StateFacts DEF Towards
<1>6. Taken(e, Consume(t, e))
  BY <1>1, <1>2, <1>4, <1>5 DEF Taken
<1>7. ~Idle(Consume(t, e))
  BY <1>6, TakenNotIdle
<1>8. ~(e = Server /\ accepted = 0)
  BY <1>1, <1>2, <1>4, BusyIsSetUp
<1>9. Via(e) = t /\ Arriving(e) = wire[t][e].frames
  BY <1>1, <1>2, <1>4, <1>8 DEF Via, Arriving
<1>10. queue[e] \in Seq(TaskSet) /\ Arriving(e) \in Seq(FrameSet)
  BY StateFacts
<1>11. w = wire[t][e].frames
  BY <1>3, <1>5, <1>9, <1>10, LineNoTasks DEF Line
<1>12. w \in Seq(FrameSet) /\ w # << >> /\ Head(w) = w[1] /\ w[1].type # "END"
  <2>1. w \in Seq(FrameSet) /\ w # << >>
    BY <1>4, <1>9, <1>10, <1>11
  <2>2. Head(w) = w[1] /\ w[1] \in FrameSet
    BY <2>1, TailFacts
  <2> QED BY <2>1, <2>2 DEF FrameSet
<1>13. Commit(e, ProcessFrame(e, x, w[1], writes), t, Consume(t, e))
  BY <1>4, <1>11, <1>12
<1> QED BY <1>1, <1>2, <1>3, <1>4, <1>6, <1>7, <1>8, <1>12, <1>13, TakeKeeps

LEMMA ReceiveTerminalKeeps ==
  ASSUME IInv, NEW e \in Ends, ReceiveTerminal(e), ~Deferred
  PROVE  IInv'
<1>1. PICK x : x = end[e]
  OBVIOUS
<1>2. PICK z : z = Disconnect(x)
  OBVIOUS
<1>3. x.transport # 0 /\ Step(e, z) /\ UNCHANGED <<queue, lastTransport, accepted>>
  BY <1>1, <1>2 DEF ReceiveTerminal
<1>4. x \in EndSet /\ Local(x) /\ Shape(e, x) /\ x.out = << >>
  BY <1>1, StateFacts
<1>5. Leaves(x, z)
  BY <1>2, <1>4, DisconnectLeaves
<1>6. ~(e = Server /\ accepted = 0)
  BY <1>1, <1>3, BusyIsSetUp
<1> QED BY <1>1, <1>3, <1>5, <1>6, LeaveIdle

-----------------------------------------------------------------------------
(* What happens between the ends                                           *)

(***************************************************************************)
(* Of what is on its way to e, the last ones may be lost; items of types   *)
(* may follow.                                                             *)
(***************************************************************************)
Altered(e, types) ==
    \E b \in Seq(ItemSet), g \in Seq(ItemSet) :
        /\ Line(e)' = b \o g
        /\ Cut(b, Line(e))
        /\ AllIn(g, 1, types)

(***************************************************************************)
(* A step that leaves the ends as they are.                                *)
(***************************************************************************)
WireOf ==
    /\ IInv
    /\ end' = end /\ lastTransport' = lastTransport /\ accepted' = accepted
    /\ wire' \in [Transports -> [Ends -> StreamSet]]
    /\ queue' \in [Ends -> Seq(TaskSet)]
    /\ \A e \in Ends :
          /\ \A u \in Transports : wire[u][e].ended => wire'[u][e].ended
          /\ Altered(e, IF e = Client THEN {"ERROR", "END"} ELSE {"END"})
          /\ Via(e) # 0 /\ ~wire'[Via(e)][e].ended => Line(e)' = Line(e)
          /\ ~Deferred => queue'[e] = << >>
          /\ end[e].transport # 0 /\ ~wire'[end[e].transport][e].ended =>
                \A i \in 1..Len(queue'[e]) : queue'[e][i].frame # << >>
    /\ \A u \in Transports :
          /\ u # end[Client].transport => wire'[u][Client].frames = << >>
          /\ u > lastTransport => \A e \in Ends : wire'[u][e] = wire[u][e]
          /\ u # Via(Server) =>
                \/ wire'[u][Server].frames = << >>
                \/ /\ wire'[u][Server].frames = wire[u][Server].frames
                   /\ u = end[Client].transport /\ AllEnd(Line(Client))
                         => AllEnd(Line(Client)')
    /\ accepted = 0 =>
          /\ queue'[Server] = << >>
          /\ wire'[1][Server].frames # << >> =>
                /\ wire[1][Server].frames # << >>
                /\ wire'[1][Server].frames[1] = wire[1][Server].frames[1]
          /\ wire'[1][Server].frames = << >> /\ lastTransport # 0 => wire'[1][Server].ended
    /\ lastTransport = 0 => queue'[Client] = << >>

LEMMA AlteredFirst ==
  ASSUME NEW u \in Seq(ItemSet), NEW b \in Seq(ItemSet), NEW g \in Seq(ItemSet), Cut(b, u),
         \A i \in 1..Len(g) : g[i].type # "RESUME_OK",
         b \o g # << >>, (b \o g)[1].type = "RESUME_OK"
  PROVE  u # << >> /\ (b \o g)[1] = u[1]
<1>1. b # << >>
  <2>1. SUFFICES ASSUME b = << >> PROVE FALSE
    OBVIOUS
  <2>2. b \o g = g
    BY <2>1, ConcatEmptySeq
  <2>3. 1 \in 1..Len(g)
    BY <2>2, TailFacts
  <2> QED BY <2>2, <2>3
<1>2. (b \o g)[1] = b[1]
  BY <1>1, ConcatFirst
<1> QED BY <1>1, <1>2, CutAll

LEMMA WireTowards ==
  ASSUME WireOf, NEW e \in Ends
  PROVE  Towards(e)'
<1>1. PICK x : x = end[e]
  OBVIOUS
<1>2. PICK p : p = Peer(e)
  OBVIOUS
<1>3. PICK y : y = end[p]
  OBVIOUS
<1>4. IInv /\ end' = end /\ accepted' = accepted
  BY DEF WireOf
<1>5. p \in Ends
  BY <1>2, PeerFacts
<1>6. /\ x \in EndSet /\ y \in EndSet /\ Line(e) \in Seq(ItemSet) /\ Towards(e)
      /\ y.transport \in 0..MaxTransports
  BY <1>1, <1>3, <1>4, <1>5, StateFacts
<1>7. Via(e)' = Via(e)
  BY <1>4 DEF Via
<1>8. /\ \A u \in Transports : wire[u][e].ended => wire'[u][e].ended
      /\ Altered(e, IF e = Client THEN {"ERROR", "END"} ELSE {"END"})
      /\ Via(e) # 0 /\ ~wire'[Via(e)][e].ended => Line(e)' = Line(e)
      /\ ~Deferred => queue'[e] = << >>
      /\ x.transport # 0 /\ ~wire'[x.transport][e].ended =>
            \A i \in 1..Len(queue'[e]) : queue'[e][i].frame # << >>
  BY <1>1 DEF WireOf
<1>9. PICK b \in Seq(ItemSet), g \in Seq(ItemSet) :
          /\ Line(e)' = b \o g
          /\ Cut(b, Line(e))
          /\ AllIn(g, 1, IF e = Client THEN {"ERROR", "END"} ELSE {"END"})
  BY <1>8 DEF Altered
<1>10. Fed(x, y, Line(e), Sends(y, e)) /\ (Sends(y, e) => Via(e) = y.transport)
  BY <1>1, <1>2, <1>3, <1>6 DEF Towards
<1>11. Sends(y, e)' => /\ Sends(y, e) /\ Via(e) = y.transport
                       /\ Line(e)' = Line(e)
  <2>1. y.transport # 0 => y.transport \in Transports
    BY <1>6, BoundsAssumption DEF Transports
  <2>2. Sends(y, e)' => Sends(y, e)
    BY <1>8, <2>1 DEF Sends
  <2>3. Sends(y, e)' => y.transport # 0 /\ ~wire'[y.transport][e].ended
    BY DEF Sends
  <2> QED BY <1>8, <1>10, <2>2, <2>3
<1>12. Fed(x, y, Line(e)', Sends(y, e)')
  <2>1. CASE Sends(y, e)'
    BY <1>10, <1>11, <2>1, FedLive
  <2>2. CASE ~Sends(y, e)'
    <3>1. Fed(x, y, b, FALSE)
      BY <1>6, <1>9, <1>10, CutFed
    <3>2. ASSUME NEW i \in 1..Len(g) PROVE g[i].stream # 1 /\ g[i].type # "KEEPALIVE"
      <4>1. i >= 1
        OBVIOUS
      <4>2. g[i].type \in {"ERROR", "END"}
        BY <1>9, <4>1 DEF AllIn
      <4>3. g[i] \in ItemSet
        OBVIOUS
      <4> QED BY <4>2, <4>3, ItemFacts
    <3>3. Acks(g, Len(y.delivered))
      BY <3>2 DEF Acks
    <3>4. /\ y.written <= y.written /\ Len(y.delivered) <= Len(y.delivered)
          /\ y.cache.position <= y.cache.position
      <4>1. y.written \in Nat /\ Len(y.delivered) \in Nat /\ y.cache.position \in Nat
        BY <1>6, EndFacts
      <4> QED BY <4>1
    <3>5. ~y.closed => Retains(y.cache, Len(x.delivered))
      BY <1>10 DEF Fed
    <3>6. PICK v : v = b \o g
      OBVIOUS
    <3>7. \A i \in 1..Len(g) : g[i].stream # 1
      BY <3>2
    <3>8. Fed(x, y, v, FALSE)
      BY ONLY <1>6, <3>1, <3>3, <3>4, <3>5, <3>6, <3>7, QuietFed, b \in Seq(ItemSet), g \in Seq(ItemSet)
    <3> QED BY <1>9, <2>2, <3>6, <3>8, FedLive
  <2> QED BY <2>1, <2>2
<1>13. ~x.closed => AllIn(Line(e)', IF e = Server /\ accepted = 0 THEN 2 ELSE 1, Told(e))
  <2>1. SUFFICES ASSUME ~x.closed
                 PROVE  AllIn(Line(e)', IF e = Server /\ accepted = 0 THEN 2 ELSE 1, Told(e))
    OBVIOUS
  <2>2. AllIn(Line(e), IF e = Server /\ accepted = 0 THEN 2 ELSE 1, Told(e))
    BY <1>1, <1>6, <2>1 DEF Towards
  <2>3. AllIn(b, IF e = Server /\ accepted = 0 THEN 2 ELSE 1, Told(e))
    BY <1>6, <1>9, <2>2, CutAll
  <2>4. AllIn(g, 1, Told(e))
    BY <1>9 DEF AllIn, Told
  <2> QED BY <1>9, <2>3, <2>4, JoinAll
<1> QED BY <1>1, <1>2, <1>3, <1>4, <1>7, <1>8, <1>11, <1>12, <1>13 DEF Towards

LEMMA WireKeeps ==
  ASSUME WireOf
  PROVE  IInv'
<1>1. IInv /\ end' = end /\ accepted' = accepted /\ lastTransport' = lastTransport
  BY DEF WireOf
<1>2. Types'
  BY DEF WireOf, IInv, Types
<1>3. ASSUME NEW e \in Ends
      PROVE  /\ Shape(e, end'[e]) /\ end'[e].out = << >> /\ Local(end'[e]) /\ Towards(e)'
  BY <1>1, <1>3, StateFacts, WireTowards
<1>4. Unset'
  <2>1. SUFFICES ASSUME accepted = 0 PROVE Unset'
    BY <1>1 DEF Unset
  <2>2. /\ queue'[Server] = << >>
        /\ wire'[1][Server].frames # << >> =>
              /\ wire[1][Server].frames # << >>
              /\ wire'[1][Server].frames[1] = wire[1][Server].frames[1]
        /\ wire'[1][Server].frames = << >> /\ lastTransport # 0 => wire'[1][Server].ended
    BY <2>1 DEF WireOf
  <2>3. /\ end[Server] = NewEnd
        /\ wire[1][Server].frames # << >> => wire[1][Server].frames[1].type = "SETUP"
    BY <1>1, <2>1 DEF IInv, Unset
  <2> QED BY <1>1, <2>2, <2>3 DEF Unset
<1>5. Unopened'
  BY <1>1 DEF WireOf, IInv, Unopened
<1>6. ClientSide'
  <2>1. /\ end[Client].transport \in {0, lastTransport}
        /\ end[Client].resuming => end[Client].transport > 1
        /\ \A u \in Transports :
              /\ u # end[Client].transport /\ u <= lastTransport =>
                    wire[u][Client].ended /\ wire[u][Server].ended
              /\ u > lastTransport =>
                    /\ ~wire[u][Client].ended /\ ~wire[u][Server].ended
                    /\ wire[u][Server].frames = << >>
    BY <1>1 DEF IInv, ClientSide
  <2>2. \A u \in Transports :
            /\ wire[u][Client].ended => wire'[u][Client].ended
            /\ wire[u][Server].ended => wire'[u][Server].ended
            /\ u # end[Client].transport => wire'[u][Client].frames = << >>
            /\ u > lastTransport => /\ wire'[u][Client] = wire[u][Client]
                                    /\ wire'[u][Server] = wire[u][Server]
    BY DEF WireOf, Ends
  <2> QED BY <1>1, <2>1, <2>2 DEF ClientSide
<1>7. ServerSide'
  <2>1. Via(Server)' = Via(Server)
    BY <1>1 DEF Via
  <2>2. ASSUME NEW u \in Transports, u # Via(Server)
        PROVE  Asked(u)'
    <3>1. Asked(u)
      BY <1>1, <2>2 DEF IInv, ServerSide
    <3>2. \/ wire'[u][Server].frames = << >>
          \/ /\ wire'[u][Server].frames = wire[u][Server].frames
             /\ u = end[Client].transport /\ AllEnd(Line(Client))
                   => AllEnd(Line(Client)')
      BY <2>2 DEF WireOf
    <3> QED BY <1>1, <3>1, <3>2 DEF Asked
  <2> QED BY <1>1, <2>1, <2>2 DEF IInv, ServerSide
<1>8. Answered'
  <2>1. SUFFICES ASSUME end[Client].resuming PROVE Answered'
    BY <1>1 DEF Answered
  <2>2. PICK c : c = end[Client].transport
    OBVIOUS
  <2>3. /\ Leads(Line(Client))
        /\ Line(Client) # << >> /\ Line(Client)[1].type = "RESUME_OK" =>
              /\ Line(Client)[1].a = Len(end[Server].delivered)
              /\ AllEnd(Line(Server))
              /\ ~wire[c][Server].ended => end[Server].transport = c
        /\ end[Server].transport = c /\ ~wire[c][Client].ended => Line(Client) # << >>
    BY <1>1, <2>1, <2>2 DEF IInv, Answered
  <2>4. Client \in Ends /\ Server \in Ends /\ Client # Server
    BY PeerFacts DEF Ends
  <2>5. c \in Transports /\ c # 0
    <3>1. c > 1 /\ c \in 0..MaxTransports
      BY <1>1, <2>1, <2>2, <2>4, StateFacts DEF IInv, ClientSide
    <3> QED BY <3>1, BoundsAssumption DEF Transports
  <2>6. Line(Client) \in Seq(ItemSet) /\ Line(Server) \in Seq(ItemSet)
    BY <1>1, <2>4, StateFacts
  <2>7. /\ wire[c][Client].ended => wire'[c][Client].ended
        /\ wire[c][Server].ended => wire'[c][Server].ended
        /\ Altered(Client, {"ERROR", "END"}) /\ Altered(Server, {"END"})
        /\ ~wire'[c][Client].ended => Line(Client)' = Line(Client)
    <3>1. Via(Client) = c
      BY <2>2, <2>4 DEF Via
    <3> QED BY <2>4, <2>5, <3>1 DEF WireOf
  <2>8. PICK b \in Seq(ItemSet), g \in Seq(ItemSet) :
            Line(Client)' = b \o g /\ Cut(b, Line(Client)) /\ AllIn(g, 1, {"ERROR", "END"})
    BY <2>7 DEF Altered
  <2>9. Leads(b \o g)
    BY <2>3, <2>6, <2>8, CutAll, LeadsJoin
  <2>10. AllEnd(Line(Server)) => AllEnd(Line(Server)')
    <3>1. SUFFICES ASSUME AllEnd(Line(Server)) PROVE AllEnd(Line(Server)')
      OBVIOUS
    <3>2. PICK b2 \in Seq(ItemSet), g2 \in Seq(ItemSet) :
              Line(Server)' = b2 \o g2 /\ Cut(b2, Line(Server)) /\ AllIn(g2, 1, {"END"})
      BY <2>7 DEF Altered
    <3>3. AllEnd(b2)
      BY <2>6, <3>1, <3>2, CutAll
    <3>4. AllEnd(g2)
      BY <3>2 DEF AllIn, AllEnd
    <3> QED BY <3>2, <3>3, <3>4, JoinAll
  <2>11. ASSUME b \o g # << >>, (b \o g)[1].type = "RESUME_OK"
         PROVE  Line(Client) # << >> /\ (b \o g)[1] = Line(Client)[1]
    <3>1. \A i \in 1..Len(g) : g[i].type # "RESUME_OK"
      BY <2>8 DEF AllIn
    <3> QED BY <2>6, <2>8, <2>11, <3>1, AlteredFirst
  <2>12. end[Server].transport = c /\ ~wire'[c][Client].ended => b \o g # << >>
    BY <2>3, <2>7, <2>8
  <2> QED BY <1>1, <2>2, <2>3, <2>7, <2>8, <2>9, <2>10, <2>11, <2>12 DEF Answered
<1> QED BY <1>2, <1>3, <1>4, <1>5, <1>6, <1>7, <1>8 DEF IInv

LEMMA LineSame ==
  ASSUME IInv, end' = end, accepted' = accepted, NEW d \in Ends, queue'[d] = queue[d],
         Via(d) # 0 => wire'[Via(d)][d].frames = wire[Via(d)][d].frames
  PROVE  Line(d)' = Line(d)
<1>1. Via(d)' = Via(d)
  BY DEF Via
<1>2. Arriving(d)' = Arriving(d)
  BY <1>1 DEF Arriving
<1> QED BY <1>2 DEF Line

LEMMA SameAltered ==
  ASSUME IInv, NEW d \in Ends, NEW T,
         Line(d)' = Line(d)
  PROVE  Altered(d, T)
<1>1. PICK w \in Seq(ItemSet) : w = Line(d)
  BY StateFacts
<1>2. PICK g \in Seq(ItemSet) : g = << >>
  <2>1. << >> \in Seq(ItemSet)
    OBVIOUS
  <2> QED BY <2>1
<1>3. Cut(w, w) /\ AllIn(g, 1, T) /\ w \o g = w
  <2>1. Len(w) \in Nat
    OBVIOUS
  <2> QED BY <1>2, <2>1, ConcatEmptySeq DEF Cut, AllIn
<1> QED BY <1>1, <1>3 DEF Altered

(***************************************************************************)
(* A frame becomes a task.                                                 *)
(***************************************************************************)
LEMMA QueuedIsWire ==
  ASSUME IInv, NEW e \in Ends, NEW writes, Receive(e, writes), Deferred
  PROVE  WireOf
<1>1. PICK t : t = end[e].transport
  OBVIOUS
<1>2. PICK task : task = [transport |-> t, frame |-> <<Head(wire[t][e].frames)>>]
  OBVIOUS
<1>3. PICK p : p = Peer(e)
  OBVIOUS
<1>4. /\ t # 0 /\ wire[t][e].frames # << >>
      /\ queue' = [queue EXCEPT ![e] = Append(@, task)]
      /\ wire' = Consume(t, e)
      /\ end' = end /\ lastTransport' = lastTransport /\ accepted' = accepted
  BY <1>1, <1>2 DEF Receive
<1>5. /\ Types /\ queue \in [Ends -> Seq(TaskSet)]
      /\ lastTransport \in Nat
  BY DEF IInv, Types
<1>6. /\ p \in Ends /\ p # e /\ \A d \in Ends : d = e \/ d = p
  BY <1>3, PeerFacts
<1>7. /\ t \in 0..lastTransport /\ t \in 0..MaxTransports /\ queue[e] \in Seq(TaskSet)
      /\ \A u \in Transports : wire[u][e] \in StreamSet
      /\ Towards(e)
  BY <1>1, StateFacts
<1>8. t \in Transports
  BY <1>4, <1>7, BoundsAssumption DEF Transports
<1>9. PICK f \in Seq(FrameSet) : f = wire[t][e].frames
  BY <1>7, <1>8, StreamFacts
<1>10. f # << >> /\ Head(f) = f[1] /\ f[1] \in FrameSet
  BY <1>4, <1>9, TailFacts
<1>11. task \in TaskSet /\ task.frame # << >> /\ AsItem(task) = f[1]
  <2>1. task \in TaskSet /\ task.frame = <<f[1]>>
    <3>1. t \in Nat
      BY <1>7
    <3> QED BY <1>2, <1>9, <1>10, <3>1 DEF TaskSet
  <2>2. task.frame # << >> /\ task.frame[1] = f[1]
    BY <2>1
  <2> QED BY <2>1, <2>2, TaskFacts
<1>12. /\ wire' \in [Transports -> [Ends -> StreamSet]]
       /\ \A u \in Transports : \A d \in Ends :
             wire'[u][d].ended = wire[u][d].ended /\ wire'[u][d].frames =
                IF u = t /\ d = e THEN Tail(wire[u][d].frames) ELSE wire[u][d].frames
       /\ \A u \in Transports : \A d \in Ends :
             ~(u = t /\ d = e) => wire'[u][d] = wire[u][d]
  BY <1>4, <1>5, <1>8, ConsumeFacts
<1>13. /\ queue' \in [Ends -> Seq(TaskSet)]
       /\ queue'[e] = Append(queue[e], task) /\ queue'[p] = queue[p]
  <2>1. Append(queue[e], task) \in Seq(TaskSet)
    BY <1>7, <1>11, AppendProperties
  <2> QED BY <1>4, <1>5, <1>6, <2>1
<1>14. ~(e = Server /\ accepted = 0)
  BY <1>1, <1>4, BusyIsSetUp
<1>15. Line(e)' = Line(e)
  <2>1. Via(e) = t /\ Via(e)' = t
    BY <1>1, <1>4, <1>14 DEF Via
  <2>2. Arriving(e) = f /\ Arriving(e)' = Tail(f)
    BY <1>4, <1>8, <1>9, <1>12, <2>1 DEF Arriving
  <2> QED BY <1>7, <1>10, <1>11, <1>13, <2>2, LineMove DEF Line
<1>16. Line(p)' = Line(p)
  <2>1. Via(p) # 0 => Via(p) \in Transports
    BY <1>6, StateFacts, BoundsAssumption DEF Transports
  <2> QED BY <1>4, <1>6, <1>12, <1>13, <2>1, LineSame
<1>17. ASSUME NEW d \in Ends
       PROVE  /\ \A u \in Transports : wire[u][d].ended => wire'[u][d].ended
              /\ Altered(d, IF d = Client THEN {"ERROR", "END"} ELSE {"END"})
              /\ Line(d)' = Line(d)
              /\ end[d].transport # 0 /\ ~wire'[end[d].transport][d].ended =>
                    \A i \in 1..Len(queue'[d]) : queue'[d][i].frame # << >>
  <2>1. Line(d)' = Line(d)
    BY <1>6, <1>15, <1>16
  <2>2. Altered(d, IF d = Client THEN {"ERROR", "END"} ELSE {"END"})
    BY <2>1, SameAltered
  <2>3. end[d].transport # 0 => end[d].transport \in Transports
    BY <1>17, StateFacts, BoundsAssumption DEF Transports
  <2>4. end[d].transport # 0 /\ ~wire[end[d].transport][d].ended =>
                    \A i \in 1..Len(queue[d]) : queue[d][i].frame # << >>
    BY <1>17, StateFacts DEF Towards
  <2>5. (\A i \in 1..Len(queue[d]) : queue[d][i].frame # << >>)
            => \A i \in 1..Len(queue'[d]) : queue'[d][i].frame # << >>
    <3>1. CASE d = p
      BY <1>13, <3>1
    <3>2. CASE d = e
      <4>1. /\ Len(queue'[e]) = Len(queue[e]) + 1 /\ Len(queue[e]) \in Nat
            /\ queue'[e][Len(queue[e]) + 1] = task
            /\ \A i \in 1..Len(queue[e]) : queue'[e][i] = queue[e][i]
        BY <1>7, <1>11, <1>13, AppendProperties
      <4> QED BY <1>11, <3>2, <4>1
    <3> QED BY <1>6, <3>1, <3>2
  <2> QED BY <1>12, <2>1, <2>2, <2>3, <2>4, <2>5
<1>18. ASSUME NEW u \in Transports
       PROVE  /\ u # end[Client].transport => wire'[u][Client].frames = << >>
              /\ u > lastTransport => \A d \in Ends : wire'[u][d] = wire[u][d]
              /\ u # Via(Server) => wire'[u][Server].frames = wire[u][Server].frames
              /\ AllEnd(Line(Client)) => AllEnd(Line(Client)')
  <2>1. Client \in Ends /\ Server \in Ends
    BY DEF Ends
  <2>2. u # end[Client].transport => wire'[u][Client].frames = << >>
    <3>1. u # end[Client].transport => wire[u][Client].frames = << >>
      BY DEF IInv, ClientSide
    <3> QED BY <1>1, <1>12, <2>1, <3>1
  <2>3. u > lastTransport => u # t
    <3>1. u \in Nat
      BY DEF Transports
    <3> QED BY <1>5, <1>7, <3>1
  <2>4. u # Via(Server) => ~(u = t /\ Server = e)
    BY <1>1, <1>14 DEF Via
  <2> QED BY <1>12, <1>17, <2>1, <2>2, <2>3, <2>4
<1>19. accepted = 0 => queue'[Server] = queue[Server] /\ wire'[1][Server] = wire[1][Server]
  <2>1. accepted = 0 => p = Server
    BY <1>3, <1>14, PeerFacts
  <2>2. 1 \in Transports
    BY BoundsAssumption DEF Transports
  <2> QED BY <1>6, <1>12, <1>13, <2>1, <2>2
<1>20. accepted = 0 =>
          /\ queue'[Server] = << >>
          /\ wire'[1][Server].frames # << >> =>
                /\ wire[1][Server].frames # << >>
                /\ wire'[1][Server].frames[1] = wire[1][Server].frames[1]
          /\ wire'[1][Server].frames = << >> /\ lastTransport # 0 => wire'[1][Server].ended
  BY <1>19 DEF IInv, Unset
<1>21. lastTransport # 0
  BY <1>4, <1>5, <1>7
<1> QED BY <1>4, <1>12, <1>13, <1>17, <1>18, <1>20, <1>21 DEF WireOf

(***************************************************************************)
(* The end of a transport becomes a task.                                  *)
(***************************************************************************)
LEMMA EndQueuedIsWire ==
  ASSUME IInv, NEW e \in Ends, ReceiveTerminal(e), Deferred
  PROVE  WireOf
<1>1. PICK t : t = end[e].transport
  OBVIOUS
<1>2. PICK task : task = Terminal(t)
  OBVIOUS
<1>3. PICK p : p = Peer(e)
  OBVIOUS
<1>4. /\ t # 0 /\ wire[t][e] = DeadStream
      /\ queue' = [queue EXCEPT ![e] = Append(@, task)]
      /\ wire' = wire
      /\ end' = end /\ lastTransport' = lastTransport /\ accepted' = accepted
  BY <1>1, <1>2 DEF ReceiveTerminal
<1>5. /\ Types /\ queue \in [Ends -> Seq(TaskSet)]
      /\ lastTransport \in Nat /\ wire \in [Transports -> [Ends -> StreamSet]]
  BY DEF IInv, Types
<1>6. /\ p \in Ends /\ p # e /\ \A d \in Ends : d = e \/ d = p
  BY <1>3, PeerFacts
<1>7. /\ t \in 0..lastTransport /\ t \in 0..MaxTransports /\ queue[e] \in Seq(TaskSet)
  BY <1>1, StateFacts
<1>8. wire[t][e].frames = << >> /\ wire[t][e].ended
  BY <1>4 DEF DeadStream
<1>9. task \in TaskSet /\ task.frame = << >>
  <2>1. t \in Nat
    BY <1>7
  <2> QED BY <1>2, <2>1 DEF Terminal, TaskSet
<1>10. /\ queue' \in [Ends -> Seq(TaskSet)]
       /\ queue'[e] = Append(queue[e], task) /\ queue'[p] = queue[p]
  <2>1. Append(queue[e], task) \in Seq(TaskSet)
    BY <1>7, <1>9, AppendProperties
  <2> QED BY <1>4, <1>5, <1>6, <2>1
<1>11. ~(e = Server /\ accepted = 0)
  BY <1>1, <1>4, BusyIsSetUp
<1>12. PICK w \in Seq(ItemSet) : w = Line(e)
  BY StateFacts
<1>13. PICK g \in Seq(ItemSet) : g = <<EndMark>>
  <2>1. EndMark \in ItemSet
    BY FrameFacts
  <2>2. <<EndMark>> \in Seq(ItemSet)
    BY <2>1
  <2> QED BY <2>2
<1>14. Via(e) = t
  BY <1>1, <1>11 DEF Via
<1>15. Line(e)' = w \o g
  <2>1. Via(e)' = t
    BY <1>1, <1>4, <1>11 DEF Via
  <2>2. Arriving(e) = << >> /\ Arriving(e)' = << >>
    BY <1>4, <1>8, <1>14, <2>1 DEF Arriving
  <2>3. Line(e)' = Append(w, EndMark)
    BY <1>7, <1>9, <1>10, <1>12, <2>2, LineMark DEF Line
  <2>4. Append(w, EndMark) = w \o <<EndMark>>
    BY FrameFacts, AppendIsConcat
  <2> QED BY <1>13, <2>3, <2>4
<1>16. AllIn(g, 1, {"END"}) /\ AllEnd(g) /\ AllIn(g, 1, {"ERROR", "END"}) /\ Cut(w, w)
  <2>1. EndMark.type = "END"
    BY FrameFacts
  <2>2. Len(g) = 1 /\ g[1] = EndMark
    BY <1>13
  <2>3. Len(w) \in Nat
    OBVIOUS
  <2> QED BY <2>1, <2>2, <2>3 DEF AllIn, AllEnd, Cut
<1>17. Line(p)' = Line(p)
  BY <1>4, <1>6, <1>10, LineSame
<1>18. ASSUME NEW d \in Ends
       PROVE  /\ \A u \in Transports : wire[u][d].ended => wire'[u][d].ended
              /\ Altered(d, IF d = Client THEN {"ERROR", "END"} ELSE {"END"})
              /\ Via(d) # 0 /\ ~wire'[Via(d)][d].ended => Line(d)' = Line(d)
              /\ end[d].transport # 0 /\ ~wire'[end[d].transport][d].ended =>
                    \A i \in 1..Len(queue'[d]) : queue'[d][i].frame # << >>
  <2>1. CASE d = p
    <3>1. Altered(d, IF d = Client THEN {"ERROR", "END"} ELSE {"END"})
      BY <1>17, <2>1, SameAltered
    <3>2. end[d].transport # 0 /\ ~wire[end[d].transport][d].ended =>
                    \A i \in 1..Len(queue[d]) : queue[d][i].frame # << >>
      BY <1>18, StateFacts DEF Towards
    <3> QED BY <1>4, <1>10, <1>17, <2>1, <3>1, <3>2
  <2>2. CASE d = e
    <3>1. Altered(d, IF d = Client THEN {"ERROR", "END"} ELSE {"END"})
      BY <1>12, <1>15, <1>16, <2>2 DEF Altered
    <3> QED BY <1>1, <1>4, <1>8, <1>14, <2>2, <3>1
  <2> QED BY <1>6, <2>1, <2>2
<1>19. AllEnd(Line(Client)) => AllEnd(Line(Client)')
  <2>1. AllEnd(w) => AllEnd(w \o g)
    BY <1>16, JoinAll
  <2>2. Client = e \/ Client = p
    BY <1>6 DEF Ends
  <2> QED BY <1>12, <1>15, <1>17, <2>1, <2>2
<1>20. \A u \in Transports : u # end[Client].transport => wire'[u][Client].frames = << >>
  BY <1>4 DEF IInv, ClientSide
<1>21. accepted = 0 =>
          /\ queue'[Server] = << >>
          /\ wire'[1][Server].frames = << >> /\ lastTransport # 0 => wire'[1][Server].ended
  <2>1. accepted = 0 => p = Server
    BY <1>3, <1>11, PeerFacts
  <2> QED BY <1>4, <1>10, <2>1 DEF IInv, Unset
<1>22. lastTransport # 0
  BY <1>4, <1>5, <1>7
<1> QED BY <1>4, <1>5, <1>10, <1>18, <1>19, <1>20, <1>21, <1>22 DEF WireOf

LEMMA FrontFacts ==
  ASSUME NEW f \in Seq(FrameSet), NEW k \in 0..Len(f), NEW h, h = SubSeq(f, 1, k)
  PROVE  h \in Seq(FrameSet) /\ Len(h) = k /\ Cut(h, f)
<1>1. Len(f) \in Nat /\ k \in Nat /\ k <= Len(f)
  OBVIOUS
<1>2. \A i \in 1..k : f[i] \in FrameSet
  BY <1>1
<1>3. h \in Seq(FrameSet) /\ Len(h) = k /\ \A i \in 1..k : h[i] = f[i]
  BY <1>1, <1>2, SubSeqProperties
<1> QED BY <1>1, <1>3 DEF Cut

LEMMA StreamRecord ==
  ASSUME NEW f \in Seq(FrameSet)
  PROVE  \E r \in StreamSet : r = [frames |-> f, ended |-> TRUE] /\ r.frames = f /\ r.ended
<1>1. PICK r : r = [frames |-> f, ended |-> TRUE]
  OBVIOUS
<1>2. r \in StreamSet /\ r.frames = f /\ r.ended
  BY <1>1 DEF StreamSet
<1> QED BY <1>1, <1>2

LEMMA CutAltered ==
  ASSUME IInv, end' = end, accepted' = accepted, NEW d \in Ends, queue'[d] = queue[d],
         NEW h \in Seq(FrameSet), Via(d) # 0, wire'[Via(d)][d].frames = h,
         Cut(h, wire[Via(d)][d].frames), NEW T
  PROVE  Altered(d, T) /\ (AllEnd(Line(d)) => AllEnd(Line(d)'))
<1>1. Via(d)' = Via(d)
  BY DEF Via
<1>2. /\ queue[d] \in Seq(TaskSet) /\ Arriving(d) \in Seq(FrameSet)
      /\ Line(d) \in Seq(ItemSet)
  BY StateFacts
<1>3. Arriving(d)' = h /\ Arriving(d) = wire[Via(d)][d].frames
  BY <1>1 DEF Arriving
<1>4. PICK b \in Seq(ItemSet) : b = Along(queue[d], h)
  BY <1>2, LineSeq
<1>5. Line(d)' = b
  BY <1>3, <1>4 DEF Line
<1>6. Cut(b, Line(d))
  BY <1>2, <1>3, <1>4, LineCut DEF Line
<1>7. PICK g \in Seq(ItemSet) : g = << >>
  <2>1. << >> \in Seq(ItemSet)
    OBVIOUS
  <2> QED BY <2>1
<1>8. b \o g = b /\ AllIn(g, 1, T)
  BY <1>7, ConcatEmptySeq DEF AllIn
<1>9. Altered(d, T)
  BY <1>5, <1>6, <1>8 DEF Altered
<1> QED BY <1>2, <1>5, <1>6, <1>9, CutAll

LEMMA TransportFailsIsWire ==
  ASSUME IInv, NEW t \in Transports, TransportFails(t)
  PROVE  WireOf
<1>1. PICK c \in 0..Len(wire[t][Client].frames), s \in 0..Len(wire[t][Server].frames) :
          wire' = [wire EXCEPT
                     ![t][Client] = [frames |-> SubSeq(@.frames, 1, c), ended |-> TRUE],
                     ![t][Server] = [frames |-> SubSeq(@.frames, 1, s), ended |-> TRUE]]
  BY DEF TransportFails
<1>2. /\ end' = end /\ queue' = queue /\ lastTransport' = lastTransport
      /\ accepted' = accepted /\ t <= lastTransport
  BY DEF TransportFails
<1>3. /\ wire \in [Transports -> [Ends -> StreamSet]]
      /\ queue \in [Ends -> Seq(TaskSet)] /\ lastTransport \in Nat
  BY DEF IInv, Types
<1>4. Client \in Ends /\ Server \in Ends /\ Client # Server /\ Ends = {Client, Server}
  BY BoundsAssumption DEF Ends
<1>5. \A d \in Ends : wire[t][d].frames \in Seq(FrameSet)
  BY <1>3, StreamFacts
<1>6. PICK hc \in Seq(FrameSet) : /\ hc = SubSeq(wire[t][Client].frames, 1, c)
                                  /\ Len(hc) = c /\ Cut(hc, wire[t][Client].frames)
  BY <1>4, <1>5, FrontFacts
<1>7. PICK hs \in Seq(FrameSet) : /\ hs = SubSeq(wire[t][Server].frames, 1, s)
                                  /\ Len(hs) = s /\ Cut(hs, wire[t][Server].frames)
  BY <1>4, <1>5, FrontFacts
<1>8. PICK rc \in StreamSet : rc = [frames |-> hc, ended |-> TRUE] /\ rc.frames = hc /\ rc.ended
  BY StreamRecord
<1>9. PICK rs \in StreamSet : rs = [frames |-> hs, ended |-> TRUE] /\ rs.frames = hs /\ rs.ended
  BY StreamRecord
<1>10. /\ wire' \in [Transports -> [Ends -> StreamSet]]
       /\ wire'[t][Client] = rc /\ wire'[t][Server] = rs
       /\ \A u \in Transports : u # t => wire'[u] = wire[u]
  <2>1. wire' = [wire EXCEPT ![t][Client] = rc, ![t][Server] = rs]
    BY <1>1, <1>4, <1>6, <1>7, <1>8, <1>9
  <2> QED BY <1>3, <1>4, <2>1
<1>11. ASSUME NEW d \in Ends
       PROVE  /\ wire'[t][d].ended
              /\ \E h \in Seq(FrameSet) : wire'[t][d].frames = h /\ Cut(h, wire[t][d].frames)
  BY <1>4, <1>6, <1>7, <1>8, <1>9, <1>10
<1>12. ASSUME NEW d \in Ends, NEW T
       PROVE  /\ Altered(d, T)
              /\ AllEnd(Line(d)) => AllEnd(Line(d)')
              /\ Via(d) # t => Line(d)' = Line(d)
  <2>1. CASE Via(d) = t
    <3>1. t # 0
      BY DEF Transports
    <3>2. PICK h \in Seq(FrameSet) : wire'[t][d].frames = h /\ Cut(h, wire[t][d].frames)
      BY <1>11
    <3> QED BY <1>2, <2>1, <3>1, <3>2, CutAltered
  <2>2. CASE Via(d) # t
    <3>1. Via(d) # 0 => Via(d) \in Transports
      BY <1>12, StateFacts, BoundsAssumption DEF Transports
    <3>2. Line(d)' = Line(d)
      BY <1>2, <1>10, <2>2, <3>1, LineSame
    <3> QED BY <3>2, SameAltered
  <2> QED BY <2>1, <2>2
<1>13. ASSUME NEW d \in Ends
       PROVE  /\ \A u \in Transports : wire[u][d].ended => wire'[u][d].ended
              /\ Altered(d, IF d = Client THEN {"ERROR", "END"} ELSE {"END"})
              /\ Via(d) # 0 /\ ~wire'[Via(d)][d].ended => Line(d)' = Line(d)
              /\ ~Deferred => queue'[d] = << >>
              /\ end[d].transport # 0 /\ ~wire'[end[d].transport][d].ended =>
                    \A i \in 1..Len(queue'[d]) : queue'[d][i].frame # << >>
  <2>1. end[d].transport # 0 => end[d].transport \in Transports
    BY <1>13, StateFacts, BoundsAssumption DEF Transports
  <2>2. /\ ~Deferred => queue[d] = << >>
        /\ end[d].transport # 0 /\ ~wire[end[d].transport][d].ended =>
              \A i \in 1..Len(queue[d]) : queue[d][i].frame # << >>
    BY <1>13, StateFacts DEF Towards
  <2>3. \A u \in Transports : wire[u][d].ended => wire'[u][d].ended
    BY <1>10, <1>11
  <2>4. Altered(d, IF d = Client THEN {"ERROR", "END"} ELSE {"END"})
    BY <1>12
  <2>5. Via(d) # 0 /\ ~wire'[Via(d)][d].ended => Line(d)' = Line(d)
    BY <1>11, <1>12
  <2> QED BY <1>2, <2>1, <2>2, <2>3, <2>4, <2>5
<1>14. ASSUME NEW u \in Transports
       PROVE  /\ u # end[Client].transport => wire'[u][Client].frames = << >>
              /\ u > lastTransport => \A d \in Ends : wire'[u][d] = wire[u][d]
              /\ u # Via(Server) =>
                   \/ wire'[u][Server].frames = << >>
                   \/ wire'[u][Server].frames = wire[u][Server].frames
  <2>1. u # end[Client].transport => wire[u][Client].frames = << >>
    BY DEF IInv, ClientSide
  <2>2. u # end[Client].transport => wire'[u][Client].frames = << >>
    <3>1. CASE u = t /\ u # end[Client].transport
      <4>1. c = 0
        BY <2>1, <3>1
      <4>2. hc = << >>
        BY <1>6, <4>1, EmptySeq
      <4> QED BY <1>8, <1>10, <3>1, <4>2
    <3> QED BY <1>10, <2>1, <3>1
  <2>3. u > lastTransport => u # t
    BY <1>2, <1>3 DEF Transports
  <2>4. u # Via(Server) =>
           \/ wire'[u][Server].frames = << >>
           \/ wire'[u][Server].frames = wire[u][Server].frames
    <3>1. CASE u # Via(Server) /\ u = t
      <4>1. wire[t][Server].frames = << >> \/ Len(wire[t][Server].frames) = 1
        <5>1. Asked(u)
          BY <3>1 DEF IInv, ServerSide
        <5> QED BY <3>1, <5>1 DEF Asked
      <4>2. Len(wire[t][Server].frames) \in {0, 1}
        BY <4>1
      <4>3. CASE s = 0
        <5>1. hs = << >>
          BY <1>7, <4>3, EmptySeq
        <5> QED BY <1>9, <1>10, <3>1, <5>1
      <4>4. CASE s = Len(wire[t][Server].frames)
        <5>1. hs = wire[t][Server].frames
          BY <1>4, <1>5, <1>7, <4>4, SubSeqFull
        <5> QED BY <1>9, <1>10, <3>1, <5>1
      <4>5. s = 0 \/ s = Len(wire[t][Server].frames)
        <5>1. PICK n \in {0, 1} : n = Len(wire[t][Server].frames)
          BY <4>2
        <5>2. s \in 0..n
          BY <5>1
        <5>3. n = 0 \/ n = 1
          OBVIOUS
        <5>4. s = 0 \/ s = n
          BY ONLY <5>2, <5>3
        <5> QED BY <5>1, <5>4
      <4> QED BY <4>3, <4>4, <4>5
    <3> QED BY <1>10, <3>1
  <2> QED BY <1>10, <2>2, <2>3, <2>4
<1>15. AllEnd(Line(Client)) => AllEnd(Line(Client)')
  BY <1>4, <1>12
<1>16. accepted = 0 =>
          /\ queue'[Server] = << >>
          /\ wire'[1][Server].frames # << >> =>
                /\ wire[1][Server].frames # << >>
                /\ wire'[1][Server].frames[1] = wire[1][Server].frames[1]
          /\ wire'[1][Server].frames = << >> /\ lastTransport # 0 => wire'[1][Server].ended
  <2>1. SUFFICES ASSUME accepted = 0
        PROVE  /\ queue'[Server] = << >>
               /\ wire'[1][Server].frames # << >> =>
                     /\ wire[1][Server].frames # << >>
                     /\ wire'[1][Server].frames[1] = wire[1][Server].frames[1]
               /\ wire'[1][Server].frames = << >> /\ lastTransport # 0 => wire'[1][Server].ended
    OBVIOUS
  <2>2. /\ queue[Server] = << >>
        /\ wire[1][Server].frames = << >> /\ lastTransport # 0 => wire[1][Server].ended
    BY <2>1 DEF IInv, Unset
  <2>3. 1 \in Transports
    BY BoundsAssumption DEF Transports
  <2>4. CASE t = 1
    <3>1. PICK f \in Seq(FrameSet) : f = wire[1][Server].frames
      BY <1>4, <1>5, <2>4
    <3>2. hs # << >> => f # << >> /\ hs[1] = f[1]
      <4>1. SUFFICES ASSUME hs # << >> PROVE f # << >> /\ hs[1] = f[1]
        OBVIOUS
      <4>2. Len(hs) \in Nat /\ Len(hs) >= 1 /\ Len(f) \in Nat
        BY <4>1, TailFacts
      <4>3. Len(hs) <= Len(f) /\ \A i \in 1..Len(hs) : hs[i] = f[i]
        BY <1>7, <2>4, <3>1 DEF Cut
      <4>4. f # << >>
        BY <4>2, <4>3
      <4> QED BY <4>2, <4>3, <4>4
    <3> QED BY <1>2, <1>9, <1>10, <2>2, <2>4, <3>1, <3>2
  <2>5. CASE t # 1
    BY <1>2, <1>10, <2>2, <2>3, <2>5
  <2> QED BY <2>4, <2>5
<1>17. lastTransport = 0 => queue'[Client] = << >>
  BY <1>2 DEF IInv, Unopened
<1> QED BY <1>2, <1>3, <1>10, <1>13, <1>14, <1>15, <1>16, <1>17 DEF WireOf

(***************************************************************************)
(* There is no socket to resume: the client gets an ERROR frame.           *)
(***************************************************************************)
LEMMA RefusedFacts ==
  ASSUME NEW x \in EndSet, x.out = << >>, NEW f \in FrameSet,
         NEW z, z = [x EXCEPT !.out = <<f>>]
  PROVE  /\ z \in EndSet /\ z.out = <<f>> /\ z.transport = x.transport
         /\ Settled(z) = x
<1>1. <<f>> \in Seq(FrameSet)
  OBVIOUS
<1> QED BY <1>1 DEF EndSet, Settled

LEMMA RefuseResumeIsWire ==
  ASSUME IInv, NEW t \in Transports, RefuseResume(t)
  PROVE  WireOf
<1>1. PICK x : x = end[Server]
  OBVIOUS
<1>2. PICK z : z = [x EXCEPT !.out = <<ErrorFrame>>]
  OBVIOUS
<1>3. /\ x.transport # t /\ wire[t][Server].frames # << >>
      /\ Head(wire[t][Server].frames).type = "RESUME"
      /\ ~IsOpen(Server)
      /\ Commit(Server, z, t, wire)
      /\ queue' = queue /\ lastTransport' = lastTransport /\ accepted' = accepted
  BY <1>1, <1>2 DEF RefuseResume, FirstFrame
<1>4. /\ Types /\ wire \in [Transports -> [Ends -> StreamSet]]
      /\ end \in [Ends -> EndSet]
      /\ queue \in [Ends -> Seq(TaskSet)] /\ lastTransport \in Nat
  BY DEF IInv, Types
<1>5. /\ Client \in Ends /\ Server \in Ends /\ Client # Server
      /\ Peer(Server) = Client /\ \A d \in Ends : d = Client \/ d = Server
  BY PeerFacts DEF Ends
<1>6. ErrorFrame \in FrameSet /\ ErrorFrame.type = "ERROR"
  BY FrameFacts
<1>7. x \in EndSet /\ x.out = << >> /\ Shape(Server, x)
  BY <1>1, <1>5, StateFacts
<1>8. z \in EndSet /\ z.out = <<ErrorFrame>> /\ z.transport = x.transport /\ Settled(z) = x
  BY <1>2, <1>6, <1>7, RefusedFacts
<1>9. \A u \in Transports : Left(Server, z, t, u) <=> u = t
  BY <1>1, <1>3, <1>8 DEF Left, Transports
<1>10. /\ end' \in [Ends -> EndSet] /\ end'[Server] = x /\ end'[Client] = end[Client]
       /\ wire' \in [Transports -> [Ends -> StreamSet]]
       /\ \A u \in Transports :
             /\ wire'[u][Server] = IF u = t THEN DeadStream ELSE wire[u][Server]
             /\ wire'[u][Client].ended <=> u = t \/ wire[u][Client].ended
             /\ wire'[u][Client].frames = IF u = t /\ ~wire[u][Client].ended
                                          THEN wire[u][Client].frames \o <<ErrorFrame>>
                                          ELSE wire[u][Client].frames
  <2>1. PICK e \in Ends : e = Server
    BY <1>5
  <2>2. PICK p : p = Client
    OBVIOUS
  <2>3. PICK streams \in [Transports -> [Ends -> StreamSet]] : streams = wire
    BY <1>4
  <2>4. /\ Types /\ e \in Ends /\ p = Peer(e) /\ z \in EndSet
        /\ streams \in [Transports -> [Ends -> StreamSet]] /\ Commit(e, z, t, streams)
    BY <1>3, <1>4, <1>5, <1>8, <2>1, <2>2, <2>3
  <2>5. /\ end' \in [Ends -> EndSet] /\ end'[e] = Settled(z) /\ end'[p] = end[p]
        /\ wire' \in [Transports -> [Ends -> StreamSet]]
        /\ \A u \in Transports :
               /\ wire'[u][e] = IF Left(e, z, t, u) THEN DeadStream ELSE streams[u][e]
               /\ wire'[u][p].ended <=> Left(e, z, t, u) \/ streams[u][p].ended
               /\ wire'[u][p].frames = IF u = t /\ ~streams[u][p].ended
                                       THEN streams[u][p].frames \o z.out
                                       ELSE streams[u][p].frames
    BY ONLY <2>4, CommitFacts
  <2> QED BY <1>8, <1>9, <2>1, <2>2, <2>3, <2>5
<1>11. end' = end
  BY <1>1, <1>4, <1>5, <1>10
<1>12. DeadStream.frames = << >> /\ DeadStream.ended
  BY DEF DeadStream
<1>13. t <= lastTransport
  <2>1. t > lastTransport => wire[t][Server].frames = << >>
    BY DEF IInv, ClientSide
  <2> QED BY <1>3, <1>4, <2>1 DEF Transports
<1>14. t # Via(Server)
  <2>1. CASE accepted = 0
    <3>1. wire[1][Server].frames # << >> => wire[1][Server].frames[1].type = "SETUP"
      BY <2>1 DEF IInv, Unset
    <3>2. ASSUME t = 1 PROVE FALSE
      <4>1. PICK f \in Seq(FrameSet) : f = wire[1][Server].frames
        BY <1>4, <1>5, <3>2, StreamFacts
      <4>2. Head(f) = f[1]
        BY <1>3, <3>2, <4>1, TailFacts
      <4> QED BY <1>3, <3>1, <3>2, <4>1, <4>2
    <3> QED BY <2>1, <3>2 DEF Via
  <2>2. CASE accepted # 0
    BY <1>1, <1>3, <2>2 DEF Via
  <2> QED BY <2>1, <2>2
<1>15. Line(Server)' = Line(Server)
  <2>1. Via(Server) # 0 => Via(Server) \in Transports
    BY <1>5, StateFacts, BoundsAssumption DEF Transports
  <2> QED BY <1>3, <1>5, <1>10, <1>11, <1>14, <2>1, LineSame
<1>16. PICK w \in Seq(ItemSet) : w = Line(Client)
  BY <1>5, StateFacts
<1>17. PICK g \in Seq(ItemSet) : g = <<ErrorFrame>>
  <2>1. ErrorFrame \in ItemSet
    BY <1>6, FrameIsItem
  <2>2. <<ErrorFrame>> \in Seq(ItemSet)
    BY <2>1
  <2> QED BY <2>2
<1>18. PICK c : c = end[Client].transport
  OBVIOUS
<1>19. Via(Client) = c /\ Via(Client)' = c /\ c \in 0..MaxTransports
  BY <1>5, <1>11, <1>18, StateFacts DEF Via
<1>20. /\ Altered(Client, {"ERROR", "END"})
       /\ c # t \/ wire[t][Client].ended => Line(Client)' = Line(Client)
  <2>1. CASE c = t /\ ~wire[t][Client].ended
    <3>1. PICK f \in Seq(FrameSet) : f = wire[t][Client].frames
      BY <1>4, <1>5, StreamFacts
    <3>2. PICK h \in Seq(FrameSet) : h = <<ErrorFrame>>
      <4>1. <<ErrorFrame>> \in Seq(FrameSet)
        BY <1>6
      <4> QED BY <4>1
    <3>3. t # 0
      BY DEF Transports
    <3>4. Arriving(Client) = f /\ Arriving(Client)' = f \o h
      BY <1>10, <1>19, <2>1, <3>1, <3>2, <3>3 DEF Arriving
    <3>5. queue[Client] \in Seq(TaskSet) /\ queue'[Client] = queue[Client]
      BY <1>3, <1>4, <1>5
    <3>6. Line(Client)' = w \o g
      BY <1>16, <1>17, <3>2, <3>4, <3>5, LineLonger DEF Line
    <3>7. Cut(w, Line(Client)) /\ AllIn(g, 1, {"ERROR", "END"})
      <4>1. Len(w) \in Nat /\ Len(g) = 1 /\ g[1] = ErrorFrame
        BY <1>17
      <4> QED BY <1>6, <1>16, <4>1 DEF Cut, AllIn
    <3> QED BY <2>1, <3>6, <3>7 DEF Altered
  <2>2. CASE c # t \/ wire[t][Client].ended
    <3>1. c # 0 => c \in Transports
      BY <1>19, BoundsAssumption DEF Transports
    <3>2. Line(Client)' = Line(Client)
      BY <1>3, <1>5, <1>10, <1>11, <1>19, <2>2, <3>1, LineSame
    <3> QED BY <1>5, <3>2, SameAltered
  <2> QED BY <2>1, <2>2
<1>21. ASSUME NEW d \in Ends
       PROVE  /\ \A u \in Transports : wire[u][d].ended => wire'[u][d].ended
              /\ Altered(d, IF d = Client THEN {"ERROR", "END"} ELSE {"END"})
              /\ Via(d) # 0 /\ ~wire'[Via(d)][d].ended => Line(d)' = Line(d)
              /\ ~Deferred => queue'[d] = << >>
              /\ end[d].transport # 0 /\ ~wire'[end[d].transport][d].ended =>
                    \A i \in 1..Len(queue'[d]) : queue'[d][i].frame # << >>
  <2>1. /\ ~Deferred => queue[d] = << >>
        /\ end[d].transport # 0 /\ ~wire[end[d].transport][d].ended =>
              \A i \in 1..Len(queue[d]) : queue[d][i].frame # << >>
    BY <1>21, StateFacts DEF Towards
  <2>2. end[d].transport # 0 => end[d].transport \in Transports
    BY <1>21, StateFacts, BoundsAssumption DEF Transports
  <2>3. \A u \in Transports : wire[u][d].ended => wire'[u][d].ended
    BY <1>5, <1>10, <1>12
  <2>4. CASE d = Server
    BY <1>3, <1>5, <1>15, <2>1, <2>2, <2>3, <2>4, SameAltered
  <2>5. CASE d = Client
    <3>1. c # 0 => c \in Transports
      BY <1>19, BoundsAssumption DEF Transports
    <3>2. c # 0 /\ ~wire'[c][d].ended => c # t
      BY <1>10, <2>5, <3>1
    <3> QED BY <1>3, <1>19, <1>20, <2>1, <2>2, <2>3, <2>5, <3>2
  <2> QED BY <1>5, <2>4, <2>5
<1>22. ASSUME NEW u \in Transports
       PROVE  /\ u # end[Client].transport => wire'[u][Client].frames = << >>
              /\ u > lastTransport => \A d \in Ends : wire'[u][d] = wire[u][d]
              /\ u # Via(Server) =>
                   \/ wire'[u][Server].frames = << >>
                   \/ /\ wire'[u][Server].frames = wire[u][Server].frames
                      /\ u = end[Client].transport /\ AllEnd(Line(Client))
                             => AllEnd(Line(Client)')
  <2>1. /\ u # c => wire[u][Client].frames = << >>
        /\ u # c /\ u <= lastTransport => wire[u][Client].ended
    BY <1>18 DEF IInv, ClientSide
  <2>2. u # c => wire'[u][Client].frames = << >>
    BY <1>10, <1>13, <2>1
  <2>3. u > lastTransport => u # t
    BY <1>4, <1>13 DEF Transports
  <2>4. u # t => wire'[u][Client] = wire[u][Client]
    <3>1. SUFFICES ASSUME u # t PROVE wire'[u][Client] = wire[u][Client]
      OBVIOUS
    <3>2. wire'[u][Client] \in StreamSet /\ wire[u][Client] \in StreamSet
      BY <1>4, <1>5, <1>10
    <3>3. /\ wire'[u][Client].frames = wire[u][Client].frames
          /\ wire'[u][Client].ended <=> wire[u][Client].ended
      BY <1>10, <3>1
    <3> QED BY <3>2, <3>3 DEF StreamSet
  <2>5. u # t /\ u = c => Line(Client)' = Line(Client)
    BY <1>20
  <2> QED BY <1>5, <1>10, <1>12, <1>18, <2>2, <2>3, <2>4, <2>5
<1>23. accepted = 0 =>
          /\ queue'[Server] = << >>
          /\ wire'[1][Server].frames # << >> =>
                /\ wire[1][Server].frames # << >>
                /\ wire'[1][Server].frames[1] = wire[1][Server].frames[1]
          /\ wire'[1][Server].frames = << >> /\ lastTransport # 0 => wire'[1][Server].ended
  <2>1. 1 \in Transports
    BY BoundsAssumption DEF Transports
  <2>2. accepted = 0 => wire'[1][Server] = wire[1][Server]
    BY <1>10, <1>14, <2>1 DEF Via
  <2> QED BY <1>3, <2>2 DEF IInv, Unset
<1>24. lastTransport = 0 => queue'[Client] = << >>
  BY <1>3 DEF IInv, Unopened
<1> QED BY <1>3, <1>4, <1>10, <1>11, <1>21, <1>22, <1>23, <1>24 DEF WireOf

-----------------------------------------------------------------------------
(* Attaching to a transport                                                *)

(***************************************************************************)
(* x on transport t, with out to output.                                   *)
(***************************************************************************)
Attached(x, t, out) == [x EXCEPT !.transport = t, !.out = out]

LEMMA AttachedFacts ==
  ASSUME NEW x \in EndSet, NEW t \in Nat, NEW out \in Seq(FrameSet), NEW z,
         z = Attached(x, t, out)
  PROVE  /\ z \in EndSet /\ z.transport = t /\ z.out = out
         /\ z.closed = x.closed /\ z.resuming = x.resuming /\ z.awaiting = x.awaiting
         /\ z.cache = x.cache /\ z.pending = x.pending
         /\ z.written = x.written /\ z.delivered = x.delivered
         /\ Local(x) => Local(z)
<1>1. /\ z \in EndSet /\ z.transport = t /\ z.out = out
      /\ z.closed = x.closed /\ z.resuming = x.resuming /\ z.awaiting = x.awaiting
      /\ z.cache = x.cache /\ z.pending = x.pending
      /\ z.written = x.written /\ z.delivered = x.delivered
  BY DEF EndSet, Attached
<1> QED BY <1>1 DEF Local

(***************************************************************************)
(* Connecting, with what is pending.                                       *)
(***************************************************************************)
LEMMA ConnectFacts ==
  ASSUME Orderly, NEW x \in EndSet, NEW out \in Seq(FrameSet), NEW t \in Nat \ {0},
         NEW writes, NEW z, z = Connect([x EXCEPT !.out = out], t, TRUE, writes)
  PROVE  z = SendPending(Attached(x, t, out))
<1>1. PICK y : y = [[x EXCEPT !.out = out] EXCEPT !.transport = t]
  OBVIOUS
<1>2. y = Attached(x, t, out)
  BY <1>1 DEF EndSet, Attached
<1>3. Callback(y, "connected", writes) = y
  BY CallbackIdle
<1>4. z = SendPending(Callback(y, "connected", writes))
  BY <1>1 DEF Connect
<1> QED BY <1>2, <1>3, <1>4

LEMMA ConnectedFacts ==
  ASSUME NEW x \in EndSet, Local(x), Shape(Client, x) \/ Shape(Server, x), ~x.closed,
         x.transport = 0,
         NEW out \in Seq(FrameSet), NEW t \in Nat \ {0}, NEW n \in Nat, Retains(x.cache, n),
         NEW z, z = SendPending(Attached(x, t, out))
  PROVE  /\ z \in EndSet /\ Local(z) /\ z.transport = t
         /\ ~z.closed /\ ~z.resuming /\ ~z.awaiting /\ z.pending = << >>
         /\ z.written = x.written /\ z.delivered = x.delivered
         /\ z.out = out \o x.pending
         /\ Flow(x.pending, x.cache.position, z.cache.position)
         /\ Retains(z.cache, n)
<1>1. PICK y : y = Attached(x, t, out)
  OBVIOUS
<1>2. /\ y \in EndSet /\ y.transport = t /\ y.out = out
      /\ y.closed = x.closed /\ y.resuming = x.resuming /\ y.awaiting = x.awaiting
      /\ y.cache = x.cache /\ y.pending = x.pending
      /\ y.written = x.written /\ y.delivered = x.delivered
      /\ Local(y)
  BY <1>1, AttachedFacts
<1>3. ~x.resuming /\ ~x.awaiting
  BY DEF Shape
<1>4. Passes(y, z, y.pending, n) /\ Flow(y.pending, y.cache.position, z.cache.position)
  BY <1>1, <1>2, <1>3, PendingPasses
<1> QED BY <1>2, <1>3, <1>4 DEF Passes

(***************************************************************************)
(* A commit, as CommitFacts says, with names for what it is about.         *)
(***************************************************************************)
CommitIs(e, p, z, t, streams) ==
    /\ end' \in [Ends -> EndSet] /\ end'[e] = Settled(z) /\ end'[p] = end[p]
    /\ wire' \in [Transports -> [Ends -> StreamSet]]
    /\ \A u \in Transports :
          /\ wire'[u][e] = IF Left(e, z, t, u) THEN DeadStream ELSE streams[u][e]
          /\ wire'[u][p].ended <=> Left(e, z, t, u) \/ streams[u][p].ended
          /\ wire'[u][p].frames = IF u = t /\ ~streams[u][p].ended
                                  THEN streams[u][p].frames \o z.out
                                  ELSE streams[u][p].frames

LEMMA CommitGives ==
  ASSUME NEW e, NEW p, NEW z, NEW t, NEW streams,
         /\ Types /\ e \in Ends /\ p = Peer(e) /\ z \in EndSet
         /\ streams \in [Transports -> [Ends -> StreamSet]]
         /\ Commit(e, z, t, streams)
  PROVE  CommitIs(e, p, z, t, streams)
<1>1. /\ end' \in [Ends -> EndSet] /\ end'[e] = Settled(z) /\ end'[p] = end[p]
      /\ wire' \in [Transports -> [Ends -> StreamSet]]
      /\ \A u \in Transports :
            /\ wire'[u][e] = IF Left(e, z, t, u) THEN DeadStream ELSE streams[u][e]
            /\ wire'[u][p].ended <=> Left(e, z, t, u) \/ streams[u][p].ended
            /\ wire'[u][p].frames = IF u = t /\ ~streams[u][p].ended
                                    THEN streams[u][p].frames \o z.out
                                    ELSE streams[u][p].frames
  BY CommitFacts
<1> QED BY <1>1 DEF CommitIs

LEMMA NewEndFacts ==
  /\ NewEnd.transport = 0 /\ ~NewEnd.closed /\ ~NewEnd.resuming /\ ~NewEnd.awaiting
  /\ NewEnd.cache.position = 0 /\ NewEnd.pending = << >> /\ NewEnd.out = << >>
  /\ NewEnd.written = 0 /\ NewEnd.delivered = << >>
  BY DEF NewEnd, NewCache

LEMMA FlowNothing ==
  ASSUME NEW r, NEW m, Flow(<< >>, r, m)
  PROVE  r = m
  BY DEF Flow

LEMMA ClientConnectKeeps ==
  ASSUME Orderly, IInv, NEW writes, ClientConnect(writes)
  PROVE  IInv'
<1>1. PICK x : x = end[Client]
  OBVIOUS
<1>2. PICK y : y = end[Server]
  OBVIOUS
<1>3. PICK out \in Seq(FrameSet) : out = <<SetupFrame>>
  <2>1. <<SetupFrame>> \in Seq(FrameSet)
    BY FrameFacts
  <2> QED BY <2>1
<1>4. PICK z : z = Connect([x EXCEPT !.out = out], 1, TRUE, writes)
  OBVIOUS
<1>5. /\ ~x.closed /\ lastTransport = 0 /\ lastTransport' = 1
      /\ Commit(Client, z, 1, wire)
      /\ queue' = queue /\ accepted' = accepted
  BY <1>1, <1>3, <1>4 DEF ClientConnect, IsOpen
<1>6. /\ Types /\ wire \in [Transports -> [Ends -> StreamSet]]
      /\ queue \in [Ends -> Seq(TaskSet)] /\ accepted = 0
  BY <1>5 DEF IInv, Types
<1>7. /\ Client \in Ends /\ Server \in Ends /\ Client # Server
      /\ Peer(Client) = Server /\ Peer(Server) = Client
      /\ \A d \in Ends : d = Client \/ d = Server
  BY PeerFacts DEF Ends
<1>8. /\ x \in EndSet /\ Local(x) /\ Shape(Client, x) /\ x.transport = 0
      /\ Line(Client) \in Seq(ItemSet) /\ Towards(Client)
  BY <1>1, <1>5, <1>7, StateFacts
<1>9. y \in EndSet /\ Shape(Server, y) /\ y.out = << >> /\ Local(y) /\ Towards(Server)
  BY <1>2, <1>7, StateFacts
<1>10. y = NewEnd /\ queue[Server] = << >>
  BY <1>2, <1>6 DEF IInv, Unset
<1>11. queue[Client] = << >> /\ x.cache.position = 0
  BY <1>1, <1>5 DEF IInv, Unopened
<1>12. y.transport = 0 /\ ~y.closed /\ y.delivered = << >> /\ y.cache.position = 0
  BY <1>10, NewEndFacts
<1>13. PICK n \in Nat : n = Len(y.delivered)
  BY <1>9, EndFacts
<1>14. n = 0
  BY <1>12, <1>13
<1>15. Fed(x, y, Line(Client), Sends(y, Client)) /\ Fed(y, x, Line(Server), Sends(x, Server))
  BY <1>1, <1>2, <1>7, <1>8, <1>9 DEF Towards
<1>16. Retains(x.cache, n)
  BY <1>5, <1>13, <1>15 DEF Fed
<1>17. /\ z \in EndSet /\ Local(z) /\ z.transport = 1
       /\ ~z.closed /\ ~z.resuming /\ ~z.awaiting /\ z.pending = << >>
       /\ z.written = x.written /\ z.delivered = x.delivered
       /\ z.out = out \o x.pending
       /\ Flow(x.pending, x.cache.position, z.cache.position)
       /\ Retains(z.cache, n)
  <2>1. 1 \in Nat \ {0}
    OBVIOUS
  <2>2. z = SendPending(Attached(x, 1, out))
    BY <1>4, <1>8, <2>1, ConnectFacts
  <2> QED BY <1>5, <1>8, <1>16, <2>1, <2>2, ConnectedFacts
<1>18. Shape(Client, z)
  BY <1>17 DEF Shape
<1>19. PICK s : s = Settled(z)
  OBVIOUS
<1>20. /\ s \in EndSet /\ s.out = << >>
       /\ s.transport = 1 /\ ~s.closed /\ ~s.resuming
       /\ s.cache = z.cache /\ s.written = x.written /\ s.delivered = x.delivered
       /\ Shape(Client, s) /\ Local(s)
  BY <1>17, <1>18, <1>19, SettledFacts
<1>21. PICK g \in Seq(FrameSet) : g = z.out
  BY <1>17, EndFacts
<1>22. /\ g \in Seq(ItemSet) /\ g # << >> /\ g[1] = SetupFrame
       /\ AllIn(g, 2, Told(Server)) /\ Acks(g, Len(s.delivered))
       /\ Flow(g, 0, s.cache.position)
  <2>1. /\ x.pending \in Seq(ItemSet) /\ x.pending \in Seq(FrameSet)
        /\ Len(x.delivered) \in Nat /\ z.cache.position \in Nat
    BY <1>8, <1>17, EndFacts
  <2>2. out \in Seq(ItemSet) /\ g = out \o x.pending
    BY <1>17, <1>21, FrameIsItem
  <2>3. /\ AllIn(x.pending, 1, {"PAYLOAD", "KEEPALIVE"})
        /\ Acks(x.pending, Len(x.delivered))
    BY <1>5, <1>8, LocalOpen
  <2>4. SetupFrame.type = "SETUP" /\ SetupFrame.stream = 0
    BY FrameFacts
  <2>5. Len(out) = 1 /\ out[1] = SetupFrame /\ out # << >>
    BY <1>3
  <2>6. g \in Seq(ItemSet) /\ g # << >> /\ g[1] = SetupFrame
    BY <2>1, <2>2, <2>5, ConcatFirst, ConcatFacts
  <2>7. AllIn(x.pending, 1, Told(Server))
    BY <2>3 DEF AllIn, Told
  <2>8. AllIn(out, 2, Told(Server)) /\ Acks(out, Len(x.delivered))
    BY <2>4, <2>5 DEF AllIn, Acks
  <2>9. AllIn(g, 2, Told(Server)) /\ Acks(g, Len(x.delivered))
    BY <2>1, <2>2, <2>3, <2>7, <2>8, JoinAll
  <2>10. Flow(out, 0, 0)
    <3>1. \A i \in 1..Len(out) : out[i].stream # 1
      BY <2>4, <2>5
    <3> QED BY <2>2, <3>1, FlowQuiet
  <2>11. Flow(g, 0, z.cache.position)
    <3>1. Flow(x.pending, 0, z.cache.position)
      BY <1>11, <1>17
    <3> QED BY <2>1, <2>2, <2>10, <3>1, FlowJoin
  <2> QED BY <1>20, <2>6, <2>9, <2>11
<1>23. /\ end' \in [Ends -> EndSet] /\ end'[Client] = s /\ end'[Server] = y
       /\ wire' \in [Transports -> [Ends -> StreamSet]]
       /\ \A u \in Transports :
             /\ wire'[u][Client] = wire[u][Client]
             /\ wire'[u][Server].ended <=> wire[u][Server].ended
             /\ wire'[u][Server].frames = IF u = 1 /\ ~wire[u][Server].ended
                                          THEN wire[u][Server].frames \o g
                                          ELSE wire[u][Server].frames
  <2>1. CommitIs(Client, Server, z, 1, wire)
    BY ONLY <1>5, <1>6, <1>7, <1>17, CommitGives
  <2>2. \A u : ~Left(Client, z, 1, u)
    BY <1>1, <1>8, <1>17 DEF Left
  <2> QED BY <1>2, <1>19, <1>21, <2>1, <2>2 DEF CommitIs
<1>24. 1 \in Transports
  BY BoundsAssumption DEF Transports
<1>25. \A u \in Transports : /\ wire[u][Client].frames = << >>
                             /\ ~wire[u][Client].ended /\ ~wire[u][Server].ended
                             /\ wire[u][Server].frames = << >>
  <2>1. ASSUME NEW u \in Transports PROVE u # end[Client].transport /\ u > lastTransport
    BY <1>1, <1>5, <1>8 DEF Transports
  <2> QED BY <2>1 DEF IInv, ClientSide
<1>26. wire'[1][Server].frames = g
  <2>1. wire'[1][Server].frames = << >> \o g
    BY <1>23, <1>24, <1>25
  <2> QED BY <2>1, ConcatEmptySeq
<1>27. Types'
  BY <1>5, <1>6, <1>23, BoundsAssumption DEF Types
<1>28. Via(Server)' = 1 /\ Via(Server) = 1 /\ Via(Client)' = 1 /\ Via(Client) = 0
  BY <1>1, <1>5, <1>6, <1>7, <1>8, <1>20, <1>23 DEF Via
<1>29. Line(Client) = << >> /\ Line(Client)' = << >> /\ Line(Server) = << >> /\ Line(Server)' = g
  <2>1. /\ Arriving(Client) = << >> /\ Arriving(Client)' = << >>
        /\ Arriving(Server) = << >> /\ Arriving(Server)' = g
    BY <1>23, <1>24, <1>25, <1>26, <1>28 DEF Arriving
  <2>2. << >> \in Seq(FrameSet) /\ queue[Client] \in Seq(TaskSet) /\ queue[Server] \in Seq(TaskSet)
    BY <1>6, <1>7
  <2> QED BY <1>5, <1>10, <1>11, <2>1, <2>2, LineNoTasks DEF Line
<1>30. Towards(Client)'
  <2>1. ~Sends(y, Client)'
    BY <1>12 DEF Sends
  <2>2. Fed(s, y, << >>, Sends(y, Client))
    <3>1. PICK w \in Seq(ItemSet) : w = << >>
      BY <1>8, <1>29
    <3>2. s.closed = x.closed
      BY <1>5, <1>8, <1>20, EndFacts
    <3> QED BY <1>8, <1>9, <1>15, <1>20, <1>29, <3>1, <3>2, ConsumeFed
  <2>3. Fed(s, y, << >>, Sends(y, Client)')
    BY <2>1, <2>2, FedLive
  <2>4. AllIn(<< >>, 1, Told(Client))
    BY DEF AllIn
  <2>5. queue'[Client] = << >>
    BY <1>5, <1>11
  <2>6. \A i \in 1..Len(queue'[Client]) : queue'[Client][i].frame # << >>
    BY <2>5
  <2> QED BY <1>7, <1>23, <1>29, <2>1, <2>3, <2>4, <2>5, <2>6 DEF Towards
<1>31. Towards(Server)'
  <2>1. Fed(y, s, g, TRUE)
    <3>1. PICK w \in Seq(ItemSet) : w = << >>
      BY <1>8, <1>29
    <3>2. w \o g = g
      BY <1>22, <3>1, ConcatEmptySeq
    <3>3. Fed(y, x, w, Sends(x, Server))
      BY <1>15, <1>29, <3>1
    <3>4. Flow(w, Len(y.delivered), 0)
      BY <1>13, <1>14, <3>1, FlowEmpty
    <3>5. \E r \in Nat : Flow(w, Len(y.delivered), r) /\ Flow(g, r, s.cache.position)
      BY <1>22, <3>4
    <3>6. s.cache.position <= s.written /\ x.written <= s.written
          /\ Len(x.delivered) <= Len(s.delivered)
      <4>1. x.written \in Nat /\ Len(x.delivered) \in Nat
        BY <1>8, EndFacts
      <4>2. s.cache.position <= s.written
        BY <1>20, LocalOpen
      <4> QED BY <1>20, <4>1, <4>2
    <3>7. Retains(s.cache, Len(y.delivered)) /\ ~s.closed
      BY <1>13, <1>17, <1>20
    <3> QED BY <1>8, <1>9, <1>20, <1>22, <3>2, <3>3, <3>5, <3>6, <3>7, GrowFed
  <2>2. Fed(y, s, g, Sends(s, Server)')
    BY <2>1, FedLive
  <2>3. queue'[Server] = << >> /\ y.transport = 0 /\ accepted' = 0
    BY <1>5, <1>6, <1>10, <1>12
  <2> QED BY <1>7, <1>20, <1>22, <1>23, <1>28, <1>29, <2>2, <2>3 DEF Towards
<1>32. Unset'
  <2>1. SetupFrame.type = "SETUP"
    BY FrameFacts
  <2> QED BY <1>5, <1>10, <1>22, <1>23, <1>26, <2>1 DEF Unset
<1>33. Unopened'
  BY <1>5 DEF Unopened
<1>34. ClientSide'
  <2>1. end'[Client].transport = 1 /\ ~end'[Client].resuming
    BY <1>20, <1>23
  <2>2. ASSUME NEW u \in Transports
        PROVE  /\ wire'[u][Client].frames = << >>
               /\ u # 1 /\ u <= 1 => wire'[u][Client].ended /\ wire'[u][Server].ended
               /\ ~wire'[u][Client].ended /\ ~wire'[u][Server].ended
               /\ u > 1 => wire'[u][Server].frames = << >>
    <3>1. u # 1 /\ u <= 1 => FALSE
      BY DEF Transports
    <3>2. u > 1 => u # 1
      BY DEF Transports
    <3> QED BY <1>23, <1>25, <3>1, <3>2
  <2> QED BY <1>5, <2>1, <2>2 DEF ClientSide
<1>35. ServerSide'
  <2>1. end'[Server].transport <= lastTransport'
    BY <1>5, <1>12, <1>23
  <2>2. ASSUME NEW u \in Transports, u # 1 PROVE Asked(u)'
    BY <1>23, <1>25, <2>2 DEF Asked
  <2> QED BY <1>28, <2>1, <2>2 DEF ServerSide
<1>36. Answered'
  BY <1>20, <1>23 DEF Answered
<1>37. ASSUME NEW d \in Ends
       PROVE  /\ Shape(d, end'[d]) /\ end'[d].out = << >> /\ Local(end'[d]) /\ Towards(d)'
  BY <1>7, <1>9, <1>20, <1>23, <1>30, <1>31
<1> QED BY <1>27, <1>32, <1>33, <1>34, <1>35, <1>36, <1>37 DEF IInv

(***************************************************************************)
(* The client on a new transport, before the answer.                       *)
(***************************************************************************)
Resuming(x, out) == [Disconnect(x) EXCEPT !.out = out, !.resuming = TRUE]

ResumingOf(x, t, out, writes, z) ==
    /\ x \in EndSet /\ Local(x) /\ Shape(Client, x) /\ ~x.closed /\ x.out = << >>
    /\ t \in Nat /\ t # 0 /\ out \in Seq(FrameSet)
    /\ z = Connect(Resuming(x, out), t, FALSE, writes)

ResumingIs(x, t, out, z) ==
    /\ z \in EndSet /\ Local(z) /\ Shape(Client, z)
    /\ z.transport = t /\ ~z.closed /\ z.resuming /\ z.out = out
    /\ z.cache = x.cache /\ z.pending = Disconnect(x).pending
    /\ z.written = x.written /\ z.delivered = x.delivered

LEMMA ResumingFacts ==
  ASSUME Orderly, NEW x, NEW t, NEW out, NEW writes, NEW z, ResumingOf(x, t, out, writes, z)
  PROVE  ResumingIs(x, t, out, z)
<1> USE DEF ResumingOf, ResumingIs
<1>1. PICK d : d = Disconnect(x)
  OBVIOUS
<1>2. /\ Leaves(x, d) /\ ~d.closed
  BY <1>1, DisconnectLeaves
<1>3. /\ d \in EndSet /\ Local(d) /\ ~d.awaiting
      /\ d.cache = x.cache /\ d.written = x.written /\ d.delivered = x.delivered
  BY <1>2 DEF Leaves
<1>4. PICK a : a = Attached(d, t, out)
  OBVIOUS
<1>5. /\ a \in EndSet /\ a.transport = t /\ a.out = out
      /\ a.closed = d.closed /\ a.awaiting = d.awaiting
      /\ a.cache = d.cache /\ a.pending = d.pending
      /\ a.written = d.written /\ a.delivered = d.delivered
      /\ Local(a)
  BY <1>3, <1>4, AttachedFacts
<1>6. z = [a EXCEPT !.resuming = TRUE]
  <2>1. PICK b : b = [[d EXCEPT !.out = out, !.resuming = TRUE] EXCEPT !.transport = t]
    OBVIOUS
  <2>2. Callback(b, "connected", writes) = b
    BY CallbackIdle
  <2>3. z = Callback(b, "connected", writes)
    BY <1>1, <2>1 DEF Connect, Resuming
  <2>4. b = [a EXCEPT !.resuming = TRUE]
    BY <1>3, <1>4, <2>1 DEF Attached, EndSet
  <2> QED BY <2>2, <2>3, <2>4
<1>7. /\ z \in EndSet /\ z.transport = t /\ z.out = out /\ z.resuming
      /\ z.closed = a.closed /\ z.awaiting = a.awaiting
      /\ z.cache = a.cache /\ z.pending = a.pending
      /\ z.written = a.written /\ z.delivered = a.delivered
  BY <1>5, <1>6 DEF EndSet
<1>8. Local(z)
  BY <1>5, <1>7 DEF Local
<1>9. Shape(Client, z)
  BY <1>2, <1>3, <1>5, <1>7 DEF Shape
<1> QED BY <1>1, <1>2, <1>3, <1>5, <1>7, <1>8, <1>9

LEMMA TryClientResumeKeeps ==
  ASSUME Orderly, IInv, NEW writes, TryClientResume(writes)
  PROVE  IInv'
<1>1. PICK x : x = end[Client]
  OBVIOUS
<1>2. PICK y : y = end[Server]
  OBVIOUS
<1>3. PICK f : f = ResumeFrame(x.cache.impliedPosition, x.cache.resetPosition)
  OBVIOUS
<1>4. PICK t : t = lastTransport + 1
  OBVIOUS
<1>5. PICK z : z = Connect([Disconnect(x) EXCEPT !.out = <<f>>, !.resuming = TRUE], t, FALSE, writes)
  OBVIOUS
<1>6. /\ ~x.closed /\ lastTransport \in 1..MaxTransports - 1 /\ lastTransport' = t
      /\ Drained => queue[Client] = << >>
      /\ Commit(Client, z, t, wire)
      /\ queue' = queue /\ accepted' = accepted
  BY <1>1, <1>3, <1>4, <1>5 DEF TryClientResume, IsOpen
<1>7. /\ Types /\ wire \in [Transports -> [Ends -> StreamSet]]
      /\ queue \in [Ends -> Seq(TaskSet)]
      /\ lastTransport \in 0..MaxTransports /\ accepted \in 0..lastTransport
      /\ MaxTransports \in Nat
  BY BoundsAssumption DEF IInv, Types
<1>8. /\ Client \in Ends /\ Server \in Ends /\ Client # Server
      /\ Peer(Client) = Server /\ Peer(Server) = Client
      /\ \A d \in Ends : d = Client \/ d = Server
  BY PeerFacts DEF Ends
<1>9. /\ x \in EndSet /\ Local(x) /\ Shape(Client, x) /\ x.out = << >>
      /\ Line(Client) \in Seq(ItemSet) /\ Towards(Client) /\ x.transport \in 0..lastTransport
  BY <1>1, <1>8, StateFacts
<1>10. /\ y \in EndSet /\ Shape(Server, y) /\ y.out = << >> /\ Local(y) /\ Towards(Server)
       /\ y.transport \in 0..lastTransport /\ Line(Server) \in Seq(ItemSet)
       /\ Via(Server) \in 0..MaxTransports
  BY <1>2, <1>8, StateFacts
<1>11. /\ t \in Nat /\ t > 1 /\ t \in Transports /\ t > lastTransport
       /\ x.transport # t /\ y.transport # t /\ Via(Server) <= lastTransport
  <2>1. Via(Server) = 1 \/ Via(Server) = y.transport
    BY <1>2 DEF Via
  <2> QED BY <1>4, <1>6, <1>7, <1>9, <1>10, <2>1 DEF Transports
<1>12. queue[Client] = << >>
  BY <1>6, <1>8, <1>9 DEF Orderly, Towards
<1>13. /\ f \in FrameSet /\ f.type = "RESUME" /\ f.a = Len(x.delivered)
  <2>1. x.cache.impliedPosition \in Nat /\ x.cache.resetPosition \in Nat
    BY <1>9, EndFacts DEF CacheSet
  <2>2. x.cache.impliedPosition = Len(x.delivered)
    BY <1>6, <1>9, LocalOpen
  <2> QED BY <1>3, <2>1, <2>2, FrameFacts
<1>14. PICK out \in Seq(FrameSet) : out = <<f>>
  <2>1. <<f>> \in Seq(FrameSet)
    BY <1>13
  <2> QED BY <2>1
<1>15. /\ z \in EndSet /\ Local(z) /\ Shape(Client, z)
       /\ z.transport = t /\ ~z.closed /\ z.resuming /\ z.out = out
       /\ z.cache = x.cache /\ z.written = x.written /\ z.delivered = x.delivered
  <2>1. t \in Nat /\ t # 0
    BY <1>11
  <2>2. z = Connect(Resuming(x, out), t, FALSE, writes)
    BY <1>5, <1>14 DEF Resuming
  <2>3. ~x.closed
    BY <1>6
  <2>4. ResumingOf(x, t, out, writes, z)
    BY <1>9, <2>1, <2>2, <2>3 DEF ResumingOf
  <2>5. ResumingIs(x, t, out, z)
    BY <2>4, ResumingFacts
  <2> QED BY <2>5 DEF ResumingIs
<1>16. PICK s : s = Settled(z)
  OBVIOUS
<1>17. /\ s \in EndSet /\ s.out = << >>
       /\ s.transport = t /\ ~s.closed /\ s.resuming
       /\ s.cache = x.cache /\ s.written = x.written /\ s.delivered = x.delivered
       /\ Shape(Client, s) /\ Local(s)
  BY <1>15, <1>16, SettledFacts
<1>18. /\ end' \in [Ends -> EndSet] /\ end'[Client] = s /\ end'[Server] = y
       /\ wire' \in [Transports -> [Ends -> StreamSet]]
       /\ \A u \in Transports :
             /\ wire'[u][Client] = IF u = x.transport THEN DeadStream ELSE wire[u][Client]
             /\ wire'[u][Server].ended <=> u = x.transport \/ wire[u][Server].ended
             /\ wire'[u][Server].frames = IF u = t /\ ~wire[u][Server].ended
                                          THEN wire[u][Server].frames \o out
                                          ELSE wire[u][Server].frames
  <2>1. CommitIs(Client, Server, z, t, wire)
    BY ONLY <1>6, <1>7, <1>8, <1>15, CommitGives
  <2>2. \A u \in Transports : Left(Client, z, t, u) <=> u = x.transport
    BY <1>1, <1>11, <1>15 DEF Left, Transports
  <2> QED BY <1>2, <1>15, <1>16, <2>1, <2>2 DEF CommitIs
<1>19. \A u \in Transports :
          /\ u # x.transport => wire[u][Client].frames = << >>
          /\ u # x.transport /\ u <= lastTransport =>
                wire[u][Client].ended /\ wire[u][Server].ended
          /\ u > lastTransport =>
                /\ ~wire[u][Client].ended /\ ~wire[u][Server].ended
                /\ wire[u][Server].frames = << >>
  BY <1>1 DEF IInv, ClientSide
<1>20. DeadStream.frames = << >> /\ DeadStream.ended
  BY DEF DeadStream
<1>21. /\ wire'[t][Server].frames = out /\ ~wire'[t][Client].ended
       /\ wire'[t][Client].frames = << >>
  <2>1. wire'[t][Server].frames = << >> \o out
    BY <1>11, <1>18, <1>19
  <2> QED BY <1>11, <1>18, <1>19, <2>1, ConcatEmptySeq
<1>22. Types'
  BY <1>4, <1>6, <1>7, <1>18 DEF Types
<1>23. Via(Client)' = t /\ Via(Server)' = Via(Server)
  BY <1>2, <1>6, <1>8, <1>17, <1>18 DEF Via
<1>24. Line(Client)' = << >>
  <2>1. Arriving(Client)' = << >>
    BY <1>21, <1>23 DEF Arriving
  <2>2. << >> \in Seq(FrameSet) /\ queue[Client] \in Seq(TaskSet)
    BY <1>7, <1>8
  <2> QED BY <1>6, <1>12, <2>1, <2>2, LineNoTasks DEF Line
<1>25. Line(Server)' = Line(Server)
  <2>1. Via(Server) # 0 => Via(Server) \in Transports /\ Via(Server) # t
    BY <1>7, <1>10, <1>11 DEF Transports
  <2>2. Arriving(Server)' = Arriving(Server)
    BY <1>18, <1>23, <2>1 DEF Arriving
  <2> QED BY <1>6, <2>2 DEF Line
<1>26. \A u \in Transports : \A d \in Ends : wire[u][d].ended => wire'[u][d].ended
  BY <1>8, <1>18, <1>20
<1>27. Towards(Client)'
  <2>1. ~Sends(y, Client)'
    <3>1. SUFFICES ASSUME y.transport # 0 PROVE wire'[y.transport][Client].ended
      BY DEF Sends
    <3>2. y.transport \in Transports /\ y.transport <= lastTransport
      BY <1>7, <1>10, <3>1 DEF Transports
    <3> QED BY <1>18, <1>19, <1>20, <3>2
  <2>2. Fed(s, y, << >>, FALSE)
    <3>1. PICK w \in Seq(ItemSet) : w = Line(Client)
      BY <1>9
    <3>2. Fed(x, y, w, Sends(y, Client))
      BY <1>1, <1>2, <1>8, <1>9, <3>1 DEF Towards
    <3>3. PICK v \in Seq(ItemSet) : v = << >>
      <4>1. << >> \in Seq(ItemSet)
        OBVIOUS
      <4> QED BY <4>1
    <3>4. Cut(v, w)
      BY <3>3 DEF Cut
    <3>5. Fed(s, y, v, FALSE)
      BY <1>6, <1>9, <1>10, <1>17, <3>2, <3>4, CutFed
    <3> QED BY <3>3, <3>5
  <2>3. Fed(s, y, << >>, Sends(y, Client)')
    BY <2>1, <2>2, FedLive
  <2>4. AllIn(<< >>, 1, Told(Client))
    BY DEF AllIn
  <2>5. queue'[Client] = << >>
    BY <1>6, <1>12
  <2>6. \A i \in 1..Len(queue'[Client]) : queue'[Client][i].frame # << >>
    BY <2>5
  <2> QED BY <1>8, <1>18, <1>24, <2>1, <2>3, <2>4, <2>5, <2>6 DEF Towards
<1>28. Towards(Server)'
  <2>1. ~Sends(s, Server)'
    BY <1>17 DEF Sends
  <2>2. Fed(y, x, Line(Server), Sends(x, Server))
    BY <1>1, <1>2, <1>8, <1>10 DEF Towards
  <2>3. Fed(y, s, Line(Server), Sends(s, Server)')
    <3>1. PICK w \in Seq(ItemSet) : w = Line(Server)
      BY <1>10
    <3>2. PICK g \in Seq(ItemSet) : g = << >>
      <4>1. << >> \in Seq(ItemSet)
        OBVIOUS
      <4> QED BY <4>1
    <3>3. w = w \o g /\ Acks(g, Len(s.delivered)) /\ \A i \in 1..Len(g) : g[i].stream # 1
      BY <3>2, ConcatEmptySeq DEF Acks
    <3>4. x.written <= s.written /\ Len(x.delivered) <= Len(s.delivered)
          /\ x.cache.position <= s.cache.position
      <4>1. x.written \in Nat /\ Len(x.delivered) \in Nat /\ x.cache.position \in Nat
        BY <1>9, EndFacts
      <4> QED BY <1>17, <4>1
    <3>5. Retains(s.cache, Len(y.delivered))
      BY <1>6, <1>17, <2>2 DEF Fed
    <3>6. Fed(y, x, w, Sends(x, Server))
      BY <2>2, <3>1
    <3>7. Fed(y, s, w, FALSE)
      BY <1>6, <1>9, <1>10, <1>17, <3>3, <3>4, <3>5, <3>6, QuietFed
    <3> QED BY <2>1, <3>1, <3>7, FedLive
  <2>4. /\ ~y.closed => AllIn(Line(Server), IF Server = Server /\ accepted = 0 THEN 2 ELSE 1, Told(Server))
        /\ ~Deferred => queue[Server] = << >>
        /\ y.transport # 0 /\ ~wire[y.transport][Server].ended =>
              \A i \in 1..Len(queue[Server]) : queue[Server][i].frame # << >>
    BY <1>2, <1>8, <1>10 DEF Towards
  <2>5. y.transport # 0 => y.transport \in Transports
    BY <1>7, <1>10 DEF Transports
  <2> QED BY <1>6, <1>8, <1>18, <1>25, <1>26, <2>1, <2>3, <2>4, <2>5 DEF Towards
<1>29. Unset'
  <2>1. SUFFICES ASSUME accepted = 0 PROVE Unset'
    BY <1>6 DEF Unset
  <2>2. /\ y = NewEnd /\ queue[Server] = << >>
        /\ wire[1][Server].frames # << >> => wire[1][Server].frames[1].type = "SETUP"
        /\ wire[1][Server].frames = << >> /\ lastTransport # 0 => wire[1][Server].ended
    BY <1>2, <2>1 DEF IInv, Unset
  <2>3. 1 \in Transports /\ t # 1 /\ lastTransport # 0
    BY <1>6, <1>11, BoundsAssumption DEF Transports
  <2>4. wire'[1][Server].frames = wire[1][Server].frames
    BY <1>18, <2>3
  <2>5. wire[1][Server].ended => wire'[1][Server].ended
    BY <1>8, <1>26, <2>3
  <2> QED BY <1>6, <1>18, <2>2, <2>3, <2>4, <2>5 DEF Unset
<1>30. Unopened'
  BY <1>6, <1>11 DEF Unopened
<1>31. ClientSide'
  <2>1. end'[Client].transport = t
    BY <1>17, <1>18
  <2>2. ASSUME NEW u \in Transports
        PROVE  /\ u # t => wire'[u][Client].frames = << >>
               /\ u # t /\ u <= t => wire'[u][Client].ended /\ wire'[u][Server].ended
               /\ u > t => /\ ~wire'[u][Client].ended /\ ~wire'[u][Server].ended
                           /\ wire'[u][Server].frames = << >>
    <3>1. wire'[u][Client].frames = << >>
      BY <1>18, <1>19, <1>20
    <3>2. u # t /\ u <= t => u <= lastTransport
      BY <1>4, <1>7 DEF Transports
    <3>3. u > t => u > lastTransport /\ u # x.transport /\ u # t
      BY <1>4, <1>7, <1>9 DEF Transports
    <3> QED BY <1>18, <1>19, <1>20, <3>1, <3>2, <3>3
  <2> QED BY <1>6, <1>11, <2>1, <2>2 DEF ClientSide
<1>32. ServerSide'
  <2>1. end'[Server].transport <= lastTransport'
    BY <1>4, <1>6, <1>7, <1>10, <1>18
  <2>2. ASSUME NEW u \in Transports, u # Via(Server) PROVE Asked(u)'
    <3>1. CASE u = t
      <4>1. Len(out) = 1 /\ out[1] = f
        BY <1>14
      <4>2. AllEnd(<< >>)
        BY DEF AllEnd
      <4> QED BY <1>13, <1>17, <1>18, <1>21, <1>24, <3>1, <4>1, <4>2 DEF Asked
    <3>2. CASE u # t
      <4>1. Asked(u)
        BY <2>2 DEF IInv, ServerSide
      <4>2. wire'[u][Server].frames = wire[u][Server].frames /\ end'[Client].transport # u
        BY <1>17, <1>18, <3>2
      <4> QED BY <4>1, <4>2 DEF Asked
    <3> QED BY <3>1, <3>2
  <2> QED BY <1>23, <2>1, <2>2 DEF ServerSide
<1>33. Answered'
  <2>1. Leads(<< >>)
    BY DEF Leads
  <2> QED BY <1>11, <1>17, <1>18, <1>24, <2>1 DEF Answered
<1>34. ASSUME NEW d \in Ends
       PROVE  /\ Shape(d, end'[d]) /\ end'[d].out = << >> /\ Local(end'[d]) /\ Towards(d)'
  BY <1>8, <1>10, <1>17, <1>18, <1>27, <1>28
<1> QED BY <1>22, <1>29, <1>30, <1>31, <1>32, <1>33, <1>34 DEF IInv

ConnectedOf(x, out, t, n, z) ==
    /\ x \in EndSet /\ Local(x) /\ (Shape(Client, x) \/ Shape(Server, x)) /\ ~x.closed
    /\ x.transport = 0 /\ out \in Seq(FrameSet) /\ t \in Nat \ {0}
    /\ n \in Nat /\ Retains(x.cache, n)
    /\ z = SendPending(Attached(x, t, out))

ConnectedIs(x, out, t, n, z) ==
    /\ z \in EndSet /\ Local(z) /\ z.transport = t
    /\ ~z.closed /\ ~z.resuming /\ ~z.awaiting /\ z.pending = << >>
    /\ z.written = x.written /\ z.delivered = x.delivered
    /\ z.out = out \o x.pending
    /\ Flow(x.pending, x.cache.position, z.cache.position)
    /\ Retains(z.cache, n)

LEMMA ConnectedGives ==
  ASSUME NEW x, NEW out, NEW t, NEW n, NEW z, ConnectedOf(x, out, t, n, z)
  PROVE  ConnectedIs(x, out, t, n, z)
  BY ConnectedFacts DEF ConnectedOf, ConnectedIs

(***************************************************************************)
(* A new server, connected on the first transport.                         *)
(***************************************************************************)
SetUpOf(x, n, writes, z) ==
    /\ x \in EndSet /\ x = NewEnd /\ Local(x) /\ Shape(Server, x)
    /\ n \in Nat /\ Retains(x.cache, n)
    /\ z = Connect(x, 1, TRUE, writes)

SetUpIs(x, n, z) ==
    /\ z \in EndSet /\ Local(z) /\ z.transport = 1
    /\ ~z.closed /\ ~z.resuming /\ ~z.awaiting /\ z.pending = << >>
    /\ z.written = x.written /\ z.delivered = x.delivered
    /\ z.out = << >> /\ z.cache.position = 0 /\ Retains(z.cache, n)

LEMMA SetUpFacts ==
  ASSUME Orderly, NEW x, NEW n, NEW writes, NEW z, SetUpOf(x, n, writes, z)
  PROVE  SetUpIs(x, n, z)
<1> USE DEF SetUpOf, SetUpIs
<1>1. /\ x.transport = 0 /\ ~x.closed /\ x.cache.position = 0
      /\ x.pending = << >> /\ x.out = << >>
  BY NewEndFacts
<1>2. PICK out \in Seq(FrameSet) : out = << >>
  <2>1. << >> \in Seq(FrameSet)
    OBVIOUS
  <2> QED BY <2>1
<1>3. 1 \in Nat \ {0}
  OBVIOUS
<1>4. z = Connect([x EXCEPT !.out = out], 1, TRUE, writes)
  <2>1. [x EXCEPT !.out = out] = x
    BY <1>1, <1>2 DEF EndSet
  <2> QED BY <2>1
<1>5. z = SendPending(Attached(x, 1, out))
  BY <1>3, <1>4, ConnectFacts
<1>6. ConnectedOf(x, out, 1, n, z)
  BY <1>1, <1>2, <1>3, <1>5 DEF ConnectedOf
<1>7. ConnectedIs(x, out, 1, n, z)
  BY ONLY <1>6, ConnectedGives
<1>8. << >> \o << >> = << >>
  BY <1>2, ConcatEmptySeq
<1>9. z.cache.position = 0
  BY <1>1, <1>7, FlowNothing DEF ConnectedIs
<1> QED BY <1>1, <1>2, <1>7, <1>8, <1>9 DEF ConnectedIs

LEMMA ServerSetupKeeps ==
  ASSUME Orderly, IInv, NEW t \in Transports, NEW writes, ServerSetup(t, writes)
  PROVE  IInv'
<1>1. PICK x : x = end[Server]
  OBVIOUS
<1>2. PICK y : y = end[Client]
  OBVIOUS
<1>3. PICK streams : streams = Consume(t, Server)
  OBVIOUS
<1>4. PICK z : z = Connect(x, t, TRUE, writes)
  OBVIOUS
<1>5. /\ x.transport # t /\ wire[t][Server].frames # << >>
      /\ Head(wire[t][Server].frames).type = "SETUP"
      /\ Commit(Server, z, t, streams)
      /\ accepted' = t /\ queue' = queue /\ lastTransport' = lastTransport
  BY <1>1, <1>3, <1>4 DEF ServerSetup, FirstFrame
<1>6. /\ Types /\ wire \in [Transports -> [Ends -> StreamSet]]
      /\ queue \in [Ends -> Seq(TaskSet)]
      /\ lastTransport \in 0..MaxTransports /\ MaxTransports \in Nat
  BY BoundsAssumption DEF IInv, Types
<1>7. /\ Client \in Ends /\ Server \in Ends /\ Client # Server
      /\ Peer(Client) = Server /\ Peer(Server) = Client
      /\ \A d \in Ends : d = Client \/ d = Server
  BY PeerFacts DEF Ends
<1>8. PICK f \in Seq(FrameSet) : f = wire[t][Server].frames
  BY <1>6, <1>7, StreamFacts
<1>9. f # << >> /\ f[1] \in FrameSet /\ f[1].type = "SETUP" /\ Tail(f) \in Seq(FrameSet)
  BY <1>5, <1>8, TailFacts
<1>10. t = 1 /\ accepted = 0 /\ Via(Server) = 1
  <2>1. ~Asked(t)
    BY <1>8, <1>9 DEF Asked
  <2>2. t = Via(Server)
    BY <2>1 DEF IInv, ServerSide
  <2> QED BY <1>1, <1>5, <2>2 DEF Via
<1>11. x = NewEnd /\ queue[Server] = << >>
  BY <1>1, <1>10 DEF IInv, Unset
<1>12. /\ x.transport = 0 /\ ~x.closed /\ x.delivered = << >> /\ x.cache.position = 0
       /\ x.pending = << >> /\ x.out = << >>
  BY <1>11, NewEndFacts
<1>13. /\ x \in EndSet /\ Local(x) /\ Shape(Server, x) /\ Line(Server) \in Seq(ItemSet)
       /\ Towards(Server)
  BY <1>1, <1>7, StateFacts
<1>14. /\ y \in EndSet /\ Local(y) /\ Shape(Client, y) /\ y.out = << >>
       /\ Line(Client) \in Seq(ItemSet) /\ Towards(Client)
       /\ y.transport \in 0..MaxTransports
  BY <1>2, <1>7, StateFacts
<1>15. Fed(x, y, Line(Server), Sends(y, Server)) /\ Fed(y, x, Line(Client), Sends(x, Client))
  BY <1>1, <1>2, <1>7, <1>13, <1>14 DEF Towards
<1>16. PICK n \in Nat : n = Len(y.delivered) /\ Retains(x.cache, n)
  BY <1>12, <1>14, <1>15, EndFacts DEF Fed
<1>17. /\ z \in EndSet /\ Local(z) /\ z.transport = 1
       /\ ~z.closed /\ ~z.resuming /\ ~z.awaiting /\ z.pending = << >>
       /\ z.written = x.written /\ z.delivered = x.delivered
       /\ z.out = << >> /\ z.cache.position = 0 /\ Retains(z.cache, n)
  <2>1. SetUpOf(x, n, writes, z)
    BY <1>4, <1>10, <1>11, <1>13, <1>16 DEF SetUpOf
  <2>2. SetUpIs(x, n, z)
    BY <2>1, SetUpFacts
  <2> QED BY <2>2 DEF SetUpIs
<1>18. PICK s : s = Settled(z)
  OBVIOUS
<1>19. /\ s \in EndSet /\ s.out = << >>
       /\ s.transport = 1 /\ ~s.closed /\ ~s.resuming
       /\ s.cache = z.cache /\ s.written = x.written /\ s.delivered = x.delivered
       /\ Shape(Server, s) /\ Local(s)
  <2>1. Shape(Server, z)
    BY <1>17 DEF Shape
  <2> QED BY <1>17, <1>18, <2>1, SettledFacts
<1>20. /\ streams \in [Transports -> [Ends -> StreamSet]]
       /\ \A u \in Transports : \A d \in Ends :
             streams[u][d].ended = wire[u][d].ended /\ streams[u][d].frames =
                IF u = t /\ d = Server THEN Tail(wire[u][d].frames) ELSE wire[u][d].frames
  BY <1>3, <1>5, <1>6, <1>7, ConsumeFacts
<1>21. /\ end' \in [Ends -> EndSet] /\ end'[Server] = s /\ end'[Client] = y
       /\ wire' \in [Transports -> [Ends -> StreamSet]]
       /\ \A u \in Transports :
             /\ wire'[u][Server].ended <=> wire[u][Server].ended
             /\ wire'[u][Client].ended <=> wire[u][Client].ended
             /\ wire'[u][Client].frames = wire[u][Client].frames
             /\ wire'[u][Server].frames =
                   IF u = 1 THEN Tail(wire[u][Server].frames) ELSE wire[u][Server].frames
  <2>1. CommitIs(Server, Client, z, t, streams)
    BY ONLY <1>5, <1>6, <1>7, <1>17, <1>20, CommitGives
  <2>2. \A u : ~Left(Server, z, t, u)
    BY <1>1, <1>10, <1>12, <1>17 DEF Left
  <2>3. \A u \in Transports : wire[u][Client].frames \o << >> = wire[u][Client].frames
    BY <1>6, <1>7, StreamFacts, ConcatEmptySeq
  <2>4. /\ end' \in [Ends -> EndSet] /\ end'[Server] = s /\ end'[Client] = y
        /\ wire' \in [Transports -> [Ends -> StreamSet]]
        /\ \A u \in Transports :
              /\ wire'[u][Server] = streams[u][Server]
              /\ wire'[u][Client].ended <=> streams[u][Client].ended
              /\ wire'[u][Client].frames = IF u = t /\ ~streams[u][Client].ended
                                           THEN streams[u][Client].frames \o << >>
                                           ELSE streams[u][Client].frames
    BY <1>2, <1>17, <1>18, <2>1, <2>2 DEF CommitIs
  <2> QED BY <1>7, <1>10, <1>20, <2>3, <2>4
<1>22. \A u \in Transports :
          /\ u # y.transport => wire[u][Client].frames = << >>
          /\ u # y.transport /\ u <= lastTransport =>
                wire[u][Client].ended /\ wire[u][Server].ended
          /\ u > lastTransport =>
                /\ ~wire[u][Client].ended /\ ~wire[u][Server].ended
                /\ wire[u][Server].frames = << >>
  BY <1>2 DEF IInv, ClientSide
<1>23. lastTransport >= 1
  <2>1. ~(t > lastTransport)
    BY <1>5, <1>22
  <2> QED BY <1>6, <1>10, <2>1
<1>24. Types'
  BY <1>5, <1>6, <1>10, <1>21, <1>23 DEF Types
<1>25. 1 \in Transports
  BY BoundsAssumption DEF Transports
<1>26. Via(Server)' = 1 /\ Via(Client)' = y.transport /\ Via(Client) = y.transport
  BY <1>2, <1>5, <1>7, <1>10, <1>19, <1>21 DEF Via
<1>27. Line(Server) = f /\ Line(Server)' = Tail(f)
  <2>1. Arriving(Server) = f /\ Arriving(Server)' = Tail(f)
    BY <1>8, <1>10, <1>21, <1>25, <1>26 DEF Arriving
  <2>2. queue[Server] \in Seq(TaskSet)
    BY <1>6, <1>7
  <2> QED BY <1>5, <1>9, <1>11, <2>1, <2>2, LineNoTasks DEF Line
<1>28. Line(Client)' = Line(Client)
  <2>1. y.transport # 0 => y.transport \in Transports
    BY <1>6, <1>14 DEF Transports
  <2>2. Arriving(Client)' = Arriving(Client)
    BY <1>21, <1>26, <2>1 DEF Arriving
  <2> QED BY <1>5, <2>2 DEF Line
<1>29. Towards(Server)'
  <2>1. y.transport # 0 => y.transport \in Transports
    BY <1>6, <1>14 DEF Transports
  <2>2. Sends(y, Server)' <=> Sends(y, Server)
    BY <1>21, <2>1 DEF Sends
  <2>3. Fed(s, y, Tail(f), Sends(y, Server))
    <3>1. f[1].stream # 1
      BY <1>9, FrameIsItem, ItemFacts
    <3>2. s.closed = x.closed
      BY <1>12, <1>13, <1>19, EndFacts
    <3>3. PICK w \in Seq(ItemSet) : w = Line(Server)
      BY <1>13
    <3>4. /\ w # << >> /\ Tail(f) = Tail(w) /\ Fed(x, y, w, Sends(y, Server))
          /\ s.delivered = IF w[1].stream = 1 /\ ~x.closed
                           THEN Append(x.delivered, w[1].a) ELSE x.delivered
      BY <1>9, <1>15, <1>19, <1>27, <3>1, <3>3
    <3> QED BY <1>13, <1>14, <1>19, <3>2, <3>4, ConsumeFed
  <2>4. Fed(s, y, Tail(f), Sends(y, Server)')
    BY <2>2, <2>3, FedLive
  <2>5. Sends(y, Server)' => Via(Server)' = y.transport
    BY <1>2, <1>7, <1>10, <1>13, <1>26, <2>2 DEF Towards
  <2>6. AllIn(Tail(f), 1, Told(Server))
    <3>1. AllIn(f, 2, Told(Server))
      BY <1>1, <1>10, <1>12, <1>13, <1>27 DEF Towards
    <3>2. f \in Seq(ItemSet)
      BY FrameIsItem
    <3> QED BY <1>9, <3>1, <3>2, TailAll
  <2>7. queue'[Server] = << >>
    BY <1>5, <1>11
  <2>8. \A i \in 1..Len(queue'[Server]) : queue'[Server][i].frame # << >>
    BY <2>7
  <2>9. accepted' # 0
    BY <1>5, <1>10
  <2> QED BY <1>7, <1>21, <1>27, <2>4, <2>5, <2>6, <2>7, <2>8, <2>9 DEF Towards
<1>30. Towards(Client)'
  <2>1. Fed(y, s, Line(Client), TRUE)
    <3>1. PICK w \in Seq(ItemSet) : w = Line(Client)
      BY <1>14
    <3>2. PICK g \in Seq(ItemSet) : g = << >>
      <4>1. << >> \in Seq(ItemSet)
        OBVIOUS
      <4> QED BY <4>1
    <3>3. w = w \o g /\ Acks(g, Len(s.delivered))
      BY <3>2, ConcatEmptySeq DEF Acks
    <3>4. Fed(y, x, w, Sends(x, Client))
      BY <1>15, <3>1
    <3>5. ~y.closed => \E r \in Nat : Flow(w, Len(y.delivered), r) /\ Flow(g, r, s.cache.position)
      <4>1. SUFFICES ASSUME ~y.closed
                     PROVE  \E r \in Nat : Flow(w, Len(y.delivered), r) /\ Flow(g, r, s.cache.position)
        OBVIOUS
      <4>2. PICK m \in Nat : Flow(w, Len(y.delivered), m) /\ m <= x.cache.position
        BY <1>12, <3>4, <4>1 DEF Fed
      <4>3. m = 0
        BY <1>12, <4>2
      <4>4. Flow(g, 0, 0)
        BY <3>2, FlowEmpty
      <4>5. s.cache.position = 0
        BY <1>17, <1>19
      <4> QED BY <4>2, <4>3, <4>4, <4>5
    <3>6. x.written <= s.written /\ Len(x.delivered) <= Len(s.delivered)
          /\ s.cache.position <= s.written
      <4>1. x.written \in Nat /\ Len(x.delivered) \in Nat
        BY <1>13, EndFacts
      <4>2. s.cache.position <= s.written
        BY <1>19, LocalOpen
      <4> QED BY <1>19, <4>1, <4>2
    <3>7. Retains(s.cache, Len(y.delivered)) /\ ~s.closed
      BY <1>16, <1>17, <1>19
    <3>8. Fed(y, s, w, TRUE)
      BY <1>13, <1>14, <1>19, <3>3, <3>4, <3>5, <3>6, <3>7, GrowFed
    <3> QED BY <3>1, <3>8
  <2>2. Fed(y, s, Line(Client), Sends(s, Client)')
    BY <2>1, FedLive
  <2>3. Sends(s, Client)' => Via(Client)' = s.transport
    <3>1. SUFFICES ASSUME ~wire'[1][Client].ended PROVE y.transport = 1
      BY <1>19, <1>26 DEF Sends
    <3> QED BY <1>21, <1>22, <1>23, <1>25, <3>1
  <2>4. /\ ~y.closed => AllIn(Line(Client), IF Client = Server /\ accepted = 0 THEN 2 ELSE 1, Told(Client))
        /\ ~Deferred => queue[Client] = << >>
        /\ y.transport # 0 /\ ~wire[y.transport][Client].ended =>
              \A i \in 1..Len(queue[Client]) : queue[Client][i].frame # << >>
    BY <1>2, <1>14 DEF Towards
  <2>5. y.transport # 0 => y.transport \in Transports
    BY <1>6, <1>14 DEF Transports
  <2> QED BY <1>5, <1>7, <1>21, <1>28, <2>2, <2>3, <2>4, <2>5 DEF Towards
<1>31. Unset' /\ Unopened'
  BY <1>5, <1>6, <1>10, <1>23 DEF Unset, Unopened
<1>32. ClientSide'
  <2>1. /\ y.transport \in {0, lastTransport}
        /\ y.resuming => y.transport > 1
    BY <1>2 DEF IInv, ClientSide
  <2>2. ASSUME NEW u \in Transports
        PROVE  u > lastTransport => wire'[u][Server].frames = << >>
    <3>1. u > lastTransport => u # 1
      BY <1>6, <1>23 DEF Transports
    <3> QED BY <1>21, <1>22, <3>1
  <2> QED BY <1>5, <1>21, <1>22, <2>1, <2>2 DEF ClientSide
<1>33. ServerSide'
  <2>1. end'[Server].transport <= lastTransport'
    BY <1>5, <1>19, <1>21, <1>23
  <2>2. ASSUME NEW u \in Transports, u # 1 PROVE Asked(u)'
    <3>1. Asked(u)
      BY <1>10, <2>2 DEF IInv, ServerSide
    <3>2. wire'[u][Server].frames = wire[u][Server].frames
      BY <1>21, <2>2
    <3> QED BY <1>2, <1>21, <1>28, <3>1, <3>2 DEF Asked
  <2> QED BY <1>26, <2>1, <2>2 DEF ServerSide
<1>34. Answered'
  <2>1. SUFFICES ASSUME y.resuming PROVE Answered'
    BY <1>21 DEF Answered
  <2>2. y.transport > 1
    BY <1>2, <2>1 DEF IInv, ClientSide
  <2>3. /\ Leads(Line(Client))
        /\ Line(Client) # << >> /\ Line(Client)[1].type = "RESUME_OK" => AllEnd(Line(Server))
    BY <1>2, <2>1 DEF IInv, Answered
  <2>4. ~AllEnd(Line(Server))
    <3>1. 1 \in 1..Len(f)
      BY <1>9, TailFacts
    <3> QED BY <1>9, <1>27, <3>1 DEF AllEnd
  <2>5. s.transport # y.transport
    BY <1>19, <2>2
  <2> QED BY <1>21, <1>28, <2>3, <2>4, <2>5 DEF Answered
<1>35. ASSUME NEW d \in Ends
       PROVE  /\ Shape(d, end'[d]) /\ end'[d].out = << >> /\ Local(end'[d]) /\ Towards(d)'
  BY <1>7, <1>14, <1>19, <1>21, <1>29, <1>30
<1> QED BY <1>24, <1>31, <1>32, <1>33, <1>34, <1>35 DEF IInv

AttachedIs(x, t, out, z) ==
    /\ z \in EndSet /\ z.transport = t /\ z.out = out
    /\ z.closed = x.closed /\ z.resuming = x.resuming /\ z.awaiting = x.awaiting
    /\ z.cache = x.cache /\ z.pending = x.pending
    /\ z.written = x.written /\ z.delivered = x.delivered
    /\ Local(x) => Local(z)

LEMMA AttachedGives ==
  ASSUME NEW x, NEW t, NEW out, NEW z, x \in EndSet /\ t \in Nat /\ out \in Seq(FrameSet),
         z = Attached(x, t, out)
  PROVE  AttachedIs(x, t, out, z)
  BY AttachedFacts DEF AttachedIs

(***************************************************************************)
(* What the server becomes when RESUME is looked at: resumed, or closed.   *)
(***************************************************************************)
AnswerOf(x, t, f, n, writes, z) ==
    /\ x \in EndSet /\ Local(x) /\ Shape(Server, x) /\ ~x.closed /\ x.out = << >>
    /\ t \in Nat /\ t # 0 /\ f \in FrameSet /\ n \in Nat /\ Retains(x.cache, n)
    /\ z = ResumeFromPositionOrClose(Connect(Disconnect(x), t, FALSE, writes), f, writes)

RefusesIs(z) ==
    z.closed /\ z.transport = 0 /\ \A i \in 1..Len(z.out) : z.out[i].type = "ERROR"

ResumesIs(x, t, f, n, z) ==
    /\ ~z.closed /\ z.transport = t
    /\ x.cache.position <= z.cache.position /\ Retains(z.cache, n)
    /\ z.out # << >> /\ z.out[1].type = "RESUME_OK" /\ z.out[1].a = Len(x.delivered)
    /\ AllIn(z.out, 1, Told(Client)) /\ AllIn(z.out, 2, {"PAYLOAD", "KEEPALIVE"})
    /\ Acks(z.out, Len(x.delivered))
    /\ Leads(z.out)
    /\ Flow(z.out, f.a, z.cache.position)

AnswerIs(x, t, f, n, z) ==
    /\ z \in EndSet /\ Local(z) /\ Shape(Server, z)
    /\ z.written = x.written /\ z.delivered = x.delivered
    /\ RefusesIs(z) \/ ResumesIs(x, t, f, n, z)

LEMMA ResumesFacts ==
  ASSUME NEW x \in EndSet, NEW t, NEW f \in FrameSet, NEW n, NEW z, NEW b, NEW w \in Seq(FrameSet),
         b.transport = t, ~b.closed, b.cache = x.cache, b.delivered = x.delivered,
         b.out = <<ResumeOkFrame(Len(x.delivered))>>,
         Passes(b, z, w, n), Flow(w, f.a, z.cache.position)
  PROVE  ResumesIs(x, t, f, n, z)
<1>1. PICK k \in Nat : k = Len(x.delivered)
  BY EndFacts
<1>2. PICK r \in FrameSet : r = ResumeOkFrame(k) /\ r.type = "RESUME_OK" /\ r.stream = 0 /\ r.a = k
  BY FrameFacts
<1>3. PICK o \in Seq(ItemSet) : o = <<r>>
  <2>1. <<r>> \in Seq(ItemSet)
    BY FrameIsItem
  <2> QED BY <2>1
<1>4. w \in Seq(ItemSet) /\ f.a \in Nat /\ z.cache.position \in Nat /\ z.out = o \o w
  <2>1. w \in Seq(ItemSet)
    BY FrameIsItem
  <2>2. f.a \in Nat
    BY FrameIsItem, ItemFacts
  <2>3. z.cache.position \in Nat
    BY EndFacts DEF Passes
  <2>4. z.out = o \o w
    BY <1>1, <1>2, <1>3 DEF Passes
  <2> QED BY <2>1, <2>2, <2>3, <2>4
<1>5. o # << >> /\ Len(o) = 1 /\ o[1] = r
  BY <1>3
<1>6. z.out # << >> /\ z.out[1] = r
  BY <1>4, <1>5, ConcatFirst
<1>7. AllIn(z.out, 1, Told(Client)) /\ Acks(z.out, k)
  <2>1. AllIn(w, 1, {"PAYLOAD", "KEEPALIVE"}) /\ Acks(w, k)
    BY <1>1 DEF Passes
  <2>2. AllIn(w, 1, Told(Client))
    BY <2>1 DEF AllIn, Told
  <2>3. AllIn(o, 1, Told(Client)) /\ Acks(o, k)
    BY <1>2, <1>5 DEF AllIn, Told, Acks
  <2> QED BY <1>4, <2>1, <2>2, <2>3, JoinAll
<1>11. AllIn(z.out, 2, {"PAYLOAD", "KEEPALIVE"})
  <2>1. AllIn(w, 1, {"PAYLOAD", "KEEPALIVE"})
    BY DEF Passes
  <2>2. AllIn(o, 2, {"PAYLOAD", "KEEPALIVE"})
    BY <1>5 DEF AllIn
  <2> QED BY <1>4, <2>1, <2>2, JoinAll
<1>8. Leads(z.out)
  <2>1. Leads(o)
    BY <1>2, <1>5 DEF Leads
  <2>2. o[1].type # "END"
    BY <1>2, <1>5
  <2> QED BY <1>4, <1>5, <2>1, <2>2, LeadsJoin
<1>9. Flow(z.out, f.a, z.cache.position)
  <2>1. \A i \in 1..Len(o) : o[i].stream # 1
    BY <1>2, <1>5
  <2>2. Flow(o, f.a, f.a)
    BY <1>4, <2>1, FlowQuiet
  <2> QED BY <1>4, <2>2, FlowJoin
<1>10. ~z.closed /\ z.transport = t /\ x.cache.position <= z.cache.position /\ Retains(z.cache, n)
  BY DEF Passes
<1> QED BY <1>1, <1>2, <1>6, <1>7, <1>8, <1>9, <1>10, <1>11 DEF ResumesIs

(***************************************************************************)
(* The server b on transport t, before it answers RESUME.                  *)
(***************************************************************************)
AnswersOn(x, t, b) ==
    /\ b \in EndSet /\ Local(b)
    /\ b.transport = t /\ ~b.closed /\ ~b.resuming /\ ~b.awaiting
    /\ b.cache = x.cache /\ b.pending = Disconnect(x).pending
    /\ b.written = x.written /\ b.delivered = x.delivered

AnswerCase(x, t, f, writes, z, b) ==
    /\ AnswersOn(x, t, b)
    /\ \/ /\ ClientPositionExists(x.cache, f.b) /\ IsPositionAvailable(x.cache, f.a)
          /\ b.out = <<ResumeOkFrame(Len(x.delivered))>>
          /\ z = ResumeFromPosition(b, f.a, writes)
       \/ /\ ~(ClientPositionExists(x.cache, f.b) /\ IsPositionAvailable(x.cache, f.a))
          /\ b.out = << >>
          /\ z = CloseWithError(b)

LEMMA AnswerCases ==
  ASSUME Orderly, NEW x, NEW t, NEW f, NEW n, NEW writes, NEW z, AnswerOf(x, t, f, n, writes, z)
  PROVE  \E b : AnswerCase(x, t, f, writes, z, b)
<1>1. /\ x \in EndSet /\ Local(x) /\ Shape(Server, x) /\ ~x.closed /\ x.out = << >>
      /\ t \in Nat /\ t # 0 /\ f \in FrameSet /\ n \in Nat /\ Retains(x.cache, n)
      /\ z = ResumeFromPositionOrClose(Connect(Disconnect(x), t, FALSE, writes), f, writes)
  BY DEF AnswerOf
<1>2. PICK d : d = Disconnect(x)
  OBVIOUS
<1>3. Leaves(x, d) /\ ~d.closed
  BY <1>1, <1>2, DisconnectLeaves
<1>4. /\ d \in EndSet /\ Local(d) /\ ~d.awaiting /\ ~d.resuming /\ d.out = << >>
      /\ d.cache = x.cache /\ d.written = x.written /\ d.delivered = x.delivered
  BY <1>3 DEF Leaves
<1>5. PICK o \in Seq(FrameSet) : o = << >>
  <2>1. << >> \in Seq(FrameSet)
    OBVIOUS
  <2> QED BY <2>1
<1>6. PICK a : a = Attached(d, t, o)
  OBVIOUS
<1>7. ASSUME NEW out, out \in Seq(FrameSet), NEW b, b = Attached(d, t, out)
      PROVE  AnswersOn(x, t, b) /\ b.out = out
  <2>1. AttachedIs(d, t, out, b)
    BY <1>1, <1>4, <1>7, AttachedGives
  <2> QED BY <1>2, <1>3, <1>4, <2>1 DEF AttachedIs, AnswersOn
<1>8. Connect(d, t, FALSE, writes) = a
  <2>1. PICK c : c = [d EXCEPT !.transport = t]
    OBVIOUS
  <2>2. Callback(c, "connected", writes) = c
    BY CallbackIdle
  <2>3. Connect(d, t, FALSE, writes) = c
    BY <2>1, <2>2 DEF Connect
  <2>4. c = a
    BY <1>4, <1>5, <1>6, <2>1 DEF Attached, EndSet
  <2> QED BY <2>3, <2>4
<1>9. /\ AnswersOn(x, t, a) /\ a.out = << >> /\ a \in EndSet /\ a.cache = x.cache
      /\ a.cache.impliedPosition = Len(x.delivered)
  <2>1. AnswersOn(x, t, a) /\ a.out = << >>
    BY <1>5, <1>6, <1>7
  <2>2. a.cache = x.cache
    BY <2>1 DEF AnswersOn
  <2>3. a \in EndSet
    BY <2>1 DEF AnswersOn
  <2> QED BY <1>1, <2>1, <2>2, <2>3, LocalOpen
<1>10. CASE ClientPositionExists(x.cache, f.b) /\ IsPositionAvailable(x.cache, f.a)
  <2>1. PICK r : r = ResumeOkFrame(Len(x.delivered))
    OBVIOUS
  <2>2. r \in FrameSet
    <3>1. Len(x.delivered) \in Nat
      BY <1>1, EndFacts
    <3> QED BY <2>1, <3>1, FrameFacts
  <2>3. PICK out \in Seq(FrameSet) : out = <<r>>
    <3>1. <<r>> \in Seq(FrameSet)
      BY <2>2
    <3> QED BY <3>1
  <2>4. PICK b : b = Attached(d, t, out)
    OBVIOUS
  <2>5. AnswersOn(x, t, b) /\ b.out = <<ResumeOkFrame(Len(x.delivered))>>
    BY <1>7, <2>1, <2>3, <2>4
  <2>6. [a EXCEPT !.out = Append(@, ResumeOkFrame(a.cache.impliedPosition))] = b
    <3>1. Append(a.out, ResumeOkFrame(a.cache.impliedPosition)) = out
      BY <1>9, <2>1, <2>3
    <3>2. [a EXCEPT !.out = out] = b
      BY <1>4, <1>6, <2>4 DEF Attached, EndSet
    <3> QED BY <1>9, <3>1, <3>2 DEF EndSet
  <2>7. z = ResumeFromPosition(b, f.a, writes)
    <3>1. z = ResumeFromPosition(
                 [a EXCEPT !.out = Append(@, ResumeOkFrame(a.cache.impliedPosition))], f.a, writes)
      BY <1>1, <1>2, <1>8, <1>9, <1>10, Zenon DEF ResumeFromPositionOrClose
    <3> QED BY <2>6, <3>1, Zenon
  <2> QED BY <1>10, <2>5, <2>7, Zenon DEF AnswerCase
<1>11. CASE ~(ClientPositionExists(x.cache, f.b) /\ IsPositionAvailable(x.cache, f.a))
  <2>1. z = CloseWithError(a)
    BY <1>1, <1>2, <1>8, <1>9, <1>11, Zenon DEF ResumeFromPositionOrClose
  <2> QED BY <1>9, <1>11, <2>1, Zenon DEF AnswerCase
<1> QED BY <1>10, <1>11

LEMMA AnswerGives ==
  ASSUME Orderly, NEW x, NEW t, NEW f, NEW n, NEW writes, NEW z, AnswerOf(x, t, f, n, writes, z)
  PROVE  AnswerIs(x, t, f, n, z)
<1>1. /\ x \in EndSet /\ ~x.closed
      /\ t \in Nat /\ t # 0 /\ f \in FrameSet /\ n \in Nat /\ Retains(x.cache, n)
  BY DEF AnswerOf
<1>2. PICK b : AnswerCase(x, t, f, writes, z, b)
  BY AnswerCases
<1>3. /\ b \in EndSet /\ Local(b)
      /\ b.transport = t /\ ~b.closed /\ ~b.resuming /\ ~b.awaiting
      /\ b.cache = x.cache /\ b.written = x.written /\ b.delivered = x.delivered
  BY <1>2 DEF AnswerCase, AnswersOn
<1>4. CASE ClientPositionExists(x.cache, f.b) /\ IsPositionAvailable(x.cache, f.a)
  <2>1. b.out = <<ResumeOkFrame(Len(x.delivered))>> /\ z = ResumeFromPosition(b, f.a, writes)
    BY <1>2, <1>4 DEF AnswerCase
  <2>2. f.a \in Nat
    BY <1>1, FrameIsItem, ItemFacts
  <2>3. /\ ~b.closed /\ b.transport # 0 /\ ~b.resuming
        /\ Retains(b.cache, n) /\ IsPositionAvailable(b.cache, f.a)
    BY <1>1, <1>3, <1>4
  <2>4. PICK w \in Seq(FrameSet) : Passes(b, z, w, n) /\ Flow(w, f.a, z.cache.position)
    BY <1>1, <1>3, <2>1, <2>2, <2>3, ReplayPasses
  <2>5. ResumesIs(x, t, f, n, z)
    BY <1>1, <1>3, <2>1, <2>3, <2>4, ResumesFacts
  <2>6. /\ z \in EndSet /\ Local(z) /\ z.written = x.written /\ z.delivered = x.delivered
        /\ ~z.closed /\ ~z.resuming /\ ~z.awaiting /\ z.pending = << >>
    BY <1>3, <2>4 DEF Passes
  <2> QED BY <2>5, <2>6 DEF AnswerIs, Shape
<1>5. CASE ~(ClientPositionExists(x.cache, f.b) /\ IsPositionAvailable(x.cache, f.a))
  <2>1. b.out = << >> /\ z = CloseWithError(b)
    BY <1>2, <1>5 DEF AnswerCase
  <2>2. Cached(b.cache) /\ b.transport # 0
    BY <1>1, <1>3, LocalOpen
  <2>3. Leaves(b, z) /\ z.closed
    BY <1>3, <2>1, <2>2, CloseWithErrorGives
  <2>4. RefusesIs(z)
    BY <2>3 DEF RefusesIs, Leaves, AllIn
  <2> QED BY <1>3, <2>3, <2>4 DEF AnswerIs, Leaves, Shape
<1> QED BY <1>4, <1>5

LEMMA TryResumeServerKeeps ==
  ASSUME Orderly, IInv, NEW t \in Transports, NEW writes, TryResumeServer(t, writes)
  PROVE  IInv'
<1>1. PICK x : x = end[Server]
  OBVIOUS
<1>2. PICK y : y = end[Client]
  OBVIOUS
<1>3. PICK streams : streams = Consume(t, Server)
  OBVIOUS
<1>4. PICK f : f = Head(wire[t][Server].frames)
  OBVIOUS
<1>5. PICK z : z = ResumeFromPositionOrClose(Connect(Disconnect(x), t, FALSE, writes), f, writes)
  OBVIOUS
<1>6. /\ x.transport # t /\ wire[t][Server].frames # << >>
      /\ ~x.closed /\ accepted # 0 /\ (Drained => queue[Server] = << >>)
      /\ Commit(Server, z, t, streams)
      /\ accepted' = IF t > accepted THEN t ELSE accepted
      /\ queue' = queue /\ lastTransport' = lastTransport
  BY <1>1, <1>3, <1>4, <1>5 DEF TryResumeServer, FirstFrame, IsOpen
<1>7. /\ Types /\ wire \in [Transports -> [Ends -> StreamSet]]
      /\ queue \in [Ends -> Seq(TaskSet)]
      /\ lastTransport \in 0..MaxTransports /\ accepted \in 0..lastTransport
      /\ MaxTransports \in Nat
  BY BoundsAssumption DEF IInv, Types
<1>8. /\ Client \in Ends /\ Server \in Ends /\ Client # Server
      /\ Peer(Client) = Server /\ Peer(Server) = Client
      /\ \A d \in Ends : d = Client \/ d = Server
  BY PeerFacts DEF Ends
<1>9. /\ x \in EndSet /\ Local(x) /\ Shape(Server, x) /\ x.out = << >>
      /\ Line(Server) \in Seq(ItemSet) /\ Towards(Server) /\ x.transport \in 0..lastTransport
  BY <1>1, <1>8, StateFacts
<1>10. /\ y \in EndSet /\ Shape(Client, y) /\ y.out = << >> /\ Local(y) /\ Towards(Client)
       /\ y.transport \in 0..lastTransport /\ Line(Client) \in Seq(ItemSet)
       /\ Arriving(Client) \in Seq(FrameSet)
  BY <1>2, <1>8, StateFacts
<1>11. \A u \in Transports :
          /\ u # y.transport => wire[u][Client].frames = << >>
          /\ u # y.transport /\ u <= lastTransport =>
                wire[u][Client].ended /\ wire[u][Server].ended
          /\ u > lastTransport =>
                /\ ~wire[u][Client].ended /\ ~wire[u][Server].ended
                /\ wire[u][Server].frames = << >>
  BY <1>2 DEF IInv, ClientSide
<1>12. t \in Nat /\ t # 0 /\ t <= lastTransport
  <2>1. ~(t > lastTransport)
    BY <1>6, <1>11
  <2> QED BY <1>7, <2>1 DEF Transports
<1>13. queue[Server] = << >> /\ Via(Server) = x.transport
  BY <1>1, <1>6, <1>8, <1>9 DEF Orderly, Towards, Via
<1>14. /\ f \in FrameSet /\ Tail(wire[t][Server].frames) = << >>
       /\ y.transport = t => /\ y.resuming /\ f.a = Len(y.delivered)
                             /\ AllEnd(Line(Client))
  <2>1. PICK fs \in Seq(FrameSet) : fs = wire[t][Server].frames
    BY <1>7, <1>8, StreamFacts
  <2>2. /\ fs[1] \in FrameSet /\ f = fs[1] /\ Tail(fs) \in Seq(FrameSet)
        /\ Len(Tail(fs)) = Len(fs) - 1
    BY <1>4, <1>6, <2>1, TailFacts
  <2>3. Asked(t)
    BY <1>6, <1>13 DEF IInv, ServerSide
  <2>4. /\ Len(fs) = 1
        /\ y.transport = t => /\ y.resuming /\ fs[1].a = Len(y.delivered)
                              /\ AllEnd(Line(Client))
    BY <1>2, <1>6, <2>1, <2>3 DEF Asked
  <2>5. Tail(fs) = << >>
    <3>1. Len(Tail(fs)) = 0
      BY <2>2, <2>4
    <3> QED BY <2>2, <3>1, EmptySeq
  <2> QED BY <2>1, <2>2, <2>4, <2>5
<1>15. Fed(x, y, Line(Server), Sends(y, Server)) /\ Fed(y, x, Line(Client), Sends(x, Client))
  BY <1>1, <1>2, <1>8, <1>9, <1>10 DEF Towards
<1>16. PICK n \in Nat : n = Len(y.delivered) /\ Retains(x.cache, n)
  BY <1>6, <1>10, <1>15, EndFacts DEF Fed
<1>17. AnswerIs(x, t, f, n, z)
  <2>1. AnswerOf(x, t, f, n, writes, z)
    BY <1>5, <1>6, <1>9, <1>12, <1>14, <1>16 DEF AnswerOf
  <2> QED BY <2>1, AnswerGives
<1>18. /\ z \in EndSet /\ Local(z) /\ Shape(Server, z) /\ z.out \in Seq(FrameSet)
       /\ z.written = x.written /\ z.delivered = x.delivered
       /\ RefusesIs(z) \/ ResumesIs(x, t, f, n, z)
  BY <1>17, EndFacts DEF AnswerIs
<1>19. (z.closed /\ z.transport = 0) \/ (~z.closed /\ z.transport = t)
  BY <1>18 DEF RefusesIs, ResumesIs
<1>20. PICK s : s = Settled(z)
  OBVIOUS
<1>21. /\ s \in EndSet /\ s.out = << >>
       /\ s.transport = z.transport /\ s.closed = z.closed
       /\ s.cache = z.cache /\ s.written = x.written /\ s.delivered = x.delivered
       /\ Shape(Server, s) /\ Local(s)
  BY <1>18, <1>20, SettledFacts
<1>22. PICK o \in Seq(FrameSet) : o = z.out /\ o \in Seq(ItemSet)
  BY <1>18, FrameIsItem
<1>23. /\ streams \in [Transports -> [Ends -> StreamSet]]
       /\ \A u \in Transports : \A d \in Ends :
             streams[u][d].ended = wire[u][d].ended /\ streams[u][d].frames =
                IF u = t /\ d = Server THEN Tail(wire[u][d].frames) ELSE wire[u][d].frames
  BY <1>3, <1>6, <1>7, <1>8, ConsumeFacts
<1>24. DeadStream.frames = << >> /\ DeadStream.ended
  BY DEF DeadStream
<1>25. /\ end' \in [Ends -> EndSet] /\ end'[Server] = s /\ end'[Client] = y
       /\ wire' \in [Transports -> [Ends -> StreamSet]]
  <2>1. CommitIs(Server, Client, z, t, streams)
    BY ONLY <1>6, <1>7, <1>8, <1>18, <1>23, CommitGives
  <2> QED BY <1>2, <1>20, <2>1 DEF CommitIs
<1>26. ASSUME NEW u \in Transports
       PROVE  /\ wire'[u][Server].ended <=> \/ u = x.transport \/ (z.closed /\ u = t)
                                            \/ wire[u][Server].ended
              /\ wire'[u][Server].frames = IF u = x.transport \/ u = t THEN << >>
                                           ELSE wire[u][Server].frames
              /\ wire'[u][Client].ended <=> \/ u = x.transport \/ (z.closed /\ u = t)
                                            \/ wire[u][Client].ended
              /\ wire'[u][Client].frames = IF u = t /\ ~wire[t][Client].ended
                                           THEN wire[t][Client].frames \o o
                                           ELSE wire[u][Client].frames
  <2>1. CommitIs(Server, Client, z, t, streams)
    BY ONLY <1>6, <1>7, <1>8, <1>18, <1>23, CommitGives
  <2>2. Left(Server, z, t, u) <=> u = x.transport \/ (z.closed /\ u = t)
    <3>1. u # 0
      BY DEF Transports
    <3>2. CASE z.closed /\ z.transport = 0
      BY <1>1, <3>1, <3>2 DEF Left
    <3>3. CASE ~z.closed /\ z.transport = t
      BY <1>1, <1>6, <3>1, <3>3 DEF Left
    <3> QED BY <1>19, <3>2, <3>3
  <2>3. /\ wire'[u][Server] = IF Left(Server, z, t, u) THEN DeadStream ELSE streams[u][Server]
        /\ wire'[u][Client].ended <=> Left(Server, z, t, u) \/ streams[u][Client].ended
        /\ wire'[u][Client].frames = IF u = t /\ ~streams[u][Client].ended
                                     THEN streams[u][Client].frames \o o
                                     ELSE streams[u][Client].frames
    BY <1>22, <2>1 DEF CommitIs
  <2>4. /\ streams[u][Client].ended = wire[u][Client].ended
        /\ streams[u][Server].ended = wire[u][Server].ended
        /\ streams[u][Client].frames = wire[u][Client].frames
        /\ streams[u][Server].frames = IF u = t THEN << >> ELSE wire[u][Server].frames
    BY <1>8, <1>14, <1>23
  <2>5. CASE Left(Server, z, t, u)
    <3>1. wire'[u][Server] = DeadStream /\ wire'[u][Client].ended
      BY <2>3, <2>5
    <3> QED BY <1>24, <2>2, <2>3, <2>4, <2>5, <3>1
  <2>6. CASE ~Left(Server, z, t, u)
    <3>1. wire'[u][Server] = streams[u][Server] /\ u # x.transport
      BY <2>2, <2>3, <2>6
    <3> QED BY <2>2, <2>3, <2>4, <2>6, <3>1
  <2> QED BY <2>5, <2>6
<1>27. PICK live : live = (~wire[t][Client].ended)
  OBVIOUS
<1>28. live => y.transport = t /\ y.resuming /\ f.a = n /\ Line(Client) = << >>
  <2>1. SUFFICES ASSUME live PROVE y.transport = t /\ y.resuming /\ f.a = n /\ Line(Client) = << >>
    OBVIOUS
  <2>2. y.transport = t
    BY <1>11, <1>12, <1>27, <2>1
  <2>3. \A i \in 1..Len(queue[Client]) : queue[Client][i].frame # << >>
    BY <1>2, <1>10, <1>12, <1>27, <2>1, <2>2 DEF Towards
  <2>4. ASSUME Line(Client) # << >> PROVE FALSE
    <3>1. Line(Client)[1].type # "END"
      BY <1>8, <2>3, <2>4, LineFrames
    <3>2. 1 \in 1..Len(Line(Client))
      BY <1>10, <2>4, TailFacts
    <3> QED BY <1>14, <2>2, <3>1, <3>2 DEF AllEnd
  <2> QED BY <1>14, <1>16, <2>2, <2>4
<1>29. accepted' # 0 /\ accepted' \in 0..lastTransport
  BY <1>6, <1>7, <1>12
<1>30. Types'
  BY <1>6, <1>7, <1>25, <1>29 DEF Types
<1>31. Via(Server)' = s.transport /\ Via(Client)' = y.transport /\ Via(Client) = y.transport
  BY <1>2, <1>8, <1>25, <1>29 DEF Via
<1>32. Line(Server)' = << >>
  <2>1. Arriving(Server)' = << >>
    BY <1>19, <1>21, <1>26, <1>31 DEF Arriving
  <2>2. << >> \in Seq(FrameSet) /\ queue[Server] \in Seq(TaskSet)
    BY <1>7, <1>8
  <2> QED BY <1>6, <1>13, <2>1, <2>2, LineNoTasks DEF Line
<1>33. y.transport # 0 => y.transport \in Transports
  BY <1>7, <1>10 DEF Transports
<1>34. Line(Client)' = IF live THEN o ELSE Line(Client)
  <2>1. CASE live
    <3>1. Arriving(Client) = wire[t][Client].frames
      BY <1>12, <1>28, <1>31, <2>1 DEF Arriving
    <3>2. Arriving(Client)' = Arriving(Client) \o o
      BY <1>12, <1>26, <1>27, <1>28, <1>31, <2>1, <3>1 DEF Arriving
    <3>3. queue[Client] \in Seq(TaskSet)
      BY <1>7, <1>8
    <3>4. Along(queue[Client], Arriving(Client) \o o) = Along(queue[Client], Arriving(Client)) \o o
      BY <1>10, <3>3, LineLonger
    <3>5. Line(Client)' = << >> \o o
      BY <1>6, <1>28, <2>1, <3>2, <3>4 DEF Line
    <3> QED BY <2>1, <3>5, ConcatEmptySeq
  <2>2. CASE ~live
    <3>1. Arriving(Client)' = Arriving(Client)
      BY <1>26, <1>27, <1>31, <1>33, <2>2 DEF Arriving
    <3> QED BY <1>6, <2>2, <3>1 DEF Line
  <2> QED BY <2>1, <2>2
<1>35. Sends(s, Client)' => live /\ ~z.closed /\ s.transport = t
  <2>1. s.transport # 0 => ~z.closed /\ s.transport = t
    BY <1>19, <1>21
  <2>2. s.transport = t /\ ~z.closed /\ ~wire'[t][Client].ended => live
    BY <1>6, <1>26, <1>27
  <2> QED BY <2>1, <2>2 DEF Sends
<1>36. Towards(Server)'
  <2>1. ~Sends(y, Server)'
    <3>1. SUFFICES ASSUME y.transport # 0, ~y.resuming PROVE wire'[y.transport][Server].ended
      BY DEF Sends
    <3>2. CASE wire[y.transport][Server].ended
      BY <1>26, <1>33, <3>1, <3>2
    <3>3. CASE ~wire[y.transport][Server].ended
      <4>1. Sends(y, Server)
        BY <3>1, <3>3 DEF Sends
      <4>2. x.transport = y.transport
        BY <1>2, <1>8, <1>9, <1>13, <4>1 DEF Towards
      <4>3. y.transport \in Transports
        BY <1>33, <3>1
      <4>4. \A u \in Transports : u = x.transport => wire'[u][Server].ended
        BY <1>26
      <4> QED BY ONLY <4>2, <4>3, <4>4
    <3> QED BY <3>2, <3>3
  <2>2. Fed(s, y, << >>, FALSE)
    <3>1. PICK w \in Seq(ItemSet) : w = Line(Server)
      BY <1>9
    <3>2. Fed(x, y, w, Sends(y, Server))
      BY <1>15, <3>1
    <3>3. PICK v \in Seq(ItemSet) : v = << >>
      <4>1. << >> \in Seq(ItemSet)
        OBVIOUS
      <4> QED BY <4>1
    <3>4. Cut(v, w)
      BY <3>3 DEF Cut
    <3>5. Fed(s, y, v, FALSE)
      BY <1>6, <1>9, <1>10, <1>21, <3>2, <3>4, CutFed
    <3> QED BY <3>3, <3>5
  <2>3. Fed(s, y, << >>, Sends(y, Server)')
    BY <2>1, <2>2, FedLive
  <2>4. \A k \in {1, 2} : AllIn(<< >>, k, Told(Server))
    BY DEF AllIn
  <2>5. queue'[Server] = << >>
    BY <1>6, <1>13
  <2>6. \A i \in 1..Len(queue'[Server]) : queue'[Server][i].frame # << >>
    BY <2>5
  <2> QED BY <1>8, <1>25, <1>29, <1>32, <2>1, <2>3, <2>4, <2>5, <2>6 DEF Towards
<1>37. x.written <= s.written /\ Len(x.delivered) <= Len(s.delivered)
  <2>1. x.written \in Nat /\ Len(x.delivered) \in Nat
    BY <1>9, EndFacts
  <2> QED BY <1>21, <2>1
<1>38. ~s.closed => x.cache.position <= s.cache.position /\ Retains(s.cache, Len(y.delivered))
  BY <1>16, <1>18, <1>21 DEF RefusesIs, ResumesIs
<1>39. z.closed => /\ \A i \in 1..Len(o) : o[i].type = "ERROR" /\ o[i].stream # 1
                   /\ Acks(o, Len(s.delivered)) /\ Leads(o) /\ AllIn(o, 1, Told(Client))
  <2>1. SUFFICES ASSUME z.closed
                 PROVE  /\ \A i \in 1..Len(o) : o[i].type = "ERROR" /\ o[i].stream # 1
                        /\ Acks(o, Len(s.delivered)) /\ Leads(o) /\ AllIn(o, 1, Told(Client))
    OBVIOUS
  <2>2. \A i \in 1..Len(o) : o[i].type = "ERROR"
    BY <1>18, <1>22, <2>1 DEF RefusesIs, ResumesIs
  <2>3. \A i \in 1..Len(o) : o[i].stream # 1
    <3>1. \A i \in 1..Len(o) : o[i] \in ItemSet
      BY <1>22
    <3> QED BY <2>2, <3>1, ItemFacts
  <2> QED BY <2>2, <2>3 DEF Acks, Leads, AllIn, Told
<1>40. ~z.closed => /\ o # << >> /\ o[1].type = "RESUME_OK" /\ o[1].a = Len(s.delivered)
                    /\ AllIn(o, 1, Told(Client)) /\ Acks(o, Len(s.delivered)) /\ Leads(o)
                    /\ Flow(o, f.a, s.cache.position)
  BY <1>18, <1>21, <1>22 DEF RefusesIs, ResumesIs
<1>41. PICK w \in Seq(ItemSet) : w = Line(Client)
  BY <1>10
<1>42. Fed(y, x, w, Sends(x, Client))
  BY <1>15, <1>41
<1>43. Fed(y, s, Line(Client)', Sends(s, Client)')
  <2>1. CASE live /\ ~z.closed
    <3>1. w \o o = o
      BY <1>28, <1>41, <2>1, ConcatEmptySeq
    <3>2. \E r \in Nat : Flow(w, Len(y.delivered), r) /\ Flow(o, r, s.cache.position)
      <4>1. Flow(w, n, n)
        BY <1>28, <1>41, <2>1, FlowEmpty
      <4>2. Flow(o, n, s.cache.position)
        BY <1>28, <1>40, <2>1
      <4> QED BY <1>16, <4>1, <4>2
    <3>3. ~s.closed /\ s.cache.position <= s.written
      BY <1>21, <2>1, LocalOpen
    <3>4. Fed(y, s, o, TRUE)
      <4>1. Acks(o, Len(s.delivered)) /\ Retains(s.cache, Len(y.delivered))
        BY <1>38, <1>40, <2>1, <3>3
      <4>2. o \in Seq(ItemSet) /\ s \in EndSet
        BY <1>21, <1>22
      <4> QED BY <1>9, <1>10, <1>37, <1>42, <3>1, <3>2, <3>3, <4>1, <4>2, GrowFed
    <3>5. Fed(y, s, o, Sends(s, Client)')
      BY <3>4, FedLive
    <3> QED BY <1>34, <2>1, <3>5
  <2>2. CASE live /\ z.closed
    <3>1. w \o o = o
      BY <1>28, <1>41, <2>2, ConcatEmptySeq
    <3>2. Fed(y, s, o, FALSE)
      <4>1. /\ Acks(o, Len(s.delivered)) /\ \A i \in 1..Len(o) : o[i].stream # 1
            /\ x.closed => s.closed
        BY <1>6, <1>39, <2>2
      <4>2. o \in Seq(ItemSet) /\ s \in EndSet
        BY <1>21, <1>22
      <4> QED BY <1>9, <1>10, <1>37, <1>38, <1>42, <3>1, <4>1, <4>2, QuietFed
    <3>3. ~Sends(s, Client)'
      BY <1>35, <2>2
    <3>4. Fed(y, s, o, Sends(s, Client)')
      BY <3>2, <3>3, FedLive
    <3> QED BY <1>34, <2>2, <3>4
  <2>3. CASE ~live
    <3>1. PICK g \in Seq(ItemSet) : g = << >>
      <4>1. << >> \in Seq(ItemSet)
        OBVIOUS
      <4> QED BY <4>1
    <3>2. w = w \o g /\ Acks(g, Len(s.delivered)) /\ \A i \in 1..Len(g) : g[i].stream # 1
      BY <3>1, ConcatEmptySeq DEF Acks
    <3>3. Fed(y, s, w, FALSE)
      <4>1. (x.closed => s.closed) /\ s \in EndSet
        BY <1>6, <1>21
      <4> QED BY <1>9, <1>10, <1>37, <1>38, <1>42, <3>2, <4>1, QuietFed
    <3>4. ~Sends(s, Client)'
      BY <1>35, <2>3
    <3>5. Fed(y, s, w, Sends(s, Client)')
      BY <3>3, <3>4, FedLive
    <3> QED BY <1>34, <1>41, <2>3, <3>5
  <2> QED BY <2>1, <2>2, <2>3
<1>44. Towards(Client)'
  <2>1. /\ ~y.closed => AllIn(Line(Client), IF Client = Server /\ accepted = 0 THEN 2 ELSE 1, Told(Client))
        /\ ~Deferred => queue[Client] = << >>
        /\ y.transport # 0 /\ ~wire[y.transport][Client].ended =>
              \A i \in 1..Len(queue[Client]) : queue[Client][i].frame # << >>
    BY <1>2, <1>10 DEF Towards
  <2>2. ~y.closed => AllIn(Line(Client)', 1, Told(Client))
    BY <1>8, <1>34, <1>39, <1>40, <2>1
  <2>3. y.transport # 0 /\ ~wire'[y.transport][Client].ended => ~wire[y.transport][Client].ended
    BY <1>26, <1>33
  <2>4. Sends(s, Client)' => Via(Client)' = s.transport
    BY <1>28, <1>31, <1>35
  <2> QED BY <1>6, <1>8, <1>25, <1>43, <2>1, <2>2, <2>3, <2>4 DEF Towards
<1>45. Unset' /\ Unopened'
  BY <1>6, <1>7, <1>12, <1>29 DEF Unset, Unopened
<1>46. ClientSide'
  <2>1. /\ y.transport \in {0, lastTransport}
        /\ y.resuming => y.transport > 1
    BY <1>2 DEF IInv, ClientSide
  <2>2. ASSUME NEW u \in Transports
        PROVE  /\ u # y.transport => wire'[u][Client].frames = << >>
               /\ u # y.transport /\ u <= lastTransport =>
                     wire'[u][Client].ended /\ wire'[u][Server].ended
               /\ u > lastTransport =>
                     /\ ~wire'[u][Client].ended /\ ~wire'[u][Server].ended
                     /\ wire'[u][Server].frames = << >>
    <3>1. u # y.transport => wire'[u][Client].frames = << >>
      BY <1>11, <1>26, <1>27, <1>28
    <3>2. u # y.transport /\ u <= lastTransport => wire'[u][Client].ended /\ wire'[u][Server].ended
      BY <1>11, <1>26
    <3>3. u > lastTransport => u # x.transport /\ u # t
      BY <1>7, <1>9, <1>12 DEF Transports
    <3> QED BY <1>11, <1>26, <3>1, <3>2, <3>3
  <2> QED BY <1>6, <1>25, <2>1, <2>2 DEF ClientSide
<1>47. ServerSide'
  <2>1. end'[Server].transport <= lastTransport'
    BY <1>6, <1>7, <1>12, <1>19, <1>21, <1>25
  <2>2. ASSUME NEW u \in Transports PROVE Asked(u)' \/ u = s.transport
    <3>1. CASE u = t \/ u = x.transport
      BY <1>26, <3>1 DEF Asked
    <3>2. CASE u # t /\ u # x.transport
      <4>1. Asked(u)
        BY <1>13, <3>2 DEF IInv, ServerSide
      <4>2. wire'[u][Server].frames = wire[u][Server].frames
        BY <1>26, <3>2
      <4>3. y.transport = u => Line(Client)' = Line(Client)
        BY <1>28, <1>34, <3>2
      <4> QED BY <1>2, <1>25, <4>1, <4>2, <4>3 DEF Asked
    <3> QED BY <3>1, <3>2
  <2> QED BY <1>31, <2>1, <2>2 DEF ServerSide
<1>48. Answered'
  <2>1. SUFFICES ASSUME y.resuming PROVE Answered'
    BY <1>25 DEF Answered
  <2>2. AllEnd(Line(Server)')
    BY <1>32 DEF AllEnd
  <2>3. y.transport # 0 /\ y.transport \in Transports
    BY <1>10, <1>33, <2>1 DEF Shape
  <2>4. CASE live
    <3>1. Line(Client)' = o /\ Leads(o) /\ y.transport = t
      BY <1>28, <1>34, <1>39, <1>40, <2>4
    <3>2. CASE z.closed
      <4>1. s.transport # t
        BY <1>12, <1>19, <1>21, <3>2
      <4>2. ~(o # << >> /\ o[1].type = "RESUME_OK")
        <5>1. o # << >> => 1 \in 1..Len(o)
          BY <1>22, TailFacts
        <5> QED BY <1>39, <3>2, <5>1
      <4> QED BY <1>25, <3>1, <4>1, <4>2 DEF Answered
    <3>3. CASE ~z.closed
      BY <1>19, <1>21, <1>25, <1>40, <2>2, <3>1, <3>3 DEF Answered
    <3> QED BY <3>2, <3>3
  <2>5. CASE ~live
    <3>1. /\ Leads(w)
          /\ w # << >> /\ w[1].type = "RESUME_OK" =>
                /\ w[1].a = Len(x.delivered)
                /\ ~wire[y.transport][Server].ended => x.transport = y.transport
      BY <1>1, <1>2, <1>41, <2>1 DEF IInv, Answered
    <3>2. Line(Client)' = w
      BY <1>34, <1>41, <2>5
    <3>3. wire'[y.transport][Server].ended <=>
             \/ y.transport = x.transport \/ (z.closed /\ y.transport = t)
             \/ wire[y.transport][Server].ended
      BY <1>26, <2>3
    <3>4. ~(s.transport = y.transport /\ ~wire'[y.transport][Client].ended)
      <4>1. s.transport = y.transport => y.transport = t
        BY <1>19, <1>21, <2>3
      <4>2. wire'[t][Client].ended
        BY <1>26, <1>27, <2>5
      <4> QED BY <4>1, <4>2
    <3>5. w # << >> /\ w[1].type = "RESUME_OK" =>
             /\ w[1].a = Len(s.delivered)
             /\ wire'[y.transport][Server].ended
      BY <1>21, <3>1, <3>3
    <3> QED BY <1>25, <2>2, <3>1, <3>2, <3>4, <3>5 DEF Answered
  <2> QED BY <2>4, <2>5
<1>49. ASSUME NEW d \in Ends
       PROVE  /\ Shape(d, end'[d]) /\ end'[d].out = << >> /\ Local(end'[d]) /\ Towards(d)'
  BY <1>8, <1>10, <1>21, <1>25, <1>36, <1>44
<1> QED BY <1>30, <1>45, <1>46, <1>47, <1>48, <1>49 DEF IInv

-----------------------------------------------------------------------------
(* The invariant holds                                                     *)

LEMMA NewEndIsWell ==
  /\ NewEnd \in EndSet /\ Local(NewEnd) /\ \A e : Shape(e, NewEnd)
  /\ Retains(NewEnd.cache, 0)
<1>1. NewCache \in CacheSet
  <2>1. << >> \in Seq(EntrySet)
    OBVIOUS
  <2> QED BY <2>1 DEF NewCache, CacheSet
<1>2. NewEnd \in EndSet
  <2>1. << >> \in Seq(FrameSet) /\ << >> \in Seq(Nat)
    OBVIOUS
  <2> QED BY <1>1, <2>1 DEF NewEnd, EndSet
<1>3. /\ NewEnd.cache.position = 0 /\ NewEnd.cache.frames = << >> /\ NewEnd.cache.size = 0
      /\ NewEnd.cache.resetPosition = 0 /\ NewEnd.cache.impliedPosition = 0
  BY DEF NewEnd, NewCache
<1>4. Len(<< >>) = 0
  OBVIOUS
<1>5. Cached(NewEnd.cache)
  BY <1>3, <1>4 DEF Cached, Numbered
<1>6. Counted(NewEnd.cache)
  <2>1. 0 = 0 - 0 /\ 0 <= Capacity
    BY CapacityAssumption
  <2> QED BY <1>3, <1>4, <2>1 DEF Counted
<1>7. Flow(<< >>, 0, 0)
  BY FlowEmpty
<1>8. AllIn(<< >>, 1, {"PAYLOAD", "KEEPALIVE"}) /\ Acks(<< >>, 0)
  BY DEF AllIn, Acks
<1>9. Local(NewEnd)
  BY <1>3, <1>4, <1>5, <1>6, <1>7, <1>8, NewEndFacts DEF Local
<1>10. \A e : Shape(e, NewEnd)
  BY NewEndFacts DEF Shape
<1>11. Retains(NewEnd.cache, 0)
  BY <1>3, <1>4 DEF Retains
<1> QED BY <1>2, <1>9, <1>10, <1>11

LEMMA InitHolds == Init => IInv
<1> SUFFICES ASSUME Init PROVE IInv
  OBVIOUS
<1>1. /\ Client \in Ends /\ Server \in Ends /\ Client # Server
      /\ Peer(Client) = Server /\ Peer(Server) = Client
      /\ \A d \in Ends : d = Client \/ d = Server
      /\ \A d \in Ends : Peer(d) \in Ends
  BY PeerFacts DEF Ends
<1>2. MaxTransports \in Nat \ {0} /\ 1 \in Transports
  BY BoundsAssumption DEF Transports
<1>3. /\ end \in [Ends -> EndSet] /\ \A e \in Ends : end[e] = NewEnd
  BY NewEndIsWell DEF Init
<1>4. /\ wire \in [Transports -> [Ends -> StreamSet]]
      /\ \A t \in Transports : \A e \in Ends :
            wire[t][e].frames = << >> /\ ~wire[t][e].ended
  <2>1. NewStream \in StreamSet /\ NewStream.frames = << >> /\ ~NewStream.ended
    <3>1. << >> \in Seq(FrameSet)
      OBVIOUS
    <3> QED BY <3>1 DEF NewStream, StreamSet
  <2> QED BY <2>1 DEF Init
<1>5. /\ queue \in [Ends -> Seq(TaskSet)] /\ \A e \in Ends : queue[e] = << >>
      /\ lastTransport = 0 /\ accepted = 0
  BY DEF Init
<1>6. Types
  BY <1>2, <1>3, <1>4, <1>5 DEF Types
<1>7. ASSUME NEW e \in Ends PROVE Line(e) = << >>
  <2>1. Via(e) \in {0, 1}
    BY <1>3, <1>5, <1>7, NewEndFacts DEF Via
  <2>2. Arriving(e) = << >>
    BY <1>2, <1>4, <1>7, <2>1 DEF Arriving
  <2>3. << >> \in Seq(FrameSet) /\ queue[e] \in Seq(TaskSet) /\ queue[e] = << >>
    BY <1>5, <1>7
  <2> QED BY <2>2, <2>3, LineNoTasks DEF Line
<1>8. ASSUME NEW e \in Ends PROVE Towards(e)
  <2>1. end[e] = NewEnd /\ end[Peer(e)] = NewEnd /\ queue[e] = << >> /\ Line(e) = << >>
    BY <1>1, <1>3, <1>5, <1>7, <1>8
  <2>2. Acks(<< >>, Len(NewEnd.delivered)) /\ Flow(<< >>, 0, 0) /\ 0 \in Nat
    BY FlowEmpty DEF Acks
  <2>3. Len(NewEnd.delivered) = 0 /\ NewEnd.written = 0 /\ NewEnd.cache.position = 0
    BY NewEndFacts
  <2>4. ~Sends(NewEnd, e)
    BY NewEndFacts DEF Sends
  <2>5. Fed(NewEnd, NewEnd, << >>, Sends(NewEnd, e))
    BY <2>2, <2>3, <2>4, NewEndIsWell DEF Fed
  <2>6. \A k : AllIn(<< >>, k, Told(e))
    BY DEF AllIn
  <2>7. \A i \in 1..Len(queue[e]) : queue[e][i].frame # << >>
    BY <2>1
  <2> QED BY <2>1, <2>4, <2>5, <2>6, <2>7 DEF Towards
<1>9. Unset /\ Unopened
  BY <1>1, <1>2, <1>3, <1>4, <1>5, NewEndFacts DEF Unset, Unopened
<1>10. ClientSide
  <2>1. end[Client].transport = 0 /\ ~end[Client].resuming
    BY <1>1, <1>3, NewEndFacts
  <2>2. \A t \in Transports : ~(t <= lastTransport)
    BY <1>5 DEF Transports
  <2> QED BY <1>1, <1>4, <1>5, <2>1, <2>2 DEF ClientSide
<1>11. ServerSide
  <2>1. end[Server].transport <= lastTransport
    BY <1>1, <1>3, <1>5, NewEndFacts
  <2> QED BY <1>1, <1>4, <2>1 DEF ServerSide, Asked
<1>12. Answered
  BY <1>1, <1>3, NewEndFacts DEF Answered
<1>13. \A e \in Ends : Shape(e, end[e]) /\ end[e].out = << >> /\ Local(end[e])
  BY <1>3, NewEndIsWell, NewEndFacts
<1> QED BY <1>6, <1>8, <1>9, <1>10, <1>11, <1>12, <1>13 DEF IInv

LEMMA StutterKeeps ==
  ASSUME IInv, UNCHANGED vars
  PROVE  IInv'
<1> USE DEF vars
<1>1. Types'
  BY DEF IInv, Types
<1>2. \A e : (Via(e))' = Via(e) /\ (Arriving(e))' = Arriving(e) /\ (Line(e))' = Line(e)
  BY DEF Via, Arriving, Line
<1>3. ASSUME NEW e \in Ends
      PROVE  Shape(e, end'[e]) /\ end'[e].out = << >> /\ Local(end'[e]) /\ Towards(e)'
  BY <1>2 DEF IInv, Towards, Sends
<1>4. Unset' /\ Unopened' /\ ClientSide'
  BY DEF IInv, Unset, Unopened, ClientSide
<1>5. ServerSide'
  BY <1>2 DEF IInv, ServerSide, Asked
<1>6. Answered'
  BY <1>2 DEF IInv, Answered
<1> QED BY <1>1, <1>3, <1>4, <1>5, <1>6 DEF IInv

LEMMA NextKeeps ==
  ASSUME Orderly, IInv, [Next]_vars
  PROVE  IInv'
<1>1. CASE \E e \in Ends : AppWrite(e) \/ AppDisconnect(e) \/ AppClose(e)
  BY <1>1, AppWriteKeeps, AppDisconnectKeeps, AppCloseKeeps
<1>2. ASSUME NEW writes \in BOOLEAN, ClientConnect(writes) PROVE IInv'
  BY <1>2, ClientConnectKeeps
<1>3. ASSUME NEW writes \in BOOLEAN, TryClientResume(writes) PROVE IInv'
  BY <1>3, TryClientResumeKeeps
<1>4. ASSUME NEW writes \in BOOLEAN, NEW t \in Transports, ServerSetup(t, writes) PROVE IInv'
  BY <1>4, ServerSetupKeeps
<1>5. ASSUME NEW writes \in BOOLEAN, NEW t \in Transports, TryResumeServer(t, writes) PROVE IInv'
  BY <1>5, TryResumeServerKeeps
<1>6. ASSUME NEW writes \in BOOLEAN, NEW e \in Ends, Receive(e, writes) PROVE IInv'
  BY <1>6, ReceiveKeeps, QueuedIsWire, WireKeeps
<1>7. ASSUME NEW writes \in BOOLEAN, NEW e \in Ends, RunTask(e, writes) PROVE IInv'
  BY <1>7, RunTaskKeeps
<1>8. CASE \E t \in Transports : RefuseResume(t) \/ TransportFails(t)
  BY <1>8, RefuseResumeIsWire, TransportFailsIsWire, WireKeeps
<1>9. CASE \E e \in Ends : ReceiveTerminal(e)
  BY <1>9, ReceiveTerminalKeeps, EndQueuedIsWire, WireKeeps
<1>10. CASE KeepaliveTick
  BY <1>10, KeepaliveTickKeeps
<1>11. CASE UNCHANGED vars
  BY <1>11, StutterKeeps
<1> QED BY <1>1, <1>2, <1>3, <1>4, <1>5, <1>6, <1>7, <1>8, <1>9, <1>10, <1>11 DEF Next

LEMMA Invariance == ASSUME Orderly PROVE Spec => []IInv
<1>1. IInv /\ [Next]_vars => IInv'
  BY NextKeeps
<1> QED BY <1>1, InitHolds, PTL DEF Spec

-----------------------------------------------------------------------------
(* What follows from it                                                    *)

(***************************************************************************)
(* The fields that belong together do: resumeCallback_ is only set on a    *)
(* connected client, a closed end has no transport, an end is on a         *)
(* transport that was opened, and only frames that the automaton knows are *)
(* pending or on their way.                                                *)
(***************************************************************************)
THEOREM TypeCorrect == ASSUME Orderly PROVE Spec => []TypeOK
<1>1. ASSUME IInv PROVE TypeOK
  <2>1. lastTransport \in 0..MaxTransports
    BY <1>1 DEF IInv, Types
  <2>2. ASSUME NEW f \in FrameSet PROVE FrameOK(f)
    BY DEF FrameOK, FrameSet, ItemSet, ItemTypes, TrackedTypes
  <2>3. ASSUME NEW e \in Ends
        PROVE  /\ end[e].transport \in 0..lastTransport
               /\ end[e].closed => end[e].transport = 0
               /\ end[e].resuming => e = Client /\ end[e].transport # 0
               /\ end[e].awaiting => end[e].transport # 0 /\ ~end[e].resuming
               /\ end[e].out = << >>
    BY <1>1, <2>3, StateFacts DEF Shape
  <2>4. ASSUME NEW e \in Ends
        PROVE  \A i \in 1..Len(end[e].pending) : FrameOK(end[e].pending[i])
    <3>1. end[e].pending \in Seq(FrameSet)
      BY <1>1, <2>4, StateFacts, EndFacts
    <3> QED BY <2>2, <3>1
  <2>5. ASSUME NEW e \in Ends, NEW t \in Transports
        PROVE  \A i \in DOMAIN wire[t][e].frames : FrameOK(wire[t][e].frames[i])
    <3>1. wire[t][e].frames \in Seq(FrameSet)
      BY <1>1, <2>5, StateFacts, StreamFacts
    <3> QED BY <2>2, <3>1
  <2> QED BY <2>1, <2>3, <2>4, <2>5 DEF TypeOK
<1>2. IInv => TypeOK
  BY <1>1
<1> QED BY <1>2, Invariance, PTL

(***************************************************************************)
(* Whatever transports fail, and whenever the ends disconnect and resume,  *)
(* the application of an end is given the frames that the other one wrote, *)
(* in this order, none twice and none skipped (trackReceivedFrame,         *)
(* resumeFromPosition and sendPendingFrames); provided that resumption     *)
(* begins with no task queued, and that nothing is written in the          *)
(* callbacks that come before the cached frames are sent again.            *)
(***************************************************************************)
THEOREM DeliveredOnceInOrder == ASSUME Orderly PROVE Spec => []ExactlyOnceInOrder
<1>1. ASSUME IInv PROVE ExactlyOnceInOrder
  <2>1. ASSUME NEW e \in Ends
        PROVE  /\ Len(end[e].delivered) <= end[Peer(e)].written
               /\ \A i \in 1..Len(end[e].delivered) : end[e].delivered[i] = i
    BY <1>1, <2>1, StateFacts DEF Towards, Fed, Local
  <2> QED BY <2>1 DEF ExactlyOnceInOrder
<1>2. IInv => ExactlyOnceInOrder
  BY <1>1
<1> QED BY <1>2, Invariance, PTL

(***************************************************************************)
(* A sent frame that the other end has not processed can be sent again     *)
(* (isPositionAvailable), unless Capacity frames were sent after it: the   *)
(* position in a KEEPALIVE frame, which resetUpToPosition takes, is never  *)
(* beyond what the other end has processed.                                *)
(***************************************************************************)
THEOREM UndeliveredIsRetained == ASSUME Orderly, Sized PROVE Spec => []RetainsUndelivered
<1>1. ASSUME IInv PROVE RetainsUndelivered
  <2>1. SUFFICES ASSUME NEW e \in Ends, ~end[e].closed, NEW p \in 0..end[e].cache.position,
                        p >= Len(end[Peer(e)].delivered),
                        end[e].cache.position - p <= Capacity
                 PROVE  IsPositionAvailable(end[e].cache, p)
    BY DEF RetainsUndelivered
  <2>2. PICK c : c = end[e].cache
    OBVIOUS
  <2>3. PICK d \in Nat : d = Len(end[Peer(e)].delivered) /\ Retains(c, d)
    BY <1>1, <2>1, <2>2, FeedFacts
  <2>4. end[e] \in EndSet /\ Local(end[e])
    BY <1>1, <2>1, StateFacts
  <2>5. c \in CacheSet /\ Cached(c)
    BY <2>1, <2>2, <2>4, EndFacts, LocalOpen
  <2>6. PICK k \in Nat : k = Len(c.frames)
    BY <2>5 DEF CacheSet
  <2>7. PICK q \in Nat : q = c.position
    BY <2>5 DEF CacheSet
  <2>8. k <= q /\ \A i \in 1..k : c.frames[i].pos = q - k + i - 1
    BY <2>5, <2>6, <2>7 DEF Cached, Numbered
  <2>9. k = Capacity \/ q - k <= d
    BY <2>3, <2>6, <2>7 DEF Retains
  <2>10. p \in Nat /\ p <= q /\ p >= d /\ q - p <= Capacity
    BY <2>1, <2>2, <2>3, <2>7
  <2>11. p >= q - k
    BY <2>8, <2>9, <2>10, CapacityAssumption
  <2>12. CASE p = q
    BY <2>2, <2>7, <2>12 DEF IsPositionAvailable
  <2>13. CASE p # q
    <3>1. p - (q - k) + 1 \in 1..k /\ q - k + (p - (q - k) + 1) - 1 = p
      BY <2>8, <2>10, <2>11, <2>13
    <3>2. c.frames[p - (q - k) + 1].pos = p
      BY <2>8, <3>1
    <3> QED BY <2>2, <2>6, <3>1, <3>2 DEF IsPositionAvailable
  <2> QED BY <2>12, <2>13
<1>2. IInv => RetainsUndelivered
  BY <1>1
<1> HIDE DEF Sized
<1> QED BY <1>2, Invariance, PTL

(***************************************************************************)
(* Between RESUME and RESUME_OK the client never processes a frame of a    *)
(* stream (processFrameImpl would close the connection): what reaches it   *)
(* first is the answer.                                                    *)
(***************************************************************************)
THEOREM AnswerComesFirst == ASSUME Orderly PROVE Spec => []NoStreamFrameWhileResuming
<1>1. ASSUME IInv PROVE NoStreamFrameWhileResuming
  <2>1. SUFFICES ASSUME end[Client].resuming, NEW frame \in NextFrames(Client)
                 PROVE  frame.stream = 0
    BY DEF NoStreamFrameWhileResuming
  <2>2. Client \in Ends /\ Client # Server
    BY PeerFacts DEF Ends
  <2>3. PICK q \in Seq(TaskSet) : q = queue[Client]
    BY <1>1, <2>2, StateFacts
  <2>4. PICK f \in Seq(FrameSet) : f = Arriving(Client)
    BY <1>1, <2>2, StateFacts
  <2>5. PICK w \in Seq(ItemSet) : w = Line(Client) /\ w = Along(q, f) /\ Leads(w)
    <3>1. Line(Client) \in Seq(ItemSet)
      BY <1>1, <2>2, StateFacts
    <3>2. Leads(Line(Client))
      BY <1>1, <2>1 DEF IInv, Answered
    <3> QED BY <2>3, <2>4, <3>1, <3>2 DEF Line
  <2>6. PICK i \in 1..Len(w) : frame = w[i] /\ \A j \in 1..i - 1 : w[j].type = "END"
    <3>1. CASE Deferred
      <4>1. PICK i \in 1..Len(q) : /\ q[i].frame # << >> /\ frame = q[i].frame[1]
                                   /\ \A j \in 1..i - 1 : q[j].frame = << >>
        <5>1. frame \in {q[i].frame[1] :
                 i \in {i \in DOMAIN q : /\ q[i].frame # << >>
                                         /\ \A j \in 1..i - 1 : q[j].frame = << >>}}
          BY <2>1, <2>3, <3>1, Zenon DEF NextFrames
        <5>2. \E i \in DOMAIN q : /\ q[i].frame # << >> /\ frame = q[i].frame[1]
                                  /\ \A j \in 1..i - 1 : q[j].frame = << >>
          BY <5>1, Zenon
        <5>3. DOMAIN q = 1..Len(q)
          OBVIOUS
        <5> QED BY <5>2, <5>3, Zenon
      <4>2. Len(q) \in Nat /\ Len(w) >= Len(q) /\ \A j \in 1..Len(q) : w[j] = AsItem(q[j])
        BY <2>5, LineSeq
      <4>3. w[i] = frame
        BY <4>1, <4>2 DEF AsItem
      <4>4. \A j \in 1..i - 1 : w[j].type = "END"
        <5>1. SUFFICES ASSUME NEW j \in 1..i - 1 PROVE w[j].type = "END"
          OBVIOUS
        <5>2. j \in 1..Len(q) /\ q[j].frame = << >>
          BY <4>1, <4>2
        <5>3. w[j] = EndMark
          BY <4>2, <5>2 DEF AsItem
        <5> QED BY <5>3 DEF EndMark, Frame
      <4>5. i \in 1..Len(w)
        BY <2>5, <4>1, <4>2
      <4> QED BY <4>3, <4>4, <4>5
    <3>2. CASE ~Deferred
      <4>1. PICK t \in Transports : /\ t = end[Client].transport
                                    /\ wire[t][Client].frames # << >>
                                    /\ frame = Head(wire[t][Client].frames)
        BY <2>1, <3>2 DEF NextFrames
      <4>2. t # 0
        BY DEF Transports
      <4>3. f = wire[t][Client].frames
        BY <2>2, <2>4, <4>1, <4>2 DEF Via, Arriving
      <4>4. q = << >>
        BY <1>1, <2>2, <2>3, <3>2, StateFacts DEF Towards
      <4>5. w = f
        BY <2>5, <4>4, LineNoTasks
      <4>6. w # << >> /\ frame = w[1] /\ 1 \in 1..Len(w)
        BY <4>1, <4>3, <4>5, TailFacts
      <4> QED BY <4>6
    <3> QED BY <3>1, <3>2
  <2>7. w[i].type \in {"RESUME_OK", "ERROR", "END"} /\ w[i] \in ItemSet
    BY <2>5, <2>6 DEF Leads
  <2> QED BY <2>6, <2>7, ItemFacts
<1>2. IInv => NoStreamFrameWhileResuming
  BY <1>1
<1> QED BY <1>2, Invariance, PTL

-----------------------------------------------------------------------------
(* Refinement: the two ends act as a reliable link                         *)

(***************************************************************************)
(* What one step may change of an end, as its application sees it: one of  *)
(* a frame written, a frame delivered, and closing.                        *)
(***************************************************************************)
Moves(x, z) ==
    \/ z.written = x.written /\ z.delivered = x.delivered /\ (z.closed <=> x.closed)
    \/ /\ ~x.closed /\ ~z.closed
       /\ z.written = x.written + 1 /\ z.delivered = x.delivered
    \/ /\ ~x.closed /\ ~z.closed
       /\ z.written = x.written /\ z.delivered = Append(x.delivered, Len(x.delivered) + 1)
    \/ /\ ~x.closed /\ z.closed
       /\ z.written = x.written /\ z.delivered = x.delivered

LEMMA LinkStep ==
  ASSUME IInv, IInv', NEW e \in Ends, end'[Peer(e)] = end[Peer(e)], Moves(end[e], end'[e])
  PROVE  [Link!Next]_(Link!vars)
<1>1. /\ Peer(e) \in Ends /\ Peer(e) # e /\ \A d \in Ends : d # e => end'[d] = end[d]
      /\ Link!Ends = Ends /\ Link!Peer(e) = Peer(e)
  <2>1. \A d \in Ends : d = e \/ d = Peer(e)
    BY PeerFacts DEF Ends
  <2> QED BY <2>1, PeerFacts DEF Link!Ends, Ends, Link!Peer, Peer
<1>2. end \in [Ends -> EndSet] /\ end' \in [Ends -> EndSet]
  BY DEF IInv, Types
<1>3. PICK x, z : x = end[e] /\ z = end'[e]
  OBVIOUS
<1>4. PICK W, D, C : /\ W = [d \in Ends |-> end[d].written]
                     /\ D = [d \in Ends |-> end[d].delivered]
                     /\ C = {d \in Ends : end[d].closed}
  OBVIOUS
<1>5. PICK V, F, B : /\ V = [d \in Ends |-> end'[d].written]
                     /\ F = [d \in Ends |-> end'[d].delivered]
                     /\ B = {d \in Ends : end'[d].closed}
  OBVIOUS
<1>6. W[e] = x.written /\ D[e] = x.delivered /\ (e \in C <=> x.closed)
  BY <1>3, <1>4
<1>7. z.written = x.written => V = W
  BY <1>1, <1>3, <1>4, <1>5
<1>8. z.delivered = x.delivered => F = D
  BY <1>1, <1>3, <1>4, <1>5
<1>9. (z.closed <=> x.closed) => B = C
  BY <1>1, <1>3, <1>4, <1>5
<1>10. CASE z.written = x.written /\ z.delivered = x.delivered /\ (z.closed <=> x.closed)
  <2>1. V = W /\ F = D /\ B = C
    BY <1>7, <1>8, <1>9, <1>10
  <2> QED BY <1>4, <1>5, <2>1 DEF Link!vars
<1>11. CASE /\ ~x.closed /\ ~z.closed
            /\ z.written = x.written + 1 /\ z.delivered = x.delivered
  <2>1. V = [W EXCEPT ![e] = @ + 1] /\ F = D /\ B = C /\ e \notin C
    BY <1>1, <1>3, <1>4, <1>5, <1>6, <1>8, <1>9, <1>11
  <2>2. Link!Write(e)
    BY <1>4, <1>5, <2>1 DEF Link!Write
  <2> QED BY <1>1, <2>2 DEF Link!Next
<1>12. CASE /\ ~x.closed /\ ~z.closed
            /\ z.written = x.written /\ z.delivered = Append(x.delivered, Len(x.delivered) + 1)
  <2>1. F = [D EXCEPT ![e] = Append(@, Len(@) + 1)]
    BY <1>1, <1>3, <1>4, <1>5, <1>6, <1>12
  <2>2. V = W /\ B = C /\ e \notin C
    BY <1>6, <1>7, <1>9, <1>12
  <2>3. Len(x.delivered) < end[Peer(e)].written
    <3>1. x.delivered \in Seq(Nat) /\ Len(x.delivered) \in Nat /\ end[Peer(e)].written \in Nat
      BY <1>1, <1>2, <1>3, EndFacts
    <3>2. Len(z.delivered) = Len(x.delivered) + 1
      BY <1>12, <3>1
    <3>3. Len(end'[e].delivered) <= end'[Peer(e)].written
      BY DEF IInv, Towards, Fed
    <3> QED BY <1>3, <3>1, <3>2, <3>3
  <2>4. Len(D[e]) < W[Peer(e)]
    BY <1>1, <1>4, <1>6, <2>3
  <2>5. Link!Deliver(e)
    BY <1>1, <1>4, <1>5, <2>1, <2>2, <2>4 DEF Link!Deliver
  <2> QED BY <1>1, <2>5 DEF Link!Next
<1>13. CASE /\ ~x.closed /\ z.closed
            /\ z.written = x.written /\ z.delivered = x.delivered
  <2>1. B = C \cup {e} /\ e \notin C
    BY <1>1, <1>3, <1>4, <1>5, <1>13
  <2>2. V = W /\ F = D
    BY <1>7, <1>8, <1>13
  <2>3. Link!Close(e)
    BY <1>4, <1>5, <2>1, <2>2 DEF Link!Close
  <2> QED BY <1>1, <2>3 DEF Link!Next
<1> QED BY <1>3, <1>10, <1>11, <1>12, <1>13 DEF Moves

(***************************************************************************)
(* e becomes z, at the end of a step.                                      *)
(***************************************************************************)
LEMMA CommitMoves ==
  ASSUME IInv, NEW e \in Ends, NEW z, z \in EndSet, NEW t, NEW streams,
         Commit(e, z, t, streams), Moves(end[e], z)
  PROVE  end'[Peer(e)] = end[Peer(e)] /\ Moves(end[e], end'[e])
<1>1. /\ Peer(e) \in Ends /\ Peer(e) # e /\ end \in [Ends -> EndSet]
  BY PeerFacts DEF IInv, Types
<1>2. end' = [end EXCEPT ![e] = Settled(z)]
  BY DEF Commit, Settled
<1>3. end'[Peer(e)] = end[Peer(e)] /\ end'[e] = Settled(z)
  BY <1>1, <1>2
<1>4. PICK s : s = Settled(z)
  OBVIOUS
<1>5. s.written = z.written /\ s.delivered = z.delivered /\ s.closed = z.closed
  BY <1>4, SettledFacts
<1>6. Moves(end[e], s)
  BY <1>5 DEF Moves
<1> QED BY <1>3, <1>4, <1>6

LEMMA LeavesMoves ==
  ASSUME NEW x, NEW z, Leaves(x, z), x \in EndSet
  PROVE  z \in EndSet /\ Moves(x, z)
  BY EndFacts DEF Leaves, Moves

(***************************************************************************)
(* A frame is processed.                                                   *)
(***************************************************************************)
LEMMA ProcessMoves ==
  ASSUME Orderly, IInv, NEW e \in Ends, ~(e = Server /\ accepted = 0), NEW x, x = end[e],
         NEW w, w = Line(e), w # << >>, w[1].type # "END", NEW writes,
         NEW z, z = ProcessFrame(e, x, w[1], writes)
  PROVE  z \in EndSet /\ Moves(x, z)
<1>1. PICK p : p = Peer(e)
  OBVIOUS
<1>2. PICK y : y = end[p]
  OBVIOUS
<1>3. PICK n \in Nat : n = Len(y.delivered)
  BY <1>1, <1>2, FeedFacts
<1>4. x \in EndSet /\ Local(x) /\ Shape(e, x) /\ x.out = << >>
  BY StateFacts
<1>5. CASE x.closed
  <2>1. z = x
    BY <1>5 DEF ProcessFrame
  <2> QED BY <1>4, <2>1 DEF Moves
<1>6. CASE ~x.closed
  <2>1. Met(e, x, w[1], n)
    BY <1>1, <1>2, <1>3, <1>6, LineMet
  <2>2. Retains(x.cache, n)
    BY <1>1, <1>2, <1>3, <1>6, FeedFacts
  <2>3. (Leaves(x, z) /\ z.closed) \/ Processed(e, x, z, w[1], n)
    BY <1>4, <1>6, <2>1, <2>2, ProcessFrameFacts
  <2>4. CASE Leaves(x, z) /\ z.closed
    BY <1>4, <2>4, LeavesMoves
  <2>5. CASE Processed(e, x, z, w[1], n)
    <3>1. z \in EndSet /\ z.closed = x.closed
      BY <2>5 DEF Processed, Stays
    <3>2. w[1].stream = 1 => w[1].a = Len(x.delivered) + 1
      BY <2>1 DEF Met
    <3>3. /\ z.delivered = IF w[1].stream = 1 THEN Append(x.delivered, w[1].a) ELSE x.delivered
          /\ z.written \in {x.written, x.written + 1}
          /\ w[1].stream = 1 => z.written = x.written
      BY <2>5 DEF Processed
    <3> QED BY <1>6, <3>1, <3>2, <3>3 DEF Moves
  <2> QED BY <2>3, <2>4, <2>5
<1> QED BY <1>5, <1>6

Linked == \E e \in Ends : end'[Peer(e)] = end[Peer(e)] /\ Moves(end[e], end'[e])

LEMMA StillLinked ==
  ASSUME end' = end
  PROVE  Linked
  BY DEF Linked, Moves, Ends

LEMMA AppLinked ==
  ASSUME IInv, NEW e \in Ends, AppWrite(e) \/ AppDisconnect(e) \/ AppClose(e)
  PROVE  Linked
<1>1. PICK x : x = end[e]
  OBVIOUS
<1>2. x \in EndSet /\ Local(x) /\ Shape(e, x) /\ x.out = << >> /\ ~x.closed
  BY <1>1, StateFacts DEF AppWrite, AppDisconnect, AppClose, IsOpen
<1>3. PICK z : Step(e, z) /\ z \in EndSet /\ Moves(x, z)
  <2>1. CASE AppWrite(e)
    <3>1. PICK z : z = Write(x)
      OBVIOUS
    <3>2. PICK n \in Nat : n = Len(end[Peer(e)].delivered)
      BY <1>1, FeedFacts
    <3>3. Retains(x.cache, n)
      BY <1>1, <1>2, <3>2, FeedFacts
    <3>4. Stays(e, x, z, n) /\ z.delivered = x.delivered /\ z.written = x.written + 1
      BY <1>2, <3>1, <3>3, WriteStays
    <3>5. z \in EndSet /\ Moves(x, z)
      BY <1>2, <3>4 DEF Stays, Moves
    <3>6. Step(e, z)
      BY <1>1, <2>1, <3>1 DEF AppWrite
    <3> QED BY <3>5, <3>6
  <2>2. CASE AppDisconnect(e)
    <3>1. PICK z : z = Disconnect(x)
      OBVIOUS
    <3>2. Leaves(x, z)
      BY <1>2, <3>1, DisconnectLeaves
    <3>3. Step(e, z)
      BY <1>1, <2>2, <3>1 DEF AppDisconnect
    <3> QED BY <1>2, <3>2, <3>3, LeavesMoves
  <2>3. CASE AppClose(e)
    <3>1. PICK z : z = Close(x)
      OBVIOUS
    <3>2. Leaves(x, z)
      BY <1>2, <3>1, CloseLeaves
    <3>3. Step(e, z)
      BY <1>1, <2>3, <3>1 DEF AppClose
    <3> QED BY <1>2, <3>2, <3>3, LeavesMoves
  <2> QED BY <2>1, <2>2, <2>3
<1> QED BY <1>1, <1>3, CommitMoves DEF Step, Linked

LEMMA ConnectLinked ==
  ASSUME Orderly, IInv, NEW writes, ClientConnect(writes)
  PROVE  Linked
<1>1. PICK x : x = end[Client]
  OBVIOUS
<1>2. PICK out \in Seq(FrameSet) : out = <<SetupFrame>>
  <2>1. <<SetupFrame>> \in Seq(FrameSet)
    BY FrameFacts
  <2> QED BY <2>1
<1>3. PICK z : z = Connect([x EXCEPT !.out = out], 1, TRUE, writes)
  OBVIOUS
<1>4. ~x.closed /\ lastTransport = 0 /\ Commit(Client, z, 1, wire)
  BY <1>1, <1>2, <1>3 DEF ClientConnect, IsOpen
<1>5. Client \in Ends
  BY DEF Ends
<1>6. x \in EndSet /\ Local(x) /\ Shape(Client, x) /\ x.transport \in 0..lastTransport
  BY <1>1, <1>5, StateFacts
<1>7. PICK n \in Nat : n = Len(end[Peer(Client)].delivered)
  BY <1>1, <1>5, FeedFacts
<1>8. Retains(x.cache, n) /\ x.transport = 0 /\ 1 \in Nat \ {0}
  BY <1>1, <1>4, <1>5, <1>6, <1>7, FeedFacts
<1>9. z = SendPending(Attached(x, 1, out))
  BY <1>3, <1>6, <1>8, ConnectFacts
<1>10. ConnectedOf(x, out, 1, n, z)
  BY <1>2, <1>4, <1>6, <1>7, <1>8, <1>9 DEF ConnectedOf
<1>11. ConnectedIs(x, out, 1, n, z)
  BY ONLY <1>10, ConnectedGives
<1>12. z \in EndSet /\ Moves(x, z)
  BY <1>4, <1>11 DEF ConnectedIs, Moves
<1> QED BY <1>1, <1>4, <1>5, <1>12, CommitMoves DEF Linked

LEMMA ClientResumeLinked ==
  ASSUME Orderly, IInv, NEW writes, TryClientResume(writes)
  PROVE  Linked
<1>1. PICK x : x = end[Client]
  OBVIOUS
<1>2. PICK t : t = lastTransport + 1
  OBVIOUS
<1>3. PICK f : f = ResumeFrame(x.cache.impliedPosition, x.cache.resetPosition)
  OBVIOUS
<1>4. Client \in Ends
  BY DEF Ends
<1>5. x \in EndSet /\ Local(x) /\ Shape(Client, x) /\ x.out = << >>
  BY <1>1, <1>4, StateFacts
<1>6. f \in FrameSet
  BY <1>3, <1>5, EndFacts, FrameFacts DEF CacheSet
<1>7. PICK out \in Seq(FrameSet) : out = <<f>>
  <2>1. <<f>> \in Seq(FrameSet)
    BY <1>6
  <2> QED BY <2>1
<1>8. PICK z : z = Connect(Resuming(x, out), t, FALSE, writes)
  OBVIOUS
<1>9. ~x.closed /\ lastTransport \in 1..MaxTransports - 1 /\ Commit(Client, z, t, wire)
  BY <1>1, <1>2, <1>3, <1>7, <1>8 DEF TryClientResume, IsOpen, Resuming
<1>10. t \in Nat /\ t # 0
  BY <1>2, <1>9, BoundsAssumption
<1>11. ResumingOf(x, t, out, writes, z)
  BY <1>5, <1>8, <1>9, <1>10 DEF ResumingOf
<1>12. ResumingIs(x, t, out, z)
  BY <1>11, ResumingFacts
<1>13. z \in EndSet /\ Moves(x, z)
  BY <1>9, <1>12 DEF ResumingIs, Moves
<1> QED BY <1>1, <1>4, <1>9, <1>13, CommitMoves DEF Linked

LEMMA SetupLinked ==
  ASSUME Orderly, IInv, NEW t \in Transports, NEW writes, ServerSetup(t, writes)
  PROVE  Linked
<1>1. PICK x : x = end[Server]
  OBVIOUS
<1>2. PICK z : z = Connect(x, t, TRUE, writes)
  OBVIOUS
<1>3. /\ x.transport # t /\ wire[t][Server].frames # << >>
      /\ Head(wire[t][Server].frames).type = "SETUP"
      /\ Commit(Server, z, t, Consume(t, Server))
  BY <1>1, <1>2 DEF ServerSetup, FirstFrame
<1>4. Server \in Ends /\ wire \in [Transports -> [Ends -> StreamSet]]
  BY DEF Ends, IInv, Types
<1>5. x \in EndSet /\ Local(x) /\ Shape(Server, x)
  BY <1>1, <1>4, StateFacts
<1>6. t = 1 /\ accepted = 0
  <2>1. wire[t][Server].frames \in Seq(FrameSet)
    BY <1>4, StreamFacts
  <2>2. wire[t][Server].frames[1].type = "SETUP"
    BY <1>3, <2>1, TailFacts
  <2>3. ~Asked(t)
    BY <1>3, <2>2 DEF Asked
  <2>4. t = Via(Server)
    BY <2>3 DEF IInv, ServerSide
  <2> QED BY <1>1, <1>3, <2>4 DEF Via
<1>7. x = NewEnd
  BY <1>1, <1>6 DEF IInv, Unset
<1>8. ~x.closed
  BY <1>7, NewEndFacts
<1>9. PICK n \in Nat : n = Len(end[Peer(Server)].delivered)
  BY <1>1, <1>4, FeedFacts
<1>10. Retains(x.cache, n)
  BY <1>1, <1>4, <1>8, <1>9, FeedFacts
<1>11. SetUpOf(x, n, writes, z)
  BY <1>2, <1>5, <1>6, <1>7, <1>9, <1>10 DEF SetUpOf
<1>12. SetUpIs(x, n, z)
  BY <1>11, SetUpFacts
<1>13. z \in EndSet /\ Moves(x, z)
  BY <1>8, <1>12 DEF SetUpIs, Moves
<1> QED BY <1>1, <1>3, <1>4, <1>13, CommitMoves DEF Linked

LEMMA ServerResumeLinked ==
  ASSUME Orderly, IInv, NEW t \in Transports, NEW writes, TryResumeServer(t, writes)
  PROVE  Linked
<1>1. PICK x : x = end[Server]
  OBVIOUS
<1>2. PICK f : f = Head(wire[t][Server].frames)
  OBVIOUS
<1>3. PICK z : z = ResumeFromPositionOrClose(Connect(Disconnect(x), t, FALSE, writes), f, writes)
  OBVIOUS
<1>4. /\ wire[t][Server].frames # << >> /\ ~x.closed
      /\ Commit(Server, z, t, Consume(t, Server))
  BY <1>1, <1>2, <1>3 DEF TryResumeServer, FirstFrame, IsOpen
<1>5. Server \in Ends /\ wire \in [Transports -> [Ends -> StreamSet]]
  BY DEF Ends, IInv, Types
<1>6. x \in EndSet /\ Local(x) /\ Shape(Server, x) /\ x.out = << >>
  BY <1>1, <1>5, StateFacts
<1>7. f \in FrameSet /\ t \in Nat /\ t # 0
  <2>1. wire[t][Server].frames \in Seq(FrameSet)
    BY <1>5, StreamFacts
  <2>2. f \in FrameSet
    BY <1>2, <1>4, <2>1, TailFacts
  <2> QED BY <2>2 DEF Transports
<1>8. PICK n \in Nat : n = Len(end[Peer(Server)].delivered)
  BY <1>1, <1>5, FeedFacts
<1>9. Retains(x.cache, n)
  BY <1>1, <1>4, <1>5, <1>8, FeedFacts
<1>10. AnswerOf(x, t, f, n, writes, z)
  BY <1>3, <1>4, <1>6, <1>7, <1>8, <1>9 DEF AnswerOf
<1>11. AnswerIs(x, t, f, n, z)
  BY <1>10, AnswerGives
<1>12. z \in EndSet /\ Moves(x, z)
  BY <1>4, <1>11, EndFacts DEF AnswerIs, Moves
<1> QED BY <1>1, <1>4, <1>5, <1>12, CommitMoves DEF Linked

LEMMA RefuseLinked ==
  ASSUME IInv, NEW t \in Transports, RefuseResume(t)
  PROVE  Linked
<1>1. PICK x : x = end[Server]
  OBVIOUS
<1>2. Server \in Ends
  BY DEF Ends
<1>3. x \in EndSet
  BY <1>1, <1>2, StateFacts
<1>4. PICK out \in Seq(FrameSet) : out = <<ErrorFrame>>
  <2>1. <<ErrorFrame>> \in Seq(FrameSet)
    BY FrameFacts
  <2> QED BY <2>1
<1>5. PICK z : z = [x EXCEPT !.out = out]
  OBVIOUS
<1>6. Commit(Server, z, t, wire)
  BY <1>1, <1>4, <1>5 DEF RefuseResume
<1>7. z \in EndSet /\ z.written = x.written /\ z.delivered = x.delivered /\ z.closed = x.closed
  BY <1>3, <1>5 DEF EndSet
<1>8. Moves(x, z)
  BY <1>7 DEF Moves
<1> QED BY <1>1, <1>2, <1>6, <1>7, <1>8, CommitMoves DEF Linked

LEMMA RunTaskLinked ==
  ASSUME Orderly, IInv, NEW e \in Ends, NEW writes, RunTask(e, writes)
  PROVE  Linked
<1>1. PICK x : x = end[e]
  OBVIOUS
<1>2. PICK task : task = Head(queue[e])
  OBVIOUS
<1>3. PICK z : z = IF task = Terminal(task.transport) THEN Disconnect(x)
                   ELSE ProcessFrame(e, x, task.frame[1], writes)
  OBVIOUS
<1>4. queue[e] # << >> /\ Commit(e, z, x.transport, wire)
  BY <1>1, <1>2, <1>3 DEF RunTask, Step
<1>5. ~(e = Server /\ accepted = 0)
  BY <1>4, BusyIsSetUp
<1>6. /\ queue[e] \in Seq(TaskSet) /\ Arriving(e) \in Seq(FrameSet)
      /\ x \in EndSet /\ Local(x) /\ Shape(e, x) /\ x.out = << >>
  BY <1>1, StateFacts
<1>7. task \in TaskSet /\ task = queue[e][1]
  BY <1>2, <1>4, <1>6, TailFacts
<1>8. PICK w : w = Line(e)
  OBVIOUS
<1>9. w # << >> /\ w[1] = AsItem(task)
  BY <1>4, <1>6, <1>7, <1>8, LineRun DEF Line
<1>10. z \in EndSet /\ Moves(x, z)
  <2>1. CASE task.frame = << >>
    <3>1. z = Disconnect(x)
      BY <1>3, <1>7, <2>1, TaskFacts
    <3>2. Leaves(x, z)
      BY <1>6, <3>1, DisconnectLeaves
    <3> QED BY <1>6, <3>2, LeavesMoves
  <2>2. CASE task.frame # << >>
    <3>1. w[1].type # "END" /\ w[1] = task.frame[1] /\ task # Terminal(task.transport)
      BY <1>7, <1>9, <2>2, TaskFacts
    <3>2. z = ProcessFrame(e, x, w[1], writes)
      BY <1>3, <3>1
    <3> QED BY <1>1, <1>5, <1>8, <1>9, <3>1, <3>2, ProcessMoves
  <2> QED BY <2>1, <2>2
<1> QED BY <1>1, <1>4, <1>10, CommitMoves DEF Linked

LEMMA ReceiveLinked ==
  ASSUME Orderly, IInv, NEW e \in Ends, NEW writes, Receive(e, writes)
  PROVE  Linked
<1>1. CASE Deferred
  BY <1>1, StillLinked DEF Receive
<1>2. CASE ~Deferred
  <2>1. PICK x : x = end[e]
    OBVIOUS
  <2>2. PICK t : t = x.transport
    OBVIOUS
  <2>3. PICK w : w = Line(e)
    OBVIOUS
  <2>4. /\ t # 0 /\ wire[t][e].frames # << >>
        /\ Commit(e, ProcessFrame(e, x, Head(wire[t][e].frames), writes), t, Consume(t, e))
    BY <1>2, <2>1, <2>2 DEF Receive
  <2>5. queue[e] = << >>
    BY <1>2, StateFacts DEF Towards
  <2>6. ~(e = Server /\ accepted = 0)
    BY <2>1, <2>2, <2>4, BusyIsSetUp
  <2>7. Via(e) = t /\ Arriving(e) = wire[t][e].frames
    BY <2>1, <2>2, <2>4, <2>6 DEF Via, Arriving
  <2>8. queue[e] \in Seq(TaskSet) /\ Arriving(e) \in Seq(FrameSet)
    BY StateFacts
  <2>9. w = wire[t][e].frames /\ w \in Seq(FrameSet) /\ w # << >>
    BY <2>3, <2>4, <2>5, <2>7, <2>8, LineNoTasks DEF Line
  <2>10. Head(w) = w[1] /\ w[1].type # "END"
    <3>1. Head(w) = w[1] /\ w[1] \in FrameSet
      BY <2>9, TailFacts
    <3> QED BY <3>1 DEF FrameSet
  <2>11. PICK z : z = ProcessFrame(e, x, w[1], writes)
    OBVIOUS
  <2>12. z \in EndSet /\ Moves(x, z)
    BY <2>1, <2>3, <2>6, <2>9, <2>10, <2>11, ProcessMoves
  <2>13. Commit(e, z, t, Consume(t, e))
    BY <2>4, <2>9, <2>10, <2>11
  <2> QED BY <2>1, <2>12, <2>13, CommitMoves DEF Linked
<1> QED BY <1>1, <1>2

LEMMA ReceiveTerminalLinked ==
  ASSUME IInv, NEW e \in Ends, ReceiveTerminal(e)
  PROVE  Linked
<1>1. CASE Deferred
  BY <1>1, StillLinked DEF ReceiveTerminal
<1>2. CASE ~Deferred
  <2>1. PICK x : x = end[e]
    OBVIOUS
  <2>2. PICK z : z = Disconnect(x)
    OBVIOUS
  <2>3. x \in EndSet /\ Local(x) /\ Shape(e, x) /\ x.out = << >>
    BY <2>1, StateFacts
  <2>4. z \in EndSet /\ Moves(x, z)
    BY <2>2, <2>3, DisconnectLeaves, LeavesMoves
  <2>5. Commit(e, z, x.transport, wire)
    BY <1>2, <2>1, <2>2 DEF ReceiveTerminal, Step
  <2> QED BY <2>1, <2>4, <2>5, CommitMoves DEF Linked
<1> QED BY <1>1, <1>2

LEMMA KeepaliveTickLinked ==
  ASSUME IInv, KeepaliveTick
  PROVE  Linked
<1>1. PICK x : x = end[Client]
  OBVIOUS
<1>2. PICK k : k = OutputFrameOrEnqueue(x, KeepaliveFrame(x.cache.impliedPosition, TRUE))
  OBVIOUS
<1>3. PICK z : z = IF x.awaiting THEN Disconnect(x) ELSE [k EXCEPT !.awaiting = TRUE]
  OBVIOUS
<1>4. x.transport # 0 /\ ~x.resuming /\ Commit(Client, z, x.transport, wire)
  BY <1>1, <1>2, <1>3 DEF KeepaliveTick, Step
<1>5. Client \in Ends
  BY DEF Ends
<1>6. x \in EndSet /\ Local(x) /\ Shape(Client, x) /\ x.out = << >>
  BY <1>1, <1>5, StateFacts
<1>7. z \in EndSet /\ Moves(x, z)
  <2>1. CASE x.awaiting
    BY <1>3, <1>6, <2>1, DisconnectLeaves, LeavesMoves
  <2>2. CASE ~x.awaiting
    <3>1. Cached(x.cache)
      BY <1>4, <1>6, LocalOpen DEF Shape
    <3>2. KeepaliveFrame(x.cache.impliedPosition, TRUE) \in FrameSet
      BY <1>6, EndFacts, FrameFacts
    <3>3. /\ k \in EndSet /\ k.closed = x.closed
          /\ k.written = x.written /\ k.delivered = x.delivered
      BY <1>2, <1>6, <3>1, <3>2, OutputFields
    <3>4. z = [k EXCEPT !.awaiting = TRUE]
      BY <1>3, <2>2
    <3>5. /\ z \in EndSet /\ z.closed = k.closed
          /\ z.written = k.written /\ z.delivered = k.delivered
      BY <3>3, <3>4 DEF EndSet
    <3> QED BY <3>3, <3>5 DEF Moves
  <2> QED BY <1>6, <2>1, <2>2, EndFacts
<1> QED BY <1>1, <1>4, <1>5, <1>7, CommitMoves DEF Linked

LEMMA NextLinked ==
  ASSUME Orderly, IInv, [Next]_vars
  PROVE  Linked
<1>1. CASE \E e \in Ends : AppWrite(e) \/ AppDisconnect(e) \/ AppClose(e)
  BY <1>1, AppLinked
<1>2. ASSUME NEW writes \in BOOLEAN, ClientConnect(writes) PROVE Linked
  BY <1>2, ConnectLinked
<1>3. ASSUME NEW writes \in BOOLEAN, TryClientResume(writes) PROVE Linked
  BY <1>3, ClientResumeLinked
<1>4. ASSUME NEW writes \in BOOLEAN, NEW t \in Transports, ServerSetup(t, writes) PROVE Linked
  BY <1>4, SetupLinked
<1>5. ASSUME NEW writes \in BOOLEAN, NEW t \in Transports, TryResumeServer(t, writes) PROVE Linked
  BY <1>5, ServerResumeLinked
<1>6. ASSUME NEW writes \in BOOLEAN, NEW e \in Ends, Receive(e, writes) PROVE Linked
  BY <1>6, ReceiveLinked
<1>7. ASSUME NEW writes \in BOOLEAN, NEW e \in Ends, RunTask(e, writes) PROVE Linked
  BY <1>7, RunTaskLinked
<1>8. CASE \E t \in Transports : RefuseResume(t) \/ TransportFails(t)
  BY <1>8, RefuseLinked, StillLinked DEF TransportFails
<1>9. CASE \E e \in Ends : ReceiveTerminal(e)
  BY <1>9, ReceiveTerminalLinked
<1>10. CASE KeepaliveTick
  BY <1>10, KeepaliveTickLinked
<1>11. CASE UNCHANGED vars
  BY <1>11, StillLinked DEF vars
<1> QED BY <1>1, <1>2, <1>3, <1>4, <1>5, <1>6, <1>7, <1>8, <1>9, <1>10, <1>11 DEF Next

(***************************************************************************)
(* The safety part of ImplementsReliableLink: to their applications the    *)
(* two automata, with their caches and however many transports, act as one *)
(* link that loses, repeats and reorders nothing; a step of either is a    *)
(* step of the link (a frame written, the next frame delivered, one end    *)
(* closed) or none.  That every frame does arrive is left to TLC.          *)
(***************************************************************************)
THEOREM ActsAsReliableLink ==
  ASSUME Orderly PROVE Spec => Link!Init /\ [][Link!Next]_(Link!vars)
<1>1. Init => Link!Init
  <2>1. Init => \A e \in Ends : end[e] = NewEnd
    BY DEF Init
  <2> QED BY <2>1, NewEndFacts DEF Link!Init, Link!Ends, Ends
<1>2. IInv /\ IInv' /\ [Next]_vars => [Link!Next]_(Link!vars)
  <2>1. SUFFICES ASSUME IInv, IInv', [Next]_vars PROVE [Link!Next]_(Link!vars)
    OBVIOUS
  <2>2. PICK e \in Ends : end'[Peer(e)] = end[Peer(e)] /\ Moves(end[e], end'[e])
    BY <2>1, NextLinked DEF Linked
  <2> QED BY <2>1, <2>2, LinkStep
<1> QED BY <1>1, <1>2, Invariance, PTL DEF Spec

-----------------------------------------------------------------------------
(* What is on its way, counted                                             *)

(***************************************************************************)
(* A running count of the frames of streams is the size of their set.      *)
(***************************************************************************)
LEMMA CountFacts ==
  ASSUME NEW w, NEW l \in Nat, NEW r \in Nat, NEW P \in [Nat -> Nat], P[0] = r,
         \A i \in 1..l : P[i] = IF w[i] # << >> /\ w[i][1].stream # 0
                                THEN P[i - 1] + 1 ELSE P[i - 1]
  PROVE  \A i \in 0..l : P[i] = r + Cardinality(OfStreams(w, i))
<1> DEFINE Good(i) == /\ IsFiniteSet(OfStreams(w, i))
                      /\ Cardinality(OfStreams(w, i)) \in Nat
                      /\ P[i] = r + Cardinality(OfStreams(w, i))
<1> DEFINE Bad == {i \in 0..l : ~Good(i)}
<1>1. Good(0)
  <2>1. OfStreams(w, 0) = {}
    BY DEF OfStreams
  <2>2. IsFiniteSet({}) /\ Cardinality({}) = 0
    BY FS_EmptySet
  <2>3. IsFiniteSet(OfStreams(w, 0)) /\ Cardinality(OfStreams(w, 0)) = 0
    BY <2>1, <2>2, Zenon
  <2>4. r = r + 0
    OBVIOUS
  <2> QED BY <2>3, <2>4
<1>2. ASSUME NEW j \in Nat, j + 1 \in 1..l, Good(j)
      PROVE  Good(j + 1)
  <2>1. PICK A : A = OfStreams(w, j)
    OBVIOUS
  <2>2. PICK n \in Nat : n = Cardinality(A) /\ IsFiniteSet(A) /\ P[j] = r + n
    BY <1>2, <2>1
  <2>3. (j + 1) - 1 = j /\ j + 1 \notin 1..j /\ \A i \in 1..j + 1 : i \in 1..j \/ i = j + 1
    OBVIOUS
  <2>4. j + 1 \notin A
    BY <2>1, <2>3 DEF OfStreams
  <2>5. CASE w[j + 1] # << >> /\ w[j + 1][1].stream # 0
    <3>1. OfStreams(w, j + 1) = A \cup {j + 1}
      <4>1. 1..j + 1 = (1..j) \cup {j + 1}
        OBVIOUS
      <4> QED BY <2>1, <2>5, <4>1 DEF OfStreams
    <3>2. IsFiniteSet(A \cup {j + 1}) /\ Cardinality(A \cup {j + 1}) = n + 1
      BY <2>2, <2>4, FS_AddElement
    <3>3. P[j + 1] = P[j] + 1
      BY <1>2, <2>3, <2>5
    <3>4. /\ IsFiniteSet(OfStreams(w, j + 1))
          /\ Cardinality(OfStreams(w, j + 1)) = n + 1
      BY <3>1, <3>2, Zenon
    <3>5. n + 1 \in Nat /\ P[j + 1] = r + (n + 1)
      <4>1. PICK a \in Nat : a = P[j]
        OBVIOUS
      <4>2. a = r + n
        BY <2>2, <4>1
      <4>3. a + 1 = r + (n + 1) /\ n + 1 \in Nat
        BY <4>2
      <4> QED BY <3>3, <4>1, <4>3, Zenon
    <3> QED BY <3>4, <3>5, Zenon
  <2>6. CASE ~(w[j + 1] # << >> /\ w[j + 1][1].stream # 0)
    <3>1. OfStreams(w, j + 1) = A
      <4>1. 1..j + 1 = (1..j) \cup {j + 1}
        OBVIOUS
      <4> QED BY <2>1, <2>6, <4>1 DEF OfStreams
    <3>2. P[j + 1] = P[j]
      BY <1>2, <2>3, <2>6
    <3>3. IsFiniteSet(OfStreams(w, j + 1)) /\ Cardinality(OfStreams(w, j + 1)) = n
      BY <2>2, <3>1, Zenon
    <3>4. n \in Nat /\ P[j + 1] = r + n
      BY <2>2, <3>2
    <3> QED BY <3>3, <3>4, Zenon
  <2> QED BY <2>5, <2>6
<1>3. Bad = {}
  <2> SUFFICES ASSUME Bad # {} PROVE FALSE
    OBVIOUS
  <2>1. PICK k \in Bad : \A j \in Bad : k <= j
    <3>1. Bad \in SUBSET Nat
      OBVIOUS
    <3> HIDE DEF Bad
    <3> QED BY <3>1, LeastNat
  <2>2. k \in 0..l /\ ~Good(k)
    <3> HIDE DEF Good
    <3> QED OBVIOUS
  <2>3. k # 0
    <3> HIDE DEF Good, Bad
    <3> QED BY <1>1, <2>2
  <2>4. PICK j \in Nat : k = j + 1 /\ j \in 0..l /\ j + 1 \in 1..l /\ ~(k <= j)
    <3>1. k - 1 \in Nat /\ k = (k - 1) + 1 /\ k - 1 \in 0..l /\ ~(k <= k - 1) /\ k \in 1..l
      BY <2>2, <2>3
    <3> QED BY <3>1, Zenon
  <2>5. j \notin Bad
    <3> HIDE DEF Bad
    <3> QED BY <2>1, <2>4
  <2>6. Good(j)
    <3> HIDE DEF Good
    <3> QED BY <2>4, <2>5
  <2> HIDE DEF Good
  <2> QED BY <1>2, <2>2, <2>4, <2>6
<1>4. \A i \in 0..l : Good(i)
  <2> HIDE DEF Good
  <2> QED BY <1>3
<1> QED BY <1>4

LEMMA FunctionIsSeq ==
  ASSUME NEW S, NEW n \in Nat, NEW a \in [1..n -> S]
  PROVE  a \in Seq(S) /\ Len(a) = n
OBVIOUS

(***************************************************************************)
(* What is on its way, without the marks for the end of a transport.       *)
(***************************************************************************)
Boxed(q, f, u) ==
    [i \in DOMAIN q |-> q[i].frame]
        \o [i \in DOMAIN f |-> <<f[i]>>] \o [i \in DOMAIN u |-> <<u[i]>>]

LEMMA WayFacts ==
  ASSUME NEW q \in Seq(TaskSet), NEW f \in Seq(FrameSet),
         \A i \in 1..Len(q) : q[i].frame # << >>
  PROVE  /\ Len(Boxed(q, f, << >>)) = Len(Along(q, f))
         /\ \A i \in 1..Len(Along(q, f)) : Boxed(q, f, << >>)[i] = <<Along(q, f)[i]>>
<1> PICK u : u = << >>
  OBVIOUS
<1> PICK v : v = Along(q, f)
  OBVIOUS
<1> PICK w : w = Boxed(q, f, u)
  OBVIOUS
<1> DEFINE S == {<<g>> : g \in FrameSet}
<1>1. PICK m \in Nat : m = Len(q)
  OBVIOUS
<1>2. PICK n \in Nat : n = Len(f)
  OBVIOUS
<1>3. /\ v \in Seq(ItemSet) /\ Len(v) = m + n
      /\ \A i \in 1..m : v[i] = AsItem(q[i])
      /\ \A i \in 1..n : v[m + i] = f[i]
  BY <1>1, <1>2, LineSeq
<1>4. \A i \in 1..m : q[i].frame \in S /\ q[i].frame = <<AsItem(q[i])>>
  <2> TAKE i \in 1..m
  <2>1. q[i] \in TaskSet /\ q[i].frame # << >>
    BY <1>1
  <2>2. PICK g \in FrameSet : q[i].frame = <<g>>
    BY <2>1 DEF TaskSet
  <2> QED BY <2>1, <2>2 DEF AsItem
<1>5. \A i \in 1..n : <<f[i]>> \in S
  BY <1>2
<1> HIDE DEF S
<1>6. PICK a \in Seq(S) : /\ a = [i \in DOMAIN q |-> q[i].frame] /\ Len(a) = m
                          /\ \A i \in 1..m : a[i] = q[i].frame
  <2>1. PICK a : a = [i \in 1..m |-> q[i].frame]
    OBVIOUS
  <2>2. a \in [1..m -> S]
    BY <1>4, <2>1
  <2>3. a \in Seq(S) /\ Len(a) = m
    BY <2>2, FunctionIsSeq
  <2>4. DOMAIN q = 1..m
    BY <1>1
  <2> QED BY <2>1, <2>3, <2>4
<1>7. PICK b \in Seq(S) : /\ b = [i \in DOMAIN f |-> <<f[i]>>] /\ Len(b) = n
                          /\ \A i \in 1..n : b[i] = <<f[i]>>
  <2>1. PICK b : b = [i \in 1..n |-> <<f[i]>>]
    OBVIOUS
  <2>2. b \in [1..n -> S]
    BY <1>5, <2>1
  <2>3. b \in Seq(S) /\ Len(b) = n
    BY <2>2, FunctionIsSeq
  <2>4. DOMAIN f = 1..n
    BY <1>2
  <2> QED BY <2>1, <2>3, <2>4
<1>8. PICK c \in Seq(S) : c = [i \in DOMAIN u |-> <<u[i]>>] /\ c = << >>
  <2>1. PICK c : c = [i \in DOMAIN u |-> <<u[i]>>]
    OBVIOUS
  <2>2. DOMAIN u = 1..0
    OBVIOUS
  <2>3. c \in [1..0 -> S]
    BY <2>1, <2>2
  <2>4. c \in Seq(S) /\ Len(c) = 0
    BY <2>3, FunctionIsSeq
  <2>5. c = << >>
    BY <2>4, EmptySeq
  <2> QED BY <2>1, <2>4, <2>5
<1>9. w = a \o b \o c
  BY <1>6, <1>7, <1>8 DEF Boxed
<1>10. w = a \o b
  <2>1. PICK h \in Seq(S) : h = a \o b
    BY ConcatProperties
  <2>2. h \o << >> = h
    BY ConcatEmptySeq
  <2> QED BY <1>8, <1>9, <2>1, <2>2
<1>11. /\ Len(w) = m + n
       /\ \A i \in 1..m + n : w[i] = IF i <= m THEN a[i] ELSE b[i - m]
  BY <1>6, <1>7, <1>10, ConcatProperties
<1>12. \A i \in 1..m + n : w[i] = <<v[i]>>
  <2> TAKE i \in 1..m + n
  <2>1. CASE i <= m
    <3>1. i \in 1..m
      BY <2>1
    <3>2. w[i] = q[i].frame
      BY <1>6, <1>11, <2>1, <3>1
    <3>3. v[i] = AsItem(q[i])
      BY <1>3, <3>1
    <3> QED BY <1>4, <3>1, <3>2, <3>3
  <2>2. CASE ~(i <= m)
    <3>1. i - m \in 1..n /\ m + (i - m) = i
      BY <2>2
    <3>2. w[i] = <<f[i - m]>>
      BY <1>7, <1>11, <2>2, <3>1
    <3>3. v[m + (i - m)] = f[i - m]
      BY <1>3, <3>1
    <3> QED BY <3>1, <3>2, <3>3
  <2> QED BY <2>1, <2>2
<1>13. Len(w) = Len(v) /\ \A i \in 1..Len(v) : w[i] = <<v[i]>>
  BY <1>3, <1>11, <1>12
<1> QED BY <1>13, Zenon


(***************************************************************************)
(* Once both ends are back on a transport and the client has its           *)
(* RESUME_OK, no frame is missing and none is there twice: what is queued  *)
(* in the executor, on its way and pending continues what was delivered    *)
(* and ends with the last frame written (resumeFromPosition,               *)
(* sendPendingFrames), under the same proviso.                             *)
(***************************************************************************)
THEOREM ResumesWithoutGap == ASSUME Orderly PROVE Spec => []NoGapAfterResume
<1>1. ASSUME IInv PROVE NoGapAfterResume
  <2>1. SUFFICES ASSUME NEW t \in Transports, Resumed(t), NEW e \in Ends, NEW w,
                        w = OnItsWay(e, t), NEW got, got = Len(end[e].delivered)
                 PROVE  /\ \A i \in 1..got : end[e].delivered[i] = i
                        /\ \A i \in OfStreams(w, Len(w)) :
                              w[i][1].a = got + Cardinality(OfStreams(w, i))
                        /\ got + Cardinality(OfStreams(w, Len(w))) = end[Peer(e)].written
    BY DEF NoGapAfterResume
  <2>2. PICK y : y = end[Peer(e)]
    OBVIOUS
  <2>3. Peer(e) \in Ends /\ t # 0 /\ t \in Nat
    BY PeerFacts, BoundsAssumption DEF Transports
  <2>4. end[e].transport = t /\ y.transport = t /\ ~wire[t][e].ended
    BY <2>1, <2>2, <2>3 DEF Resumed
  <2>5. /\ end[e] \in EndSet /\ y \in EndSet /\ Local(end[e]) /\ Local(y)
        /\ Shape(e, end[e]) /\ Shape(Peer(e), y) /\ Towards(e)
    BY <1>1, <2>2, <2>3, StateFacts
  <2>6. ~end[e].closed /\ ~y.closed /\ ~y.resuming
    BY <2>1, <2>2, <2>3, <2>4, <2>5 DEF Resumed, Shape
  <2>7. y.pending = << >>
    BY <2>3, <2>4, <2>5, <2>6 DEF Shape
  <2>8. Sends(y, e)
    BY <2>3, <2>4, <2>6 DEF Sends
  <2>9. Via(e) = t
    BY <2>2, <2>4, <2>5, <2>8 DEF Towards
  <2>10. PICK q \in Seq(TaskSet) : q = queue[e]
    BY <1>1, StateFacts
  <2>11. PICK f \in Seq(FrameSet) : f = wire[t][e].frames
    BY <1>1, StateFacts, StreamFacts
  <2>12. PICK v \in Seq(ItemSet) : v = Along(q, f) /\ v = Line(e)
    <3>1. Line(e) = Along(q, f)
      BY <2>3, <2>9, <2>10, <2>11 DEF Line, Arriving
    <3> QED BY <3>1, LineSeq
  <2>13. \A i \in 1..Len(q) : q[i].frame # << >>
    BY <2>3, <2>4, <2>5, <2>10 DEF Towards
  <2>14. PICK l \in Nat : l = Len(v)
    OBVIOUS
  <2>15. Len(w) = l /\ \A i \in 1..l : w[i] = <<v[i]>>
    <3>1. w = Boxed(q, f, y.pending)
      BY <2>1, <2>2, <2>10, <2>11 DEF OnItsWay, Boxed
    <3>2. w = Boxed(q, f, << >>)
      BY <2>7, <3>1
    <3>3. /\ Len(Boxed(q, f, << >>)) = Len(Along(q, f))
          /\ \A i \in 1..Len(Along(q, f)) : Boxed(q, f, << >>)[i] = <<Along(q, f)[i]>>
      BY <2>13, WayFacts
    <3> QED BY <2>12, <2>14, <3>2, <3>3, Zenon
  <2>16. got \in Nat /\ \A i \in 1..got : end[e].delivered[i] = i
    BY <2>1, <2>5, EndFacts DEF Local
  <2>17. Flow(v, got, y.cache.position)
    BY <2>1, <2>2, <2>5, <2>6, <2>8, <2>12 DEF Towards, Fed
  <2>18. y.cache.position = y.written
    <3>1. Flow(y.pending, y.cache.position, y.written) /\ Len(y.pending) = 0
      BY <2>5, <2>6, <2>7 DEF Local
    <3> QED BY <3>1 DEF Flow
  <2>19. PICK P \in [Nat -> Nat] :
            /\ P[0] = got /\ P[l] = y.written
            /\ \A i \in 1..l : /\ P[i] = IF v[i].stream = 1 THEN P[i - 1] + 1 ELSE P[i - 1]
                               /\ v[i].stream = 1 => v[i].a = P[i]
    BY <2>14, <2>17, <2>18 DEF Flow
  <2>20. \A i \in 1..l : w[i] # << >> /\ w[i][1] = v[i] /\ (v[i].stream = 1 <=> v[i].stream # 0)
    <3> TAKE i \in 1..l
    <3>1. v[i] \in ItemSet
      BY <2>14
    <3>2. v[i].stream \in {0, 1}
      BY <3>1, ItemFacts
    <3>3. w[i] = <<v[i]>>
      BY <2>15
    <3>4. <<v[i]>> # << >> /\ <<v[i]>>[1] = v[i]
      OBVIOUS
    <3>5. w[i] # << >> /\ w[i][1] = v[i]
      BY <3>3, <3>4, Zenon
    <3>6. v[i].stream = 1 <=> v[i].stream # 0
      <4>1. PICK k \in {0, 1} : k = v[i].stream
        BY <3>2
      <4>2. k = 1 <=> k # 0
        OBVIOUS
      <4> QED BY <4>1, <4>2
    <3> QED BY <3>5, <3>6, Zenon
  <2>21. \A i \in 1..l : P[i] = IF w[i] # << >> /\ w[i][1].stream # 0
                                THEN P[i - 1] + 1 ELSE P[i - 1]
    BY <2>19, <2>20
  <2>22. \A i \in 0..l : P[i] = got + Cardinality(OfStreams(w, i))
    BY <2>16, <2>19, <2>21, CountFacts
  <2>23. \A i \in OfStreams(w, l) : w[i][1].a = got + Cardinality(OfStreams(w, i))
    <3> TAKE i \in OfStreams(w, l)
    <3>1. i \in 1..l /\ w[i] # << >> /\ w[i][1].stream # 0
      BY DEF OfStreams
    <3>2. i \in 1..l /\ i \in 0..l /\ w[i][1].stream # 0
      BY <3>1
    <3>3. w[i][1].a = P[i]
      BY <2>19, <2>20, <3>2
    <3> QED BY <2>22, <3>2, <3>3
  <2>24. got + Cardinality(OfStreams(w, l)) = y.written
    <3>1. l \in 0..l
      OBVIOUS
    <3> QED BY <2>19, <2>22, <3>1
  <2> QED BY <2>2, <2>15, <2>16, <2>23, <2>24
<1>2. IInv => NoGapAfterResume
  BY <1>1
<1> QED BY <1>2, Invariance, PTL

=============================================================================
