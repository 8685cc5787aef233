-------------------- MODULE ServerConnectionAcceptorProofs --------------------
(***************************************************************************)
(* Proofs about ServerConnectionAcceptor, for any frames, requests and     *)
(* writes, in any order.                                                   *)
(***************************************************************************)
EXTENDS ServerConnectionAcceptor, SequenceTheorems, WellFoundedInduction, TLAPS

(***************************************************************************)
(* What the connection and its users are assumed to be: the socket's       *)
(* executor does not run a task inside the call that adds it, a RESUME     *)
(* frame can be read, and the largest allowance is not zero.               *)
(***************************************************************************)
Proper ==
    /\ ~InlineExecutor
    /\ "RESUME_INVALID" \notin FirstKinds
    /\ SizeMax > 0

-----------------------------------------------------------------------------
(* Types                                                                   *)

Processors == {"none", "acceptor", "socket"}

Kinds == FirstKinds \cup LaterKinds

FrameSet == [kind : Kinds, handler : HandlerChoices \cup {"refuse"}]

TaskSet == FrameSet \cup {FrameOf("terminal", "none")}

HandedSet == [to : Processors, frame : FrameSet]

Texts == {"ERROR", "ANSWER", "REQUEST"}

CallSet == {"setup", "resume", "connectionError"}

ConnectionSet ==
    [processor : Processors, allowance : 0..SizeMax,
     connection : BOOLEAN, output : BOOLEAN, input : BOOLEAN,
     pendingWrites : Seq(Texts), pendingReads : Seq(FrameSet),
     pendingTerminal : BOOLEAN, wire : Seq(Texts), fatal : BOOLEAN,
     registered : BOOLEAN, socket : {"none", "later", "on", "closed"},
     tasks : Seq(TaskSet), handed : Seq(HandedSet), told : Seq(Processors),
     calls : Seq(CallSet), refused : BOOLEAN,
     outputs : Seq(Texts)]

(***************************************************************************)
(* v followed by w is u, element by element.                               *)
(***************************************************************************)
Joined(v, w, u) ==
    /\ Len(u) = Len(v) + Len(w)
    /\ \A i \in 1..Len(v) : v[i] = u[i]
    /\ \A i \in 1..Len(w) : w[i] = u[Len(v) + i]

-----------------------------------------------------------------------------
(* What holds of a connection c whose processor e is being told of the end,*)
(* and which has delivered the frames a                                    *)

(***************************************************************************)
(* What was handed over and what waits is what arrived; the acceptor gets  *)
(* the first frame at most.                                                *)
(***************************************************************************)
Reads(c, a) ==
    /\ Len(a) = Len(c.handed) + Len(c.pendingReads)
    /\ \A i \in 1..Len(c.handed) : c.handed[i].frame = a[i]
    /\ \A i \in 1..Len(c.pendingReads) : c.pendingReads[i] = a[Len(c.handed) + i]
    /\ \A i \in 2..Len(c.handed) : c.handed[i].to = "socket"

(***************************************************************************)
(* What was written and what waits is what was output, and something waits *)
(* only for want of allowance or of a connection.                          *)
(***************************************************************************)
Writes(c) ==
    /\ Joined(c.wire, c.pendingWrites, c.outputs)
    /\ c.connection /\ c.allowance > 0 => c.pendingWrites = << >>

(* A refused connection is closed, and was sent why.                       *)
Refused(c) ==
    c.refused =>
        /\ ~c.connection /\ c.socket = "none"
        /\ IsInfinite(c.allowance) =>
              c.wire # << >> /\ c.wire[Len(c.wire)] = "ERROR"

(***************************************************************************)
(* Who owns the transport: the acceptor while it is registered, then       *)
(* nobody or the socket; an owner is told of the end once.                 *)
(***************************************************************************)
Owners(c, e) ==
    /\ c.processor # "none" =>
          /\ c.connection /\ c.output /\ c.input
          /\ e = "none" /\ c.told = << >> /\ c.pendingReads = << >>
    /\ e # "none" => c.told = << >>
    /\ c.registered <=> "acceptor" \in {c.processor, e}
    /\ "acceptor" \in {c.processor, e} =>
          /\ c.connection /\ c.output
          /\ c.socket = "none" /\ c.handed = << >> /\ c.calls = << >>
    /\ c.processor = "socket" => c.socket = "on"
    /\ e = "socket" => c.socket \in {"on", "closed"}
    /\ c.socket = "on" => c.connection /\ c.output
    /\ c.socket = "later" =>
          /\ c.connection /\ c.output /\ c.input
          /\ c.processor = "none" /\ e = "none" /\ c.told = << >>
    /\ c.told # << >> => e = "none" /\ Len(c.told) = 1

Sound(c, e) ==
    /\ ~c.fatal
    /\ Len(c.calls) <= 1
    /\ Owners(c, e)
    /\ Writes(c)
    /\ Refused(c)

(* All of it, and that a transport in use is connected to its connection. *)
Good(c, e, a) ==
    /\ c \in ConnectionSet
    /\ Sound(c, e)
    /\ Reads(c, a)
    /\ c.connection /\ c # NewConnection => c.output

IInv ==
    /\ ending \in Processors
    /\ arrived \in Seq(FrameSet)
    /\ Good(x, ending, arrived)

-----------------------------------------------------------------------------
(* Facts about sequences                                                   *)

LEMMA AppendFacts ==
  ASSUME NEW S, NEW w \in Seq(S), NEW f \in S
  PROVE  /\ Append(w, f) \in Seq(S)
         /\ Len(Append(w, f)) = Len(w) + 1
         /\ Append(w, f)[Len(w) + 1] = f
         /\ \A i \in 1..Len(w) : Append(w, f)[i] = w[i]
BY AppendProperties

LEMMA JoinedIs ==
  ASSUME NEW S, NEW v \in Seq(S), NEW w \in Seq(S), NEW u \in Seq(S), Joined(v, w, u)
  PROVE  v \o w = u
<1>1. PICK m \in Nat : m = Len(v)
  OBVIOUS
<1>2. PICK n \in Nat : n = Len(w)
  OBVIOUS
<1>3. PICK t \in Seq(S) : t = v \o w
  BY ConcatProperties
<1>4. /\ Len(t) = m + n
      /\ \A i \in 1..m + n : t[i] = IF i <= m THEN v[i] ELSE w[i - m]
  BY <1>1, <1>2, <1>3, ConcatProperties
<1>5. \A i \in 1..m + n : t[i] = u[i]
  <2> TAKE i \in 1..m + n
  <2>1. CASE i <= m
    BY <1>1, <1>4, <2>1 DEF Joined
  <2>2. CASE ~(i <= m)
    <3>1. i - m \in 1..n /\ m + (i - m) = i
      BY <2>2
    <3>2. w[i - m] = u[m + (i - m)]
      BY <1>1, <1>2, <3>1 DEF Joined
    <3> QED BY <1>4, <2>2, <3>1, <3>2
  <2> QED BY <2>1, <2>2
<1>6. Len(u) = m + n
  BY <1>1, <1>2 DEF Joined
<1> QED BY <1>3, <1>4, <1>5, <1>6, SeqEqual

(***************************************************************************)
(* The first n of the elements that wait move on.                          *)
(***************************************************************************)
LEMMA MoveFacts ==
  ASSUME NEW v \in Seq(Texts), NEW w \in Seq(Texts), NEW u \in Seq(Texts),
         Joined(v, w, u), NEW n \in 0..Len(w)
  PROVE  /\ v \o SubSeq(w, 1, n) \in Seq(Texts)
         /\ SubSeq(w, n + 1, Len(w)) \in Seq(Texts)
         /\ Joined(v \o SubSeq(w, 1, n), SubSeq(w, n + 1, Len(w)), u)
         /\ Len(SubSeq(w, n + 1, Len(w))) = Len(w) - n
<1>a. PICK v1 : v1 = v \o SubSeq(w, 1, n)
  OBVIOUS
<1>b. PICK w1 : w1 = SubSeq(w, n + 1, Len(w))
  OBVIOUS
<1>1. PICK k \in Nat : k = Len(v)
  OBVIOUS
<1>2. PICK l \in Nat : l = Len(w)
  OBVIOUS
<1>3. n \in Nat /\ n <= l
  BY <1>2
<1>4. PICK h \in Seq(Texts) : /\ h = SubSeq(w, 1, n)
                          /\ Len(h) = n
                          /\ \A i \in 1..n : h[i] = w[i]
  <2>1. PICK g : g = SubSeq(w, 1, n)
    OBVIOUS
  <2>2. g \in Seq(Texts) /\ Len(g) = n /\ \A i \in 1..n : g[i] = w[i]
    <3>1. 1 \in 1..l + 1 /\ n - 1 + 1 = n /\ \A i \in 1..n : 1 + i - 1 = i
      BY <1>3
    <3> QED BY <1>2, <1>3, <2>1, <3>1, SubSeqProperties
  <2> QED BY <2>1, <2>2, Zenon
<1>5. /\ w1 \in Seq(Texts) /\ Len(w1) = l - n
      /\ \A i \in 1..l - n : w1[i] = w[n + i]
  <2>1. \A i \in n + 1..l : w[i] \in Texts
    BY <1>2, <1>3
  <2>2. \A i \in 1..l - n : (n + 1) + i - 1 = n + i
    BY <1>3
  <2>3. n + 1 \in 1..l + 1 /\ l - (n + 1) + 1 = l - n
    BY <1>3
  <2> QED BY <1>b, <1>2, <1>3, <2>1, <2>2, <2>3, SubSeqProperties
<1>6. /\ v1 \in Seq(Texts) /\ Len(v1) = k + n
      /\ \A i \in 1..k + n : v1[i] = IF i <= k THEN v[i] ELSE h[i - k]
  BY <1>a, <1>1, <1>4, ConcatProperties
<1>7. /\ Len(u) = k + l
      /\ \A i \in 1..k : v[i] = u[i]
      /\ \A i \in 1..l : w[i] = u[k + i]
  BY <1>1, <1>2 DEF Joined
<1>8. \A i \in 1..k + n : v1[i] = u[i]
  <2> TAKE i \in 1..k + n
  <2>1. CASE i <= k
    BY <1>6, <1>7, <2>1
  <2>2. CASE ~(i <= k)
    <3>1. i - k \in 1..n /\ i - k \in 1..l /\ k + (i - k) = i
      BY <1>3, <2>2
    <3> QED BY <1>4, <1>6, <1>7, <2>2, <3>1
  <2> QED BY <2>1, <2>2
<1>9. \A i \in 1..l - n : w1[i] = u[(k + n) + i]
  <2> TAKE i \in 1..l - n
  <2>1. n + i \in 1..l /\ k + (n + i) = (k + n) + i
    BY <1>3
  <2> QED BY <1>5, <1>7, <2>1
<1>10. (k + n) + (l - n) = k + l
  BY <1>3
<1>11. /\ Joined(v1, w1, u) /\ v1 \in Seq(Texts) /\ w1 \in Seq(Texts)
       /\ Len(w1) = Len(w) - n
  BY <1>2, <1>5, <1>6, <1>7, <1>8, <1>9, <1>10 DEF Joined
<1> QED BY <1>a, <1>b, <1>11

(***************************************************************************)
(* Something is added at the end.                                          *)
(***************************************************************************)
LEMMA JoinedAppend ==
  ASSUME NEW v \in Seq(Texts), NEW w \in Seq(Texts), NEW u \in Seq(Texts), Joined(v, w, u),
         NEW f \in Texts
  PROVE  /\ Joined(v, Append(w, f), Append(u, f))
         /\ Len(w) = 0 => Joined(Append(v, f), w, Append(u, f))
<1>1. PICK k \in Nat : k = Len(v)
  OBVIOUS
<1>2. PICK l \in Nat : l = Len(w)
  OBVIOUS
<1>3. /\ Len(u) = k + l
      /\ \A i \in 1..k : v[i] = u[i]
      /\ \A i \in 1..l : w[i] = u[k + i]
  BY <1>1, <1>2 DEF Joined
<1>4. PICK u1 : u1 = Append(u, f)
  OBVIOUS
<1>5. /\ Len(u1) = (k + l) + 1 /\ u1[(k + l) + 1] = f
      /\ \A i \in 1..k + l : u1[i] = u[i]
  BY <1>3, <1>4, AppendFacts
<1>6. Joined(v, Append(w, f), u1)
  <2>1. PICK w1 : w1 = Append(w, f)
    OBVIOUS
  <2>2. /\ Len(w1) = l + 1 /\ w1[l + 1] = f
        /\ \A i \in 1..l : w1[i] = w[i]
    BY <1>2, <2>1, AppendFacts
  <2>3. \A i \in 1..k : v[i] = u1[i]
    BY <1>3, <1>5
  <2>4. \A i \in 1..l + 1 : w1[i] = u1[k + i]
    <3> TAKE i \in 1..l + 1
    <3>1. CASE i = l + 1
      <4>1. k + i = (k + l) + 1
        BY <3>1
      <4> QED BY <1>5, <2>2, <3>1, <4>1
    <3>2. CASE i # l + 1
      <4>1. i \in 1..l /\ k + i \in 1..k + l
        BY <3>2
      <4> QED BY <1>3, <1>5, <2>2, <4>1
    <3> QED BY <3>1, <3>2
  <2>5. (k + l) + 1 = k + (l + 1)
    OBVIOUS
  <2> QED BY <1>1, <1>5, <2>1, <2>2, <2>3, <2>4, <2>5 DEF Joined
<1>7. ASSUME l = 0 PROVE Joined(Append(v, f), w, u1)
  <2>1. PICK v1 : v1 = Append(v, f)
    OBVIOUS
  <2>2. /\ Len(v1) = k + 1 /\ v1[k + 1] = f
        /\ \A i \in 1..k : v1[i] = v[i]
    BY <1>1, <2>1, AppendFacts
  <2>3. Len(u1) = k + 1 /\ u1[k + 1] = f
    BY <1>5, <1>7
  <2>4. \A i \in 1..k + 1 : v1[i] = u1[i]
    <3> TAKE i \in 1..k + 1
    <3>1. i = k + 1 \/ (i \in 1..k /\ i \in 1..k + l)
      BY <1>7
    <3> QED BY <1>3, <1>5, <2>2, <2>3, <3>1
  <2> QED BY <1>2, <1>7, <2>1, <2>2, <2>3, <2>4 DEF Joined
<1> QED BY <1>2, <1>4, <1>6, <1>7

-----------------------------------------------------------------------------
(* Writing                                                                 *)

LEMMA NewFacts ==
  /\ NewConnection \in ConnectionSet
  /\ NewConnection.processor = "none" /\ NewConnection.allowance = 0
  /\ NewConnection.connection /\ ~NewConnection.output /\ ~NewConnection.input
  /\ NewConnection.pendingWrites = << >> /\ NewConnection.pendingReads = << >>
  /\ ~NewConnection.pendingTerminal /\ NewConnection.wire = << >>
  /\ ~NewConnection.fatal /\ ~NewConnection.registered
  /\ NewConnection.socket = "none" /\ NewConnection.tasks = << >>
  /\ NewConnection.handed = << >> /\ NewConnection.told = << >>
  /\ NewConnection.calls = << >> /\ ~NewConnection.refused
  /\ NewConnection.outputs = << >>
<1>1. 0 \in 0..SizeMax
  BY SizeMaxAssumption
<1> QED BY <1>1 DEF NewConnection, NewTransport, ConnectionSet, Processors

(***************************************************************************)
(* d is c but for what was written and what waits to be.                   *)
(***************************************************************************)
Elsewhere(c, d) ==
    /\ d.processor = c.processor /\ d.connection = c.connection
    /\ d.output = c.output /\ d.input = c.input
    /\ d.pendingReads = c.pendingReads /\ d.pendingTerminal = c.pendingTerminal
    /\ d.registered = c.registered /\ d.socket = c.socket /\ d.tasks = c.tasks
    /\ d.handed = c.handed /\ d.told = c.told /\ d.calls = c.calls
    /\ d.refused = c.refused

WrittenAs(d, c, w, p, a, o) ==
    /\ d \in ConnectionSet /\ Elsewhere(c, d) /\ d.fatal = c.fatal
    /\ d.wire = w /\ d.pendingWrites = p /\ d.allowance = a /\ d.outputs = o

LEMMA WriteFields ==
  ASSUME NEW c \in ConnectionSet, NEW w \in Seq(Texts), NEW p \in Seq(Texts),
         NEW a \in 0..SizeMax, NEW o \in Seq(Texts)
  PROVE  WrittenAs([c EXCEPT !.wire = w, !.pendingWrites = p, !.allowance = a,
                             !.outputs = o], c, w, p, a, o)
BY DEF ConnectionSet, Elsewhere, WrittenAs

LEMMA ConnectionFacts ==
  ASSUME NEW c \in ConnectionSet
  PROVE  /\ c.wire \in Seq(Texts) /\ c.pendingWrites \in Seq(Texts)
         /\ c.outputs \in Seq(Texts) /\ c.allowance \in 0..SizeMax
         /\ c.allowance \in Nat /\ c.allowance <= SizeMax
         /\ c.connection \in BOOLEAN /\ c.output \in BOOLEAN /\ c.fatal \in BOOLEAN
         /\ c.input \in BOOLEAN
         /\ c.processor \in Processors
         /\ c.pendingReads \in Seq(FrameSet) /\ c.pendingTerminal \in BOOLEAN
         /\ c.registered \in BOOLEAN /\ c.socket \in {"none", "later", "on", "closed"}
         /\ c.tasks \in Seq(TaskSet) /\ c.handed \in Seq(HandedSet)
         /\ c.told \in Seq(Processors) /\ c.refused \in BOOLEAN
         /\ c.calls \in Seq(CallSet)
BY SizeMaxAssumption DEF ConnectionSet

(***************************************************************************)
(* c has drained what it may.                                              *)
(***************************************************************************)
Drains(c) == c.connection /\ c.allowance > 0 => c.pendingWrites = << >>

(***************************************************************************)
(* What a step that writes does: it changes nothing but wire, queue and    *)
(* allowance, and what it leaves is in order.                              *)
(***************************************************************************)
Writing(c, d) ==
    /\ d \in ConnectionSet
    /\ Elsewhere(c, d)
    /\ d.fatal = c.fatal
    /\ Joined(d.wire, d.pendingWrites, d.outputs)

LEMMA DrainFacts ==
  ASSUME NEW c \in ConnectionSet, Joined(c.wire, c.pendingWrites, c.outputs),
         c.connection => c.output \/ c.pendingWrites = << >>,
         NEW d, d = DrainOutputFramesQueue(c)
  PROVE  /\ Writing(c, d) /\ Drains(d)
         /\ d.outputs = c.outputs
         /\ IsInfinite(d.allowance) <=> IsInfinite(c.allowance)
<1>1. CASE ~c.connection
  <2>1. d = c
    BY <1>1 DEF DrainOutputFramesQueue, IsClosed
  <2> QED BY <1>1, <2>1 DEF Writing, Elsewhere, Drains
<1>2. CASE c.connection
  <2>1. PICK a \in Nat : a = c.allowance /\ a <= SizeMax
    BY ConnectionFacts
  <2>2. PICK p \in Seq(Texts) : p = c.pendingWrites
    BY ConnectionFacts
  <2>3. PICK l \in Nat : l = Len(p)
    OBVIOUS
  <2>4. PICK v \in Seq(Texts) : v = c.wire
    BY ConnectionFacts
  <2>5. PICK o \in Seq(Texts) : o = c.outputs
    BY ConnectionFacts
  <2>6. Joined(v, p, o)
    BY <2>2, <2>4, <2>5
  <2>7. PICK n : n = Drainable(c)
    OBVIOUS
  <2>8. n = IF a = SizeMax \/ a >= l THEN l ELSE a
    BY <2>1, <2>2, <2>3, <2>7 DEF Drainable, IsInfinite
  <2>9. n \in 0..l /\ n \in Nat
    BY <2>8
  <2>10. PICK w1 : w1 = v \o SubSeq(p, 1, n)
    OBVIOUS
  <2>11. PICK p1 : p1 = SubSeq(p, n + 1, Len(p))
    OBVIOUS
  <2>12. PICK a1 : a1 = IF IsInfinite(a) THEN a ELSE a - n
    OBVIOUS
  <2>13. /\ a1 \in 0..SizeMax /\ (a1 = SizeMax <=> a = SizeMax)
         /\ a1 > 0 => n = l
    BY <2>1, <2>8, <2>9, <2>12, SizeMaxAssumption DEF IsInfinite
  <2>14. /\ w1 \in Seq(Texts) /\ p1 \in Seq(Texts)
         /\ Joined(w1, p1, o) /\ Len(p1) = l - n
    <3>1. n \in 0..Len(p)
      BY <2>3, <2>9
    <3>2. /\ w1 \in Seq(Texts) /\ p1 \in Seq(Texts)
          /\ Joined(w1, p1, o) /\ Len(p1) = Len(p) - n
      BY <2>6, <2>10, <2>11, <3>1, MoveFacts
    <3> QED BY <2>3, <3>2
  <2>15. d = [c EXCEPT !.wire = w1, !.pendingWrites = p1, !.allowance = a1,
                       !.outputs = o]
    <3>1. n > 0 => c.output
      <4>1. c.pendingWrites = << >> => l = 0
        BY <2>2, <2>3
      <4> QED BY <1>2, <2>8, <2>9, <4>1
    <3>2. d = [c EXCEPT !.wire = w1, !.pendingWrites = p1, !.allowance = a1]
      BY <1>2, <2>1, <2>2, <2>7, <2>10, <2>4, <2>11, <2>12, <3>1
         DEF DrainOutputFramesQueue, IsClosed, Check
    <3> QED BY <2>5, <3>2 DEF ConnectionSet
  <2>16. /\ d \in ConnectionSet /\ Elsewhere(c, d) /\ d.fatal = c.fatal
         /\ d.wire = w1 /\ d.pendingWrites = p1 /\ d.allowance = a1
         /\ d.outputs = o
    <3>1. WrittenAs(d, c, w1, p1, a1, o)
      <4>1. WrittenAs([c EXCEPT !.wire = w1, !.pendingWrites = p1, !.allowance = a1,
                                !.outputs = o], c, w1, p1, a1, o)
        BY <2>13, <2>14, WriteFields
      <4> QED BY <2>15, <4>1, Zenon
    <3> QED BY <3>1 DEF WrittenAs
  <2>17. a1 > 0 => p1 = << >>
    <3>1. a1 > 0 => Len(p1) = 0
      BY <2>9, <2>13, <2>14
    <3> QED BY <2>14, <3>1
  <2> QED BY <2>1, <2>13, <2>14, <2>16, <2>17, <2>5 DEF Writing, Drains, IsInfinite
<1> QED BY <1>1, <1>2, ConnectionFacts

(***************************************************************************)
(* When nothing is left that could be written, draining changes nothing.   *)
(***************************************************************************)
LEMMA DrainedStays ==
  ASSUME NEW c \in ConnectionSet, Drains(c), SizeMax > 0
  PROVE  DrainOutputFramesQueue(c) = c
<1>1. CASE ~c.connection
  BY <1>1 DEF DrainOutputFramesQueue, IsClosed
<1>2. CASE c.connection
  <2>1. PICK a \in Nat : a = c.allowance
    BY ConnectionFacts
  <2>2. PICK p \in Seq(Texts) : p = c.pendingWrites
    BY ConnectionFacts
  <2>3. PICK v \in Seq(Texts) : v = c.wire
    BY ConnectionFacts
  <2>4. Drainable(c) = 0
    <3>1. p = << >> => Len(p) = 0
      OBVIOUS
    <3>2. a > 0 => p = << >>
      BY <1>2, <2>1, <2>2 DEF Drains
    <3> QED BY <2>1, <2>2, <3>1, <3>2, SizeMaxAssumption DEF Drainable, IsInfinite
  <2>5. v \o SubSeq(p, 1, 0) = v
    <3>1. SubSeq(p, 1, 0) = << >>
      OBVIOUS
    <3> QED BY <3>1
  <2>6. SubSeq(p, 0 + 1, Len(p)) = p
    OBVIOUS
  <2>7. (IF IsInfinite(a) THEN a ELSE a - 0) = a
    OBVIOUS
  <2>8. DrainOutputFramesQueue(c) =
          [c EXCEPT !.wire = v, !.pendingWrites = p, !.allowance = a]
    <3>1. PICK n : n = Drainable(c)
      OBVIOUS
    <3>2. PICK w1 : w1 = v \o SubSeq(p, 1, n)
      OBVIOUS
    <3>3. PICK p1 : p1 = SubSeq(p, n + 1, Len(p))
      OBVIOUS
    <3>4. PICK a1 : a1 = IF IsInfinite(a) THEN a ELSE a - n
      OBVIOUS
    <3>5. w1 = v /\ p1 = p /\ a1 = a /\ ~(n > 0)
      BY <2>4, <2>5, <2>6, <2>7, <3>1, <3>2, <3>3, <3>4
    <3>6. DrainOutputFramesQueue(c) =
            [c EXCEPT !.wire = w1, !.pendingWrites = p1, !.allowance = a1]
      BY <1>2, <2>1, <2>2, <2>3, <3>1, <3>2, <3>3, <3>4, <3>5
         DEF DrainOutputFramesQueue, IsClosed, Check
    <3> QED BY <3>5, <3>6
  <2> QED BY <2>1, <2>2, <2>3, <2>8 DEF ConnectionSet
<1> QED BY <1>1, <1>2, ConnectionFacts

(***************************************************************************)
(* outputFrameOrEnqueue: the frame is the last one output, and goes out at *)
(* once if the connection never stops asking.                              *)
(***************************************************************************)
LEMMA OutputFacts ==
  ASSUME NEW c \in ConnectionSet, Writes(c), SizeMax > 0, c.connection => c.output,
         NEW f \in Texts, NEW d, d = Output(c, f)
  PROVE  /\ d \in ConnectionSet /\ Elsewhere(c, d) /\ d.fatal = c.fatal /\ Writes(d)
         /\ c.connection /\ IsInfinite(d.allowance) =>
               d.wire # << >> /\ d.wire[Len(d.wire)] = f
<1>1. PICK a \in Nat : a = c.allowance /\ a \in 0..SizeMax
  BY ConnectionFacts
<1>2. PICK p \in Seq(Texts) : p = c.pendingWrites
  BY ConnectionFacts
<1>3. PICK v \in Seq(Texts) : v = c.wire
  BY ConnectionFacts
<1>4. PICK o \in Seq(Texts) : o = c.outputs
  BY ConnectionFacts
<1>5. PICK o1 \in Seq(Texts) : o1 = Append(o, f)
  BY AppendFacts
<1>6. Joined(v, p, o) /\ (c.connection /\ a > 0 => p = << >>)
  BY <1>1, <1>2, <1>3, <1>4 DEF Writes
<1>7. PICK e : e = [c EXCEPT !.outputs = o1]
  OBVIOUS
<1>8. /\ e \in ConnectionSet /\ Elsewhere(c, e) /\ e.fatal = c.fatal
      /\ e.wire = v /\ e.pendingWrites = p /\ e.allowance = a /\ e.outputs = o1
  BY <1>1, <1>2, <1>3, <1>7 DEF ConnectionSet, Elsewhere
<1>9. DrainOutputFramesQueue(e) = e
  BY <1>6, <1>8, DrainedStays DEF Drains, Elsewhere
<1>10. d = OutputFrameOrEnqueue(e, f)
  BY <1>4, <1>5, <1>7 DEF Output
<1>11. CASE c.connection /\ p = << >> /\ a > 0
  <2>1. PICK v1 \in Seq(Texts) : v1 = Append(v, f)
    BY AppendFacts
  <2>2. PICK a1 \in 0..SizeMax : a1 = AfterAcquire(a)
    BY <1>1, <1>11, SizeMaxAssumption DEF AfterAcquire, IsInfinite
  <2>3. d = [e EXCEPT !.wire = v1, !.allowance = a1]
    BY <1>8, <1>9, <1>10, <1>11, <2>1, <2>2
       DEF OutputFrameOrEnqueue, IsClosed, CanAcquire, Check, Elsewhere
  <2>4. /\ d \in ConnectionSet /\ Elsewhere(e, d) /\ d.fatal = e.fatal
        /\ d.wire = v1 /\ d.pendingWrites = p /\ d.allowance = a1 /\ d.outputs = o1
    BY <1>8, <2>3 DEF ConnectionSet, Elsewhere
  <2>5. Joined(v1, p, o1)
    <3>1. Len(p) = 0
      BY <1>11
    <3> QED BY <1>5, <1>6, <2>1, <3>1, JoinedAppend
  <2>6. v1 # << >> /\ v1[Len(v1)] = f
    <3>1. Len(v1) = Len(v) + 1 /\ v1[Len(v) + 1] = f
      BY <2>1, AppendFacts
    <3> QED BY <3>1
  <2>7. Elsewhere(c, d)
    BY <1>8, <2>4 DEF Elsewhere
  <2> QED BY <1>8, <1>11, <2>4, <2>5, <2>6, <2>7 DEF Writes
<1>12. CASE ~(c.connection /\ p = << >> /\ a > 0)
  <2>1. PICK p1 \in Seq(Texts) : p1 = Append(p, f)
    BY AppendFacts
  <2>2. d = [e EXCEPT !.pendingWrites = p1]
    BY <1>1, <1>8, <1>9, <1>10, <1>12, <2>1
       DEF OutputFrameOrEnqueue, IsClosed, CanAcquire, Elsewhere
  <2>3. /\ d \in ConnectionSet /\ Elsewhere(e, d) /\ d.fatal = e.fatal
        /\ d.wire = v /\ d.pendingWrites = p1 /\ d.allowance = a /\ d.outputs = o1
    BY <1>8, <2>2 DEF ConnectionSet, Elsewhere
  <2>4. Joined(v, p1, o1)
    BY <1>5, <1>6, <2>1, JoinedAppend
  <2>5. Elsewhere(c, d)
    BY <1>8, <2>3 DEF Elsewhere
  <2>6. ~(c.connection /\ a > 0)
    BY <1>6, <1>12
  <2>7. ~(c.connection /\ IsInfinite(a))
    BY <1>1, <2>6 DEF IsInfinite
  <2> QED BY <1>8, <2>3, <2>4, <2>5, <2>6, <2>7 DEF Writes, Elsewhere
<1> QED BY <1>11, <1>12

(***************************************************************************)
(* request(n): more may be written, and is.                                *)
(***************************************************************************)
LEMMA RequestFacts ==
  ASSUME NEW c \in ConnectionSet, Writes(c), c.connection => c.output,
         NEW n \in Nat, NEW d, d = Request(c, n)
  PROVE  /\ d \in ConnectionSet /\ Elsewhere(c, d) /\ d.fatal = c.fatal /\ Writes(d)
         /\ ~c.connection => d = c
<1>1. CASE ~c.connection
  BY <1>1 DEF Request, IsClosed, Elsewhere
<1>2. CASE c.connection
  <2>1. PICK a1 \in 0..SizeMax : a1 = Release(c.allowance, n)
    <3>1. c.allowance \in Nat /\ c.allowance <= SizeMax
      BY ConnectionFacts
    <3> QED BY <3>1, SizeMaxAssumption DEF Release
  <2>2. PICK e : e = [c EXCEPT !.allowance = a1]
    OBVIOUS
  <2>3. /\ e \in ConnectionSet /\ Elsewhere(c, e) /\ e.fatal = c.fatal
        /\ e.wire = c.wire /\ e.pendingWrites = c.pendingWrites
        /\ e.outputs = c.outputs
    BY <2>2 DEF ConnectionSet, Elsewhere
  <2>4. CASE c.allowance > 0
    <3>1. d = e
      BY <1>2, <2>1, <2>2, <2>4 DEF Request, IsClosed
    <3>2. c.pendingWrites = << >>
      BY <1>2, <2>4 DEF Writes
    <3> QED BY <1>2, <2>3, <3>1, <3>2 DEF Writes
  <2>5. CASE ~(c.allowance > 0)
    <3>1. d = DrainOutputFramesQueue(e)
      BY <1>2, <2>1, <2>2, <2>5 DEF Request, IsClosed
    <3>2. Joined(e.wire, e.pendingWrites, e.outputs)
      BY <2>3 DEF Writes
    <3>3. Writing(e, d) /\ Drains(d)
      BY <1>2, <2>3, <3>1, <3>2, DrainFacts DEF Elsewhere
    <3> QED BY <1>2, <2>3, <3>3 DEF Writing, Drains, Writes, Elsewhere
  <2> QED BY <2>4, <2>5
<1> QED BY <1>1, <1>2, ConnectionFacts

-----------------------------------------------------------------------------
(* Reading                                                                 *)

(***************************************************************************)
(* A set of natural numbers has a least one.                               *)
(***************************************************************************)
LEMMA LeastNat ==
  ASSUME NEW S \in SUBSET Nat, S # {}
  PROVE  \E m \in S : \A n \in S : m <= n
<1> DEFINE R == {ss \in Nat \X Nat : ss[1] < ss[2]}
<1>1. IsWellFoundedOn(R, Nat)
  BY NatLessThanWellFounded, Zenon DEF OpToRel
<1>2. \E m \in S : \A n \in S : ~(<<n, m>> \in R)
  <2> HIDE DEF R
  <2> QED BY <1>1, WFMin
<1>3. \A m, n \in Nat : <<n, m>> \in R <=> n < m
  BY SMT
<1>4. \A m, n \in Nat : ~(n < m) => m <= n
  BY SMT
<1> HIDE DEF R
<1> QED BY <1>2, <1>3, <1>4

(***************************************************************************)
(* The loop over pendingReads_ is well defined.                            *)
(***************************************************************************)
IsAfter(f, y, p, l) ==
    f = [n \in 0..l |-> IF n = 0 THEN y ELSE HandToSocket(f[n - 1], p[n])]

LEMMA AfterExists ==
  ASSUME NEW y, NEW p, NEW l \in Nat
  PROVE  \E f : IsAfter(f, y, p, l)
<1> DEFINE Is(f, k) == f = [n \in 0..k |-> IF n = 0 THEN y
                                          ELSE HandToSocket(f[n - 1], p[n])]
<1> DEFINE Bad == {k \in Nat : ~\E f : Is(f, k)}
<1>1. Bad = {}
  <2> SUFFICES ASSUME Bad # {} PROVE FALSE
    OBVIOUS
  <2>1. PICK k \in Bad : \A j \in Bad : k <= j
    <3>1. Bad \in SUBSET Nat
      OBVIOUS
    <3> HIDE DEF Bad
    <3> QED BY <3>1, LeastNat
  <2>2. k \in Nat /\ ~\E f : Is(f, k)
    OBVIOUS
  <2>3. k # 0
    <3> SUFFICES ASSUME k = 0 PROVE FALSE
      OBVIOUS
    <3>1. PICK f : f = [n \in 0..0 |-> y]
      OBVIOUS
    <3>2. f = [n \in 0..0 |-> IF n = 0 THEN y ELSE HandToSocket(f[n - 1], p[n])]
      <4>1. \A n \in 0..0 : n = 0
        OBVIOUS
      <4> QED BY <3>1, <4>1
    <3>3. Is(f, 0)
      BY <3>2
    <3> HIDE DEF Is
    <3> QED BY <2>2, <3>3
  <2>4. k - 1 \in Nat /\ k - 1 \notin Bad
    <3>1. k - 1 \in Nat /\ ~(k <= k - 1)
      BY <2>2, <2>3
    <3> HIDE DEF Bad
    <3> QED BY <2>1, <3>1
  <2>5. PICK f : Is(f, k - 1)
    <3> HIDE DEF Is
    <3> QED BY <2>4
  <2>6. PICK j \in Nat : j = k - 1
    BY <2>4
  <2>7. k = j + 1 /\ j \in 0..j
    BY <2>2, <2>6
  <2>8. PICK last : last = HandToSocket(f[j], p[k])
    OBVIOUS
  <2>9. PICK g : g = [n \in 0..k |-> IF n <= j THEN f[n] ELSE last]
    OBVIOUS
  <2>10. \A n \in 0..j : f[n] = IF n = 0 THEN y ELSE HandToSocket(f[n - 1], p[n])
    BY <2>5, <2>6
  <2>11. /\ \A n \in 0..j : g[n] = f[n]
         /\ g[k] = last
    BY <2>7, <2>9
  <2>12. \A n \in 0..k : g[n] = IF n = 0 THEN y ELSE HandToSocket(g[n - 1], p[n])
    <3> TAKE n \in 0..k
    <3>1. CASE n = 0
      <4>1. 0 \in 0..j
        OBVIOUS
      <4> QED BY <2>10, <2>11, <3>1, <4>1
    <3>2. CASE n # 0 /\ n <= j
      <4>1. n \in 0..j /\ n - 1 \in 0..j
        BY <3>2
      <4>2. g[n] = f[n] /\ g[n - 1] = f[n - 1]
        BY <2>11, <4>1, Zenon
      <4>3. f[n] = HandToSocket(f[n - 1], p[n])
        BY <2>10, <3>2, <4>1, Zenon
      <4> QED BY <3>2, <4>2, <4>3, Zenon
    <3>3. CASE n = k
      <4>1. n # 0 /\ n - 1 = j
        BY <2>3, <2>7, <3>3
      <4>2. g[n - 1] = f[j]
        BY <2>7, <2>11, <4>1
      <4> QED BY <2>8, <2>11, <3>3, <4>1, <4>2
    <3>4. n = 0 \/ (n # 0 /\ n <= j) \/ n = k
      BY <2>7
    <3> QED BY <3>1, <3>2, <3>3, <3>4, Zenon
  <2>13. Is(g, k)
    BY <2>9, <2>12, Zenon
  <2> HIDE DEF Is
  <2> QED BY <2>2, <2>13
<1>2. \E f : Is(f, l)
  <2> HIDE DEF Is
  <2> QED BY <1>1
<1> QED BY <1>2 DEF IsAfter

(***************************************************************************)
(* c after some of what waited was handed over.                            *)
(***************************************************************************)
HavingRead(c, h, t) == [c EXCEPT !.pendingReads = << >>, !.handed = h, !.tasks = t]

HandedTo(f) == [to |-> "socket", frame |-> f]

LEMMA HandOne ==
  ASSUME ~InlineExecutor, NEW c \in ConnectionSet, c.processor = "socket",
         NEW h \in Seq(HandedSet), NEW t \in Seq(TaskSet), NEW f \in FrameSet
  PROVE  HandToSocket(HavingRead(c, h, t), f) =
            HavingRead(c, Append(h, HandedTo(f)), Append(t, f))
<1>1. PICK d : d = HavingRead(c, h, t)
  OBVIOUS
<1>2. d.processor = "socket" /\ d.handed = h /\ d.tasks = t
  BY <1>1 DEF HavingRead, ConnectionSet
<1>3. PICK h1 : h1 = Append(h, HandedTo(f))
  OBVIOUS
<1>4. PICK t1 : t1 = Append(t, f)
  OBVIOUS
<1>5. Handed(d, f) = [d EXCEPT !.handed = h1]
  BY <1>2, <1>3 DEF Handed, HandedTo
<1>6. Handed(d, f).tasks = t
  BY <1>1, <1>2, <1>5 DEF HavingRead, ConnectionSet
<1>7. HandToSocket(d, f) = [[d EXCEPT !.handed = h1] EXCEPT !.tasks = t1]
  BY <1>2, <1>4, <1>5, <1>6 DEF HandToSocket, InSocketExecutor
<1>8. [[d EXCEPT !.handed = h1] EXCEPT !.tasks = t1] = HavingRead(c, h1, t1)
  BY <1>1 DEF HavingRead, ConnectionSet
<1> QED BY <1>1, <1>3, <1>4, <1>7, <1>8

(***************************************************************************)
(* The socket is handed what waited, in order, after what was handed over  *)
(* before.                                                                 *)
(***************************************************************************)
Follows(h, c, n) ==
    /\ Len(h) = Len(c.handed) + n
    /\ \A i \in 1..Len(c.handed) : h[i] = c.handed[i]
    /\ \A i \in 1..n : h[Len(c.handed) + i] = HandedTo(c.pendingReads[i])

LEMMA FollowsOne ==
  ASSUME NEW c \in ConnectionSet, NEW n \in Nat, NEW h \in Seq(HandedSet),
         Follows(h, c, n), NEW f \in FrameSet, f = c.pendingReads[n + 1]
  PROVE  /\ Append(h, HandedTo(f)) \in Seq(HandedSet)
         /\ Follows(Append(h, HandedTo(f)), c, n + 1)
<1>1. PICK k \in Nat : k = Len(c.handed)
  <2>1. c.handed \in Seq(HandedSet)
    BY ConnectionFacts
  <2> QED BY <2>1
<1>2. PICK e \in HandedSet : e = HandedTo(f)
  BY DEF HandedSet, HandedTo, Processors
<1>3. PICK g : g = Append(h, e)
  OBVIOUS
<1>4. /\ Len(h) = k + n
      /\ \A i \in 1..k : h[i] = c.handed[i]
      /\ \A i \in 1..n : h[k + i] = HandedTo(c.pendingReads[i])
  BY <1>1 DEF Follows
<1>5. /\ g \in Seq(HandedSet) /\ Len(g) = (k + n) + 1 /\ g[(k + n) + 1] = e
      /\ \A i \in 1..k + n : g[i] = h[i]
  BY <1>3, <1>4, AppendFacts
<1>6. \A i \in 1..k : g[i] = c.handed[i]
  BY <1>4, <1>5
<1>7. \A i \in 1..n + 1 : g[k + i] = HandedTo(c.pendingReads[i])
  <2> TAKE i \in 1..n + 1
  <2>1. CASE i = n + 1
    <3>1. k + i = (k + n) + 1
      BY <2>1
    <3> QED BY <1>2, <1>5, <2>1, <3>1
  <2>2. CASE i # n + 1
    <3>1. i \in 1..n /\ k + i \in 1..k + n
      BY <2>2
    <3> QED BY <1>4, <1>5, <3>1
  <2> QED BY <2>1, <2>2
<1>8. (k + n) + 1 = k + (n + 1)
  OBVIOUS
<1> QED BY <1>1, <1>2, <1>3, <1>5, <1>6, <1>7, <1>8 DEF Follows

LEMMA TakeFacts ==
  ASSUME ~InlineExecutor, NEW c \in ConnectionSet, c.processor = "socket"
  PROVE  \E h \in Seq(HandedSet), t \in Seq(TaskSet) :
            /\ TakePendingReads(c) = HavingRead(c, h, t)
            /\ Follows(h, c, Len(c.pendingReads))
<1>1. PICK p \in Seq(FrameSet) : p = c.pendingReads
  BY ConnectionFacts
<1>2. PICK l \in Nat : l = Len(p)
  OBVIOUS
<1>3. PICK y : y = [c EXCEPT !.pendingReads = << >>]
  OBVIOUS
<1>4. PICK after : /\ after = [n \in 0..l |-> IF n = 0 THEN y
                                    ELSE HandToSocket(after[n - 1], p[n])]
                   /\ TakePendingReads(c) = after[l]
  <2> DEFINE A == CHOOSE f : IsAfter(f, y, p, l)
  <2>1. TakePendingReads(c) = A[l]
    BY <1>1, <1>2, <1>3, Zenon DEF TakePendingReads, IsAfter
  <2>2. A = [n \in 0..l |-> IF n = 0 THEN y ELSE HandToSocket(A[n - 1], p[n])]
    <3>1. \E f : IsAfter(f, y, p, l)
      BY AfterExists
    <3>2. IsAfter(A, y, p, l)
      BY <3>1, Zenon
    <3> HIDE DEF A
    <3> QED BY <3>2, Zenon DEF IsAfter
  <2> HIDE DEF A
  <2> QED BY <2>1, <2>2
<1>5. after[0] = y /\ \A n \in 1..l : after[n] = HandToSocket(after[n - 1], p[n])
  <2>1. 0 \in 0..l /\ \A n \in 1..l : n \in 0..l /\ n # 0
    OBVIOUS
  <2> QED BY <1>4, <2>1
<1> DEFINE Upto(n, h, t) == after[n] = HavingRead(c, h, t) /\ Follows(h, c, n)
<1> DEFINE Bad == {n \in 0..l : ~\E h \in Seq(HandedSet), t \in Seq(TaskSet) : Upto(n, h, t)}
<1>6. 0 \notin Bad
  <2>1. y = HavingRead(c, c.handed, c.tasks)
    BY <1>3 DEF HavingRead, ConnectionSet
  <2>2. c.handed \in Seq(HandedSet) /\ c.tasks \in Seq(TaskSet)
    BY ConnectionFacts
  <2>3. Follows(c.handed, c, 0)
    <3>1. PICK k \in Nat : k = Len(c.handed)
      BY <2>2
    <3> QED BY <3>1 DEF Follows
  <2>4. Upto(0, c.handed, c.tasks)
    BY <1>5, <2>1, <2>3
  <2> HIDE DEF Upto
  <2> QED BY <2>2, <2>4
<1>7. ASSUME NEW j \in Nat, j + 1 \in 1..l,
             NEW h \in Seq(HandedSet), NEW t \in Seq(TaskSet), Upto(j, h, t)
      PROVE  \E h1 \in Seq(HandedSet), t1 \in Seq(TaskSet) : Upto(j + 1, h1, t1)
  <2>1. PICK f \in FrameSet : f = p[j + 1]
    BY <1>2, <1>7
  <2>2. PICK h1 : h1 = Append(h, HandedTo(f))
    OBVIOUS
  <2>3. PICK t1 \in Seq(TaskSet) : t1 = Append(t, f)
    <3>1. f \in TaskSet
      BY DEF TaskSet
    <3> QED BY <3>1, AppendFacts
  <2>4. h1 \in Seq(HandedSet) /\ Follows(h1, c, j + 1)
    BY <1>1, <1>7, <2>1, <2>2, FollowsOne
  <2>5. after[j + 1] = HandToSocket(HavingRead(c, h, t), f)
    <3>1. after[j + 1] = HandToSocket(after[(j + 1) - 1], p[j + 1])
      BY <1>5, <1>7
    <3>2. (j + 1) - 1 = j
      OBVIOUS
    <3> QED BY <1>7, <2>1, <3>1, <3>2
  <2>6. after[j + 1] = HavingRead(c, h1, t1)
    BY <2>2, <2>3, <2>5, HandOne
  <2>7. Upto(j + 1, h1, t1)
    BY <2>4, <2>6
  <2> HIDE DEF Upto
  <2> QED BY <2>4, <2>7
<1>8. Bad = {}
  <2> SUFFICES ASSUME Bad # {} PROVE FALSE
    OBVIOUS
  <2>1. PICK k \in Bad : \A j \in Bad : k <= j
    <3>1. Bad \in SUBSET Nat
      OBVIOUS
    <3> HIDE DEF Bad
    <3> QED BY <3>1, LeastNat
  <2>2. k \in 0..l /\ ~\E h \in Seq(HandedSet), t \in Seq(TaskSet) : Upto(k, h, t)
    <3> HIDE DEF Upto
    <3> QED OBVIOUS
  <2>3. k # 0
    <3> HIDE DEF Bad
    <3> QED BY <1>6, <2>1
  <2>4. PICK j \in Nat : k = j + 1 /\ j \in 0..l /\ j + 1 \in 1..l /\ ~(k <= j)
    <3>1. k - 1 \in Nat /\ k = (k - 1) + 1 /\ k - 1 \in 0..l /\ ~(k <= k - 1) /\ k \in 1..l
      BY <2>2, <2>3
    <3> QED BY <3>1, Zenon
  <2>5. j \notin Bad
    <3> HIDE DEF Bad
    <3> QED BY <2>1, <2>4
  <2>6. PICK h \in Seq(HandedSet), t \in Seq(TaskSet) : Upto(j, h, t)
    <3> HIDE DEF Upto
    <3> QED BY <2>4, <2>5
  <2> HIDE DEF Upto
  <2>7. \E h1 \in Seq(HandedSet), t1 \in Seq(TaskSet) : Upto(j + 1, h1, t1)
    BY <1>7, <2>4, <2>6
  <2> QED BY <2>2, <2>4, <2>7, Zenon
<1>9. PICK h \in Seq(HandedSet), t \in Seq(TaskSet) : Upto(l, h, t)
  <2>1. l \in 0..l
    OBVIOUS
  <2> HIDE DEF Upto
  <2> QED BY <1>8, <2>1
<1> QED BY <1>1, <1>2, <1>4, <1>9

-----------------------------------------------------------------------------
(* Closing and changing the processor                                      *)

(***************************************************************************)
(* close: the processor and the connection are forgotten, nothing else.    *)
(***************************************************************************)
ClosedFrom(c, d) ==
    /\ d \in ConnectionSet
    /\ d.processor = "none" /\ ~d.connection
    /\ d.allowance = c.allowance /\ d.pendingWrites = c.pendingWrites
    /\ d.wire = c.wire /\ d.outputs = c.outputs
    /\ d.pendingReads = c.pendingReads /\ d.pendingTerminal = c.pendingTerminal
    /\ d.registered = c.registered /\ d.socket = c.socket /\ d.tasks = c.tasks
    /\ d.handed = c.handed /\ d.told = c.told /\ d.calls = c.calls
    /\ d.refused = c.refused /\ d.fatal = c.fatal

LEMMA CloseFacts ==
  ASSUME NEW c \in ConnectionSet
  PROVE  ClosedFrom(c, CloseTransport(c))
<1>1. CASE ~c.connection
  <2>1. CloseTransport(c) = [c EXCEPT !.processor = "none"]
    BY <1>1 DEF CloseTransport, IsClosed
  <2> QED BY <1>1, <2>1 DEF ClosedFrom, ConnectionSet, Processors
<1>2. CASE c.connection
  <2>1. CloseTransport(c) = [c EXCEPT !.processor = "none", !.connection = FALSE,
                                      !.output = FALSE, !.input = FALSE]
    BY <1>2 DEF CloseTransport, IsClosed
  <2> QED BY <2>1 DEF ClosedFrom, ConnectionSet, Processors
<1> QED BY <1>1, <1>2, ConnectionFacts

LEMMA RemoveFacts ==
  ASSUME NEW c \in ConnectionSet, Drains(c), SizeMax > 0
  PROVE  RemoveConnection(c) = [c EXCEPT !.processor = "none", !.registered = FALSE]
<1>1. PICK d : d = [c EXCEPT !.processor = "none"]
  OBVIOUS
<1>2. d \in ConnectionSet /\ Drains(d)
  BY <1>1 DEF ConnectionSet, Drains, Processors
<1>3. SetFrameProcessor(c, "none", 0) = d
  BY <1>1, <1>2, DrainedStays DEF SetFrameProcessor
<1> QED BY <1>1, <1>3 DEF RemoveConnection, Unregister, ConnectionSet

LEMMA TakeNothing ==
  ASSUME NEW c \in ConnectionSet, c.pendingReads = << >>
  PROVE  TakePendingReads(c) = c
<1>1. PICK p : p = c.pendingReads
  OBVIOUS
<1>2. PICK l \in Nat : l = Len(p) /\ l = 0
  BY <1>1
<1>3. PICK y : y = [c EXCEPT !.pendingReads = << >>]
  OBVIOUS
<1> DEFINE A == CHOOSE f : IsAfter(f, y, p, l)
<1>4. TakePendingReads(c) = A[l]
  BY <1>1, <1>2, <1>3, Zenon DEF TakePendingReads, IsAfter
<1>5. A = [n \in 0..l |-> IF n = 0 THEN y ELSE HandToSocket(A[n - 1], p[n])]
  <2>1. \E f : IsAfter(f, y, p, l)
    BY AfterExists
  <2>2. IsAfter(A, y, p, l)
    BY <2>1, Zenon
  <2> HIDE DEF A
  <2> QED BY <2>2, Zenon DEF IsAfter
<1> HIDE DEF A
<1>6. A[0] = y
  BY <1>2, <1>5
<1>7. y = c
  BY <1>3 DEF ConnectionSet
<1> QED BY <1>2, <1>4, <1>6, <1>7

(***************************************************************************)
(* The first processor of a transport: the transport is connected to its   *)
(* connection, which may request at once.                                  *)
(***************************************************************************)
Opened(c, d, p) ==
    /\ d \in ConnectionSet
    /\ d.processor = p /\ d.connection /\ d.output /\ d.input
    /\ Writes(d) /\ d.pendingReads = << >> /\ ~d.pendingTerminal
    /\ d.fatal = c.fatal /\ d.registered = c.registered /\ d.socket = c.socket
    /\ d.handed = c.handed /\ d.told = c.told /\ d.calls = c.calls
    /\ d.refused = c.refused

LEMMA OpenFacts ==
  ASSUME SizeMax > 0, NEW c \in ConnectionSet, NEW p \in {"acceptor", "socket"},
         NEW n \in Nat, c.connection, ~c.output, ~c.input, Writes(c),
         c.pendingReads = << >>, ~c.pendingTerminal
  PROVE  Opened(c, SetFrameProcessor(c, p, n), p)
<1>1. PICK b : b = [c EXCEPT !.processor = p]
  OBVIOUS
<1>2. PICK e : e = [b EXCEPT !.output = TRUE]
  OBVIOUS
<1>3. /\ b.processor = p /\ b.connection /\ ~b.output /\ ~b.input /\ b \in ConnectionSet
  BY <1>1 DEF ConnectionSet, Processors
<1>4. /\ e \in ConnectionSet /\ e.processor = p /\ e.connection /\ e.output
      /\ Writes(e) /\ e.pendingReads = << >> /\ ~e.pendingTerminal
      /\ e.fatal = c.fatal /\ e.registered = c.registered /\ e.socket = c.socket
      /\ e.handed = c.handed /\ e.told = c.told /\ e.calls = c.calls
      /\ e.refused = c.refused
  <2>1. e = [c EXCEPT !.processor = p, !.output = TRUE]
    BY <1>1, <1>2 DEF ConnectionSet
  <2>2. /\ e.wire = c.wire /\ e.pendingWrites = c.pendingWrites
        /\ e.outputs = c.outputs /\ e.allowance = c.allowance
        /\ e.connection = c.connection
    BY <2>1 DEF ConnectionSet
  <2>3. Writes(e)
    BY <2>2 DEF Writes
  <2> QED BY <2>1, <2>3 DEF ConnectionSet, Processors
<1>5. PICK r : r = Request(e, n)
  OBVIOUS
<1>6. r \in ConnectionSet /\ Elsewhere(e, r) /\ r.fatal = e.fatal /\ Writes(r)
  BY <1>4, <1>5, RequestFacts
<1>7. PICK i : i = [r EXCEPT !.input = TRUE]
  OBVIOUS
<1>8. /\ i \in ConnectionSet /\ i.processor = p /\ i.connection /\ i.output /\ i.input
      /\ i.pendingReads = << >> /\ ~i.pendingTerminal
      /\ i.fatal = c.fatal /\ i.registered = c.registered /\ i.socket = c.socket
      /\ i.handed = c.handed /\ i.told = c.told /\ i.calls = c.calls
      /\ i.refused = c.refused
      /\ i.wire = r.wire /\ i.pendingWrites = r.pendingWrites
      /\ i.outputs = r.outputs /\ i.allowance = r.allowance
  BY <1>4, <1>6, <1>7 DEF Elsewhere, ConnectionSet
<1>9. Writes(i)
  <2>1. r.connection
    BY <1>4, <1>6 DEF Elsewhere
  <2> QED BY <1>6, <1>8, <2>1 DEF Writes
<1>10. ConnectTransport(b, n) = i
  BY <1>2, <1>3, <1>5, <1>7 DEF ConnectTransport, Check
<1>11. Check(ConnectTransport(b, n), ~IsClosed(c)) = i
  BY <1>10 DEF Check, IsClosed
<1>12. TakePendingReads(DrainOutputFramesQueue(i)) = i
  <2>1. Drains(i)
    BY <1>9 DEF Writes, Drains
  <2>2. DrainOutputFramesQueue(i) = i
    BY <1>8, <2>1, DrainedStays
  <2> QED BY <1>8, <2>2, TakeNothing
<1>13. SetFrameProcessor(c, p, n) = i
  BY <1>1, <1>8, <1>11, <1>12 DEF SetFrameProcessor
<1> QED BY <1>8, <1>9, <1>13 DEF Opened

(***************************************************************************)
(* A socket is given a transport that was connected: it is handed what was *)
(* read meanwhile and told of the end if that has come.                    *)
(***************************************************************************)
Adopted(c, h, t, p, told) ==
    [c EXCEPT !.socket = "on", !.processor = p, !.pendingReads = << >>,
              !.handed = h, !.tasks = t, !.pendingTerminal = FALSE, !.told = told]

LEMMA ConnectFacts ==
  ASSUME Proper, NEW c \in ConnectionSet, c.connection, c.output, Writes(c)
  PROVE  \E h \in Seq(HandedSet), t \in Seq(TaskSet) :
            /\ Follows(h, c, Len(c.pendingReads))
            /\ SocketConnect(c) =
                  IF c.pendingTerminal
                  THEN Adopted(c, h, t, "none", Append(c.told, "socket"))
                  ELSE Adopted(c, h, t, "socket", c.told)
<1>1. PICK b : b = [c EXCEPT !.socket = "on"]
  OBVIOUS
<1>2. PICK e : e = [b EXCEPT !.processor = "socket"]
  OBVIOUS
<1>3. b \in ConnectionSet /\ b.connection /\ b.output
  BY <1>1 DEF ConnectionSet
<1>4. /\ e \in ConnectionSet /\ e.connection /\ e.output /\ e.processor = "socket"
      /\ e.handed = c.handed /\ e.pendingReads = c.pendingReads
      /\ e.wire = c.wire /\ e.pendingWrites = c.pendingWrites
      /\ e.allowance = c.allowance /\ e.pendingTerminal = c.pendingTerminal
      /\ e.told = c.told
  BY <1>1, <1>2 DEF ConnectionSet, Processors
<1>5. SocketConnect(c) = SetFrameProcessor(b, "socket", 0)
  BY <1>1 DEF SocketConnect, Check, IsClosed
<1>6. Check(ConnectTransport(e, 0), ~IsClosed(b)) = e
  BY <1>3, <1>4 DEF ConnectTransport, Check, IsClosed
<1>7. DrainOutputFramesQueue(e) = e
  <2>1. Drains(e)
    BY <1>4 DEF Drains, Writes
  <2> QED BY <1>4, <2>1, DrainedStays DEF Proper
<1>8. PICK h \in Seq(HandedSet), t \in Seq(TaskSet) :
         /\ TakePendingReads(e) = HavingRead(e, h, t)
         /\ Follows(h, e, Len(e.pendingReads))
  BY <1>4, TakeFacts DEF Proper
<1>9. Follows(h, c, Len(c.pendingReads))
  BY <1>4, <1>8 DEF Follows
<1>10. PICK r : r = HavingRead(e, h, t)
  OBVIOUS
<1>11. /\ r \in ConnectionSet /\ r.processor = "socket" /\ r.told = c.told
       /\ r.tasks = t /\ r.pendingTerminal = c.pendingTerminal
  <2>1. << >> \in Seq(FrameSet)
    OBVIOUS
  <2>2. r = [e EXCEPT !.pendingReads = << >>, !.handed = h, !.tasks = t]
    BY <1>10 DEF HavingRead
  <2>3. r \in ConnectionSet
    BY <1>4, <2>1, <2>2 DEF ConnectionSet
  <2> QED BY <1>4, <2>2, <2>3 DEF ConnectionSet
<1>12. TakePendingReads(DrainOutputFramesQueue(e)) = r
  BY <1>7, <1>8, <1>10
<1>13. CASE ~c.pendingTerminal
  <2>1. SetFrameProcessor(b, "socket", 0) = r
    BY <1>2, <1>6, <1>11, <1>12, <1>13 DEF SetFrameProcessor
  <2>2. r = Adopted(c, h, t, "socket", c.told)
    <3>1. c.pendingTerminal = FALSE
      BY <1>13, ConnectionFacts
    <3> QED BY <1>1, <1>2, <1>10, <3>1 DEF HavingRead, Adopted, ConnectionSet
  <2> QED BY <1>5, <1>9, <1>13, <2>1, <2>2
<1>14. CASE c.pendingTerminal
  <2>1. PICK k : k = FrameOf("terminal", "none")
    OBVIOUS
  <2>2. PICK t1 \in Seq(TaskSet) : t1 = Append(t, k)
    <3>1. k \in TaskSet
      BY <2>1 DEF TaskSet
    <3> QED BY <3>1, AppendFacts
  <2>3. PICK g : g = [r EXCEPT !.pendingTerminal = FALSE]
    OBVIOUS
  <2>4. PICK q : q = [g EXCEPT !.processor = "none"]
    OBVIOUS
  <2>5. q.told = c.told /\ q.tasks = t
    BY <1>11, <2>3, <2>4 DEF ConnectionSet
  <2>6. PICK told1 : told1 = Append(c.told, "socket")
    OBVIOUS
  <2>7. SetFrameProcessor(b, "socket", 0) = OnTerminal(q, "socket")
    BY <1>2, <1>6, <1>11, <1>12, <1>14, <2>3, <2>4 DEF SetFrameProcessor
  <2>8. PICK s : s = [q EXCEPT !.told = told1]
    OBVIOUS
  <2>9. s.tasks = t
    BY <1>11, <2>3, <2>4, <2>8 DEF ConnectionSet
  <2>10. OnTerminal(q, "socket") = [s EXCEPT !.tasks = t1]
    BY <2>1, <2>2, <2>5, <2>6, <2>8, <2>9
       DEF OnTerminal, InSocketExecutor, FrameOf, Proper
  <2>11. [s EXCEPT !.tasks = t1] = Adopted(c, h, t1, "none", told1)
    BY <1>1, <1>2, <1>10, <2>3, <2>4, <2>8 DEF HavingRead, Adopted, ConnectionSet
  <2> QED BY <1>5, <1>9, <1>14, <2>6, <2>7, <2>10, <2>11
<1> QED BY <1>13, <1>14, ConnectionFacts

-----------------------------------------------------------------------------
(* What the steps are made of                                              *)

(***************************************************************************)
(* Writing does not disturb who owns the transport, nor what was read.     *)
(***************************************************************************)
LEMMA WritingKeeps ==
  ASSUME NEW c, NEW e, NEW a, Good(c, e, a), c # NewConnection, NEW d \in ConnectionSet,
         Elsewhere(c, d), d.fatal = c.fatal, Writes(d), c.refused => d = c
  PROVE  Good(d, e, a)
<1>1. Reads(d, a)
  BY DEF Good, Reads, Elsewhere
<1>2. Owners(d, e)
  BY DEF Good, Sound, Owners, Elsewhere
<1>3. Refused(d)
  BY DEF Good, Sound, Refused, Elsewhere
<1> QED BY <1>1, <1>2, <1>3 DEF Good, Sound, Elsewhere

(***************************************************************************)
(* The socket, or the handler that has the transport, closes it.           *)
(***************************************************************************)
LEMMA SocketClosesKeeps ==
  ASSUME NEW c, NEW e \in Processors, NEW a, Good(c, e, a), c.socket \in {"on", "later"}
  PROVE  Good([CloseTransport(c) EXCEPT !.socket = "closed"], e, a)
<1>1. c \in ConnectionSet
  BY DEF Good
<1>2. PICK b : b = CloseTransport(c) /\ ClosedFrom(c, b)
  BY <1>1, CloseFacts
<1>3. PICK d : d = [b EXCEPT !.socket = "closed"]
  OBVIOUS
<1>4. /\ d \in ConnectionSet /\ d.socket = "closed"
      /\ d.processor = "none" /\ ~d.connection
      /\ d.allowance = c.allowance /\ d.pendingWrites = c.pendingWrites
      /\ d.wire = c.wire /\ d.outputs = c.outputs
      /\ d.pendingReads = c.pendingReads
      /\ d.registered = c.registered
      /\ d.handed = c.handed /\ d.told = c.told /\ d.calls = c.calls
      /\ d.refused = c.refused /\ d.fatal = c.fatal
  BY <1>2, <1>3 DEF ClosedFrom, ConnectionSet
<1>5. Reads(d, a)
  BY <1>4 DEF Good, Reads
<1>6. Writes(d)
  BY <1>4 DEF Good, Sound, Writes
<1>7. ~c.refused
  BY DEF Good, Sound, Refused
<1>8. Owners(d, e)
  <2>1. "acceptor" \notin {c.processor, e}
    BY DEF Good, Sound, Owners
  <2> QED BY <1>4, <2>1 DEF Good, Sound, Owners
<1> QED BY <1>2, <1>3, <1>4, <1>5, <1>6, <1>7, <1>8 DEF Good, Sound, Refused

(***************************************************************************)
(* The transport while the acceptor deals with the first frame.            *)
(***************************************************************************)
Between(c, a) ==
    /\ c \in ConnectionSet
    /\ ~c.fatal /\ Len(c.calls) <= 1
    /\ c.connection /\ c.output /\ c.input
    /\ c.told = << >> /\ c.socket = "none" /\ c.pendingReads = << >>
    /\ Writes(c) /\ Reads(c, a)

(* If it refuses the peer, the peer was sent an ERROR.                     *)
Explains(c) ==
    c.refused /\ IsInfinite(c.allowance) =>
        c.wire # << >> /\ c.wire[Len(c.wire)] = "ERROR"

LEMMA RefuseFacts ==
  ASSUME SizeMax > 0, NEW c, NEW a, Between(c, a)
  PROVE  /\ Between(Refuse(c), a) /\ Explains(Refuse(c))
         /\ Refuse(c).calls = c.calls /\ Refuse(c).registered = c.registered
<1>1. PICK b : b = Output(c, "ERROR")
  OBVIOUS
<1>2. "ERROR" \in Texts
  BY DEF Texts
<1>3. /\ b \in ConnectionSet /\ Elsewhere(c, b) /\ b.fatal = c.fatal /\ Writes(b)
      /\ IsInfinite(b.allowance) => b.wire # << >> /\ b.wire[Len(b.wire)] = "ERROR"
  BY <1>1, <1>2, OutputFacts DEF Between
<1>4. PICK d : d = [b EXCEPT !.refused = TRUE]
  OBVIOUS
<1>5. /\ d \in ConnectionSet /\ d.refused /\ d.fatal = c.fatal
      /\ d.processor = c.processor /\ d.connection = c.connection
      /\ d.output = c.output /\ d.input = c.input
      /\ d.pendingReads = c.pendingReads /\ d.pendingTerminal = c.pendingTerminal
      /\ d.registered = c.registered /\ d.socket = c.socket
      /\ d.handed = c.handed /\ d.told = c.told /\ d.calls = c.calls
      /\ d.allowance = b.allowance /\ d.pendingWrites = b.pendingWrites
      /\ d.wire = b.wire /\ d.outputs = b.outputs /\ d.connection = b.connection
  BY <1>3, <1>4 DEF ConnectionSet, Elsewhere
<1>6. Writes(d) /\ Explains(d)
  BY <1>3, <1>5 DEF Writes, Explains
<1>7. Reads(d, a)
  BY <1>5 DEF Between, Reads
<1> QED BY <1>1, <1>4, <1>5, <1>6, <1>7 DEF Between, Refuse

(***************************************************************************)
(* The acceptor, or the handler in its place, closes the transport.        *)
(***************************************************************************)
LEMMA AcceptorCloses ==
  ASSUME NEW c, NEW a, Between(c, a), Explains(c),
         NEW d \in ConnectionSet, NEW b, ClosedFrom(c, b),
         d = b \/ d = [b EXCEPT !.registered = FALSE, !.calls = d.calls],
         ~d.registered, Len(d.calls) <= 1
  PROVE  Good(d, "none", a)
<1>1. /\ d.processor = "none" /\ ~d.connection
      /\ d.allowance = c.allowance /\ d.pendingWrites = c.pendingWrites
      /\ d.wire = c.wire /\ d.outputs = c.outputs
      /\ d.pendingReads = c.pendingReads
      /\ d.socket = "none"
      /\ d.handed = c.handed /\ d.told = << >>
      /\ d.refused = c.refused /\ ~d.fatal
  <2>1. CASE d = b
    BY <2>1 DEF ClosedFrom, Between
  <2>2. CASE d = [b EXCEPT !.registered = FALSE, !.calls = d.calls]
    BY <2>2 DEF ClosedFrom, Between, ConnectionSet
  <2> QED BY <2>1, <2>2
<1>2. Reads(d, a)
  BY <1>1 DEF Between, Reads
<1>3. Writes(d)
  BY <1>1 DEF Between, Writes
<1>4. Refused(d)
  BY <1>1 DEF Explains, Refused
<1>5. Owners(d, "none")
  BY <1>1 DEF Owners
<1> QED BY <1>1, <1>2, <1>3, <1>4, <1>5 DEF Good, Sound

LEMMA ClosesAndRemoves ==
  ASSUME NEW c, NEW a, Between(c, a), Explains(c), c.calls = << >>
  PROVE  Good(CloseAndRemoveConnection(c), "none", a)
<1>1. PICK b : b = CloseTransport(c) /\ ClosedFrom(c, b)
  BY CloseFacts DEF Between
<1>2. PICK s \in Seq(CallSet) :
        s = Append(b.calls, "connectionError") /\ Len(s) = 1
  <2>1. PICK w \in Seq(CallSet) : w = b.calls /\ Len(w) = 0
    BY <1>1, ConnectionFacts DEF ClosedFrom
  <2>2. PICK s : s = Append(w, "connectionError")
    OBVIOUS
  <2>3. s \in Seq(CallSet) /\ Len(s) = Len(w) + 1
    <3>1. "connectionError" \in CallSet
      BY DEF CallSet
    <3> QED BY <2>2, <3>1, AppendFacts
  <2>4. s = Append(b.calls, "connectionError") /\ Len(s) = 1
    BY <2>1, <2>2, <2>3
  <2> QED BY <2>3, <2>4, Zenon
<1>3. PICK d : d = CloseAndRemoveConnection(c)
  OBVIOUS
<1>4. d = [b EXCEPT !.registered = FALSE, !.calls = s]
  BY <1>1, <1>2, <1>3 DEF CloseAndRemoveConnection, Unregister, ClosedFrom, ConnectionSet
<1>5. d \in ConnectionSet /\ ~d.registered /\ d.calls = s
  BY <1>1, <1>4 DEF ClosedFrom, ConnectionSet
<1>6. d = [b EXCEPT !.registered = FALSE, !.calls = d.calls]
  BY <1>4, <1>5
<1>7. Len(d.calls) <= 1
  BY <1>2, <1>5
<1> QED BY <1>1, <1>3, <1>5, <1>6, <1>7, AcceptorCloses

LEMMA ClosesRemoved ==
  ASSUME NEW c, NEW a, Between(c, a), Explains(c), ~c.registered
  PROVE  Good(CloseTransport(c), "none", a)
<1>1. PICK b : b = CloseTransport(c) /\ ClosedFrom(c, b)
  BY CloseFacts DEF Between
<1>2. b \in ConnectionSet /\ ~b.registered /\ Len(b.calls) <= 1
  BY <1>1 DEF ClosedFrom, Between
<1> QED BY <1>1, <1>2, AcceptorCloses

(***************************************************************************)
(* A socket is connected to a transport that has no owner.                 *)
(***************************************************************************)
LEMMA ConnectKeeps ==
  ASSUME Proper, NEW c \in ConnectionSet, NEW a \in Seq(FrameSet),
         ~c.fatal, Len(c.calls) <= 1, c.connection, c.output, c.input,
         ~c.registered, ~c.refused, c.told = << >>, Writes(c), Reads(c, a)
  PROVE  Good(SocketConnect(c), "none", a)
<1>1. PICK h \in Seq(HandedSet), t \in Seq(TaskSet) :
         /\ Follows(h, c, Len(c.pendingReads))
         /\ SocketConnect(c) =
                  IF c.pendingTerminal
                  THEN Adopted(c, h, t, "none", Append(c.told, "socket"))
                  ELSE Adopted(c, h, t, "socket", c.told)
  BY ConnectFacts
<1>2. PICK p \in {"none", "socket"}, s \in Seq(Processors) :
         /\ SocketConnect(c) = Adopted(c, h, t, p, s)
         /\ p = "socket" => s = << >>
         /\ s = << >> \/ Len(s) = 1
  <2>1. CASE c.pendingTerminal
    <3>1. PICK w \in Seq(Processors) : w = c.told /\ Len(w) = 0
      BY ConnectionFacts
    <3>2. "socket" \in Processors
      BY DEF Processors
    <3>3. PICK s : s = Append(w, "socket")
      OBVIOUS
    <3>4. s \in Seq(Processors) /\ Len(s) = Len(w) + 1
      BY <3>2, <3>3, AppendFacts
    <3>5. SocketConnect(c) = Adopted(c, h, t, "none", s) /\ Len(s) = 1
      BY <1>1, <2>1, <3>1, <3>3, <3>4
    <3>6. "none" \in {"none", "socket"} /\ "none" # "socket"
      OBVIOUS
    <3> QED BY <3>4, <3>5, <3>6, Zenon
  <2>2. CASE ~c.pendingTerminal
    <3>1. c.told \in Seq(Processors)
      BY ConnectionFacts
    <3>2. SocketConnect(c) = Adopted(c, h, t, "socket", c.told)
      BY <1>1, <2>2
    <3>3. "socket" \in {"none", "socket"}
      OBVIOUS
    <3> QED BY <3>1, <3>2, <3>3, Zenon
  <2> QED BY <2>1, <2>2, ConnectionFacts
<1>3. PICK d : d = Adopted(c, h, t, p, s)
  OBVIOUS
<1>4. /\ d \in ConnectionSet /\ d.processor = p /\ d.socket = "on" /\ d.told = s
      /\ d.pendingReads = << >> /\ d.handed = h
      /\ d.fatal = c.fatal /\ d.calls = c.calls /\ d.connection /\ d.output /\ d.input
      /\ ~d.registered /\ ~d.refused
      /\ d.allowance = c.allowance /\ d.pendingWrites = c.pendingWrites
      /\ d.wire = c.wire /\ d.outputs = c.outputs
  <2>1. << >> \in Seq(FrameSet) /\ p \in Processors
    BY DEF Processors
  <2> QED BY <1>3, <2>1 DEF Adopted, ConnectionSet
<1>5. Writes(d)
  BY <1>4 DEF Writes
<1>6. Reads(d, a)
  <2>1. PICK k \in Nat : k = Len(c.handed)
    <3>1. c.handed \in Seq(HandedSet)
      BY ConnectionFacts
    <3> QED BY <3>1
  <2>2. PICK l \in Nat : l = Len(c.pendingReads)
    BY ConnectionFacts
  <2>3. /\ Len(h) = k + l
        /\ \A i \in 1..k : h[i] = c.handed[i]
        /\ \A i \in 1..l : h[k + i] = HandedTo(c.pendingReads[i])
    BY <1>1, <2>1, <2>2 DEF Follows
  <2>4. /\ Len(a) = k + l
        /\ \A i \in 1..k : c.handed[i].frame = a[i]
        /\ \A i \in 1..l : c.pendingReads[i] = a[k + i]
        /\ \A i \in 2..k : c.handed[i].to = "socket"
    BY <2>1, <2>2 DEF Reads
  <2>5. \A i \in 1..k + l : h[i].frame = a[i] /\ (i >= 2 => h[i].to = "socket")
    <3> TAKE i \in 1..k + l
    <3>1. CASE i <= k
      <4>1. i \in 1..k /\ (i >= 2 => i \in 2..k)
        BY <3>1
      <4> QED BY <2>3, <2>4, <4>1
    <3>2. CASE ~(i <= k)
      <4>1. i - k \in 1..l /\ k + (i - k) = i
        BY <3>2
      <4>2. h[k + (i - k)] = HandedTo(c.pendingReads[i - k])
        BY <2>3, <4>1
      <4>3. c.pendingReads[i - k] = a[k + (i - k)]
        BY <2>4, <4>1
      <4> QED BY <4>1, <4>2, <4>3 DEF HandedTo
    <3> QED BY <3>1, <3>2
  <2>6. Len(d.pendingReads) = 0
    BY <1>4
  <2>7. PICK m \in Nat : m = k + l
    OBVIOUS
  <2>8. /\ Len(d.handed) = m /\ Len(a) = m + Len(d.pendingReads)
        /\ \A i \in 1..m : d.handed[i].frame = a[i]
        /\ \A i \in 2..m : d.handed[i].to = "socket"
    BY <1>4, <2>3, <2>4, <2>5, <2>6, <2>7
  <2>9. \A i \in 1..Len(d.pendingReads) : FALSE
    BY <2>6
  <2> QED BY <2>8, <2>9 DEF Reads
<1>7. Owners(d, "none")
  BY <1>2, <1>4 DEF Owners
<1> QED BY <1>2, <1>3, <1>4, <1>5, <1>6, <1>7 DEF Good, Sound, Refused

-----------------------------------------------------------------------------
(* Frames that arrive                                                      *)

LEMMA ReadsAppend ==
  ASSUME NEW c \in ConnectionSet, NEW a \in Seq(FrameSet), Reads(c, a),
         NEW f \in FrameSet, NEW d, d.handed = c.handed,
         d.pendingReads = Append(c.pendingReads, f)
  PROVE  Reads(d, Append(a, f))
<1>1. PICK k \in Nat : k = Len(c.handed)
  <2>1. c.handed \in Seq(HandedSet)
    BY ConnectionFacts
  <2> QED BY <2>1
<1>2. PICK p \in Seq(FrameSet) : p = c.pendingReads
  BY ConnectionFacts
<1>3. PICK l \in Nat : l = Len(p)
  OBVIOUS
<1>4. PICK a1 : a1 = Append(a, f)
  OBVIOUS
<1>5. PICK p1 : p1 = Append(p, f)
  OBVIOUS
<1>6. /\ Len(a) = k + l
      /\ \A i \in 1..k : c.handed[i].frame = a[i]
      /\ \A i \in 1..l : p[i] = a[k + i]
      /\ \A i \in 2..k : c.handed[i].to = "socket"
  BY <1>1, <1>2, <1>3 DEF Reads
<1>7. /\ Len(a1) = (k + l) + 1 /\ a1[(k + l) + 1] = f
      /\ \A i \in 1..k + l : a1[i] = a[i]
  BY <1>4, <1>6, AppendFacts
<1>8. /\ Len(p1) = l + 1 /\ p1[l + 1] = f
      /\ \A i \in 1..l : p1[i] = p[i]
  BY <1>3, <1>5, AppendFacts
<1>9. \A i \in 1..k : c.handed[i].frame = a1[i]
  BY <1>6, <1>7
<1>10. \A i \in 1..l + 1 : p1[i] = a1[k + i]
  <2> TAKE i \in 1..l + 1
  <2>1. CASE i = l + 1
    <3>1. k + i = (k + l) + 1
      BY <2>1
    <3> QED BY <1>7, <1>8, <2>1, <3>1
  <2>2. CASE i # l + 1
    <3>1. i \in 1..l /\ k + i \in 1..k + l
      BY <2>2
    <3> QED BY <1>6, <1>7, <1>8, <3>1
  <2> QED BY <2>1, <2>2
<1>11. (k + l) + 1 = k + (l + 1)
  OBVIOUS
<1>12. d.handed = c.handed /\ d.pendingReads = p1
  BY <1>2, <1>5
<1> QED BY <1>1, <1>4, <1>6, <1>7, <1>8, <1>9, <1>10, <1>11, <1>12 DEF Reads

(***************************************************************************)
(* A frame is handed over at once: nothing waits, and it is the first one  *)
(* or goes to the socket.                                                  *)
(***************************************************************************)
LEMMA ReadsHand ==
  ASSUME NEW c \in ConnectionSet, NEW a \in Seq(FrameSet), Reads(c, a),
         c.pendingReads = << >>, NEW f \in FrameSet, NEW e \in HandedSet, e.frame = f,
         c.handed = << >> \/ e.to = "socket",
         NEW d, d.handed = Append(c.handed, e), d.pendingReads = << >>
  PROVE  Reads(d, Append(a, f))
<1>1. PICK h \in Seq(HandedSet) : h = c.handed
  BY ConnectionFacts
<1>2. PICK k \in Nat : k = Len(h)
  OBVIOUS
<1>3. PICK a1 : a1 = Append(a, f)
  OBVIOUS
<1>4. PICK h1 : h1 = Append(h, e)
  OBVIOUS
<1>5. /\ Len(a) = k
      /\ \A i \in 1..k : h[i].frame = a[i]
      /\ \A i \in 2..k : h[i].to = "socket"
  <2>1. Len(c.pendingReads) = 0
    OBVIOUS
  <2> QED BY <1>1, <1>2, <2>1 DEF Reads
<1>6. /\ Len(a1) = k + 1 /\ a1[k + 1] = f
      /\ \A i \in 1..k : a1[i] = a[i]
  BY <1>3, <1>5, AppendFacts
<1>7. /\ Len(h1) = k + 1 /\ h1[k + 1] = e
      /\ \A i \in 1..k : h1[i] = h[i]
  BY <1>2, <1>4, AppendFacts
<1>8. k = 0 \/ e.to = "socket"
  BY <1>1, <1>2
<1>9. \A i \in 1..k + 1 : h1[i].frame = a1[i] /\ (i >= 2 => h1[i].to = "socket")
  <2> TAKE i \in 1..k + 1
  <2>1. CASE i = k + 1
    BY <1>6, <1>7, <1>8, <2>1
  <2>2. CASE i # k + 1
    <3>1. i \in 1..k /\ (i >= 2 => i \in 2..k)
      BY <2>2
    <3> QED BY <1>5, <1>6, <1>7, <3>1
  <2> QED BY <2>1, <2>2
<1>10. Len(d.pendingReads) = 0 /\ d.handed = h1
  BY <1>1, <1>4
<1>11. \A i \in 1..Len(d.pendingReads) : FALSE
  BY <1>10
<1>12. PICK m \in Nat : m = k + 1
  OBVIOUS
<1>13. /\ Len(d.handed) = m /\ Len(a1) = m + Len(d.pendingReads)
       /\ \A i \in 1..m : d.handed[i].frame = a1[i]
       /\ \A i \in 2..m : d.handed[i].to = "socket"
  BY <1>6, <1>7, <1>9, <1>10, <1>12
<1> QED BY <1>3, <1>11, <1>13 DEF Reads

LEMMA QueuedKeeps ==
  ASSUME NEW c, NEW e, NEW a \in Seq(FrameSet), Good(c, e, a), c # NewConnection,
         c.processor = "none", NEW f \in FrameSet
  PROVE  Good([c EXCEPT !.pendingReads = Append(@, f)], e, Append(a, f))
<1>1. c \in ConnectionSet
  BY DEF Good
<1>2. PICK p \in Seq(FrameSet) : p = Append(c.pendingReads, f)
  BY <1>1, ConnectionFacts, AppendFacts
<1>3. PICK d : d = [c EXCEPT !.pendingReads = p]
  OBVIOUS
<1>4. /\ d \in ConnectionSet /\ d.pendingReads = p
      /\ d.processor = c.processor /\ d.connection = c.connection
      /\ d.output = c.output /\ d.input = c.input
      /\ d.allowance = c.allowance /\ d.pendingWrites = c.pendingWrites
      /\ d.wire = c.wire /\ d.outputs = c.outputs
      /\ d.registered = c.registered /\ d.socket = c.socket
      /\ d.handed = c.handed /\ d.told = c.told /\ d.calls = c.calls
      /\ d.refused = c.refused /\ d.fatal = c.fatal
  BY <1>1, <1>3 DEF ConnectionSet
<1>5. Reads(d, Append(a, f))
  BY <1>1, <1>2, <1>4, ReadsAppend DEF Good
<1>6. Writes(d) /\ Refused(d)
  BY <1>4 DEF Good, Sound, Writes, Refused
<1>7. Owners(d, e)
  BY <1>4 DEF Good, Sound, Owners
<1> QED BY <1>2, <1>3, <1>4, <1>5, <1>6, <1>7 DEF Good, Sound

LEMMA SocketGetsFrame ==
  ASSUME ~InlineExecutor, NEW c, NEW e, NEW a \in Seq(FrameSet), Good(c, e, a),
         c # NewConnection, c.processor = "socket", NEW f \in FrameSet
  PROVE  Good(HandToSocket(c, f), e, Append(a, f))
<1>1. c \in ConnectionSet /\ c.pendingReads = << >>
  BY DEF Good, Sound, Owners
<1>2. PICK g \in HandedSet : g = HandedTo(f)
  BY DEF HandedSet, HandedTo, Processors
<1>3. PICK h \in Seq(HandedSet) : h = Append(c.handed, g)
  BY <1>1, ConnectionFacts, AppendFacts
<1>4. PICK t \in Seq(TaskSet) : t = Append(c.tasks, f)
  <2>1. f \in TaskSet
    BY DEF TaskSet
  <2> QED BY <1>1, <2>1, ConnectionFacts, AppendFacts
<1>5. PICK d : d = HavingRead(c, h, t)
  OBVIOUS
<1>6. HandToSocket(c, f) = d
  <2>1. HavingRead(c, c.handed, c.tasks) = c
    BY <1>1 DEF HavingRead, ConnectionSet
  <2>2. c.handed \in Seq(HandedSet) /\ c.tasks \in Seq(TaskSet)
    BY <1>1, ConnectionFacts
  <2>3. HandToSocket(HavingRead(c, c.handed, c.tasks), f) = HavingRead(c, h, t)
    BY <1>1, <1>2, <1>3, <1>4, <2>2, HandOne
  <2> QED BY <1>5, <2>1, <2>3
<1>7. /\ d \in ConnectionSet /\ d.pendingReads = << >>
      /\ d.processor = c.processor /\ d.connection = c.connection
      /\ d.output = c.output /\ d.input = c.input
      /\ d.allowance = c.allowance /\ d.pendingWrites = c.pendingWrites
      /\ d.wire = c.wire /\ d.outputs = c.outputs
      /\ d.registered = c.registered /\ d.socket = c.socket
      /\ d.handed = h /\ d.told = c.told /\ d.calls = c.calls
      /\ d.refused = c.refused /\ d.fatal = c.fatal
  <2>1. << >> \in Seq(FrameSet)
    OBVIOUS
  <2> QED BY <1>1, <1>5, <2>1 DEF HavingRead, ConnectionSet
<1>8. Reads(d, Append(a, f))
  <2>1. g.frame = f /\ g.to = "socket"
    BY <1>2 DEF HandedTo
  <2>2. Reads(c, a)
    BY DEF Good
  <2> QED BY <1>1, <1>3, <1>7, <2>1, <2>2, ReadsHand
<1>9. Writes(d) /\ Refused(d)
  BY <1>7 DEF Good, Sound, Writes, Refused
<1>10. Owners(d, e)
  <2>1. "acceptor" \notin {c.processor, e}
    BY DEF Good, Sound, Owners
  <2> QED BY <1>7, <2>1 DEF Good, Sound, Owners
<1> QED BY <1>6, <1>7, <1>8, <1>9, <1>10 DEF Good, Sound

(***************************************************************************)
(* Whatever the handler does with the transport it is given.               *)
(***************************************************************************)
LEMMA HandlerKeeps ==
  ASSUME Proper, NEW c, NEW a \in Seq(FrameSet), Between(c, a), c.calls = << >>,
         ~c.refused, ~c.registered, c.processor = "none",
         NEW call \in {"setup", "resume"}, NEW choice \in {"connect", "later", "refuse"}
  PROVE  Good(Handler(c, call, choice), "none", a)
<1>1. PICK s \in Seq(CallSet) : s = Append(c.calls, call) /\ Len(s) = 1
  <2>1. PICK w \in Seq(CallSet) : w = c.calls /\ Len(w) = 0
    BY ConnectionFacts DEF Between
  <2>2. call \in CallSet
    BY DEF CallSet
  <2>3. PICK s : s = Append(w, call)
    OBVIOUS
  <2>4. s \in Seq(CallSet) /\ Len(s) = Len(w) + 1
    BY <2>2, <2>3, AppendFacts
  <2>5. s = Append(c.calls, call) /\ Len(s) = 1
    BY <2>1, <2>3, <2>4
  <2> QED BY <2>4, <2>5, Zenon
<1>2. PICK d : d = [c EXCEPT !.calls = s]
  OBVIOUS
<1>3. /\ d \in ConnectionSet /\ d.calls = s
      /\ d.processor = "none" /\ d.connection /\ d.output /\ d.input
      /\ d.allowance = c.allowance /\ d.pendingWrites = c.pendingWrites
      /\ d.wire = c.wire /\ d.outputs = c.outputs
      /\ d.pendingReads = << >> /\ ~d.registered /\ d.socket = "none"
      /\ d.handed = c.handed /\ d.told = << >>
      /\ ~d.refused /\ ~d.fatal
  BY <1>2 DEF Between, ConnectionSet
<1>4. Writes(d)
  BY <1>3 DEF Between, Writes
<1>5. Reads(d, a)
  BY <1>3 DEF Between, Reads
<1>6. Between(d, a) /\ Explains(d)
  BY <1>1, <1>3, <1>4, <1>5 DEF Between, Explains
<1>7. CASE choice = "connect"
  <2>1. Handler(c, call, choice) = SocketConnect(d)
    BY <1>1, <1>2, <1>7 DEF Handler
  <2>2. Len(d.calls) <= 1
    BY <1>1, <1>3
  <2> QED BY <1>3, <1>4, <1>5, <2>1, <2>2, ConnectKeeps
<1>8. CASE choice = "later"
  <2>1. PICK g : g = [d EXCEPT !.socket = "later"]
    OBVIOUS
  <2>2. Handler(c, call, choice) = g
    BY <1>1, <1>2, <1>8, <2>1 DEF Handler
  <2>3. /\ g \in ConnectionSet /\ g.calls = s
        /\ g.processor = "none" /\ g.connection /\ g.output /\ g.input
        /\ g.allowance = d.allowance /\ g.pendingWrites = d.pendingWrites
        /\ g.wire = d.wire /\ g.outputs = d.outputs
        /\ g.pendingReads = d.pendingReads /\ ~g.registered /\ g.socket = "later"
        /\ g.handed = d.handed /\ g.told = << >>
        /\ ~g.refused /\ ~g.fatal
    BY <1>3, <2>1 DEF ConnectionSet
  <2>4. Writes(g)
    BY <1>3, <1>4, <2>3 DEF Writes
  <2>5. Reads(g, a)
    BY <1>5, <2>3 DEF Reads
  <2>6. Owners(g, "none")
    BY <2>3 DEF Owners
  <2>7. Refused(g) /\ Len(g.calls) <= 1
    BY <1>1, <2>3 DEF Refused
  <2> QED BY <2>2, <2>3, <2>4, <2>5, <2>6, <2>7 DEF Good, Sound
<1>9. CASE choice = "refuse" /\ call = "setup"
  <2>1. Handler(c, call, choice) = CloseTransport(d)
    BY <1>1, <1>2, <1>9 DEF Handler
  <2> QED BY <1>3, <1>6, <2>1, ClosesRemoved
<1>10. CASE choice = "refuse" /\ call = "resume"
  <2>1. Handler(c, call, choice) = CloseTransport(Refuse(d))
    BY <1>1, <1>2, <1>10 DEF Handler
  <2>2. Between(Refuse(d), a) /\ Explains(Refuse(d)) /\ ~Refuse(d).registered
    BY <1>3, <1>6, RefuseFacts DEF Proper
  <2> QED BY <2>1, <2>2, ClosesRemoved
<1> QED BY <1>7, <1>8, <1>9, <1>10

LEMMA AcceptorGetsFrame ==
  ASSUME Proper, NEW c, NEW e, NEW a \in Seq(FrameSet), Good(c, e, a),
         c # NewConnection, c.processor = "acceptor", NEW f \in FrameSet
  PROVE  Good(AcceptorFrame(Handed(c, f), f), e, Append(a, f))
<1>1. /\ c \in ConnectionSet /\ c.connection /\ c.output /\ c.input
      /\ e = "none" /\ c.told = << >> /\ c.pendingReads = << >>
      /\ c.socket = "none" /\ c.handed = << >> /\ c.calls = << >>
      /\ ~c.refused /\ ~c.fatal /\ Writes(c) /\ Reads(c, a)
  BY DEF Good, Sound, Owners, Refused
<1>2. PICK b \in Seq(FrameSet) : b = Append(a, f)
  BY AppendFacts
<1>3. PICK g \in HandedSet : g = [to |-> "acceptor", frame |-> f]
  BY DEF HandedSet, Processors
<1>4. PICK h \in Seq(HandedSet) : h = Append(c.handed, g)
  BY <1>1, ConnectionFacts, AppendFacts
<1>5. PICK d : d = [c EXCEPT !.handed = h]
  OBVIOUS
<1>6. d = Handed(c, f)
  BY <1>3, <1>4, <1>5 DEF Handed
<1>7. /\ d \in ConnectionSet /\ d.connection /\ d.output /\ d.input
      /\ d.told = << >> /\ d.pendingReads = << >>
      /\ d.socket = "none" /\ d.handed = h /\ d.calls = << >>
      /\ d.allowance = c.allowance /\ d.pendingWrites = c.pendingWrites
      /\ d.wire = c.wire /\ d.outputs = c.outputs
      /\ ~d.refused /\ ~d.fatal
  BY <1>1, <1>5 DEF ConnectionSet
<1>8. Writes(d)
  BY <1>1, <1>7 DEF Writes
<1>9. Reads(d, b)
  <2>1. g.frame = f
    BY <1>3
  <2> QED BY <1>1, <1>2, <1>4, <1>7, <2>1, ReadsHand
<1>10. Between(d, b) /\ Explains(d)
  <2>1. Len(d.calls) <= 1
    BY <1>7
  <2> QED BY <1>7, <1>8, <1>9, <2>1 DEF Between, Explains
<1>11. PICK r : r = RemoveConnection(d)
  OBVIOUS
<1>12. /\ Between(r, b) /\ Explains(r) /\ r.calls = << >> /\ ~r.refused
       /\ ~r.registered /\ r.processor = "none"
  <2>1. r = [d EXCEPT !.processor = "none", !.registered = FALSE]
    <3>1. Drains(d)
      BY <1>8 DEF Writes, Drains
    <3> QED BY <1>7, <1>11, <3>1, RemoveFacts DEF Proper
  <2>2. /\ r \in ConnectionSet /\ r.connection /\ r.output /\ r.input
        /\ r.told = << >> /\ r.pendingReads = << >>
        /\ r.socket = "none" /\ r.handed = d.handed /\ r.calls = << >>
        /\ r.allowance = d.allowance /\ r.pendingWrites = d.pendingWrites
        /\ r.wire = d.wire /\ r.outputs = d.outputs
        /\ ~r.refused /\ ~r.fatal /\ ~r.registered /\ r.processor = "none"
    BY <1>7, <2>1 DEF ConnectionSet, Processors
  <2>3. Writes(r)
    BY <1>7, <1>8, <2>2 DEF Writes
  <2>4. Reads(r, b)
    BY <1>7, <1>9, <2>2 DEF Reads
  <2>5. Len(r.calls) <= 1
    BY <2>2
  <2> QED BY <2>2, <2>3, <2>4, <2>5 DEF Between, Explains
<1>13. f.handler \in {"connect", "later", "refuse"} /\ f.kind # "RESUME_INVALID"
  BY AcceptorAssumption DEF FrameSet, Kinds, Proper
<1>14. PICK kind : kind = f.kind
  OBVIOUS
<1>15. CASE kind = "UNKNOWN"
  <2>1. AcceptorFrame(d, f) = CloseAndRemoveConnection(d)
    BY <1>14, <1>15 DEF AcceptorFrame
  <2> QED BY <1>1, <1>2, <1>6, <1>7, <1>10, <2>1, ClosesAndRemoves
<1>16. CASE kind = "SETUP"
  <2>1. AcceptorFrame(d, f) = Handler(r, "setup", f.handler)
    BY <1>11, <1>14, <1>16 DEF AcceptorFrame
  <2> QED BY <1>1, <1>2, <1>6, <1>12, <1>13, <2>1, HandlerKeeps
<1>17. CASE kind = "RESUME"
  <2>1. AcceptorFrame(d, f) = Handler(r, "resume", f.handler)
    BY <1>11, <1>14, <1>17 DEF AcceptorFrame
  <2> QED BY <1>1, <1>2, <1>6, <1>12, <1>13, <2>1, HandlerKeeps
<1>18. CASE kind = "SETUP_VERSION"
  <2>1. AcceptorFrame(d, f) = CloseTransport(Refuse(r))
    BY <1>11, <1>14, <1>18 DEF AcceptorFrame
  <2>2. Between(Refuse(r), b) /\ Explains(Refuse(r)) /\ ~Refuse(r).registered
    BY <1>12, RefuseFacts DEF Proper
  <2> QED BY <1>1, <1>2, <1>6, <2>1, <2>2, ClosesRemoved
<1>19. CASE kind \notin {"UNKNOWN", "SETUP", "RESUME", "SETUP_VERSION"}
  <2>1. AcceptorFrame(d, f) = CloseAndRemoveConnection(Refuse(d))
    BY <1>13, <1>14, <1>19 DEF AcceptorFrame
  <2>2. Between(Refuse(d), b) /\ Explains(Refuse(d)) /\ Refuse(d).calls = << >>
    BY <1>7, <1>10, RefuseFacts DEF Proper
  <2> QED BY <1>1, <1>2, <1>6, <2>1, <2>2, ClosesAndRemoves
<1> QED BY <1>15, <1>16, <1>17, <1>18, <1>19

-----------------------------------------------------------------------------
(* The end of the connection, and what the socket does                     *)

(***************************************************************************)
(* The processor that was taken out is told; it is told once.              *)
(***************************************************************************)
LEMMA TellKeeps ==
  ASSUME Proper, NEW c, NEW e \in {"acceptor", "socket"}, NEW a, Good(c, e, a)
  PROVE  Good(OnTerminal(c, e), "none", a)
<1>1. c \in ConnectionSet /\ c.told = << >> /\ c.processor = "none" /\ ~c.fatal
  BY DEF Good, Sound, Owners
<1>2. PICK s \in Seq(Processors) : s = Append(c.told, e) /\ Len(s) = 1
  <2>1. PICK w \in Seq(Processors) : w = c.told /\ Len(w) = 0
    BY <1>1, ConnectionFacts
  <2>2. e \in Processors
    BY DEF Processors
  <2>3. PICK s : s = Append(w, e)
    OBVIOUS
  <2>4. s \in Seq(Processors) /\ Len(s) = Len(w) + 1
    BY <2>2, <2>3, AppendFacts
  <2>5. s = Append(c.told, e) /\ Len(s) = 1
    BY <2>1, <2>3, <2>4
  <2> QED BY <2>4, <2>5, Zenon
<1>3. PICK b : b = [c EXCEPT !.told = s]
  OBVIOUS
<1>4. /\ b \in ConnectionSet /\ b.told = s
      /\ b.processor = "none" /\ b.connection = c.connection
      /\ b.output = c.output /\ b.input = c.input
      /\ b.allowance = c.allowance /\ b.pendingWrites = c.pendingWrites
      /\ b.wire = c.wire /\ b.outputs = c.outputs
      /\ b.pendingReads = c.pendingReads
      /\ b.registered = c.registered /\ b.socket = c.socket /\ b.tasks = c.tasks
      /\ b.handed = c.handed /\ b.calls = c.calls
      /\ b.refused = c.refused /\ ~b.fatal
  BY <1>1, <1>3 DEF ConnectionSet
<1>5. CASE e = "acceptor"
  <2>1. c.calls = << >> /\ c.socket = "none" /\ c.connection
    BY <1>5 DEF Good, Sound, Owners
  <2>2. PICK g : g = CloseTransport(b) /\ ClosedFrom(b, g)
    BY <1>4, CloseFacts
  <2>3. PICK k \in Seq(CallSet) : k = Append(g.calls, "connectionError") /\ Len(k) = 1
    <3>1. PICK w \in Seq(CallSet) : w = g.calls /\ Len(w) = 0
      BY <1>4, <2>1, <2>2, ConnectionFacts DEF ClosedFrom
    <3>2. "connectionError" \in CallSet
      BY DEF CallSet
    <3>3. PICK k : k = Append(w, "connectionError")
      OBVIOUS
    <3>4. k \in Seq(CallSet) /\ Len(k) = Len(w) + 1
      BY <3>2, <3>3, AppendFacts
    <3>5. k = Append(g.calls, "connectionError") /\ Len(k) = 1
      BY <3>1, <3>3, <3>4
    <3> QED BY <3>4, <3>5, Zenon
  <2>4. PICK d : d = [g EXCEPT !.registered = FALSE, !.calls = k]
    OBVIOUS
  <2>5. OnTerminal(c, e) = d
    <3>1. OnTerminal(c, e) = CloseAndRemoveConnection(b)
      BY <1>2, <1>3, <1>5 DEF OnTerminal
    <3> QED BY <2>2, <2>3, <2>4, <3>1
            DEF CloseAndRemoveConnection, Unregister, ClosedFrom, ConnectionSet
  <2>6. /\ d \in ConnectionSet /\ d.told = s /\ ~d.registered /\ d.calls = k
        /\ d.processor = "none" /\ ~d.connection
        /\ d.allowance = c.allowance /\ d.pendingWrites = c.pendingWrites
        /\ d.wire = c.wire /\ d.outputs = c.outputs
        /\ d.pendingReads = c.pendingReads
        /\ d.socket = "none" /\ d.handed = c.handed
        /\ d.refused = c.refused /\ ~d.fatal
    <3>1. /\ g \in ConnectionSet /\ g.told = s
          /\ g.processor = "none" /\ ~g.connection
          /\ g.allowance = c.allowance /\ g.pendingWrites = c.pendingWrites
          /\ g.wire = c.wire /\ g.outputs = c.outputs
          /\ g.pendingReads = c.pendingReads
          /\ g.socket = "none" /\ g.handed = c.handed
          /\ g.refused = c.refused /\ ~g.fatal
      BY <1>4, <2>1, <2>2 DEF ClosedFrom
    <3>2. d \in ConnectionSet
      BY <2>4, <3>1 DEF ConnectionSet
    <3> QED BY <2>4, <3>1, <3>2 DEF ConnectionSet
  <2>7. Writes(d)
    BY <2>6 DEF Good, Sound, Writes
  <2>8. Reads(d, a)
    BY <2>6 DEF Good, Reads
  <2>9. Refused(d)
    BY <2>1, <2>6 DEF Good, Sound, Refused
  <2>10. Owners(d, "none") /\ Len(d.calls) <= 1
    BY <1>2, <2>3, <2>6 DEF Owners
  <2> QED BY <2>5, <2>6, <2>7, <2>8, <2>9, <2>10 DEF Good, Sound
<1>6. CASE e = "socket"
  <2>1. PICK k : k = FrameOf("terminal", "none")
    OBVIOUS
  <2>2. PICK t \in Seq(TaskSet) : t = Append(b.tasks, k)
    <3>1. k \in TaskSet
      BY <2>1 DEF TaskSet
    <3> QED BY <1>4, <3>1, ConnectionFacts, AppendFacts
  <2>3. PICK d : d = [b EXCEPT !.tasks = t]
    OBVIOUS
  <2>4. OnTerminal(c, e) = d
    BY <1>2, <1>3, <1>6, <2>1, <2>2, <2>3
       DEF OnTerminal, InSocketExecutor, FrameOf, Proper
  <2>5. /\ d \in ConnectionSet /\ d.told = s
        /\ d.processor = "none" /\ d.connection = c.connection
        /\ d.output = c.output /\ d.input = c.input
        /\ d.allowance = c.allowance /\ d.pendingWrites = c.pendingWrites
        /\ d.wire = c.wire /\ d.outputs = c.outputs
        /\ d.pendingReads = c.pendingReads
        /\ d.registered = c.registered /\ d.socket = c.socket
        /\ d.handed = c.handed /\ d.calls = c.calls
        /\ d.refused = c.refused /\ ~d.fatal
    BY <1>4, <2>3 DEF ConnectionSet
  <2>6. Writes(d) /\ Refused(d)
    BY <2>5 DEF Good, Sound, Writes, Refused
  <2>7. Reads(d, a)
    BY <2>5 DEF Good, Reads
  <2>8. Owners(d, "none")
    <3>1. ~c.registered /\ c.socket \in {"on", "closed"}
      BY <1>1, <1>6 DEF Good, Sound, Owners
    <3> QED BY <1>1, <1>2, <2>5, <3>1 DEF Good, Sound, Owners
  <2>9. c # NewConnection
    <3>1. c.socket # "none"
      BY <1>6 DEF Good, Sound, Owners
    <3> QED BY <3>1, NewFacts
  <2> QED BY <1>1, <2>4, <2>5, <2>6, <2>7, <2>8, <2>9 DEF Good, Sound
<1> QED BY <1>5, <1>6

(***************************************************************************)
(* The socket deals with a frame, or with the end of the connection.       *)
(***************************************************************************)
LEMMA OutputKeeps ==
  ASSUME SizeMax > 0, NEW c, NEW e, NEW a, Good(c, e, a), c.socket = "on", NEW f \in Texts
  PROVE  Good(Output(c, f), e, a) /\ Output(c, f).socket = "on"
<1>1. c \in ConnectionSet /\ Writes(c) /\ c.output /\ ~c.refused
  BY DEF Good, Sound, Owners, Refused
<1>2. PICK d : d = Output(c, f)
  OBVIOUS
<1>3. d \in ConnectionSet /\ Elsewhere(c, d) /\ d.fatal = c.fatal /\ Writes(d)
  BY <1>1, <1>2, OutputFacts
<1>4. c # NewConnection
  BY NewFacts
<1>5. Good(d, e, a)
  BY <1>1, <1>3, <1>4, WritingKeeps
<1> QED BY <1>2, <1>3, <1>5 DEF Elsewhere

LEMMA TaskKeeps ==
  ASSUME Proper, NEW c, NEW e \in Processors, NEW a, Good(c, e, a), NEW f
  PROVE  Good(SocketTerminal(c), e, a) /\ Good(SocketFrame(c, f), e, a)
<1>1. CASE c.socket # "on"
  BY <1>1 DEF SocketTerminal, SocketFrame
<1>2. CASE c.socket = "on"
  <2>1. "ERROR" \in Texts /\ "ANSWER" \in Texts
    BY DEF Texts
  <2>2. Good(SocketTerminal(c), e, a)
    BY <1>2, SocketClosesKeeps DEF SocketTerminal, SocketCloses
  <2>3. CASE f.kind = "REQUEST"
    <3>1. SocketFrame(c, f) = Output(c, "ANSWER")
      BY <1>2, <2>3 DEF SocketFrame
    <3> QED BY <1>2, <2>1, <2>2, <3>1, OutputKeeps DEF Proper
  <2>4. CASE f.kind # "REQUEST"
    <3>1. SocketFrame(c, f) = SocketCloses(Output(c, "ERROR"))
      BY <1>2, <2>4 DEF SocketFrame
    <3>2. PICK b : b = Output(c, "ERROR")
      OBVIOUS
    <3>3. Good(b, e, a) /\ b.socket = "on"
      BY <1>2, <2>1, <3>2, OutputKeeps DEF Proper
    <3>4. Good(SocketCloses(b), e, a)
      BY <3>3, SocketClosesKeeps DEF SocketCloses
    <3> QED BY <2>2, <3>1, <3>2, <3>4
  <2> QED BY <2>3, <2>4
<1> QED BY <1>1, <1>2

-----------------------------------------------------------------------------
(* The invariant: one lemma per action                                     *)

LEMMA FreshFacts ==
  ASSUME IInv, x = NewConnection
  PROVE  ending = "none" /\ arrived = << >>
<1>1. ending = "none"
  BY NewFacts DEF IInv, Good, Sound, Owners, Processors
<1>2. Len(x.handed) = 0 /\ Len(x.pendingReads) = 0
  BY NewFacts
<1>3. Len(arrived) = 0
  BY <1>2 DEF IInv, Good, Reads
<1>4. arrived = << >>
  BY <1>3 DEF IInv
<1> QED BY <1>1, <1>4

LEMMA NothingWritten ==
  ASSUME NEW c, c.wire = << >>, c.pendingWrites = << >>, c.outputs = << >>
  PROVE  Writes(c)
<1>1. Len(c.wire) = 0 /\ Len(c.pendingWrites) = 0 /\ Len(c.outputs) = 0
  OBVIOUS
<1>2. (\A i \in 1..Len(c.wire) : FALSE) /\ (\A i \in 1..Len(c.pendingWrites) : FALSE)
  BY <1>1
<1> QED BY <1>1, <1>2 DEF Writes, Joined

LEMMA NothingRead ==
  ASSUME NEW c, c.handed = << >>, c.pendingReads = << >>
  PROVE  Reads(c, << >>)
<1>1. Len(c.handed) = 0 /\ Len(c.pendingReads) = 0 /\ Len(<< >>) = 0
  OBVIOUS
<1>2. /\ \A i \in 1..Len(c.handed) : FALSE
      /\ \A i \in 2..Len(c.handed) : FALSE
      /\ \A i \in 1..Len(c.pendingReads) : FALSE
  BY <1>1
<1> QED BY <1>1, <1>2 DEF Reads

LEMMA OpenedGood ==
  ASSUME NEW c, NEW d, NEW p, Opened(c, d, p), c.handed = << >>, c.told = << >>,
         c.calls = << >>, ~c.refused, ~c.fatal,
         \/ p = "acceptor" /\ c.registered /\ c.socket = "none"
         \/ p = "socket" /\ ~c.registered /\ c.socket = "on"
  PROVE  Good(d, "none", << >>)
<1>1. Reads(d, << >>)
  BY NothingRead DEF Opened
<1>2. Owners(d, "none") /\ Refused(d)
  BY DEF Opened, Owners, Refused
<1>3. Len(d.calls) <= 1
  BY DEF Opened
<1> QED BY <1>1, <1>2, <1>3 DEF Opened, Good, Sound

LEMMA AcceptKeeps ==
  ASSUME Proper, IInv, NEW n \in Nat, Accept(n)
  PROVE  IInv'
<1>1. x = NewConnection /\ ending = "none" /\ arrived = << >>
  BY FreshFacts DEF Accept
<1>2. PICK c : c = [NewConnection EXCEPT !.registered = TRUE]
  OBVIOUS
<1>3. /\ c \in ConnectionSet /\ c.connection /\ ~c.output /\ ~c.input
      /\ c.wire = << >> /\ c.pendingWrites = << >> /\ c.outputs = << >>
      /\ c.pendingReads = << >> /\ ~c.pendingTerminal
      /\ c.handed = << >> /\ c.told = << >> /\ c.calls = << >>
      /\ ~c.refused /\ ~c.fatal /\ c.registered /\ c.socket = "none"
  BY <1>2, NewFacts DEF ConnectionSet
<1>4. Writes(c)
  BY <1>3, NothingWritten
<1>5. Opened(c, SetFrameProcessor(c, "acceptor", n), "acceptor")
  BY <1>3, <1>4, OpenFacts DEF Proper
<1>6. Good(SetFrameProcessor(c, "acceptor", n), "none", << >>)
  BY <1>3, <1>5, OpenedGood
<1>7. /\ x' = SetFrameProcessor(c, "acceptor", n)
      /\ ending' = "none" /\ arrived' = << >>
  BY <1>1, <1>2 DEF Accept
<1> QED BY <1>6, <1>7 DEF IInv, Processors

LEMMA ClientConnectKeeps ==
  ASSUME Proper, IInv, NEW n \in Nat, ClientConnect(n)
  PROVE  IInv'
<1>1. x = NewConnection /\ ending = "none" /\ arrived = << >>
  BY FreshFacts DEF ClientConnect
<1>2. PICK c : c = [NewConnection EXCEPT !.socket = "on"]
  OBVIOUS
<1>3. /\ c \in ConnectionSet /\ c.connection /\ ~c.output /\ ~c.input
      /\ c.wire = << >> /\ c.pendingWrites = << >> /\ c.outputs = << >>
      /\ c.pendingReads = << >> /\ ~c.pendingTerminal
      /\ c.handed = << >> /\ c.told = << >> /\ c.calls = << >>
      /\ ~c.refused /\ ~c.fatal /\ ~c.registered /\ c.socket = "on"
  BY <1>2, NewFacts DEF ConnectionSet
<1>4. Writes(c)
  BY <1>3, NothingWritten
<1>5. Opened(c, SetFrameProcessor(c, "socket", n), "socket")
  BY <1>3, <1>4, OpenFacts DEF Proper
<1>6. Good(SetFrameProcessor(c, "socket", n), "none", << >>)
  BY <1>3, <1>5, OpenedGood
<1>7. /\ x' = SetFrameProcessor(c, "socket", n)
      /\ ending' = "none" /\ arrived' = << >>
  BY <1>1, <1>2 DEF ClientConnect
<1> QED BY <1>6, <1>7 DEF IInv, Processors

LEMMA FrameArrivesKeeps ==
  ASSUME Proper, IInv, NEW f \in MayArrive, FrameArrives(f)
  PROVE  IInv'
<1>1. f \in FrameSet
  <2>1. \A k \in Kinds, h \in HandlerChoices \cup {"refuse"} : FrameOf(k, h) \in FrameSet
    BY DEF FrameOf, FrameSet
  <2> QED BY <2>1 DEF MayArrive, Kinds
<1>2. /\ Good(x, ending, arrived) /\ arrived \in Seq(FrameSet) /\ ending \in Processors
      /\ x # NewConnection
  BY DEF IInv, FrameArrives
<1>3. Good(OnNext(x, f), ending, Append(arrived, f))
  <2>1. CASE x.connection /\ x.processor = "acceptor"
    <3>1. OnNext(x, f) = AcceptorFrame(Handed(x, f), f)
      BY <2>1 DEF OnNext, ProcessFrame
    <3> QED BY <1>1, <1>2, <2>1, <3>1, AcceptorGetsFrame
  <2>2. CASE x.connection /\ x.processor = "socket"
    <3>1. OnNext(x, f) = HandToSocket(x, f)
      BY <2>2 DEF OnNext, ProcessFrame
    <3> QED BY <1>1, <1>2, <2>2, <3>1, SocketGetsFrame DEF Proper
  <2>3. CASE x.processor = "none"
    <3>1. OnNext(x, f) = [x EXCEPT !.pendingReads = Append(@, f)]
      BY <2>3 DEF OnNext
    <3> QED BY <1>1, <1>2, <2>3, <3>1, QueuedKeeps
  <2>4. x.processor \in {"none", "acceptor", "socket"}
    BY <1>2, ConnectionFacts DEF Good, Processors
  <2>5. x.processor # "none" => x.connection
    BY <1>2 DEF Good, Sound, Owners
  <2> QED BY <2>1, <2>2, <2>3, <2>4, <2>5
<1>4. x' = OnNext(x, f) /\ arrived' = Append(arrived, f) /\ ending' = ending
  BY DEF FrameArrives
<1>5. arrived' \in Seq(FrameSet)
  BY <1>1, <1>2, <1>4, AppendFacts
<1> QED BY <1>2, <1>3, <1>4, <1>5 DEF IInv

LEMMA ConnectionRequestsKeeps ==
  ASSUME Proper, IInv, NEW n \in Nat, ConnectionRequests(n)
  PROVE  IInv'
<1>1. /\ Good(x, ending, arrived) /\ x # NewConnection
      /\ x \in ConnectionSet /\ Writes(x) /\ (x.connection => x.output)
  BY DEF IInv, ConnectionRequests, Good, Sound
<1>2. x' = Request(x, n) /\ arrived' = arrived /\ ending' = ending
  BY DEF ConnectionRequests
<1>3. /\ x' \in ConnectionSet /\ Elsewhere(x, x') /\ x'.fatal = x.fatal /\ Writes(x')
      /\ ~x.connection => x' = x
  BY <1>1, <1>2, RequestFacts
<1>4. x.refused => ~x.connection
  BY <1>1 DEF Good, Sound, Refused
<1>5. Good(x', ending, arrived)
  BY <1>1, <1>3, <1>4, WritingKeeps
<1> QED BY <1>2, <1>5 DEF IInv

LEMMA ConnectionEndsKeeps ==
  ASSUME IInv, NEW side, ConnectionEnds(side)
  PROVE  IInv'
<1>1. /\ Good(x, "none", arrived) /\ x # NewConnection /\ x \in ConnectionSet
      /\ ending = "none" /\ arrived' = arrived /\ x.processor \in Processors
  BY ConnectionFacts DEF IInv, ConnectionEnds, Good
<1>2. CASE x.processor = "none"
  <2>1. PICK d : d = [x EXCEPT !.pendingTerminal = TRUE]
    OBVIOUS
  <2>2. x' = d /\ ending' = "none"
    BY <1>1, <1>2, <2>1 DEF ConnectionEnds
  <2>3. /\ d \in ConnectionSet
        /\ d.processor = x.processor /\ d.connection = x.connection
        /\ d.output = x.output /\ d.input = x.input
        /\ d.allowance = x.allowance /\ d.pendingWrites = x.pendingWrites
        /\ d.wire = x.wire /\ d.outputs = x.outputs
        /\ d.pendingReads = x.pendingReads
        /\ d.registered = x.registered /\ d.socket = x.socket
        /\ d.handed = x.handed /\ d.told = x.told /\ d.calls = x.calls
        /\ d.refused = x.refused /\ d.fatal = x.fatal
    BY <1>1, <2>1 DEF ConnectionSet
  <2>4. Reads(d, arrived)
    BY <1>1, <2>3 DEF Good, Reads
  <2>5. Writes(d) /\ Refused(d)
    BY <1>1, <2>3 DEF Good, Sound, Writes, Refused
  <2>6. Owners(d, "none")
    BY <1>1, <2>3 DEF Good, Sound, Owners
  <2>7. Good(d, "none", arrived)
    BY <1>1, <2>3, <2>4, <2>5, <2>6 DEF Good, Sound
  <2> QED BY <1>1, <2>2, <2>7 DEF IInv
<1>3. CASE x.processor # "none"
  <2>1. PICK d : d = [x EXCEPT !.processor = "none"]
    OBVIOUS
  <2>2. x' = d /\ ending' = x.processor
    BY <1>3, <2>1 DEF ConnectionEnds
  <2>3. /\ d \in ConnectionSet
        /\ d.processor = "none" /\ d.connection = x.connection
        /\ d.output = x.output /\ d.input = x.input
        /\ d.allowance = x.allowance /\ d.pendingWrites = x.pendingWrites
        /\ d.wire = x.wire /\ d.outputs = x.outputs
        /\ d.pendingReads = x.pendingReads
        /\ d.registered = x.registered /\ d.socket = x.socket
        /\ d.handed = x.handed /\ d.told = x.told /\ d.calls = x.calls
        /\ d.refused = x.refused /\ d.fatal = x.fatal
    BY <1>1, <2>1 DEF ConnectionSet, Processors
  <2>4. Reads(d, arrived)
    BY <1>1, <2>3 DEF Good, Reads
  <2>5. Writes(d) /\ Refused(d)
    BY <1>1, <2>3 DEF Good, Sound, Writes, Refused
  <2>6. Owners(d, x.processor)
    <3>1. x.processor \in {"acceptor", "socket"}
      BY <1>1, <1>3 DEF Processors
    <3>2. x.told = << >> /\ x.connection /\ x.output /\ x.socket # "later"
      BY <1>1, <1>3 DEF Good, Sound, Owners
    <3> QED BY <1>1, <2>3, <3>1, <3>2 DEF Good, Sound, Owners
  <2>7. Good(d, x.processor, arrived)
    BY <1>1, <2>3, <2>4, <2>5, <2>6 DEF Good, Sound
  <2> QED BY <1>1, <2>2, <2>7 DEF IInv
<1> QED BY <1>2, <1>3

LEMMA TellProcessorKeeps ==
  ASSUME Proper, IInv, TellProcessor
  PROVE  IInv'
<1>1. ending \in {"acceptor", "socket"} /\ Good(x, ending, arrived)
  BY DEF IInv, TellProcessor, Processors
<1>2. Good(OnTerminal(x, ending), "none", arrived)
  BY <1>1, TellKeeps
<1> QED BY <1>2 DEF IInv, TellProcessor, Processors

LEMMA RunTaskKeeps ==
  ASSUME Proper, IInv, RunTask
  PROVE  IInv'
<1>1. /\ Good(x, ending, arrived) /\ ending \in Processors
      /\ x \in ConnectionSet /\ x.tasks # << >>
  BY DEF IInv, RunTask, Good
<1>2. PICK t \in Seq(TaskSet) : t = Tail(x.tasks)
  <2>1. PICK w \in Seq(TaskSet) : w = x.tasks /\ w # << >>
    BY <1>1, ConnectionFacts
  <2>2. Tail(w) \in Seq(TaskSet)
    BY <2>1, HeadTailProperties
  <2> QED BY <2>1, <2>2
<1>3. PICK c : c = [x EXCEPT !.tasks = t]
  OBVIOUS
<1>4. Good(c, ending, arrived)
  <2>1. /\ c \in ConnectionSet
        /\ c.processor = x.processor /\ c.connection = x.connection
        /\ c.output = x.output /\ c.input = x.input
        /\ c.allowance = x.allowance /\ c.pendingWrites = x.pendingWrites
        /\ c.wire = x.wire /\ c.outputs = x.outputs
        /\ c.pendingReads = x.pendingReads
        /\ c.registered = x.registered /\ c.socket = x.socket
        /\ c.handed = x.handed /\ c.told = x.told /\ c.calls = x.calls
        /\ c.refused = x.refused /\ c.fatal = x.fatal
    BY <1>1, <1>3 DEF ConnectionSet
  <2>2. Reads(c, arrived)
    BY <1>1, <2>1 DEF Good, Reads
  <2>3. Writes(c) /\ Refused(c)
    BY <1>1, <2>1 DEF Good, Sound, Writes, Refused
  <2>4. Owners(c, ending)
    BY <1>1, <2>1 DEF Good, Sound, Owners
  <2>5. x # NewConnection
    BY <1>1, NewFacts
  <2> QED BY <1>1, <2>1, <2>2, <2>3, <2>4, <2>5 DEF Good, Sound
<1>5. /\ x' = IF Head(x.tasks).kind = "terminal" THEN SocketTerminal(c)
              ELSE SocketFrame(c, Head(x.tasks))
      /\ arrived' = arrived /\ ending' = ending
  BY <1>2, <1>3 DEF RunTask, SocketStep
<1>6. Good(SocketTerminal(c), ending, arrived)
  BY <1>1, <1>4, TaskKeeps
<1>7. Good(SocketFrame(c, Head(x.tasks)), ending, arrived)
  BY <1>1, <1>4, TaskKeeps
<1>8. Good(x', ending, arrived)
  BY <1>5, <1>6, <1>7
<1> QED BY <1>5, <1>8 DEF IInv

LEMMA SocketWritesKeeps ==
  ASSUME Proper, IInv, SocketWrites
  PROVE  IInv'
<1>1. "REQUEST" \in Texts
  BY DEF Texts
<1>2. Good(Output(x, "REQUEST"), ending, arrived)
  BY <1>1, OutputKeeps DEF IInv, SocketWrites, Proper
<1> QED BY <1>2 DEF IInv, SocketWrites, SocketStep

LEMMA ClosesKeeps ==
  ASSUME IInv, ApplicationCloses \/ HandlerDropsIt
  PROVE  IInv'
<1>1. x.socket \in {"on", "later"} /\ Good(x, ending, arrived) /\ ending \in Processors
  BY DEF IInv, ApplicationCloses, HandlerDropsIt
<1>2. Good([CloseTransport(x) EXCEPT !.socket = "closed"], ending, arrived)
  BY <1>1, SocketClosesKeeps
<1>3. /\ x' = [CloseTransport(x) EXCEPT !.socket = "closed"]
      /\ arrived' = arrived /\ ending' = ending
  BY DEF ApplicationCloses, HandlerDropsIt, SocketStep, SocketCloses
<1> QED BY <1>2, <1>3 DEF IInv

LEMMA HandlerConnectsKeeps ==
  ASSUME Proper, IInv, HandlerConnects
  PROVE  IInv'
<1>1. /\ x \in ConnectionSet /\ ~x.fatal /\ Len(x.calls) <= 1
      /\ x.connection /\ x.output /\ x.input /\ ending = "none"
      /\ x.processor = "none" /\ x.told = << >> /\ Writes(x) /\ Reads(x, arrived)
  BY DEF IInv, HandlerConnects, Good, Sound, Owners
<1>2. ~x.registered /\ ~x.refused
  BY <1>1 DEF IInv, HandlerConnects, Good, Sound, Owners, Refused
<1>3. arrived \in Seq(FrameSet)
  BY DEF IInv
<1>4. Good(SocketConnect(x), "none", arrived)
  BY <1>1, <1>2, <1>3, ConnectKeeps
<1>5. x' = SocketConnect(x) /\ arrived' = arrived /\ ending' = ending
  BY DEF HandlerConnects, SocketStep
<1> QED BY <1>1, <1>4, <1>5 DEF IInv

LEMMA AcceptorDestroyedKeeps ==
  ASSUME IInv, AcceptorDestroyed
  PROVE  IInv'
<1>1. /\ Good(x, "none", arrived) /\ x \in ConnectionSet /\ x.registered
      /\ ending = "none" /\ x.processor = "acceptor"
  BY DEF IInv, AcceptorDestroyed, Good, Sound, Owners
<1>2. /\ x.connection /\ x.told = << >> /\ x.socket = "none" /\ x.calls = << >>
      /\ ~x.refused /\ ~x.fatal
  BY <1>1 DEF Good, Sound, Owners, Refused
<1>3. PICK b : b = CloseTransport(x) /\ ClosedFrom(x, b)
  BY <1>1, CloseFacts
<1>4. PICK d : d = [b EXCEPT !.registered = FALSE]
  OBVIOUS
<1>5. x' = d /\ arrived' = arrived /\ ending' = ending
  BY <1>3, <1>4 DEF AcceptorDestroyed, SocketStep, Unregister
<1>6. /\ d \in ConnectionSet /\ d.processor = "none" /\ ~d.connection
      /\ d.allowance = x.allowance /\ d.pendingWrites = x.pendingWrites
      /\ d.wire = x.wire /\ d.outputs = x.outputs
      /\ d.pendingReads = x.pendingReads
      /\ ~d.registered /\ d.socket = "none"
      /\ d.handed = x.handed /\ d.told = << >> /\ d.calls = << >>
      /\ ~d.refused /\ ~d.fatal
  BY <1>2, <1>3, <1>4 DEF ClosedFrom, ConnectionSet
<1>7. Reads(d, arrived)
  BY <1>1, <1>6 DEF Good, Reads
<1>8. Writes(d)
  BY <1>1, <1>6 DEF Good, Sound, Writes
<1>9. Owners(d, "none") /\ Refused(d)
  BY <1>6 DEF Owners, Refused
<1>10. Len(d.calls) <= 1
  BY <1>6
<1>11. Good(d, "none", arrived)
  BY <1>6, <1>7, <1>8, <1>9, <1>10 DEF Good, Sound
<1> QED BY <1>1, <1>5, <1>11 DEF IInv

LEMMA InitHolds ==
  ASSUME Init
  PROVE  IInv
<1>1. x = NewConnection /\ arrived = << >> /\ ending = "none"
  BY DEF Init
<1>2. Writes(NewConnection)
  BY NewFacts, NothingWritten
<1>3. Reads(NewConnection, << >>)
  BY NewFacts, NothingRead
<1>4. Owners(NewConnection, "none") /\ Refused(NewConnection)
  BY NewFacts DEF Owners, Refused
<1>5. Len(NewConnection.calls) <= 1
  BY NewFacts
<1>6. Good(NewConnection, "none", << >>)
  BY <1>2, <1>3, <1>4, <1>5, NewFacts DEF Good, Sound
<1>7. << >> \in Seq(FrameSet)
  OBVIOUS
<1> QED BY <1>1, <1>6, <1>7 DEF IInv, Processors

LEMMA NextKeeps ==
  ASSUME Proper, IInv, [Next]_vars
  PROVE  IInv'
<1>1. CASE UNCHANGED vars
  BY <1>1 DEF vars, IInv
<1>2. ASSUME NEW n \in RequestSizes \cup {0}, Accept(n) \/ ClientConnect(n)
      PROVE  IInv'
  <2>1. n \in Nat
    BY AcceptorAssumption
  <2> QED BY <1>2, <2>1, AcceptKeeps, ClientConnectKeeps
<1>3. ASSUME NEW f \in MayArrive, FrameArrives(f)
      PROVE  IInv'
  BY <1>3, FrameArrivesKeeps
<1>4. ASSUME NEW n \in RequestSizes, ConnectionRequests(n)
      PROVE  IInv'
  <2>1. n \in Nat
    BY AcceptorAssumption
  <2> QED BY <1>4, <2>1, ConnectionRequestsKeeps
<1>5. ASSUME NEW side, ConnectionEnds(side)
      PROVE  IInv'
  BY <1>5, ConnectionEndsKeeps
<1>6. CASE TellProcessor
  BY <1>6, TellProcessorKeeps
<1>7. CASE RunTask
  BY <1>7, RunTaskKeeps
<1>8. CASE SocketWrites
  BY <1>8, SocketWritesKeeps
<1>9. CASE ApplicationCloses \/ HandlerDropsIt
  BY <1>9, ClosesKeeps
<1>10. CASE HandlerConnects
  BY <1>10, HandlerConnectsKeeps
<1>11. CASE AcceptorDestroyed
  BY <1>11, AcceptorDestroyedKeeps
<1> QED BY <1>1, <1>2, <1>3, <1>4, <1>5, <1>6, <1>7, <1>8, <1>9, <1>10, <1>11, Zenon
        DEF Next

-----------------------------------------------------------------------------
(***************************************************************************)
(* Every connection keeps the invariant.                                   *)
(***************************************************************************)
THEOREM AcceptorInvariant ==
  ASSUME Proper
  PROVE  Spec => []IInv
<1>1. Init => IInv
  BY InitHolds
<1>2. IInv /\ [Next]_vars => IInv'
  BY NextKeeps
<1> QED BY <1>1, <1>2, PTL DEF Spec

(***************************************************************************)
(* Frames are handed over once and in the order of arrival, the first at   *)
(* most to the acceptor and the others to the socket, whether the handler  *)
(* connects the socket at once or later: what setFrameProcessor and onNext *)
(* of FrameTransport do with pendingReads_.                                *)
(***************************************************************************)
THEOREM FramesReadInOrder ==
  ASSUME Proper
  PROVE  Spec => []ReadInOrder
<1>1. ASSUME IInv PROVE ReadInOrder
  <2>1. PICK h \in Seq(HandedSet) : h = x.handed
    BY <1>1, ConnectionFacts DEF IInv, Good
  <2>2. PICK p \in Seq(FrameSet) : p = x.pendingReads
    BY <1>1, ConnectionFacts DEF IInv, Good
  <2>3. PICK n \in Nat : n = Len(h)
    OBVIOUS
  <2>4. PICK v : v = [i \in DOMAIN h |-> h[i].frame]
    OBVIOUS
  <2>5. DOMAIN h = 1..n
    BY <2>3
  <2>6. \A i \in 1..n : h[i] \in HandedSet /\ h[i].frame \in FrameSet
    <3>1. \A i \in 1..n : h[i] \in HandedSet
      BY <2>3, ElementOfSeq
    <3> QED BY <3>1 DEF HandedSet
  <2>7. v \in Seq(FrameSet) /\ Len(v) = n /\ \A i \in 1..n : v[i] = h[i].frame
    <3>1. v \in [1..n -> FrameSet]
      BY <2>4, <2>5, <2>6
    <3>2. v \in Seq(FrameSet) /\ DOMAIN v = 1..n
      BY <3>1
    <3>3. Len(v) = n
      BY <3>1, <3>2
    <3> QED BY <2>4, <2>5, <3>2, <3>3
  <2>8. /\ Len(arrived) = n + Len(p)
        /\ \A i \in 1..n : h[i].frame = arrived[i]
        /\ \A i \in 1..Len(p) : p[i] = arrived[n + i]
        /\ \A i \in 2..n : h[i].to = "socket"
    BY <1>1, <2>1, <2>2, <2>3 DEF IInv, Good, Reads
  <2>9. Joined(v, p, arrived)
    BY <2>7, <2>8 DEF Joined
  <2>10. v \o p = arrived
    BY <1>1, <2>7, <2>9, JoinedIs DEF IInv
  <2>11. \A i, j \in DOMAIN h : i < j => h[j].to = "socket"
    <3>1. \A i, j \in 1..n : i < j => j \in 2..n
      OBVIOUS
    <3> QED BY <2>5, <2>8, <3>1
  <2>12. p # << >> => x.processor = "none"
    BY <1>1, <2>2 DEF IInv, Good, Sound, Owners
  <2> QED BY <2>1, <2>2, <2>4, <2>10, <2>11, <2>12 DEF ReadInOrder
<1>2. Spec => []IInv
  BY AcceptorInvariant
<1> QED BY <1>1, <1>2, PTL

(***************************************************************************)
(* Frames reach the connection in the order in which they were output and  *)
(* wait only for want of allowance or of a connection, and a peer that is  *)
(* refused is sent the ERROR: outputFrameOrEnqueue, drainOutputFramesQueue,*)
(* request and close of FrameTransport, whoever calls them in whatever     *)
(* order.                                                                  *)
(***************************************************************************)
THEOREM FramesWrittenInOrder ==
  ASSUME Proper
  PROVE  Spec => []WrittenInOrder
<1>1. ASSUME IInv PROVE WrittenInOrder
  <2>1. x.wire \in Seq(Texts) /\ x.pendingWrites \in Seq(Texts) /\ x.outputs \in Seq(Texts)
    BY <1>1, ConnectionFacts DEF IInv, Good
  <2>2. Joined(x.wire, x.pendingWrites, x.outputs)
    BY <1>1 DEF IInv, Good, Sound, Writes
  <2>3. x.wire \o x.pendingWrites = x.outputs
    BY <2>1, <2>2, JoinedIs
  <2>4. x.connection /\ x.allowance > 0 => x.pendingWrites = << >>
    BY <1>1 DEF IInv, Good, Sound, Writes
  <2>5. x.refused /\ IsInfinite(x.allowance) => Last(x.wire) = "ERROR"
    BY <1>1 DEF IInv, Good, Sound, Refused, Last
  <2> QED BY <2>3, <2>4, <2>5 DEF WrittenInOrder
<1>2. Spec => []IInv
  BY AcceptorInvariant
<1> QED BY <1>1, <1>2, PTL

(***************************************************************************)
(* No CHECK fails and nothing is called through a processor or transport   *)
(* that is gone, and the handler gets the transport at most once, never    *)
(* after an error and only when the acceptor has given it up.              *)
(***************************************************************************)
THEOREM TransportHandedOverOnce ==
  ASSUME Proper
  PROVE  Spec => []HandedOverOnce
<1>1. ASSUME IInv PROVE HandedOverOnce
  <2>1. x.registered => x.calls = << >>
    BY <1>1 DEF IInv, Good, Sound, Owners
  <2> QED BY <1>1, <2>1 DEF IInv, Good, Sound, HandedOverOnce
<1>2. Spec => []IInv
  BY AcceptorInvariant
<1> QED BY <1>1, <1>2, PTL

(***************************************************************************)
(* terminateFrameProcessor and setFrameProcessor between them tell nobody  *)
(* of the end of the connection twice, though both sides of the connection *)
(* may end it and the end may wait for a processor.                        *)
(***************************************************************************)
THEOREM EndToldOnce ==
  ASSUME Proper
  PROVE  Spec => []ToldOnce
<1>1. ASSUME IInv PROVE ToldOnce
  <2>1. x.told \in Seq(Processors)
    BY <1>1, ConnectionFacts DEF IInv, Good
  <2>2. x.told = << >> \/ Len(x.told) = 1
    BY <1>1 DEF IInv, Good, Sound, Owners
  <2>3. \A i \in DOMAIN x.told : i = 1
    BY <2>1, <2>2
  <2> QED BY <2>3 DEF ToldOnce
<1>2. Spec => []IInv
  BY AcceptorInvariant
<1> QED BY <1>1, <1>2, PTL

=============================================================================
