------------------------- MODULE InteractionsProofs -------------------------
(***************************************************************************)
(* The inductive invariant of the stream automata, and what each of their  *)
(* operations does to it.                                                  *)
(*                                                                         *)
(* The invariant has two parts.  Local speaks of one end alone.  Towards   *)
(* speaks of one direction: the frames on their way take the receiving end *)
(* from what it has received and what it was granted to what the sending   *)
(* end has emitted and requested.  A step of an automaton is summarised by *)
(* Effect, in which only one end appears; that every step with such an     *)
(* effect preserves the invariant is proved once for all interactions, and *)
(* each operation of an automaton is shown to have such an effect.         *)
(***************************************************************************)
EXTENDS Interactions, TLAPS

Kinds == {"stream", "channel", "response"}

FrameTypes ==
    {"REQUEST_STREAM", "REQUEST_CHANNEL", "REQUEST_RESPONSE", "REQUEST_N",
     "PAYLOAD", "COMPLETE", "ERROR", "CANCEL"}

States == {"NONE", "NEW", "REQUESTED", "RESPONDING", "CLOSED"}

FrameSet ==
    {f \in [type : FrameTypes, n : Nat] : f.type # "PAYLOAD" => f.n <= SizeMax}

AutomatonSet ==
    [state : States, open : BOOLEAN, terminated : BOOLEAN, failed : BOOLEAN,
     out : Seq(FrameSet),
     subscriber : BOOLEAN, allowance : 0..SizeMax, pendingAllowance : 0..SizeMax,
     initialResponseAllowance : 0..SizeMax,
     subscription : BOOLEAN, initialRequestN : 0..SizeMax,
     requests : Nat, received : Seq(Nat), terminal : Seq({"onComplete", "onError"}),
     gaveUp : BOOLEAN, sent : Nat, surplus : BOOLEAN,
     subscribed : BOOLEAN, credit : Nat, cancelled : BOOLEAN, done : BOOLEAN,
     granted : Nat, emitted : Nat]

-----------------------------------------------------------------------------
(* The frames of each interaction                                          *)

Opening(k) == CASE k = "stream"   -> "REQUEST_STREAM"
                [] k = "channel"  -> "REQUEST_CHANNEL"
                [] k = "response" -> "REQUEST_RESPONSE"

CreditTypes == {"REQUEST_STREAM", "REQUEST_CHANNEL", "REQUEST_N"}

(***************************************************************************)
(* What may follow the request, and what comes back.                       *)
(***************************************************************************)
ToResponder(k) == CASE k = "stream"   -> {"REQUEST_N", "CANCEL", "ERROR"}
                    [] k = "channel"  -> {"REQUEST_N", "CANCEL", "ERROR",
                                          "PAYLOAD", "COMPLETE"}
                    [] k = "response" -> {"CANCEL"}

ToRequester(k) == {"PAYLOAD", "COMPLETE", "ERROR"}
                      \cup IF k = "channel" THEN {"REQUEST_N"} ELSE {}

(***************************************************************************)
(* A frame after which the sender writes nothing more.                     *)
(***************************************************************************)
Final(k, f) == f.type = "COMPLETE" \/ (k = "response" /\ f.type = "PAYLOAD")

(***************************************************************************)
(* The payloads of w are those after the first r, up to the e-th.          *)
(***************************************************************************)
Payloads(w, r, e) ==
    \E P \in [Nat -> Nat] :
        /\ P[0] = r
        /\ P[Len(w)] = e
        /\ \A i \in 0..Len(w) : P[i] <= e
        /\ \A i \in 1..Len(w) :
              /\ P[i] = IF w[i].type = "PAYLOAD" THEN P[i - 1] + 1 ELSE P[i - 1]
              /\ w[i].type = "PAYLOAD" => w[i].n = P[i]

(***************************************************************************)
(* The frames of w raise the credit granted from g to s.                   *)
(***************************************************************************)
Credits(w, g, s) ==
    \E S \in [Nat -> Nat] :
        /\ S[0] = g
        /\ S[Len(w)] = s
        /\ \A i \in 0..Len(w) : S[i] <= s
        /\ \A i \in 1..Len(w) :
              S[i] = IF w[i].type \in CreditTypes THEN S[i - 1] + w[i].n ELSE S[i - 1]

-----------------------------------------------------------------------------
(* One end                                                                 *)

StatesOf(role) == IF role = "requester" THEN {"NEW", "REQUESTED", "CLOSED"}
                                        ELSE {"NONE", "RESPONDING", "CLOSED"}

IsConsumer(k, role) == k = "channel" \/ role = "requester"

Shape(role, x) ==
    /\ x.state \in StatesOf(role)
    /\ x.open = (x.state \notin {"NONE", "CLOSED"})
    /\ x.terminated = (x.state = "CLOSED")
    /\ x.state = "NONE" => x = NewAutomaton("NONE", FALSE)

(***************************************************************************)
(* A producer has a subscription until its stream ends.  Only a channel's  *)
(* requester has a producer.                                               *)
(***************************************************************************)
Publishing(k, x) ==
    /\ x.subscription => x.open /\ x.subscribed
    /\ x.subscribed /\ ~x.cancelled => x.subscription
    /\ x.cancelled => x.state = "CLOSED"
    /\ ~x.subscribed => x.credit = 0 /\ x.emitted = 0
    /\ x.state = "NEW" => x.emitted = 0
    /\ k = "channel" /\ x.state = "REQUESTED" => x.subscribed
    /\ k # "channel" /\ x.state \in {"NEW", "REQUESTED"} => x.subscribed = FALSE

Consuming(k, role, x) ==
    /\ IF IsConsumer(k, role)
       THEN /\ x.subscriber = x.open
            /\ Len(x.terminal) = IF x.state = "CLOSED" THEN 1 ELSE 0
       ELSE x.subscriber = FALSE
    /\ \A i \in 1..Len(x.received) : x.received[i] = i
    /\ k = "response" => Len(x.received) = 0 \/ (Len(x.received) = 1 /\ ~x.open)
    /\ x.surplus = FALSE

(***************************************************************************)
(* The producer of a channel's requester asks itself for the payload that  *)
(* travels with the request.                                               *)
(***************************************************************************)
OwnRequest(x) == IF x.state = "NEW" /\ x.subscription THEN 1 ELSE 0

(***************************************************************************)
(* What a consumer may still receive is what it has requested and not yet  *)
(* received; what a producer may still emit is what it was granted and has *)
(* not yet emitted.                                                        *)
(***************************************************************************)
Accounts(x) ==
    /\ x.open => \/ x.allowance = SizeMax
                 \/ x.allowance + Len(x.received) = x.pendingAllowance + x.sent
    /\ \/ x.initialRequestN = SizeMax
       \/ /\ x.emitted <= x.granted
          /\ x.open => x.granted + OwnRequest(x)
                           = x.initialRequestN + x.credit + x.emitted
    /\ x.initialRequestN <= x.granted

(***************************************************************************)
(* The credit an application asks for in all stays below the largest       *)
(* size_t, which stands for an infinite allowance.                         *)
(***************************************************************************)
CreditBound(m) ==
    /\ \A n \in RequestSizes : n <= m
    /\ m * MaxRequests < SizeMax
    /\ m * MaxChannelRequests < SizeMax

CreditFits == \E m \in Nat : CreditBound(m)

LargestRequest == CHOOSE m \in Nat : CreditBound(m)

Tame == CreditFits /\ SubscribedFirst

Checked(k, role, x) ==
    Tame =>
        /\ x.failed = FALSE
        /\ k # "response" =>
              /\ x.pendingAllowance + x.sent + x.initialResponseAllowance
                     <= LargestRequest * x.requests
              /\ x.requests <= IF k = "stream" THEN MaxRequests ELSE MaxChannelRequests
        /\ k = "channel" /\ role = "requester" /\ ~x.subscribed => x.state = "NEW"

Local(k, role, x) ==
    /\ x \in AutomatonSet
    /\ Shape(role, x)
    /\ Publishing(k, x)
    /\ Consuming(k, role, x)
    /\ Accounts(x)
    /\ Checked(k, role, x)

-----------------------------------------------------------------------------
(* One direction: the frames w on their way from the automaton a to b      *)

AllIn(w, from, types) == \A i \in 1..Len(w) : i >= from => w[i].type \in types

FramesFit(k, role, b, a, w) ==
    IF role = "requester"
    THEN /\ b.state # "CLOSED" => AllIn(w, 1, ToRequester(k))
         /\ b.state = "NEW" => w = << >>
    ELSE /\ b.state = "RESPONDING" => AllIn(w, 1, ToResponder(k))
         /\ b.state = "NONE" => /\ w # << >> => w[1].type = Opening(k)
                                /\ AllIn(w, 2, ToResponder(k))
                                /\ a.state = "REQUESTED" => w # << >>
         /\ a.state = "NEW" => b.state = "NONE" /\ w = << >>

(***************************************************************************)
(* r and g are what b has received and was granted.                        *)
(***************************************************************************)
TowardsFrom(k, role, b, r, g, a, w) ==
    /\ w \in Seq(FrameSet)
    /\ FramesFit(k, role, b, a, w)
    /\ b.state # "CLOSED" =>
          /\ Payloads(w, r, a.emitted)
          /\ \A i \in 1..Len(w) : Final(k, w[i]) => i = Len(w) /\ a.state = "CLOSED"
    /\ r <= a.emitted
    /\ k # "response" \/ role = "requester" =>
          /\ b.state # "CLOSED" => Credits(w, g, a.sent)
          /\ g <= a.sent
    /\ k # "response" /\ b.open /\ a.initialRequestN = SizeMax => b.allowance = SizeMax

Towards(k, role, b, a, w) ==
    TowardsFrom(k, role, b, Len(b.received), b.granted, a, w)

(***************************************************************************)
(* The requester was told that the stream is complete.                     *)
(***************************************************************************)
Told(x) == x.terminal = <<"onComplete">> /\ ~x.gaveUp

Whole(k, q, p) ==
    k # "channel" /\ Told(q) => p.state = "CLOSED" /\ Len(q.received) = p.emitted

IInv ==
    /\ kind \in Kinds
    /\ automaton \in [Roles -> AutomatonSet]
    /\ DOMAIN wire = Roles
    /\ up \subseteq Roles
    /\ \A role \in Roles :
          /\ Local(kind, role, automaton[role])
          /\ automaton[role].out = << >>
          /\ Towards(kind, role, automaton[role], automaton[Peer(role)], wire[role])
          /\ role \notin up => ~automaton[role].open
    /\ Whole(kind, automaton["requester"], automaton["responder"])

-----------------------------------------------------------------------------
(* The flow of payloads and credit over a sequence of frames               *)

(***************************************************************************)
(* What a receiver has received or was granted once it has taken a frame.  *)
(***************************************************************************)
TakesP(f, r) == IF f.type = "PAYLOAD" THEN r + 1 ELSE r

TakesC(f, g) == IF f.type \in CreditTypes THEN g + f.n ELSE g

(***************************************************************************)
(* Payloads on their way only add to what was received.                    *)
(***************************************************************************)
LEMMA PayloadsGrow ==
    ASSUME NEW w \in Seq(FrameSet), NEW r, NEW e, Payloads(w, r, e)
    PROVE  r \in Nat /\ e \in Nat /\ r <= e
<1>1. PICK P \in [Nat -> Nat] :
          /\ P[0] = r /\ P[Len(w)] = e
          /\ \A i \in 0..Len(w) : P[i] <= e
  BY DEF Payloads
<1>2. Len(w) \in Nat
  OBVIOUS
<1> QED BY <1>1, <1>2

(* Credit on its way only adds to what was granted.                        *)
LEMMA CreditsGrow ==
    ASSUME NEW w \in Seq(FrameSet), NEW g, NEW s, Credits(w, g, s)
    PROVE  g \in Nat /\ s \in Nat /\ g <= s
<1>1. PICK S \in [Nat -> Nat] :
          /\ S[0] = g /\ S[Len(w)] = s
          /\ \A i \in 0..Len(w) : S[i] <= s
  BY DEF Credits
<1>2. Len(w) \in Nat
  OBVIOUS
<1> QED BY <1>1, <1>2

(***************************************************************************)
(* Nothing on its way: all that was sent has arrived.                      *)
(***************************************************************************)
LEMMA PayloadsNone ==
    ASSUME NEW r \in Nat
    PROVE  /\ Payloads(<< >>, r, r)
           /\ \A e : Payloads(<< >>, r, e) => e = r
<1> DEFINE P == [i \in Nat |-> r]
<1>1. P \in [Nat -> Nat] /\ \A i \in Nat : P[i] = r
  OBVIOUS
<1>2. Len(<< >>) = 0
  OBVIOUS
<1> HIDE DEF P
<1>3. Payloads(<< >>, r, r)
  BY <1>1, <1>2 DEF Payloads
<1>4. \A e : Payloads(<< >>, r, e) => e = r
  BY <1>2 DEF Payloads
<1> QED BY <1>3, <1>4

(* Nothing on its way: all the credit sent was granted.                    *)
LEMMA CreditsNone ==
    ASSUME NEW g \in Nat
    PROVE  /\ Credits(<< >>, g, g)
           /\ \A s : Credits(<< >>, g, s) => s = g
<1> DEFINE S == [i \in Nat |-> g]
<1>1. S \in [Nat -> Nat] /\ \A i \in Nat : S[i] = g
  OBVIOUS
<1>2. Len(<< >>) = 0
  OBVIOUS
<1> HIDE DEF S
<1>3. Credits(<< >>, g, g)
  BY <1>1, <1>2 DEF Credits
<1>4. \A s : Credits(<< >>, g, s) => s = g
  BY <1>2 DEF Credits
<1> QED BY <1>3, <1>4

(***************************************************************************)
(* One frame on its way.                                                   *)
(***************************************************************************)
LEMMA PayloadsOne ==
    ASSUME NEW r \in Nat, NEW f \in FrameSet, f.type = "PAYLOAD" => f.n = r + 1
    PROVE  Payloads(<<f>>, r, TakesP(f, r))
<1> DEFINE P == [i \in Nat |-> IF i = 0 THEN r ELSE TakesP(f, r)]
<1>1. TakesP(f, r) \in Nat /\ r <= TakesP(f, r)
  BY DEF TakesP
<1>2. P \in [Nat -> Nat]
  BY <1>1
<1>3. Len(<<f>>) = 1 /\ <<f>>[1] = f
  OBVIOUS
<1>4. P[0] = r /\ P[1] = TakesP(f, r)
  OBVIOUS
<1> HIDE DEF P
<1>5. \A i \in 0..1 : P[i] <= TakesP(f, r)
  BY <1>1, <1>4
<1>6. \A i \in 1..1 : /\ P[i] = IF f.type = "PAYLOAD" THEN P[i - 1] + 1 ELSE P[i - 1]
                      /\ f.type = "PAYLOAD" => f.n = P[i]
  BY <1>4 DEF TakesP
<1>7. \A i \in 1..1 : <<f>>[i] = f
  BY <1>3
<1> QED BY <1>2, <1>3, <1>4, <1>5, <1>6, <1>7 DEF Payloads

(* One frame on its way raises the credit by what it grants.               *)
LEMMA CreditsOne ==
    ASSUME NEW g \in Nat, NEW f \in FrameSet
    PROVE  Credits(<<f>>, g, TakesC(f, g))
<1> DEFINE S == [i \in Nat |-> IF i = 0 THEN g ELSE TakesC(f, g)]
<1>0. f.n \in Nat
  BY DEF FrameSet
<1>1. TakesC(f, g) \in Nat /\ g <= TakesC(f, g)
  BY <1>0 DEF TakesC
<1>2. S \in [Nat -> Nat]
  BY <1>1
<1>3. Len(<<f>>) = 1 /\ <<f>>[1] = f
  OBVIOUS
<1>4. S[0] = g /\ S[1] = TakesC(f, g)
  OBVIOUS
<1> HIDE DEF S
<1>5. \A i \in 0..1 : S[i] <= TakesC(f, g)
  BY <1>1, <1>4
<1>6. \A i \in 1..1 : S[i] = IF f.type \in CreditTypes THEN S[i - 1] + f.n ELSE S[i - 1]
  BY <1>4 DEF TakesC
<1>7. \A i \in 1..1 : <<f>>[i] = f
  BY <1>3
<1> QED BY <1>2, <1>3, <1>4, <1>5, <1>6, <1>7 DEF Credits

(***************************************************************************)
(* Frames written after others.                                            *)
(***************************************************************************)
LEMMA Joined ==
    ASSUME NEW v \in Seq(FrameSet), NEW w \in Seq(FrameSet)
    PROVE  /\ v \o w \in Seq(FrameSet)
           /\ Len(v \o w) = Len(v) + Len(w)
           /\ \A i \in 1..Len(v) : (v \o w)[i] = v[i]
           /\ \A i \in 1..Len(v \o w) : i > Len(v) => /\ i - Len(v) \in 1..Len(w)
                                                      /\ (v \o w)[i] = w[i - Len(v)]
OBVIOUS

(* Two counts, the second starting where the first ends, are one.          *)
LEMMA CountsJoin ==
    ASSUME NEW P \in [Nat -> Nat], NEW Q \in [Nat -> Nat], NEW m \in Nat, P[m] = Q[0]
    PROVE  \E R \in [Nat -> Nat] : /\ \A i \in 0..m : R[i] = P[i]
                                   /\ \A i \in Nat : i >= m => R[i] = Q[i - m]
<1> DEFINE R == [i \in Nat |-> IF i <= m THEN P[i] ELSE Q[i - m]]
<1>1. R \in [Nat -> Nat]
  OBVIOUS
<1>2. \A i \in 0..m : R[i] = P[i]
  OBVIOUS
<1>3. \A i \in Nat : i >= m => R[i] = Q[i - m]
  OBVIOUS
<1> HIDE DEF R
<1> QED BY <1>1, <1>2, <1>3

(* Payloads written after others continue their numbers.                   *)
LEMMA PayloadsJoin ==
    ASSUME NEW v \in Seq(FrameSet), NEW w \in Seq(FrameSet), NEW r, NEW d, NEW e,
           Payloads(v, r, d), Payloads(w, d, e)
    PROVE  Payloads(v \o w, r, e)
<1>1. PICK P \in [Nat -> Nat] :
          /\ P[0] = r /\ P[Len(v)] = d
          /\ \A i \in 0..Len(v) : P[i] <= d
          /\ \A i \in 1..Len(v) :
                /\ P[i] = IF v[i].type = "PAYLOAD" THEN P[i - 1] + 1 ELSE P[i - 1]
                /\ v[i].type = "PAYLOAD" => v[i].n = P[i]
  BY DEF Payloads
<1>2. PICK Q \in [Nat -> Nat] :
          /\ Q[0] = d /\ Q[Len(w)] = e
          /\ \A i \in 0..Len(w) : Q[i] <= e
          /\ \A i \in 1..Len(w) :
                /\ Q[i] = IF w[i].type = "PAYLOAD" THEN Q[i - 1] + 1 ELSE Q[i - 1]
                /\ w[i].type = "PAYLOAD" => w[i].n = Q[i]
  BY DEF Payloads
<1>3. PICK m \in Nat : m = Len(v)
  OBVIOUS
<1>4. PICK n \in Nat : n = Len(w)
  OBVIOUS
<1>5. PICK u : u = v \o w
  OBVIOUS
<1>6. P[m] = Q[0]
  BY <1>1, <1>2, <1>3
<1>7. PICK R \in [Nat -> Nat] : /\ \A i \in 0..m : R[i] = P[i]
                              /\ \A i \in Nat : i >= m => R[i] = Q[i - m]
  BY <1>6, CountsJoin
<1>10. Len(u) = m + n
  BY <1>3, <1>4, <1>5, Joined
<1>11. d \in Nat /\ e \in Nat /\ d <= e
  BY PayloadsGrow
<1>12. R[0] = r
  <2>1. 0 \in 0..m
    OBVIOUS
  <2> QED BY <1>1, <1>7, <2>1
<1>13. R[m + n] = e
  <2>1. m + n \in Nat /\ m + n >= m /\ (m + n) - m = n
    OBVIOUS
  <2> QED BY <1>2, <1>4, <1>7, <2>1
<1>14. \A i \in 0..(m + n) : R[i] <= e
  <2> SUFFICES ASSUME NEW i \in 0..(m + n) PROVE R[i] <= e
    OBVIOUS
  <2>1. CASE i <= m
    <3>1. i \in 0..m
      BY <2>1
    <3>2. P[i] <= d
      BY <1>1, <1>3, <3>1
    <3>3. i \in Nat
      OBVIOUS
    <3>4. P[i] \in Nat
      BY <3>3, Zenon
    <3> QED BY <1>7, <1>11, <3>1, <3>2, <3>4
  <2>2. CASE i > m
    <3>1. i - m \in 0..n /\ i \in Nat /\ i >= m
      BY <2>2
    <3>2. Q[i - m] <= e
      BY <1>2, <1>4, <3>1
    <3> QED BY <1>7, <3>1, <3>2
  <2> QED BY <2>1, <2>2
<1>15. \A i \in 1..(m + n) :
          /\ R[i] = IF u[i].type = "PAYLOAD" THEN R[i - 1] + 1 ELSE R[i - 1]
          /\ u[i].type = "PAYLOAD" => u[i].n = R[i]
  <2> SUFFICES ASSUME NEW i \in 1..(m + n)
               PROVE  /\ R[i] = IF u[i].type = "PAYLOAD" THEN R[i - 1] + 1 ELSE R[i - 1]
                      /\ u[i].type = "PAYLOAD" => u[i].n = R[i]
    OBVIOUS
  <2>1. CASE i <= m
    <3>1. i \in 1..m /\ i \in 0..m /\ i - 1 \in 0..m
      BY <2>1
    <3>2. u[i] = v[i]
      BY <1>3, <1>5, <3>1, Joined
    <3> QED BY <1>1, <1>3, <1>7, <3>1, <3>2
  <2>2. CASE i > m
    <3>1. i - m \in 1..n /\ i \in Nat /\ i >= m /\ i - 1 \in Nat /\ i - 1 >= m
          /\ (i - 1) - m = (i - m) - 1
      BY <2>2
    <3>2. u[i] = w[i - m]
      BY <1>3, <1>5, <1>10, <2>2, Joined
    <3>3. R[i] = Q[i - m] /\ R[i - 1] = Q[(i - m) - 1]
      BY <1>7, <3>1
    <3> QED BY <1>2, <1>4, <3>1, <3>2, <3>3
  <2> QED BY <2>1, <2>2
<1> QED BY <1>5, <1>7, <1>10, <1>12, <1>13, <1>14, <1>15 DEF Payloads
(* Credit written after other credit adds to it.                           *)
LEMMA CreditsJoin ==
    ASSUME NEW v \in Seq(FrameSet), NEW w \in Seq(FrameSet), NEW g, NEW h, NEW s,
           Credits(v, g, h), Credits(w, h, s)
    PROVE  Credits(v \o w, g, s)
<1>1. PICK P \in [Nat -> Nat] :
          /\ P[0] = g /\ P[Len(v)] = h
          /\ \A i \in 0..Len(v) : P[i] <= h
          /\ \A i \in 1..Len(v) :
                P[i] = IF v[i].type \in CreditTypes THEN P[i - 1] + v[i].n ELSE P[i - 1]
  BY DEF Credits
<1>2. PICK Q \in [Nat -> Nat] :
          /\ Q[0] = h /\ Q[Len(w)] = s
          /\ \A i \in 0..Len(w) : Q[i] <= s
          /\ \A i \in 1..Len(w) :
                Q[i] = IF w[i].type \in CreditTypes THEN Q[i - 1] + w[i].n ELSE Q[i - 1]
  BY DEF Credits
<1>3. PICK m \in Nat : m = Len(v)
  OBVIOUS
<1>4. PICK n \in Nat : n = Len(w)
  OBVIOUS
<1>5. PICK u : u = v \o w
  OBVIOUS
<1>6. P[m] = Q[0]
  BY <1>1, <1>2, <1>3
<1>7. PICK R \in [Nat -> Nat] : /\ \A i \in 0..m : R[i] = P[i]
                              /\ \A i \in Nat : i >= m => R[i] = Q[i - m]
  BY <1>6, CountsJoin
<1>10. Len(u) = m + n
  BY <1>3, <1>4, <1>5, Joined
<1>11. h \in Nat /\ s \in Nat /\ h <= s
  BY CreditsGrow
<1>12. R[0] = g
  <2>1. 0 \in 0..m
    OBVIOUS
  <2> QED BY <1>1, <1>7, <2>1
<1>13. R[m + n] = s
  <2>1. m + n \in Nat /\ m + n >= m /\ (m + n) - m = n
    OBVIOUS
  <2> QED BY <1>2, <1>4, <1>7, <2>1
<1>14. \A i \in 0..(m + n) : R[i] <= s
  <2> SUFFICES ASSUME NEW i \in 0..(m + n) PROVE R[i] <= s
    OBVIOUS
  <2>1. CASE i <= m
    <3>1. i \in 0..m
      BY <2>1
    <3>2. P[i] <= h
      BY <1>1, <1>3, <3>1
    <3>3. i \in Nat
      OBVIOUS
    <3>4. P[i] \in Nat
      BY <3>3, Zenon
    <3> QED BY <1>7, <1>11, <3>1, <3>2, <3>4
  <2>2. CASE i > m
    <3>1. i - m \in 0..n /\ i \in Nat /\ i >= m
      BY <2>2
    <3>2. Q[i - m] <= s
      BY <1>2, <1>4, <3>1
    <3> QED BY <1>7, <3>1, <3>2
  <2> QED BY <2>1, <2>2
<1>15. \A i \in 1..(m + n) :
          R[i] = IF u[i].type \in CreditTypes THEN R[i - 1] + u[i].n ELSE R[i - 1]
  <2> SUFFICES ASSUME NEW i \in 1..(m + n)
               PROVE  R[i] = IF u[i].type \in CreditTypes THEN R[i - 1] + u[i].n ELSE R[i - 1]
    OBVIOUS
  <2>1. CASE i <= m
    <3>1. i \in 1..m /\ i \in 0..m /\ i - 1 \in 0..m
      BY <2>1
    <3>2. u[i] = v[i]
      BY <1>3, <1>5, <3>1, Joined
    <3> QED BY <1>1, <1>3, <1>7, <3>1, <3>2
  <2>2. CASE i > m
    <3>1. i - m \in 1..n /\ i \in Nat /\ i >= m /\ i - 1 \in Nat /\ i - 1 >= m
          /\ (i - 1) - m = (i - m) - 1
      BY <2>2
    <3>2. u[i] = w[i - m]
      BY <1>3, <1>5, <1>10, <2>2, Joined
    <3>3. R[i] = Q[i - m] /\ R[i - 1] = Q[(i - m) - 1]
      BY <1>7, <3>1
    <3> QED BY <1>2, <1>4, <3>1, <3>2, <3>3
  <2> QED BY <2>1, <2>2
<1> QED BY <1>5, <1>7, <1>10, <1>12, <1>13, <1>14, <1>15 DEF Credits

(***************************************************************************)
(* The first frame is taken.                                               *)
(***************************************************************************)
LEMMA Shortened ==
    ASSUME NEW w \in Seq(FrameSet), w # << >>
    PROVE  /\ Tail(w) \in Seq(FrameSet)
           /\ Len(w) \in Nat \ {0}
           /\ Len(Tail(w)) = Len(w) - 1
           /\ \A i \in 1..Len(Tail(w)) : i + 1 \in 2..Len(w) /\ Tail(w)[i] = w[i + 1]
           /\ Head(w) = w[1] /\ w[1] \in FrameSet
OBVIOUS

(* A count without its first entry is a count.                             *)
LEMMA CountsShift ==
    ASSUME NEW P \in [Nat -> Nat]
    PROVE  \E Q \in [Nat -> Nat] : \A i \in Nat : Q[i] = P[i + 1]
<1> DEFINE Q == [i \in Nat |-> P[i + 1]]
<1>1. Q \in [Nat -> Nat] /\ \A i \in Nat : Q[i] = P[i + 1]
  OBVIOUS
<1> QED BY <1>1

(* Taking the first frame leaves the payloads after it; a payload has the  *)
(* next number.                                                            *)
LEMMA PayloadsTail ==
    ASSUME NEW w \in Seq(FrameSet), w # << >>, NEW r, NEW e, Payloads(w, r, e)
    PROVE  /\ Payloads(Tail(w), TakesP(w[1], r), e)
           /\ w[1].type = "PAYLOAD" => w[1].n = r + 1
<1>1. PICK P \in [Nat -> Nat] :
          /\ P[0] = r /\ P[Len(w)] = e
          /\ \A i \in 0..Len(w) : P[i] <= e
          /\ \A i \in 1..Len(w) :
                /\ P[i] = IF w[i].type = "PAYLOAD" THEN P[i - 1] + 1 ELSE P[i - 1]
                /\ w[i].type = "PAYLOAD" => w[i].n = P[i]
  BY DEF Payloads
<1>2. PICK Q \in [Nat -> Nat] : \A i \in Nat : Q[i] = P[i + 1]
  BY CountsShift
<1>3. PICK m \in Nat \ {0} : m = Len(w)
  BY Shortened
<1>4. PICK t : t = Tail(w)
  OBVIOUS
<1>5. Len(t) = m - 1 /\ \A i \in 1..(m - 1) : i + 1 \in 1..m /\ t[i] = w[i + 1]
  BY <1>3, <1>4, Shortened
<1>6. P[1] = TakesP(w[1], r) /\ (w[1].type = "PAYLOAD" => w[1].n = r + 1)
  <2>1. 1 \in 1..Len(w) /\ 1 - 1 = 0
    BY <1>3
  <2> QED BY <1>1, <2>1 DEF TakesP
<1>7. Q[0] = TakesP(w[1], r) /\ Q[m - 1] = e
  <2>1. Q[0] = P[0 + 1] /\ Q[m - 1] = P[(m - 1) + 1]
    BY <1>2
  <2>2. 0 + 1 = 1 /\ (m - 1) + 1 = m
    OBVIOUS
  <2> QED BY <1>1, <1>3, <1>6, <2>1, <2>2
<1>8. \A i \in 0..(m - 1) : Q[i] <= e
  <2> SUFFICES ASSUME NEW i \in 0..(m - 1) PROVE Q[i] <= e
    OBVIOUS
  <2>1. i \in Nat /\ i + 1 \in 0..m
    OBVIOUS
  <2> QED BY <1>1, <1>2, <1>3, <2>1
<1>9. \A i \in 1..(m - 1) :
          /\ Q[i] = IF t[i].type = "PAYLOAD" THEN Q[i - 1] + 1 ELSE Q[i - 1]
          /\ t[i].type = "PAYLOAD" => t[i].n = Q[i]
  <2> SUFFICES ASSUME NEW i \in 1..(m - 1)
               PROVE  /\ Q[i] = IF t[i].type = "PAYLOAD" THEN Q[i - 1] + 1 ELSE Q[i - 1]
                      /\ t[i].type = "PAYLOAD" => t[i].n = Q[i]
    OBVIOUS
  <2>1. i + 1 \in 1..m /\ i \in Nat /\ i - 1 \in Nat
        /\ (i + 1) - 1 = i /\ (i - 1) + 1 = i
    OBVIOUS
  <2>2. Q[i] = P[i + 1] /\ Q[i - 1] = P[i]
    BY <1>2, <2>1
  <2>3. /\ P[i + 1] = IF w[i + 1].type = "PAYLOAD" THEN P[i] + 1 ELSE P[i]
        /\ w[i + 1].type = "PAYLOAD" => w[i + 1].n = P[i + 1]
    BY <1>1, <1>3, <2>1
  <2> QED BY <1>5, <2>2, <2>3
<1>10. Payloads(t, TakesP(w[1], r), e)
  BY <1>5, <1>7, <1>8, <1>9 DEF Payloads
<1> QED BY <1>4, <1>6, <1>10

(* Taking the first frame leaves the credit after it.                      *)
LEMMA CreditsTail ==
    ASSUME NEW w \in Seq(FrameSet), w # << >>, NEW g, NEW s, Credits(w, g, s)
    PROVE  Credits(Tail(w), TakesC(w[1], g), s)
<1>1. PICK P \in [Nat -> Nat] :
          /\ P[0] = g /\ P[Len(w)] = s
          /\ \A i \in 0..Len(w) : P[i] <= s
          /\ \A i \in 1..Len(w) :
                P[i] = IF w[i].type \in CreditTypes THEN P[i - 1] + w[i].n ELSE P[i - 1]
  BY DEF Credits
<1>2. PICK Q \in [Nat -> Nat] : \A i \in Nat : Q[i] = P[i + 1]
  BY CountsShift
<1>3. PICK m \in Nat \ {0} : m = Len(w)
  BY Shortened
<1>4. PICK t : t = Tail(w)
  OBVIOUS
<1>5. Len(t) = m - 1 /\ \A i \in 1..(m - 1) : i + 1 \in 1..m /\ t[i] = w[i + 1]
  BY <1>3, <1>4, Shortened
<1>6. P[1] = TakesC(w[1], g)
  <2>1. 1 \in 1..Len(w) /\ 1 - 1 = 0
    BY <1>3
  <2> QED BY <1>1, <2>1 DEF TakesC
<1>7. Q[0] = TakesC(w[1], g) /\ Q[m - 1] = s
  <2>1. Q[0] = P[0 + 1] /\ Q[m - 1] = P[(m - 1) + 1]
    BY <1>2
  <2>2. 0 + 1 = 1 /\ (m - 1) + 1 = m
    OBVIOUS
  <2> QED BY <1>1, <1>3, <1>6, <2>1, <2>2
<1>8. \A i \in 0..(m - 1) : Q[i] <= s
  <2> SUFFICES ASSUME NEW i \in 0..(m - 1) PROVE Q[i] <= s
    OBVIOUS
  <2>1. i \in Nat /\ i + 1 \in 0..m
    OBVIOUS
  <2> QED BY <1>1, <1>2, <1>3, <2>1
<1>9. \A i \in 1..(m - 1) :
          Q[i] = IF t[i].type \in CreditTypes THEN Q[i - 1] + t[i].n ELSE Q[i - 1]
  <2> SUFFICES ASSUME NEW i \in 1..(m - 1)
               PROVE  Q[i] = IF t[i].type \in CreditTypes THEN Q[i - 1] + t[i].n ELSE Q[i - 1]
    OBVIOUS
  <2>1. i + 1 \in 1..m /\ i \in Nat /\ i - 1 \in Nat
        /\ (i + 1) - 1 = i /\ (i - 1) + 1 = i
    OBVIOUS
  <2>2. Q[i] = P[i + 1] /\ Q[i - 1] = P[i]
    BY <1>2, <2>1
  <2>3. P[i + 1] = IF w[i + 1].type \in CreditTypes THEN P[i] + w[i + 1].n ELSE P[i]
    BY <1>1, <1>3, <2>1
  <2> QED BY <1>5, <2>2, <2>3
<1>10. Credits(t, TakesC(w[1], g), s)
  BY <1>5, <1>7, <1>8, <1>9 DEF Credits
<1> QED BY <1>4, <1>10

-----------------------------------------------------------------------------
(* What one step of one end does, seen from the outside                    *)

FlowsTo(k, role) == k # "response" \/ role = "requester"

(***************************************************************************)
(* The frames the end writes: the request first, then what may follow it.  *)
(***************************************************************************)
Written(k, role, x, y) ==
    IF role = "requester"
    THEN /\ x.state = "NEW" =>
               \/ y.out = << >> /\ y.state # "REQUESTED"
               \/ /\ y.out # << >> /\ y.state # "NEW"
                  /\ y.out[1].type = Opening(k)
                  /\ AllIn(y.out, 2, ToResponder(k))
         /\ x.state # "NEW" => y.state # "NEW" /\ AllIn(y.out, 1, ToResponder(k))
    ELSE AllIn(y.out, 1, ToRequester(k))

Ending(k, f) == IF Final(k, f) THEN "whole" ELSE "part"

(***************************************************************************)
(* The automaton x becomes y.  r and g are what the end has received and   *)
(* was granted with the frame of this step, if there is one; whole says    *)
(* whether this frame was the last of its sender.                          *)
(***************************************************************************)
Effect(k, role, x, y, r, g, whole) ==
    /\ Local(k, role, y)
    /\ y.state # "NONE"
    /\ x.state = "CLOSED" =>
          /\ y.state = "CLOSED"
          /\ y.out = << >>
          /\ y.received = x.received /\ y.terminal = x.terminal /\ y.gaveUp = x.gaveUp
    /\ Written(k, role, x, y)
    /\ \A i \in 1..Len(y.out) : Final(k, y.out[i]) => i = Len(y.out) /\ y.state = "CLOSED"
    /\ Payloads(y.out, x.emitted, y.emitted)
    /\ FlowsTo(k, Peer(role)) => Credits(y.out, x.sent, y.sent)
    /\ Len(y.received) <= r
    /\ y.state # "CLOSED" => Len(y.received) = r
    /\ FlowsTo(k, role) => y.granted <= g /\ (y.state # "CLOSED" => y.granted = g)
    /\ x.open /\ y.open /\ x.allowance = SizeMax => y.allowance = SizeMax
    /\ y.open => x.open \/ x = NewAutomaton("NONE", FALSE)
    /\ y.initialRequestN = SizeMax =>
          \/ x.initialRequestN = SizeMax
          \/ y.emitted = 0 /\ y.granted >= SizeMax
    /\ k # "channel" /\ role = "requester" /\ Told(y) =>
          Told(x) \/ (whole = "whole" /\ Len(y.received) = r)

(***************************************************************************)
(* What is then on its way towards this end, from the automaton a.         *)
(***************************************************************************)
Facing(k, role, x, y, r, g, whole, a, v) ==
    /\ v \in Seq(FrameSet)
    /\ IF role = "requester"
       THEN /\ x.state # "CLOSED" => AllIn(v, 1, ToRequester(k))
            /\ x.state = "NEW" => v = << >>
       ELSE /\ y.state = "RESPONDING" => AllIn(v, 1, ToResponder(k))
            /\ a.state # "NEW"
    /\ x.state # "CLOSED" =>
          /\ Payloads(v, r, a.emitted)
          /\ \A i \in 1..Len(v) : Final(k, v[i]) => i = Len(v) /\ a.state = "CLOSED"
    /\ r <= a.emitted
    /\ FlowsTo(k, role) =>
          /\ x.state # "CLOSED" => Credits(v, g, a.sent)
          /\ g <= a.sent
    /\ k # "response" /\ x.open /\ a.initialRequestN = SizeMax => x.allowance = SizeMax
    /\ k # "response" /\ ~x.open /\ x.state # "CLOSED" => a.initialRequestN # SizeMax
    /\ whole = "whole" => a.state = "CLOSED" /\ r = a.emitted

(***************************************************************************)
(* What was written leaves the automaton.                                  *)
(***************************************************************************)
LEMMA Cleared ==
    ASSUME NEW k, NEW role \in Roles, NEW y, Local(k, role, y), y.state # "NONE"
    PROVE  LET z == [y EXCEPT !.out = << >>]
           IN  /\ Local(k, role, z)
               /\ z.out = << >>
               /\ z.state = y.state /\ z.open = y.open
               /\ z.allowance = y.allowance /\ z.initialRequestN = y.initialRequestN
               /\ z.received = y.received /\ z.terminal = y.terminal
               /\ z.gaveUp = y.gaveUp /\ z.sent = y.sent
               /\ z.granted = y.granted /\ z.emitted = y.emitted
<1>1. PICK z : z = [y EXCEPT !.out = << >>]
  OBVIOUS
<1>2. y \in AutomatonSet
  BY DEF Local
<1>3. z \in AutomatonSet
  <2>1. << >> \in Seq(FrameSet)
    OBVIOUS
  <2> QED BY <1>1, <1>2, <2>1 DEF AutomatonSet
<1>4. /\ z.state = y.state /\ z.open = y.open /\ z.terminated = y.terminated
      /\ z.failed = y.failed /\ z.subscriber = y.subscriber /\ z.allowance = y.allowance
      /\ z.pendingAllowance = y.pendingAllowance
      /\ z.initialResponseAllowance = y.initialResponseAllowance
      /\ z.subscription = y.subscription /\ z.initialRequestN = y.initialRequestN
      /\ z.requests = y.requests /\ z.received = y.received /\ z.terminal = y.terminal
      /\ z.gaveUp = y.gaveUp /\ z.sent = y.sent /\ z.surplus = y.surplus
      /\ z.subscribed = y.subscribed /\ z.credit = y.credit
      /\ z.cancelled = y.cancelled /\ z.done = y.done
      /\ z.granted = y.granted /\ z.emitted = y.emitted
  BY <1>1, <1>2 DEF AutomatonSet
<1>5. z.out = << >>
  BY <1>1, <1>2 DEF AutomatonSet
<1>6. Shape(role, z)
  BY <1>4, Zenon DEF Local, Shape
<1>7. Publishing(k, z)
  BY <1>4, Zenon DEF Local, Publishing
<1>8. Consuming(k, role, z)
  BY <1>4, Zenon DEF Local, Consuming
<1>9. Accounts(z)
  BY <1>4, Zenon DEF Local, Accounts, OwnRequest
<1>10. Checked(k, role, z)
  BY <1>4, Zenon DEF Local, Checked
<1> QED BY <1>1, <1>3, <1>4, <1>5, <1>6, <1>7, <1>8, <1>9, <1>10, Zenon DEF Local

(* There are two ends, each the peer of the other.                         *)
LEMMA PeerIs ==
    ASSUME NEW role \in Roles
    PROVE  /\ Peer(role) \in Roles /\ Peer(Peer(role)) = role /\ Peer(role) # role
           /\ \A other \in Roles : other = role \/ other = Peer(role)
           /\ role = "requester" <=> Peer(role) = "responder"
           /\ role = "responder" <=> Peer(role) = "requester"
BY DEF Roles, Peer

(* What Local says of the types of one end.                                *)
LEMMA LocalTypes ==
    ASSUME NEW k, NEW role \in Roles, NEW x, Local(k, role, x)
    PROVE  /\ x \in AutomatonSet
           /\ x.state \in StatesOf(role)
           /\ x.open = (x.state \notin {"NONE", "CLOSED"})
           /\ Len(x.received) \in Nat /\ x.granted \in Nat /\ x.emitted \in Nat
           /\ x.sent \in Nat /\ x.initialRequestN \in 0..SizeMax
           /\ x.allowance \in 0..SizeMax /\ x.pendingAllowance \in 0..SizeMax
           /\ x.out \in Seq(FrameSet) /\ x.open \in BOOLEAN
           /\ x.received \in Seq(Nat)
<1>1. x \in AutomatonSet /\ Shape(role, x)
  BY DEF Local
<1>2. x.received \in Seq(Nat) /\ x.out \in Seq(FrameSet)
  BY <1>1 DEF AutomatonSet
<1> QED BY <1>1, <1>2 DEF AutomatonSet, Shape

(***************************************************************************)
(* The step keeps the direction towards this end.                          *)
(***************************************************************************)
LEMMA TakesIn ==
    ASSUME NEW k, NEW role \in Roles, NEW x, NEW y, NEW r \in Nat, NEW g \in Nat,
           NEW whole, NEW a, NEW v,
           Local(k, role, x), Local(k, Peer(role), a),
           Effect(k, role, x, y, r, g, whole), Facing(k, role, x, y, r, g, whole, a, v)
    PROVE  Towards(k, role, y, a, v)
<1>1. /\ y.state # "NONE"
      /\ y.state # "CLOSED" => x.state # "CLOSED"
      /\ Len(y.received) <= r
      /\ y.state # "CLOSED" => Len(y.received) = r
      /\ FlowsTo(k, role) => y.granted <= g /\ (y.state # "CLOSED" => y.granted = g)
      /\ x.open /\ y.open /\ x.allowance = SizeMax => y.allowance = SizeMax
  BY DEF Effect
<1>2. Local(k, role, y)
  BY DEF Effect
<1>3. /\ Len(y.received) \in Nat /\ y.granted \in Nat
      /\ y.state \in StatesOf(role) /\ y.open = (y.state \notin {"NONE", "CLOSED"})
  BY <1>2, LocalTypes
<1>4. x.open = (x.state \notin {"NONE", "CLOSED"}) /\ x.state \in StatesOf(role)
  BY LocalTypes
<1>5. a.emitted \in Nat /\ a.sent \in Nat
  BY LocalTypes, PeerIs
<1>6. FramesFit(k, role, y, a, v)
  <2>1. CASE role = "requester"
    <3>1. y.state = "NEW" => x.state = "NEW"
      BY <2>1 DEF Effect, Written
    <3> QED BY <1>1, <2>1, <3>1 DEF Facing, FramesFit
  <2>2. CASE role # "requester"
    BY <1>1, <2>2 DEF Facing, FramesFit
  <2> QED BY <2>1, <2>2
<1>7. y.state # "CLOSED" =>
          /\ Payloads(v, Len(y.received), a.emitted)
          /\ \A i \in 1..Len(v) : Final(k, v[i]) => i = Len(v) /\ a.state = "CLOSED"
  BY <1>1 DEF Facing
<1>8. Len(y.received) <= a.emitted
  BY <1>1, <1>3, <1>5 DEF Facing
<1>9. FlowsTo(k, role) =>
          /\ y.state # "CLOSED" => Credits(v, y.granted, a.sent)
          /\ y.granted <= a.sent
  <2>1. ASSUME FlowsTo(k, role) PROVE g <= a.sent
    BY <2>1 DEF Facing
  <2> QED BY <1>1, <1>3, <1>5, <2>1 DEF Facing
<1>10. k # "response" /\ y.open /\ a.initialRequestN = SizeMax => y.allowance = SizeMax
  <2> SUFFICES ASSUME k # "response", y.open, a.initialRequestN = SizeMax
               PROVE  y.allowance = SizeMax
    OBVIOUS
  <2>1. x.state # "CLOSED"
    BY <1>1, <1>3
  <2>2. x.open /\ x.allowance = SizeMax
    BY <2>1 DEF Facing
  <2> QED BY <1>1, <2>2
<1> QED BY <1>6, <1>7, <1>8, <1>9, <1>10 DEF Towards, TowardsFrom, Facing, FlowsTo

(* Frames of permitted types written after others.                         *)
LEMMA AllInJoin ==
    ASSUME NEW v \in Seq(FrameSet), NEW w \in Seq(FrameSet), NEW from \in Nat, NEW types,
           AllIn(v, from, types), AllIn(w, 1, types)
    PROVE  AllIn(v \o w, from, types)
<1> SUFFICES ASSUME NEW i \in 1..Len(v \o w), i >= from PROVE (v \o w)[i].type \in types
  BY DEF AllIn
<1>1. PICK m \in Nat : m = Len(v)
  OBVIOUS
<1>2. i \in Nat
  BY Joined
<1>3. CASE i <= m
  <2>1. i \in 1..m
    BY <1>2, <1>3
  <2> QED BY <1>1, <2>1, Joined DEF AllIn
<1>4. CASE i > m
  <2>1. PICK j : j = i - m
    OBVIOUS
  <2>2. j \in 1..Len(w) /\ (v \o w)[i] = w[j]
    BY <1>1, <1>4, <2>1, Joined
  <2> QED BY <2>2 DEF AllIn
<1> QED BY <1>2, <1>3, <1>4

(***************************************************************************)
(* The step keeps the direction towards the other end, to which what it    *)
(* writes is appended.                                                     *)
(***************************************************************************)
LEMMA PutsOut ==
    ASSUME NEW k, NEW role \in Roles, NEW x, NEW y, NEW r \in Nat, NEW g \in Nat,
           NEW whole, NEW a, NEW w,
           Local(k, role, x), Local(k, Peer(role), a),
           Effect(k, role, x, y, r, g, whole),
           Towards(k, Peer(role), a, x, w),
           role = "responder" => a.state # "NEW",
           FlowsTo(k, role) => g <= a.sent
    PROVE  Towards(k, Peer(role), a, y, w \o y.out)
<1>1. PICK u : u = w \o y.out
  OBVIOUS
<1>2. Local(k, role, y)
  BY DEF Effect
<1>3. w \in Seq(FrameSet) /\ y.out \in Seq(FrameSet)
  BY <1>2, LocalTypes DEF Towards, TowardsFrom
<1>4. /\ u \in Seq(FrameSet)
      /\ Len(u) = Len(w) + Len(y.out)
      /\ \A i \in 1..Len(w) : u[i] = w[i]
      /\ \A i \in 1..Len(u) : i > Len(w) => /\ i - Len(w) \in 1..Len(y.out)
                                            /\ u[i] = y.out[i - Len(w)]
  BY <1>1, <1>3, Joined
<1>5. PICK m \in Nat : m = Len(w)
  BY <1>3
<1>6. PICK n \in Nat : n = Len(y.out)
  BY <1>3
<1>7. /\ Len(a.received) \in Nat /\ a.granted \in Nat /\ a.sent \in Nat
      /\ a.state \in StatesOf(Peer(role)) /\ a.open = (a.state \notin {"NONE", "CLOSED"})
      /\ a.allowance \in 0..SizeMax /\ a.pendingAllowance \in 0..SizeMax
  BY LocalTypes, PeerIs
<1>8. /\ x.state \in StatesOf(role) /\ y.state \in StatesOf(role)
      /\ x.emitted \in Nat /\ y.emitted \in Nat /\ x.sent \in Nat /\ y.sent \in Nat
      /\ y.granted \in Nat
  BY <1>2, LocalTypes
<1>9. x.state = "CLOSED" => y.state = "CLOSED" /\ y.out = << >>
  BY DEF Effect
<1>10. FramesFit(k, Peer(role), a, y, u)
  <2>1. CASE role = "responder"
    <3>1. Peer(role) = "requester"
      BY <2>1, PeerIs
    <3>2. a.state # "NEW"
      BY <2>1
    <3>3. AllIn(y.out, 1, ToRequester(k))
      BY <2>1 DEF Effect, Written
    <3>4. a.state # "CLOSED" => AllIn(w, 1, ToRequester(k))
      BY <3>1 DEF Towards, TowardsFrom, FramesFit
    <3>5. a.state # "CLOSED" => AllIn(u, 1, ToRequester(k))
      BY <1>1, <1>3, <3>3, <3>4, AllInJoin
    <3> QED BY <3>1, <3>2, <3>5 DEF FramesFit
  <2>2. CASE role = "requester"
    <3>1. Peer(role) = "responder" /\ Peer(role) # "requester"
      BY <2>2, PeerIs
    <3>2. /\ a.state = "RESPONDING" => AllIn(w, 1, ToResponder(k))
          /\ a.state = "NONE" => /\ w # << >> => w[1].type = Opening(k)
                                 /\ AllIn(w, 2, ToResponder(k))
                                 /\ x.state = "REQUESTED" => w # << >>
          /\ x.state = "NEW" => a.state = "NONE" /\ w = << >>
      BY <3>1 DEF Towards, TowardsFrom, FramesFit
    <3>3. /\ x.state = "NEW" =>
               \/ y.out = << >> /\ y.state # "REQUESTED"
               \/ /\ y.out # << >> /\ y.state # "NEW"
                  /\ y.out[1].type = Opening(k)
                  /\ AllIn(y.out, 2, ToResponder(k))
          /\ x.state # "NEW" => y.state # "NEW" /\ AllIn(y.out, 1, ToResponder(k))
      BY <2>2 DEF Effect, Written
    <3>4. x.state \in {"NEW", "REQUESTED", "CLOSED"}
      BY <1>8, <2>2 DEF StatesOf
    <3>5. CASE x.state = "NEW"
      <4>1. u = y.out
        BY <1>1, <1>3, <3>2, <3>5
      <4>2. a.state = "NONE"
        BY <3>2, <3>5
      <4>3. CASE y.out = << >>
        <5>1. y.state # "REQUESTED" /\ AllIn(u, 2, ToResponder(k))
          BY <3>3, <3>5, <4>1, <4>3 DEF AllIn
        <5> QED BY <3>1, <4>1, <4>2, <4>3, <5>1 DEF FramesFit
      <4>4. CASE y.out # << >>
        BY <3>1, <3>3, <3>5, <4>1, <4>2, <4>4 DEF FramesFit
      <4> QED BY <4>3, <4>4
    <3>6. CASE x.state # "NEW"
      <4>1. AllIn(y.out, 1, ToResponder(k)) /\ y.state # "NEW"
        BY <3>3, <3>6
      <4>2. a.state = "RESPONDING" => AllIn(u, 1, ToResponder(k))
        BY <1>1, <1>3, <3>2, <4>1, AllInJoin
      <4>3. a.state = "NONE" => AllIn(u, 2, ToResponder(k)) \/ w = << >>
        BY <1>1, <1>3, <3>2, <4>1, AllInJoin
      <4>4. CASE w = << >> /\ a.state = "NONE"
        <5>1. x.state = "CLOSED"
          BY <3>2, <3>4, <3>6, <4>4
        <5>2. y.state = "CLOSED" /\ u = << >>
          BY <1>1, <1>9, <4>4, <5>1
        <5> QED BY <3>1, <4>4, <5>2 DEF FramesFit, AllIn
      <4>5. CASE w # << >> \/ a.state # "NONE"
        <5>1. a.state = "NONE" => u # << >> /\ u[1] = w[1]
          <6> SUFFICES ASSUME a.state = "NONE" PROVE u # << >> /\ u[1] = w[1]
            OBVIOUS
          <6>1. w # << >>
            BY <4>5
          <6>2. Len(w) > 0
            BY <1>3, <6>1
          <6>3. 1 \in 1..Len(w) /\ Len(u) > 0
            BY <1>3, <1>4, <6>2
          <6> QED BY <1>4, <6>3
        <5> QED BY <3>1, <3>2, <4>1, <4>2, <4>3, <4>5, <5>1 DEF FramesFit
      <4> QED BY <4>4, <4>5
    <3> QED BY <3>5, <3>6
  <2> QED BY <2>1, <2>2 DEF Roles
<1>11. /\ a.state # "CLOSED" => Payloads(w, Len(a.received), x.emitted)
       /\ a.state # "CLOSED" =>
             \A i \in 1..Len(w) : Final(k, w[i]) => i = Len(w) /\ x.state = "CLOSED"
       /\ Len(a.received) <= x.emitted
  BY DEF Towards, TowardsFrom
<1>12. Payloads(y.out, x.emitted, y.emitted)
  BY DEF Effect
<1>13. a.state # "CLOSED" => Payloads(u, Len(a.received), y.emitted)
  BY <1>1, <1>3, <1>11, <1>12, PayloadsJoin
<1>14. Len(a.received) <= y.emitted
  <2>1. x.emitted <= y.emitted
    BY <1>3, <1>12, PayloadsGrow
  <2> QED BY <1>7, <1>8, <1>11, <2>1
<1>15. ASSUME a.state # "CLOSED", NEW i \in 1..Len(u), Final(k, u[i])
       PROVE  i = Len(u) /\ y.state = "CLOSED"
  <2>1. Len(u) = m + n /\ i \in Nat /\ i >= 1 /\ i <= m + n
    BY <1>4, <1>5, <1>6
  <2>2. CASE i <= m
    <3>1. i \in 1..Len(w)
      BY <1>5, <2>1, <2>2
    <3>2. Final(k, w[i])
      BY <1>4, <1>15, <3>1
    <3>3. i = Len(w) /\ x.state = "CLOSED"
      BY <1>11, <1>15, <3>1, <3>2
    <3>4. y.out = << >> /\ y.state = "CLOSED"
      BY <1>9, <3>3
    <3>5. n = 0
      BY <1>6, <3>4
    <3> QED BY <1>5, <2>1, <3>3, <3>4, <3>5
  <2>3. CASE i > m
    <3>1. PICK j : j = i - m
      OBVIOUS
    <3>2. j \in 1..Len(y.out) /\ u[i] = y.out[j]
      BY <1>4, <1>5, <2>3, <3>1
    <3>3. Final(k, y.out[j])
      BY <1>15, <3>2
    <3>4. j = Len(y.out) /\ y.state = "CLOSED"
      BY <3>2, <3>3 DEF Effect
    <3> QED BY <1>5, <1>6, <2>1, <3>1, <3>4
  <2> QED BY <2>1, <2>2, <2>3
<1>16. FlowsTo(k, Peer(role)) =>
          /\ a.state # "CLOSED" => Credits(u, a.granted, y.sent)
          /\ a.granted <= y.sent
  <2> SUFFICES ASSUME FlowsTo(k, Peer(role))
               PROVE  /\ a.state # "CLOSED" => Credits(u, a.granted, y.sent)
                      /\ a.granted <= y.sent
    OBVIOUS
  <2>1. Credits(y.out, x.sent, y.sent)
    BY DEF Effect
  <2>2. /\ a.state # "CLOSED" => Credits(w, a.granted, x.sent)
        /\ a.granted <= x.sent
    BY DEF Towards, TowardsFrom, FlowsTo
  <2>3. a.state # "CLOSED" => Credits(u, a.granted, y.sent)
    BY <1>1, <1>3, <2>1, <2>2, CreditsJoin
  <2>4. x.sent <= y.sent
    BY <1>3, <2>1, CreditsGrow
  <2>5. a.granted <= y.sent
    BY <1>7, <1>8, <2>2, <2>4
  <2> QED BY <2>3, <2>5
<1>17. k # "response" /\ a.open /\ y.initialRequestN = SizeMax => a.allowance = SizeMax
  <2> SUFFICES ASSUME k # "response", a.open, y.initialRequestN = SizeMax
               PROVE  a.allowance = SizeMax
    OBVIOUS
  <2>1. CASE x.initialRequestN = SizeMax
    BY <2>1 DEF Towards, TowardsFrom
  <2>2. CASE x.initialRequestN # SizeMax
    <3>1. y.emitted = 0 /\ y.granted >= SizeMax
      BY <2>2 DEF Effect
    <3>2. FlowsTo(k, role)
      BY DEF FlowsTo
    <3>3. y.granted <= g /\ g <= a.sent
      BY <3>2 DEF Effect
    <3>4. a.sent >= SizeMax
      BY <1>7, <1>8, <3>1, <3>3, SizeMaxAssumption
    <3>5. Len(a.received) = 0
      BY <1>7, <1>14, <3>1
    <3>6. \/ a.allowance = SizeMax
          \/ a.allowance + Len(a.received) = a.pendingAllowance + a.sent
      BY DEF Local, Accounts
    <3> QED BY <1>7, <3>4, <3>5, <3>6, SizeMaxAssumption
  <2> QED BY <2>1, <2>2
<1>18. a.state # "CLOSED" =>
          /\ Payloads(u, Len(a.received), y.emitted)
          /\ \A i \in 1..Len(u) : Final(k, u[i]) => i = Len(u) /\ y.state = "CLOSED"
  BY <1>13, <1>15
<1>19. Towards(k, Peer(role), a, y, u)
  BY <1>4, <1>10, <1>14, <1>16, <1>17, <1>18 DEF Towards, TowardsFrom, FlowsTo
<1> QED BY <1>1, <1>19

(* Towards depends on these fields of the two ends only.                   *)
LEMMA TowardsAlike ==
    ASSUME NEW k, NEW role, NEW b, NEW c, NEW a, NEW d, NEW w, Towards(k, role, b, a, w),
           /\ c.state = b.state /\ c.open = b.open /\ c.received = b.received
           /\ c.granted = b.granted /\ c.allowance = b.allowance,
           /\ d.state = a.state /\ d.emitted = a.emitted /\ d.sent = a.sent
           /\ d.initialRequestN = a.initialRequestN
    PROVE  Towards(k, role, c, d, w)
<1>1. FramesFit(k, role, c, d, w)
  BY Zenon DEF Towards, TowardsFrom, FramesFit
<1> QED BY <1>1, Zenon DEF Towards, TowardsFrom

(***************************************************************************)
(* A stream that is complete for the requester stays complete.             *)
(***************************************************************************)
LEMMA StaysWhole ==
    ASSUME NEW k, NEW role \in Roles, NEW x, NEW y, NEW r \in Nat, NEW g \in Nat,
           NEW whole, NEW a, NEW v,
           Local(k, role, x),
           Effect(k, role, x, y, r, g, whole), Facing(k, role, x, y, r, g, whole, a, v)
    PROVE  /\ role = "requester" => (Whole(k, x, a) => Whole(k, y, a))
           /\ role = "responder" => (Whole(k, a, x) => Whole(k, a, y))
<1>1. ASSUME role = "requester", Whole(k, x, a), k # "channel", Told(y)
      PROVE  a.state = "CLOSED" /\ Len(y.received) = a.emitted
  <2>1. CASE Told(x)
    <3>1. x.terminal = <<"onComplete">>
      BY <2>1 DEF Told
    <3>2. Len(x.terminal) = 1
      BY <3>1
    <3>3. x.state = "CLOSED"
      BY <1>1, <3>2 DEF Local, Consuming, IsConsumer
    <3>4. y.received = x.received
      BY <3>3 DEF Effect
    <3> QED BY <1>1, <2>1, <3>4 DEF Whole
  <2>2. CASE whole = "whole" /\ Len(y.received) = r
    BY <2>2 DEF Facing
  <2> QED BY <1>1, <2>1, <2>2 DEF Effect
<1>2. ASSUME role = "responder", Whole(k, a, x), k # "channel", Told(a)
      PROVE  y.state = "CLOSED" /\ Len(a.received) = y.emitted
  <2>1. x.state = "CLOSED" /\ Len(a.received) = x.emitted
    BY <1>2 DEF Whole
  <2>2. y.state = "CLOSED" /\ y.out = << >> /\ Payloads(y.out, x.emitted, y.emitted)
    BY <2>1 DEF Effect
  <2>3. x.emitted \in Nat
    BY LocalTypes
  <2>4. y.emitted = x.emitted
    BY <2>2, <2>3, PayloadsNone
  <2> QED BY <2>1, <2>2, <2>4
<1> QED BY <1>1, <1>2 DEF Whole

(***************************************************************************)
(* Every step of one end with such an effect preserves the invariant.      *)
(***************************************************************************)
LEMMA Advance ==
    ASSUME IInv, NEW role \in Roles, NEW x, x = automaton[role],
           NEW a, a = automaton[Peer(role)],
           NEW y, NEW r \in Nat, NEW g \in Nat, NEW whole, NEW v,
           Effect(kind, role, x, y, r, g, whole),
           Facing(kind, role, x, y, r, g, whole, a, v),
           kind' = kind,
           automaton' = [automaton EXCEPT ![role] = [y EXCEPT !.out = << >>]],
           DOMAIN wire' = Roles, wire'[role] = v,
           wire'[Peer(role)] = wire[Peer(role)] \o y.out,
           up' \subseteq up, up \ {role} \subseteq up', role \notin up' => ~y.open
    PROVE  IInv'
<1>1. PICK z : z = [y EXCEPT !.out = << >>]
  OBVIOUS
<1>2. PICK p : p = Peer(role)
  OBVIOUS
<1>3. p \in Roles /\ p # role /\ Peer(p) = role /\ \A other \in Roles : other = role \/ other = p
  BY <1>2, PeerIs
<1>4. /\ Local(kind, role, x) /\ Local(kind, p, a)
      /\ a.out = << >>
      /\ Towards(kind, p, a, x, wire[p])
      /\ p \notin up => ~a.open
  BY <1>2, <1>3 DEF IInv
<1>5. Local(kind, role, y) /\ y.state # "NONE"
  BY DEF Effect
<1>6. /\ Local(kind, role, z)
      /\ z.out = << >>
      /\ z.state = y.state /\ z.open = y.open
      /\ z.allowance = y.allowance /\ z.initialRequestN = y.initialRequestN
      /\ z.received = y.received /\ z.terminal = y.terminal
      /\ z.gaveUp = y.gaveUp /\ z.sent = y.sent
      /\ z.granted = y.granted /\ z.emitted = y.emitted
  BY <1>1, <1>5, Cleared
<1>7. Towards(kind, role, z, a, v)
  <2>1. Towards(kind, role, y, a, v)
    BY <1>2, <1>4, TakesIn
  <2> QED BY <1>6, <2>1, TowardsAlike
<1>8. Towards(kind, p, a, z, wire[p] \o y.out)
  <2>1. role = "responder" => a.state # "NEW"
    BY DEF Facing
  <2>2. FlowsTo(kind, role) => g <= a.sent
    BY DEF Facing
  <2>3. Towards(kind, Peer(role), a, y, wire[p] \o y.out)
    BY <1>2, <1>4, <2>1, <2>2, PutsOut
  <2> QED BY <1>2, <1>6, <2>3, TowardsAlike
<1>9. z \in AutomatonSet /\ a \in AutomatonSet
  BY <1>4, <1>6 DEF Local
<1>10. automaton' = [automaton EXCEPT ![role] = z] /\ automaton \in [Roles -> AutomatonSet]
  BY <1>1 DEF IInv
<1>11. /\ automaton' \in [Roles -> AutomatonSet]
       /\ automaton'[role] = z /\ automaton'[p] = a
  BY <1>2, <1>3, <1>9, <1>10
<1>12. /\ Whole(kind, x, a) /\ role = "requester" => Whole(kind, z, a)
       /\ Whole(kind, a, x) /\ role = "responder" => Whole(kind, a, z)
  <2>1. /\ Whole(kind, x, a) /\ role = "requester" => Whole(kind, y, a)
        /\ Whole(kind, a, x) /\ role = "responder" => Whole(kind, a, y)
    BY <1>4, StaysWhole
  <2> QED BY <1>6, <2>1, Zenon DEF Whole, Told
<1>13. Whole(kind, automaton'["requester"], automaton'["responder"])
  <2>1. CASE role = "requester"
    <3>1. p = "responder"
      BY <1>2, <2>1, PeerIs
    <3> QED BY <1>2, <1>11, <1>12, <2>1, <3>1 DEF IInv
  <2>2. CASE role = "responder"
    <3>1. p = "requester"
      BY <1>2, <2>2, PeerIs
    <3> QED BY <1>2, <1>11, <1>12, <2>2, <3>1 DEF IInv
  <2> QED BY <2>1, <2>2 DEF Roles
<1>14. kind \in Kinds /\ up \subseteq Roles
  BY DEF IInv
<1>15. up' \subseteq Roles
  BY <1>14
<1>16. /\ Local(kind, role, automaton'[role]) /\ automaton'[role].out = << >>
       /\ Towards(kind, role, automaton'[role], automaton'[Peer(role)], wire'[role])
       /\ role \notin up' => ~automaton'[role].open
  BY <1>2, <1>6, <1>7, <1>11
<1>17. /\ Local(kind, p, automaton'[p]) /\ automaton'[p].out = << >>
       /\ Towards(kind, p, automaton'[p], automaton'[Peer(p)], wire'[p])
       /\ p \notin up' => ~automaton'[p].open
  BY <1>2, <1>3, <1>4, <1>8, <1>11
<1>18. \A other \in Roles :
          /\ Local(kind, other, automaton'[other]) /\ automaton'[other].out = << >>
          /\ Towards(kind, other, automaton'[other], automaton'[Peer(other)], wire'[other])
          /\ other \notin up' => ~automaton'[other].open
  BY <1>3, <1>16, <1>17, Zenon
<1> QED BY <1>11, <1>13, <1>14, <1>15, <1>18, Zenon DEF IInv

-----------------------------------------------------------------------------
(* Steps and arriving frames                                               *)

(***************************************************************************)
(* The step of an application: nothing arrives.                            *)
(***************************************************************************)
LEMMA StepKeeps ==
    ASSUME IInv, NEW role \in Roles, NEW x, x = automaton[role], x.state # "NONE",
           NEW y, Effect(kind, role, x, y, Len(x.received), x.granted, "part"),
           Step(role, y), kind' = kind
    PROVE  IInv'
<1>1. PICK a : a = automaton[Peer(role)]
  OBVIOUS
<1>2. PICK v : v = wire[role]
  OBVIOUS
<1>3. /\ Local(kind, role, x) /\ Towards(kind, role, x, a, v)
      /\ role \notin up => ~x.open
      /\ up \subseteq Roles
  BY <1>1, <1>2 DEF IInv
<1>4. /\ Len(x.received) \in Nat /\ x.granted \in Nat
      /\ x.state \in StatesOf(role) /\ x.open = (x.state \notin {"NONE", "CLOSED"})
  BY <1>3, LocalTypes
<1>5. x.state = "CLOSED" => y.state = "CLOSED" /\ y.out = << >>
  BY DEF Effect
<1>6. Local(kind, role, y)
  BY DEF Effect
<1>7. y.state \in StatesOf(role) /\ y.open = (y.state \notin {"NONE", "CLOSED"})
      /\ y.out \in Seq(FrameSet)
  BY <1>6, LocalTypes
<1>8. Facing(kind, role, x, y, Len(x.received), x.granted, "part", a, v)
  <2>1. IF role = "requester"
        THEN /\ x.state # "CLOSED" => AllIn(v, 1, ToRequester(kind))
             /\ x.state = "NEW" => v = << >>
        ELSE /\ y.state = "RESPONDING" => AllIn(v, 1, ToResponder(kind))
             /\ a.state # "NEW"
    <3>1. CASE role = "requester"
      BY <1>3, <3>1 DEF Towards, TowardsFrom, FramesFit
    <3>2. CASE role # "requester"
      <4>1. y.state = "RESPONDING" => x.state = "RESPONDING"
        BY <1>4, <1>5, <3>2 DEF StatesOf
      <4> QED BY <1>3, <3>2, <4>1 DEF Towards, TowardsFrom, FramesFit
    <3> QED BY <3>1, <3>2
  <2> QED BY <1>3, <1>4, <2>1 DEF Facing, Towards, TowardsFrom, FlowsTo
<1>9. /\ kind \in Kinds /\ DOMAIN wire = Roles
      /\ wire[Peer(role)] \in Seq(FrameSet)
  BY PeerIs DEF IInv, Towards, TowardsFrom
<1>10. /\ automaton' = [automaton EXCEPT ![role] = [y EXCEPT !.out = << >>]]
       /\ up' = up
       /\ role \in up => wire' = [wire EXCEPT ![Peer(role)] = @ \o y.out]
       /\ role \notin up => wire' = wire
  BY DEF Step
<1>11. DOMAIN wire' = Roles /\ wire'[role] = v /\ wire'[Peer(role)] = wire[Peer(role)] \o y.out
  <2>1. CASE role \in up
    BY <1>2, <1>9, <1>10, <2>1, PeerIs
  <2>2. CASE role \notin up
    <3>1. x.state = "CLOSED"
      BY <1>3, <1>4, <2>2
    <3>2. y.out = << >>
      BY <1>5, <3>1
    <3> QED BY <1>2, <1>9, <1>10, <2>2, <3>2
  <2> QED BY <2>1, <2>2
<1>12. role \notin up' => ~y.open
  BY <1>3, <1>4, <1>5, <1>7, <1>10
<1> QED BY <1>1, <1>4, <1>8, <1>10, <1>11, <1>12, Advance

(***************************************************************************)
(* A frame arrives at an end that has not closed: it is one that may come  *)
(* now, a payload is the next one and was asked for.                       *)
(***************************************************************************)
Arrival(k, role, x, f) ==
    /\ f \in FrameSet
    /\ role = "requester" => x.state = "REQUESTED" /\ f.type \in ToRequester(k)
    /\ role = "responder" => \/ x.state = "NONE" /\ f.type = Opening(k)
                             \/ x.state = "RESPONDING" /\ f.type \in ToResponder(k)
    /\ f.type = "PAYLOAD" => /\ f.n = Len(x.received) + 1
                             /\ k # "response" => x.allowance >= 1

(* A frame that arrives is one the automaton expects: the request opens a  *)
(* stream, a payload has the next number and is covered by the allowance.  *)
LEMMA ArrivalFits ==
    ASSUME IInv, NEW role \in Roles, Arrives(role), NEW x, x = automaton[role],
           x.state # "CLOSED"
    PROVE  Arrival(kind, role, x, Arriving(role))
<1>1. PICK a : a = automaton[Peer(role)]
  OBVIOUS
<1>2. PICK w : w = wire[role]
  OBVIOUS
<1>3. PICK f : f = Arriving(role)
  OBVIOUS
<1>4. /\ Local(kind, role, x) /\ Towards(kind, role, x, a, w)
      /\ Local(kind, Peer(role), a) /\ Towards(kind, Peer(role), a, x, wire[Peer(role)])
  BY <1>1, <1>2, PeerIs DEF IInv
<1>5. w \in Seq(FrameSet) /\ w # << >>
  BY <1>2, <1>4 DEF Towards, TowardsFrom, Arrives
<1>6. f = w[1] /\ f \in FrameSet /\ Len(w) \in Nat \ {0}
  BY <1>2, <1>3, <1>5, Shortened DEF Arriving
<1>7. x.state \in StatesOf(role)
  BY <1>4, LocalTypes
<1>8. FramesFit(kind, role, x, a, w)
  BY <1>4 DEF Towards, TowardsFrom
<1>9. role = "requester" => x.state = "REQUESTED" /\ f.type \in ToRequester(kind)
  <2> SUFFICES ASSUME role = "requester"
               PROVE  x.state = "REQUESTED" /\ f.type \in ToRequester(kind)
    OBVIOUS
  <2>1. x.state = "REQUESTED"
    BY <1>5, <1>7, <1>8 DEF StatesOf, FramesFit
  <2>2. 1 \in 1..Len(w) /\ 1 >= 1
    BY <1>6
  <2> QED BY <1>6, <1>8, <2>1, <2>2 DEF FramesFit, AllIn
<1>10. role = "responder" => \/ x.state = "NONE" /\ f.type = Opening(kind)
                             \/ x.state = "RESPONDING" /\ f.type \in ToResponder(kind)
  <2> SUFFICES ASSUME role = "responder"
               PROVE  \/ x.state = "NONE" /\ f.type = Opening(kind)
                      \/ x.state = "RESPONDING" /\ f.type \in ToResponder(kind)
    OBVIOUS
  <2>1. x.state = "NONE" \/ x.state = "RESPONDING"
    BY <1>7 DEF StatesOf
  <2>2. 1 \in 1..Len(w) /\ 1 >= 1
    BY <1>6
  <2> QED BY <1>5, <1>6, <1>8, <2>1, <2>2 DEF FramesFit, AllIn
<1>11. ASSUME f.type = "PAYLOAD"
       PROVE  f.n = Len(x.received) + 1 /\ (kind # "response" => x.allowance >= 1)
  <2>1. Payloads(w, Len(x.received), a.emitted)
    BY <1>4 DEF Towards, TowardsFrom
  <2>2. f.n = Len(x.received) + 1
    BY <1>5, <1>6, <1>11, <2>1, PayloadsTail
  <2>3. Payloads(Tail(w), Len(x.received) + 1, a.emitted)
    BY <1>5, <1>6, <1>11, <2>1, PayloadsTail DEF TakesP
  <2>4. Len(x.received) + 1 <= a.emitted
    BY <1>5, <2>3, PayloadsGrow, Shortened
  <2>5. ASSUME kind # "response" PROVE x.allowance >= 1
    <3>1. x.open
      BY <1>7, <1>9, <1>10, <1>11, <1>4, LocalTypes DEF Opening, IInv, Kinds, Roles
    <3>2. /\ Len(x.received) \in Nat /\ x.sent \in Nat /\ x.allowance \in 0..SizeMax
          /\ x.pendingAllowance \in 0..SizeMax
      BY <1>4, LocalTypes
    <3>3. a.emitted \in Nat /\ a.granted \in Nat
      BY <1>4, PeerIs, LocalTypes
    <3>4. a.granted <= x.sent
      BY <1>4, <2>5 DEF Towards, TowardsFrom
    <3>5. SizeMax >= 1 /\ SizeMax \in Nat
      BY MaxRequestNAssumption, SizeMaxAssumption
    <3>6. CASE a.initialRequestN = SizeMax
      <4>1. x.allowance = SizeMax
        BY <1>4, <2>5, <3>1, <3>6 DEF Towards, TowardsFrom
      <4> QED BY <3>5, <4>1
    <3>7. CASE a.initialRequestN # SizeMax
      <4>1. a.emitted <= a.granted
        BY <1>4, <3>7 DEF Local, Accounts
      <4>2. \/ x.allowance = SizeMax
            \/ x.allowance + Len(x.received) = x.pendingAllowance + x.sent
        BY <1>4, <3>1 DEF Local, Accounts
      <4> QED BY <2>4, <3>2, <3>3, <3>4, <3>5, <4>1, <4>2
    <3> QED BY <3>6, <3>7
  <2> QED BY <2>2, <2>5
<1>12. Arrival(kind, role, x, f)
  BY <1>6, <1>9, <1>10, <1>11 DEF Arrival
<1> QED BY <1>3, <1>12

(***************************************************************************)
(* The frame is taken, by an end that has not closed.                      *)
(***************************************************************************)
LEMMA ReceiveKeeps ==
    ASSUME IInv, NEW role \in Roles, Arrives(role), NEW x, x = automaton[role],
           x.state # "CLOSED", NEW f, f = Arriving(role),
           NEW y, Effect(kind, role, x, y, TakesP(f, Len(x.received)),
                         TakesC(f, x.granted), Ending(kind, f)),
           ReceiveStep(role, y), kind' = kind
    PROVE  IInv'
<1>1. PICK a : a = automaton[Peer(role)]
  OBVIOUS
<1>2. PICK w : w = wire[role]
  OBVIOUS
<1>3. PICK v : v = Tail(w)
  OBVIOUS
<1>4. /\ Local(kind, role, x) /\ Towards(kind, role, x, a, w)
      /\ Local(kind, Peer(role), a) /\ Towards(kind, Peer(role), a, x, wire[Peer(role)])
      /\ kind \in Kinds /\ DOMAIN wire = Roles
  BY <1>1, <1>2, PeerIs DEF IInv
<1>5. w \in Seq(FrameSet) /\ w # << >>
  BY <1>2, <1>4 DEF Towards, TowardsFrom, Arrives
<1>6. /\ f = w[1] /\ f \in FrameSet /\ Len(w) \in Nat \ {0}
      /\ v \in Seq(FrameSet) /\ Len(v) = Len(w) - 1
      /\ \A i \in 1..Len(v) : i + 1 \in 2..Len(w) /\ v[i] = w[i + 1]
  BY <1>2, <1>3, <1>5, Shortened DEF Arriving
<1>7. PICK r : r = TakesP(f, Len(x.received))
  OBVIOUS
<1>8. PICK g : g = TakesC(f, x.granted)
  OBVIOUS
<1>9. PICK whole : whole = Ending(kind, f)
  OBVIOUS
<1>10. /\ Len(x.received) \in Nat /\ x.granted \in Nat
       /\ x.state \in StatesOf(role) /\ x.open = (x.state \notin {"NONE", "CLOSED"})
  BY <1>4, LocalTypes
<1>11. f.n \in Nat
  BY <1>6 DEF FrameSet
<1>12. r \in Nat /\ g \in Nat
  BY <1>7, <1>8, <1>10, <1>11 DEF TakesP, TakesC
<1>13. /\ FramesFit(kind, role, x, a, w)
       /\ Payloads(w, Len(x.received), a.emitted)
       /\ \A i \in 1..Len(w) : Final(kind, w[i]) => i = Len(w) /\ a.state = "CLOSED"
       /\ FlowsTo(kind, role) => Credits(w, x.granted, a.sent)
       /\ kind # "response" /\ x.open /\ a.initialRequestN = SizeMax => x.allowance = SizeMax
  BY <1>4 DEF Towards, TowardsFrom, FlowsTo
<1>14. Payloads(v, r, a.emitted)
  BY <1>3, <1>5, <1>6, <1>7, <1>13, PayloadsTail
<1>15. FlowsTo(kind, role) => Credits(v, g, a.sent)
  BY <1>3, <1>5, <1>6, <1>8, <1>13, CreditsTail
<1>16. r <= a.emitted
  BY <1>6, <1>14, PayloadsGrow
<1>17. FlowsTo(kind, role) => g <= a.sent
  BY <1>6, <1>15, CreditsGrow
<1>18. ASSUME NEW i \in 1..Len(v), Final(kind, v[i])
       PROVE  i = Len(v) /\ a.state = "CLOSED"
  <2>1. i + 1 \in 1..Len(w) /\ Final(kind, w[i + 1])
    BY <1>6, <1>18
  <2>2. i + 1 = Len(w) /\ a.state = "CLOSED"
    BY <1>13, <2>1
  <2> QED BY <1>6, <2>2
<1>19. ASSUME whole = "whole" PROVE a.state = "CLOSED" /\ r = a.emitted
  <2>1. 1 \in 1..Len(w) /\ Final(kind, w[1])
    BY <1>6, <1>9, <1>19 DEF Ending
  <2>2. 1 = Len(w) /\ a.state = "CLOSED"
    BY <1>13, <2>1
  <2>3. v = << >>
    <3>1. Len(v) = Len(w) - 1 /\ v \in Seq(FrameSet)
      BY <1>6
    <3>2. Len(w) = 1
      BY <2>2
    <3>3. Len(v) = 0
      BY <3>1, <3>2
    <3> QED BY <3>1, <3>3
  <2> QED BY <1>12, <1>14, <2>2, <2>3, PayloadsNone
<1>20. ASSUME NEW types, AllIn(w, 2, types) PROVE AllIn(v, 1, types)
  <2> SUFFICES ASSUME NEW i \in 1..Len(v) PROVE v[i].type \in types
    BY DEF AllIn
  <2>1. i + 1 \in 1..Len(w) /\ i + 1 >= 2 /\ v[i] = w[i + 1]
    BY <1>6
  <2> QED BY <1>20, <2>1 DEF AllIn
<1>21. ASSUME NEW types, AllIn(w, 1, types) PROVE AllIn(v, 1, types)
  <2> SUFFICES ASSUME NEW i \in 1..Len(v) PROVE v[i].type \in types
    BY DEF AllIn
  <2>1. i + 1 \in 1..Len(w) /\ i + 1 >= 1 /\ v[i] = w[i + 1]
    BY <1>6
  <2> QED BY <1>21, <2>1 DEF AllIn
<1>22. Facing(kind, role, x, y, r, g, whole, a, v)
  <2>1. IF role = "requester"
        THEN /\ x.state # "CLOSED" => AllIn(v, 1, ToRequester(kind))
             /\ x.state = "NEW" => v = << >>
        ELSE /\ y.state = "RESPONDING" => AllIn(v, 1, ToResponder(kind))
             /\ a.state # "NEW"
    <3>1. CASE role = "requester"
      <4>1. AllIn(w, 1, ToRequester(kind)) /\ x.state # "NEW"
        BY <1>5, <1>13, <3>1 DEF FramesFit
      <4> QED BY <1>21, <3>1, <4>1
    <3>2. CASE role # "requester"
      <4>1. x.state = "RESPONDING" \/ x.state = "NONE"
        BY <1>10, <3>2 DEF StatesOf
      <4>2. AllIn(w, 1, ToResponder(kind)) \/ AllIn(w, 2, ToResponder(kind))
        BY <1>13, <3>2, <4>1 DEF FramesFit
      <4>3. a.state # "NEW"
        BY <1>5, <1>13, <3>2 DEF FramesFit
      <4> QED BY <1>20, <1>21, <3>2, <4>2, <4>3
    <3> QED BY <3>1, <3>2
  <2>2. kind # "response" /\ ~x.open /\ x.state # "CLOSED" => a.initialRequestN # SizeMax
    <3> SUFFICES ASSUME kind # "response", ~x.open, x.state # "CLOSED"
                 PROVE  a.initialRequestN # SizeMax
      OBVIOUS
    <3>1. x.state = "NONE"
      BY <1>10
    <3>2. x = NewAutomaton("NONE", FALSE)
      BY <1>4, <3>1 DEF Local, Shape
    <3>3. x.sent = 0
      BY <3>2 DEF NewAutomaton
    <3>4. a.granted <= x.sent /\ a.initialRequestN <= a.granted
      BY <1>4 DEF Towards, TowardsFrom, Local, Accounts
    <3>5. a.granted \in Nat /\ a.initialRequestN \in 0..SizeMax
      BY <1>4, PeerIs, LocalTypes
    <3> QED BY <3>3, <3>4, <3>5, MaxRequestNAssumption, SizeMaxAssumption
  <2>3. x.state # "CLOSED" =>
          /\ Payloads(v, r, a.emitted)
          /\ \A i \in 1..Len(v) : Final(kind, v[i]) => i = Len(v) /\ a.state = "CLOSED"
    BY <1>14, <1>18
  <2> QED BY <1>6, <1>13, <1>15, <1>16, <1>17, <1>19, <2>1, <2>2, <2>3 DEF Facing
<1>23. wire[Peer(role)] \in Seq(FrameSet)
  BY <1>4 DEF Towards, TowardsFrom
<1>24. /\ automaton' = [automaton EXCEPT ![role] = [y EXCEPT !.out = << >>]]
       /\ up' = up
       /\ wire' = [wire EXCEPT ![role] = Tail(@), ![Peer(role)] = @ \o y.out]
       /\ role \in up
  BY DEF ReceiveStep, Arrives
<1>25. DOMAIN wire' = Roles /\ wire'[role] = v /\ wire'[Peer(role)] = wire[Peer(role)] \o y.out
  BY <1>2, <1>3, <1>4, <1>24, PeerIs
<1>26. Effect(kind, role, x, y, r, g, whole)
  BY <1>7, <1>8, <1>9
<1>27. up' \subseteq up /\ up \ {role} \subseteq up' /\ (role \notin up' => ~y.open)
  BY <1>24
<1>28. automaton' = [automaton EXCEPT ![role] = [y EXCEPT !.out = << >>]]
  BY <1>24
<1> QED BY <1>1, <1>12, <1>22, <1>25, <1>26, <1>27, <1>28, Advance

(***************************************************************************)
(* An end may stay as it is.                                               *)
(***************************************************************************)
LEMMA NoEffect ==
    ASSUME NEW k, NEW role \in Roles, NEW x, Local(k, role, x), x.out = << >>,
           x.state # "NONE"
    PROVE  Effect(k, role, x, x, Len(x.received), x.granted, "part")
<1>1. /\ Len(x.received) \in Nat /\ x.granted \in Nat /\ x.emitted \in Nat /\ x.sent \in Nat
      /\ x.open \in BOOLEAN
  BY LocalTypes
<1>2. Payloads(x.out, x.emitted, x.emitted) /\ Credits(x.out, x.sent, x.sent)
  BY <1>1, PayloadsNone, CreditsNone
<1>3. Written(k, role, x, x)
  <2>1. Len(x.out) = 0
    OBVIOUS
  <2>2. \A types : AllIn(x.out, 1, types)
    BY <2>1 DEF AllIn
  <2> QED BY <2>2 DEF Written
<1>4. \A i \in 1..Len(x.out) : Final(k, x.out[i]) => i = Len(x.out) /\ x.state = "CLOSED"
  OBVIOUS
<1>5. Len(x.received) <= Len(x.received) /\ x.granted <= x.granted
  BY <1>1
<1> QED BY <1>2, <1>3, <1>4, <1>5, Zenon DEF Effect

(***************************************************************************)
(* The frame is dropped by an end that has closed.                         *)
(***************************************************************************)
LEMMA DropKeeps ==
    ASSUME IInv, NEW role \in Roles, Arrives(role), NEW x, x = automaton[role],
           x.state = "CLOSED", ReceiveStep(role, x), kind' = kind
    PROVE  IInv'
<1>1. PICK a : a = automaton[Peer(role)]
  OBVIOUS
<1>2. PICK w : w = wire[role]
  OBVIOUS
<1>3. PICK v : v = Tail(w)
  OBVIOUS
<1>4. /\ Local(kind, role, x) /\ Towards(kind, role, x, a, w) /\ x.out = << >>
      /\ Towards(kind, Peer(role), a, x, wire[Peer(role)])
      /\ kind \in Kinds /\ DOMAIN wire = Roles
  BY <1>1, <1>2, PeerIs DEF IInv
<1>5. w \in Seq(FrameSet) /\ w # << >>
  BY <1>2, <1>4 DEF Towards, TowardsFrom, Arrives
<1>6. v \in Seq(FrameSet)
  BY <1>3, <1>5, Shortened
<1>7. Effect(kind, role, x, x, Len(x.received), x.granted, "part")
  BY <1>4, NoEffect
<1>8. Len(x.received) \in Nat /\ x.granted \in Nat
      /\ x.open = (x.state \notin {"NONE", "CLOSED"})
  BY <1>4, LocalTypes
<1>9. Facing(kind, role, x, x, Len(x.received), x.granted, "part", a, v)
  <2>1. role # "requester" => a.state # "NEW"
    BY <1>4 DEF Towards, TowardsFrom, FramesFit
  <2> QED BY <1>4, <1>6, <1>8, <2>1 DEF Facing, Towards, TowardsFrom, FlowsTo
<1>10. /\ automaton' = [automaton EXCEPT ![role] = [x EXCEPT !.out = << >>]]
       /\ up' = up
       /\ wire' = [wire EXCEPT ![role] = Tail(@), ![Peer(role)] = @ \o x.out]
       /\ role \in up
  BY DEF ReceiveStep, Arrives
<1>11. DOMAIN wire' = Roles /\ wire'[role] = v /\ wire'[Peer(role)] = wire[Peer(role)] \o x.out
  BY <1>2, <1>3, <1>4, <1>10, PeerIs
<1> QED BY <1>1, <1>7, <1>8, <1>9, <1>10, <1>11, Advance

-----------------------------------------------------------------------------
(* The end of a stream at one end                                          *)

Signals == {"onComplete", "onError"}

TerminalOf(signal) == IF signal \in {"COMPLETE", "CANCEL"} THEN "onComplete" ELSE "onError"

Ended(x, failed, cancelled, terminal) ==
    [x EXCEPT !.open = FALSE, !.failed = failed, !.state = "CLOSED", !.terminated = TRUE,
              !.subscription = FALSE, !.cancelled = cancelled, !.subscriber = FALSE,
              !.terminal = terminal]

(* endStream keeps an automaton in its type.                               *)
LEMMA EndedType ==
    ASSUME NEW x \in AutomatonSet, NEW failed \in BOOLEAN, NEW cancelled \in BOOLEAN,
           NEW terminal \in Seq(Signals)
    PROVE  /\ Ended(x, failed, cancelled, terminal) \in AutomatonSet
           /\ [x EXCEPT !.open = FALSE, !.failed = failed, !.state = "CLOSED",
                        !.terminated = TRUE, !.subscription = FALSE,
                        !.cancelled = cancelled] \in AutomatonSet
<1>1. Ended(x, failed, cancelled, terminal) \in AutomatonSet
  BY DEF AutomatonSet, States, Ended, Signals
<1>2. [x EXCEPT !.open = FALSE, !.failed = failed, !.state = "CLOSED", !.terminated = TRUE,
                !.subscription = FALSE, !.cancelled = cancelled] \in AutomatonSet
  BY DEF AutomatonSet, States
<1> QED BY <1>1, <1>2

(***************************************************************************)
(* closeStream: a consumer that was not yet told is told the end.          *)
(***************************************************************************)
LEMMA CloseStreamEnds ==
    ASSUME NEW x \in AutomatonSet, x.open, NEW signal
    PROVE  \E failed, cancelled \in BOOLEAN, terminal \in Seq(Signals) :
              /\ CloseStream(x, signal) = Ended(x, failed, cancelled, terminal)
              /\ cancelled = (x.cancelled \/ x.subscription)
              /\ (x.failed = FALSE
                  /\ (x.state = "CLOSED" \/ signal \notin {"COMPLETE", "CANCEL"}))
                     => failed = FALSE
              /\ terminal = IF x.subscriber THEN Append(x.terminal, TerminalOf(signal))
                                            ELSE x.terminal
<1>1. PICK x1 : x1 = [x EXCEPT !.open = FALSE]
  BY Zenon
<1>2. PICK z \in BOOLEAN : z = (x1.failed \/ ~(x1.state = "CLOSED" \/ signal \notin {"COMPLETE", "CANCEL"}))
  BY Zenon
<1>3. PICK x2 : x2 = [x1 EXCEPT !.failed = z]
  BY Zenon
<1>4. PICK x3 : x3 = [x2 EXCEPT !.state = "CLOSED", !.terminated = TRUE]
  BY Zenon
<1>5. PICK c \in BOOLEAN : c = (x3.cancelled \/ x3.subscription)
  BY Zenon
<1>6. PICK x4 : x4 = [x3 EXCEPT !.subscription = FALSE, !.cancelled = c]
  BY Zenon
<1>7. PICK s : s = TerminalOf(signal)
  BY Zenon
<1>8. CloseStream(x, signal) = Notify(x4, s)
  BY <1>1, <1>2, <1>3, <1>4, <1>5, <1>6, <1>7, Zenon
     DEF CloseStream, EndStream, TerminatePublisher, Check, TerminalOf
<1>9. x1.failed = x.failed /\ x1.state = x.state
  BY <1>1 DEF AutomatonSet
<1>10. z \in BOOLEAN /\ c \in BOOLEAN
  BY <1>2, <1>5, Zenon
<1>11. x.failed = FALSE /\ (x.state = "CLOSED" \/ signal \notin {"COMPLETE", "CANCEL"})
          => z = FALSE
  BY <1>2, <1>9, Zenon
<1>12. x3.cancelled = x.cancelled /\ x3.subscription = x.subscription
  BY <1>1, <1>3, <1>4 DEF AutomatonSet
<1>13. c = (x.cancelled \/ x.subscription)
  BY <1>5, <1>12, Zenon
<1>14. PICK t : t = IF x.subscriber THEN Append(x.terminal, s) ELSE x.terminal
  BY Zenon
<1>15. x.terminal \in Seq(Signals) /\ s \in Signals
  BY <1>7 DEF AutomatonSet, Signals, TerminalOf
<1>16. t \in Seq(Signals)
  BY <1>14, <1>15
<1>17. x4 = [x EXCEPT !.open = FALSE, !.failed = z, !.state = "CLOSED", !.terminated = TRUE,
                     !.subscription = FALSE, !.cancelled = c]
  BY <1>1, <1>3, <1>4, <1>6 DEF AutomatonSet
<1>18. /\ x4.subscriber = x.subscriber /\ x4.terminal = x.terminal
       /\ x4 \in AutomatonSet
  <2>1. x4.subscriber = x.subscriber /\ x4.terminal = x.terminal
    BY <1>17 DEF AutomatonSet
  <2>4. x4 \in AutomatonSet
    BY <1>17, <1>16, EndedType
  <2> QED BY <2>1, <2>4
<1>19. Notify(x4, s) = Ended(x, z, c, t)
  <2>1. CASE x.subscriber = TRUE
    <3>1. t = Append(x.terminal, s)
      BY <1>14, <2>1
    <3>2. Notify(x4, s) = [x4 EXCEPT !.subscriber = FALSE, !.terminal = t]
      BY <1>18, <2>1, <3>1 DEF Notify, AutomatonSet
    <3> QED BY <1>17, <3>2 DEF Ended, AutomatonSet
  <2>2. CASE x.subscriber = FALSE
    <3>1. t = x.terminal
      BY <1>14, <2>2
    <3>2. x4 = [x4 EXCEPT !.subscriber = FALSE, !.terminal = t]
      BY <1>18, <2>2, <3>1 DEF AutomatonSet
    <3>3. Notify(x4, s) = [x4 EXCEPT !.subscriber = FALSE, !.terminal = t]
      BY <1>18, <2>2, <3>2 DEF Notify
    <3> QED BY <1>17, <3>3 DEF Ended, AutomatonSet
  <2> QED BY <2>1, <2>2 DEF AutomatonSet
<1>20. CloseStream(x, signal) = Ended(x, z, c, t)
  BY <1>8, <1>19
<1>21. t = IF x.subscriber THEN Append(x.terminal, TerminalOf(signal)) ELSE x.terminal
  BY <1>7, <1>14, Zenon
<1> QED BY <1>10, <1>11, <1>13, <1>16, <1>20, <1>21, Zenon

(***************************************************************************)
(* The automaton u that is about to be ended, in a step from x.            *)
(***************************************************************************)
Closable(k, x, u) ==
    /\ u \in AutomatonSet
    /\ u.open = TRUE
    /\ u.subscription = x.subscription /\ u.cancelled = x.cancelled
    /\ u.subscribed = x.subscribed
    /\ u.initialRequestN = x.initialRequestN /\ u.granted = x.granted /\ u.sent = x.sent
    /\ u.pendingAllowance = x.pendingAllowance
    /\ u.initialResponseAllowance = x.initialResponseAllowance
    /\ u.surplus = x.surplus
    /\ \/ u.subscriber = x.subscriber /\ u.terminal = x.terminal
       \/ u.subscriber = FALSE /\ x.subscriber = TRUE /\ u.terminal = <<"onError">>
    /\ x.subscribed = FALSE => u.credit = x.credit
    /\ k # "response" => u.requests = x.requests
    /\ x.failed = FALSE => u.failed = FALSE

(***************************************************************************)
(* What it has written, and what it has received.                          *)
(***************************************************************************)
Parting(k, role, x, u) ==
    \/ u.out = << >> /\ u.emitted = x.emitted
    \/ \E f \in FrameSet :
          /\ u.out = <<f>>
          /\ f.type \notin CreditTypes
          /\ role = "requester" => x.state # "NEW" /\ f.type \in ToResponder(k)
          /\ role = "responder" => f.type \in ToRequester(k)
          /\ u.emitted = TakesP(f, x.emitted)
          /\ f.type = "PAYLOAD" =>
                f.n = x.emitted + 1 /\ x.subscribed = TRUE /\ x.credit >= 1

Receipt(k, role, x, u, r) ==
    \/ u.received = x.received /\ Len(x.received) <= r
    \/ /\ k = "response" /\ role = "requester"
       /\ u.received = Append(x.received, Len(x.received) + 1)
       /\ r = Len(x.received) + 1

(* The frame an automaton writes as it ends is one its peer expects.       *)
LEMMA PartingFlows ==
    ASSUME NEW k, NEW role \in Roles, NEW x, NEW u,
           Local(k, role, x), x.open, Parting(k, role, x, u)
    PROVE  /\ Payloads(u.out, x.emitted, u.emitted)
           /\ Credits(u.out, x.sent, x.sent)
           /\ \A i \in 1..Len(u.out) : i = Len(u.out)
           /\ role = "requester" => /\ x.state = "NEW" => u.out = << >>
                                    /\ AllIn(u.out, 1, ToResponder(k))
           /\ role = "responder" => AllIn(u.out, 1, ToRequester(k))
           /\ u.emitted \in Nat
           /\ x.subscribed = FALSE => u.emitted = 0
           /\ x.initialRequestN = SizeMax \/ u.emitted <= x.granted
<1>1. /\ x.emitted \in Nat /\ x.sent \in Nat /\ x.granted \in Nat
      /\ x.initialRequestN \in 0..SizeMax
  BY LocalTypes
<1>2. x.subscribed \in BOOLEAN /\ x.credit \in Nat
  BY DEF Local, AutomatonSet
<1>3. /\ x.subscribed = FALSE => x.emitted = 0
      /\ x.initialRequestN = SizeMax \/ x.emitted <= x.granted
  BY DEF Local, Publishing, Accounts
<1>4. CASE u.out = << >> /\ u.emitted = x.emitted
  <2>1. Len(u.out) = 0
    BY <1>4
  <2>2. \A types : AllIn(u.out, 1, types)
    BY <2>1 DEF AllIn
  <2>3. Payloads(u.out, x.emitted, u.emitted) /\ Credits(u.out, x.sent, x.sent)
    BY <1>1, <1>4, PayloadsNone, CreditsNone
  <2> QED BY <1>1, <1>3, <1>4, <2>1, <2>2, <2>3
<1>5. ASSUME NEW f \in FrameSet,
             /\ u.out = <<f>>
             /\ f.type \notin CreditTypes
             /\ role = "requester" => x.state # "NEW" /\ f.type \in ToResponder(k)
             /\ role = "responder" => f.type \in ToRequester(k)
             /\ u.emitted = TakesP(f, x.emitted)
             /\ f.type = "PAYLOAD" =>
                   f.n = x.emitted + 1 /\ x.subscribed = TRUE /\ x.credit >= 1
      PROVE  /\ Payloads(u.out, x.emitted, u.emitted)
             /\ Credits(u.out, x.sent, x.sent)
             /\ \A i \in 1..Len(u.out) : i = Len(u.out)
             /\ role = "requester" => /\ x.state = "NEW" => u.out = << >>
                                      /\ AllIn(u.out, 1, ToResponder(k))
             /\ role = "responder" => AllIn(u.out, 1, ToRequester(k))
             /\ u.emitted \in Nat
             /\ x.subscribed = FALSE => u.emitted = 0
             /\ x.initialRequestN = SizeMax \/ u.emitted <= x.granted
  <2>1. Payloads(u.out, x.emitted, u.emitted)
    BY <1>1, <1>5, PayloadsOne
  <2>2. TakesC(f, x.sent) = x.sent
    BY <1>5 DEF TakesC
  <2>3. Credits(u.out, x.sent, x.sent)
    BY <1>1, <1>5, <2>2, CreditsOne
  <2>4. Len(u.out) = 1 /\ \A i \in 1..1 : u.out[i] = f
    BY <1>5
  <2>5. \A i \in 1..Len(u.out) : i = Len(u.out)
    BY <2>4
  <2>6. \A types : f.type \in types => AllIn(u.out, 1, types)
    BY <2>4 DEF AllIn
  <2>7. u.emitted \in Nat /\ (x.subscribed = FALSE => u.emitted = 0)
    BY <1>1, <1>3, <1>5 DEF TakesP
  <2>8. x.initialRequestN = SizeMax \/ u.emitted <= x.granted
    <3>1. CASE f.type = "PAYLOAD"
      <4>1. x.state # "NEW"
        BY <1>5, LocalTypes DEF StatesOf, Roles
      <4>2. x.initialRequestN = SizeMax
            \/ x.granted + 0 = x.initialRequestN + x.credit + x.emitted
        BY <4>1 DEF Local, Accounts, OwnRequest
      <4> QED BY <1>1, <1>2, <1>5, <3>1, <4>2, SizeMaxAssumption DEF TakesP
    <3>2. CASE f.type # "PAYLOAD"
      BY <1>3, <1>5, <3>2 DEF TakesP
    <3> QED BY <3>1, <3>2
  <2> QED BY <1>5, <2>1, <2>3, <2>5, <2>6, <2>7, <2>8
<1> QED BY <1>4, <1>5 DEF Parting

Ends(u, y, failed, cancelled, terminal) ==
    /\ y.open = FALSE /\ y.failed = failed /\ y.state = "CLOSED"
    /\ y.terminated = TRUE /\ y.subscription = FALSE /\ y.cancelled = cancelled
    /\ y.subscriber = FALSE /\ y.terminal = terminal
    /\ y.out = u.out /\ y.allowance = u.allowance
    /\ y.pendingAllowance = u.pendingAllowance
    /\ y.initialResponseAllowance = u.initialResponseAllowance
    /\ y.initialRequestN = u.initialRequestN /\ y.requests = u.requests
    /\ y.received = u.received /\ y.gaveUp = u.gaveUp /\ y.sent = u.sent
    /\ y.surplus = u.surplus /\ y.subscribed = u.subscribed /\ y.credit = u.credit
    /\ y.done = u.done /\ y.granted = u.granted /\ y.emitted = u.emitted

(* What endStream changes, field by field.                                 *)
LEMMA EndedFields ==
    ASSUME NEW u \in AutomatonSet, NEW failed \in BOOLEAN, NEW cancelled \in BOOLEAN,
           NEW terminal \in Seq(Signals)
    PROVE  Ends(u, Ended(u, failed, cancelled, terminal), failed, cancelled, terminal)
BY DEF AutomatonSet, Ended, Ends

(***************************************************************************)
(* Whatever ends a stream at one end: the consumer has one terminal signal *)
(* and no more payloads than were sent, the producer is cancelled.         *)
(***************************************************************************)
LEMMA CloseEffect ==
    ASSUME NEW k \in Kinds, NEW role \in Roles, NEW x, Local(k, role, x), x.open,
           NEW u, NEW signal, NEW r \in Nat, NEW g \in Nat, NEW whole,
           Closable(k, x, u), Parting(k, role, x, u), Receipt(k, role, x, u, r),
           x.granted <= g,
           signal \in {"COMPLETE", "CANCEL"} => u.state = "CLOSED",
           k = "channel" /\ role = "requester" /\ Tame => x.subscribed,
           k # "channel" /\ role = "requester" /\ signal \in {"COMPLETE", "CANCEL"}
               /\ u.subscriber => u.gaveUp \/ (whole = "whole" /\ Len(u.received) = r)
    PROVE  Effect(k, role, x, CloseStream(u, signal), r, g, whole)
<1>1. u \in AutomatonSet /\ u.open
  BY DEF Closable
<1>2. PICK failed \in BOOLEAN, cancelled \in BOOLEAN, terminal \in Seq(Signals) :
              /\ CloseStream(u, signal) = Ended(u, failed, cancelled, terminal)
              /\ cancelled = (u.cancelled \/ u.subscription)
              /\ (u.failed = FALSE
                  /\ (u.state = "CLOSED" \/ signal \notin {"COMPLETE", "CANCEL"}))
                     => failed = FALSE
              /\ terminal = IF u.subscriber THEN Append(u.terminal, TerminalOf(signal))
                                            ELSE u.terminal
  BY <1>1, CloseStreamEnds
<1>3. PICK y : y = Ended(u, failed, cancelled, terminal)
  OBVIOUS
<1>4. y \in AutomatonSet
  BY <1>1, <1>3, EndedType
<1>5. /\ y.open = FALSE /\ y.failed = failed /\ y.state = "CLOSED"
      /\ y.terminated = TRUE /\ y.subscription = FALSE /\ y.cancelled = cancelled
      /\ y.subscriber = FALSE /\ y.terminal = terminal
      /\ y.out = u.out /\ y.allowance = u.allowance
      /\ y.pendingAllowance = u.pendingAllowance
      /\ y.initialResponseAllowance = u.initialResponseAllowance
      /\ y.initialRequestN = u.initialRequestN /\ y.requests = u.requests
      /\ y.received = u.received /\ y.gaveUp = u.gaveUp /\ y.sent = u.sent
      /\ y.surplus = u.surplus /\ y.subscribed = u.subscribed /\ y.credit = u.credit
      /\ y.done = u.done /\ y.granted = u.granted /\ y.emitted = u.emitted
  <2>1. Ends(u, y, failed, cancelled, terminal)
    BY <1>1, <1>3, EndedFields, Zenon
  <2> QED BY <2>1, Zenon DEF Ends
<1>6. /\ x.state \in StatesOf(role) /\ x.open = (x.state \notin {"NONE", "CLOSED"})
      /\ x.received \in Seq(Nat) /\ Len(x.received) \in Nat /\ x.granted \in Nat
  BY LocalTypes
<1>7. /\ Payloads(u.out, x.emitted, u.emitted)
      /\ Credits(u.out, x.sent, x.sent)
      /\ \A i \in 1..Len(u.out) : i = Len(u.out)
      /\ role = "requester" => /\ x.state = "NEW" => u.out = << >>
                               /\ AllIn(u.out, 1, ToResponder(k))
      /\ role = "responder" => AllIn(u.out, 1, ToRequester(k))
      /\ x.subscribed = FALSE => u.emitted = 0
      /\ x.initialRequestN = SizeMax \/ u.emitted <= x.granted
  BY PartingFlows
<1>8. Shape(role, y)
  BY <1>5 DEF Shape, StatesOf
<1>9. Publishing(k, y)
  <2>1. y.subscribed = TRUE => y.cancelled = TRUE
    <3>1. x.subscribed /\ ~x.cancelled => x.subscription
      BY DEF Local, Publishing
    <3>2. u.subscribed = x.subscribed /\ u.cancelled = x.cancelled
          /\ u.subscription = x.subscription
      BY DEF Closable
    <3>3. u.subscribed => cancelled
      BY <1>2, <3>1, <3>2, Zenon
    <3> QED BY <1>5, <3>3, Zenon
  <2>2. y.subscribed = FALSE => y.credit = 0 /\ y.emitted = 0
    BY <1>5, <1>7 DEF Closable, Local, Publishing
  <2>3. y.subscribed \in BOOLEAN
    BY <1>4 DEF AutomatonSet
  <2> QED BY <1>5, <2>1, <2>2, <2>3, Zenon DEF Publishing
<1>10. /\ \A i \in 1..Len(y.received) : y.received[i] = i
       /\ k = "response" => Len(y.received) = 0 \/ Len(y.received) = 1
       /\ Len(y.received) <= r
  <2>1. /\ \A i \in 1..Len(x.received) : x.received[i] = i
        /\ k = "response" => Len(x.received) = 0
    BY <1>6 DEF Local, Consuming
  <2>2. CASE u.received = x.received /\ Len(x.received) <= r
    BY <1>5, <2>1, <2>2
  <2>3. CASE /\ k = "response"
             /\ u.received = Append(x.received, Len(x.received) + 1)
             /\ r = Len(x.received) + 1
    <3>1. Len(x.received) = 0
      BY <2>1, <2>3
    <3>2. Len(y.received) = 1 /\ y.received[1] = 1
      BY <1>5, <1>6, <2>3, <3>1
    <3> QED BY <2>3, <3>1, <3>2
  <2> QED BY <2>2, <2>3 DEF Receipt
<1>11. IsConsumer(k, role) => Len(y.terminal) = 1 /\ (u.subscriber = FALSE => terminal = <<"onError">>)
  <2> SUFFICES ASSUME IsConsumer(k, role)
               PROVE  Len(y.terminal) = 1 /\ (u.subscriber = FALSE => terminal = <<"onError">>)
    OBVIOUS
  <2>1. x.subscriber = TRUE /\ Len(x.terminal) = 0
    BY <1>6 DEF Local, Consuming
  <2>2. CASE u.subscriber = x.subscriber /\ u.terminal = x.terminal
    <3>1. u.terminal \in Seq(Signals) /\ TerminalOf(signal) \in Signals
      BY <1>1 DEF AutomatonSet, Signals, TerminalOf
    <3>2. terminal = Append(u.terminal, TerminalOf(signal)) /\ u.subscriber = TRUE
      BY <1>2, <2>1, <2>2
    <3>3. Len(terminal) = 1
      BY <2>1, <2>2, <3>1, <3>2
    <3> QED BY <1>5, <3>2, <3>3
  <2>3. CASE u.subscriber = FALSE /\ u.terminal = <<"onError">>
    <3>1. terminal = <<"onError">>
      BY <1>2, <2>3
    <3>2. Len(terminal) = 1
      BY <3>1
    <3> QED BY <1>5, <3>1, <3>2
  <2> QED BY <2>2, <2>3 DEF Closable
<1>12. y.surplus = FALSE
  BY <1>5 DEF Closable, Local, Consuming
<1>13. Consuming(k, role, y)
  BY <1>5, <1>10, <1>11, <1>12 DEF Consuming
<1>14. Accounts(y)
  <2>1. /\ y.initialRequestN = x.initialRequestN /\ y.granted = x.granted
        /\ y.emitted = u.emitted
    BY <1>5 DEF Closable
  <2>2. x.initialRequestN <= x.granted
    BY DEF Local, Accounts
  <2> QED BY <1>5, <1>7, <2>1, <2>2 DEF Accounts
<1>15. Checked(k, role, y)
  <2> SUFFICES ASSUME Tame
               PROVE  /\ y.failed = FALSE
                      /\ k # "response" =>
                            /\ y.pendingAllowance + y.sent + y.initialResponseAllowance
                                   <= LargestRequest * y.requests
                            /\ y.requests <= IF k = "stream" THEN MaxRequests
                                                             ELSE MaxChannelRequests
                      /\ k = "channel" /\ role = "requester" /\ ~y.subscribed
                            => y.state = "NEW"
    BY DEF Checked
  <2>1. /\ x.failed = FALSE
        /\ k # "response" =>
              /\ x.pendingAllowance + x.sent + x.initialResponseAllowance
                     <= LargestRequest * x.requests
              /\ x.requests <= IF k = "stream" THEN MaxRequests ELSE MaxChannelRequests
    BY Zenon DEF Local, Checked
  <2>2. y.failed = FALSE
    <3>1. u.failed = FALSE
      BY <2>1 DEF Closable
    <3> QED BY <1>2, <1>5, <3>1, Zenon
  <2>3. k # "response" =>
              /\ y.pendingAllowance + y.sent + y.initialResponseAllowance
                     <= LargestRequest * y.requests
              /\ y.requests <= IF k = "stream" THEN MaxRequests ELSE MaxChannelRequests
    BY <1>5, <2>1, Zenon DEF Closable
  <2>4. y.subscribed = x.subscribed
    BY <1>5 DEF Closable
  <2>5. k = "channel" /\ role = "requester" => x.subscribed
    OBVIOUS
  <2> QED BY <2>2, <2>3, <2>4, <2>5, Zenon
<1>16. Local(k, role, y)
  BY <1>4, <1>8, <1>9, <1>13, <1>14, <1>15 DEF Local
<1>17. Written(k, role, x, y)
  <2>1. CASE role = "requester"
    BY <1>5, <1>7, <2>1 DEF Written
  <2>2. CASE role # "requester"
    BY <1>5, <1>7, <2>2 DEF Written, Roles
  <2> QED BY <2>1, <2>2
<1>18. \A i \in 1..Len(y.out) : Final(k, y.out[i]) => i = Len(y.out) /\ y.state = "CLOSED"
  BY <1>5, <1>7
<1>19. Payloads(y.out, x.emitted, y.emitted) /\ Credits(y.out, x.sent, y.sent)
  BY <1>5, <1>7 DEF Closable
<1>20. y.granted <= g /\ y.initialRequestN = x.initialRequestN
  BY <1>5 DEF Closable
<1>21. k # "channel" /\ role = "requester" /\ Told(y) => whole = "whole" /\ Len(y.received) = r
  <2> SUFFICES ASSUME k # "channel", role = "requester", Told(y)
               PROVE  whole = "whole" /\ Len(y.received) = r
    OBVIOUS
  <2>1. terminal = <<"onComplete">> /\ ~u.gaveUp
    BY <1>5 DEF Told
  <2>2. u.subscriber # FALSE
    BY <1>11, <2>1 DEF IsConsumer
  <2>3. u.subscriber = TRUE
    BY <1>1, <2>2 DEF AutomatonSet
  <2>4. signal \in {"COMPLETE", "CANCEL"}
    <3>1. u.subscriber = x.subscriber /\ u.terminal = x.terminal
      BY <2>3 DEF Closable
    <3>2. Len(x.terminal) = 0
      BY <1>6 DEF Local, Consuming, IsConsumer
    <3>3. terminal = Append(u.terminal, TerminalOf(signal))
      BY <1>2, <2>3
    <3>4. u.terminal \in Seq(Signals) /\ TerminalOf(signal) \in Signals
      BY <1>1 DEF AutomatonSet, Signals, TerminalOf
    <3>5. terminal[1] = TerminalOf(signal)
      BY <3>1, <3>2, <3>3, <3>4
    <3>6. TerminalOf(signal) = "onComplete"
      BY <2>1, <3>5
    <3> QED BY <3>6 DEF TerminalOf
  <2>5. u.gaveUp \/ (whole = "whole" /\ Len(u.received) = r)
    BY <2>3, <2>4, Zenon
  <2> QED BY <1>5, <2>1, <2>5, Zenon
<1>22. x.state # "CLOSED"
  BY <1>6
<1>23. Effect(k, role, x, y, r, g, whole)
  BY <1>5, <1>10, <1>16, <1>17, <1>18, <1>19, <1>20, <1>21, <1>22, Zenon DEF Effect
<1> QED BY <1>2, <1>3, <1>23, Zenon

(***************************************************************************)
(* A CHECK that holds does nothing.                                        *)
(***************************************************************************)
LEMMA CheckHolds ==
    ASSUME NEW x \in AutomatonSet, NEW holds, holds
    PROVE  Check(x, holds) = x
<1>1. PICK z : z = (x.failed \/ ~holds)
  BY Zenon
<1>2. x.failed \in BOOLEAN
  BY DEF AutomatonSet
<1>3. z = x.failed
  BY <1>1, <1>2, Zenon
<1>4. Check(x, holds) = [x EXCEPT !.failed = z]
  BY <1>1, Zenon DEF Check
<1> QED BY <1>3, <1>4 DEF AutomatonSet

(***************************************************************************)
(* What most ways to end a stream do before they close it.                 *)
(***************************************************************************)
Marked(x, u) ==
    /\ u \in AutomatonSet
    /\ u.open = x.open /\ u.terminated = x.terminated /\ u.failed = x.failed
    /\ u.subscriber = x.subscriber /\ u.allowance = x.allowance
    /\ u.pendingAllowance = x.pendingAllowance
    /\ u.initialResponseAllowance = x.initialResponseAllowance
    /\ u.subscription = x.subscription /\ u.initialRequestN = x.initialRequestN
    /\ u.requests = x.requests /\ u.received = x.received /\ u.terminal = x.terminal
    /\ u.sent = x.sent /\ u.surplus = x.surplus /\ u.subscribed = x.subscribed
    /\ u.credit = x.credit /\ u.cancelled = x.cancelled
    /\ u.granted = x.granted /\ u.emitted = x.emitted

LastWord(k, role, x, out) ==
    \/ out = << >>
    \/ \E f \in FrameSet :
          /\ out = <<f>>
          /\ f.type \in {"CANCEL", "COMPLETE", "ERROR"}
          /\ role = "requester" => x.state # "NEW" /\ f.type \in ToResponder(k)
          /\ role = "responder" => f.type \in ToRequester(k)

(* closeStream of an automaton that has only changed its state, gaveUp or  *)
(* done, and has written at most a last frame.                             *)
LEMMA MarkedCloses ==
    ASSUME NEW k \in Kinds, NEW role \in Roles, NEW x, Local(k, role, x), x.open,
           NEW u, Marked(x, u),
           NEW signal, NEW r \in Nat, NEW g \in Nat, NEW whole,
           LastWord(k, role, x, u.out), Len(x.received) <= r, x.granted <= g,
           signal \in {"COMPLETE", "CANCEL"} => u.state = "CLOSED",
           k = "channel" /\ role = "requester" /\ Tame => x.subscribed,
           k # "channel" /\ role = "requester" /\ signal \in {"COMPLETE", "CANCEL"}
               => u.gaveUp \/ (whole = "whole" /\ Len(x.received) = r)
    PROVE  Effect(k, role, x, CloseStream(u, signal), r, g, whole)
<1>1. x \in AutomatonSet /\ x.emitted \in Nat
  BY LocalTypes
<1>2. u.open = TRUE
  BY <1>1 DEF Marked, AutomatonSet
<1>3. Closable(k, x, u)
  BY <1>2, Zenon DEF Closable, Marked
<1>4. u.emitted = x.emitted /\ u.received = x.received
  BY Zenon DEF Marked
<1>5. Parting(k, role, x, u)
  <2>1. CASE u.out = << >>
    BY <1>4, <2>1 DEF Parting
  <2>2. ASSUME NEW f \in FrameSet,
               /\ u.out = <<f>>
               /\ f.type \in {"CANCEL", "COMPLETE", "ERROR"}
               /\ role = "requester" => x.state # "NEW" /\ f.type \in ToResponder(k)
               /\ role = "responder" => f.type \in ToRequester(k)
        PROVE  Parting(k, role, x, u)
    <3>1. f.type \notin CreditTypes /\ f.type # "PAYLOAD"
      BY <2>2 DEF CreditTypes
    <3>2. u.emitted = TakesP(f, x.emitted)
      BY <1>4, <3>1 DEF TakesP
    <3> QED BY <2>2, <3>1, <3>2 DEF Parting
  <2> QED BY <2>1, <2>2 DEF LastWord
<1>6. Receipt(k, role, x, u, r)
  BY <1>4 DEF Receipt
<1>7. k # "channel" /\ role = "requester" /\ signal \in {"COMPLETE", "CANCEL"}
          /\ u.subscriber => u.gaveUp \/ (whole = "whole" /\ Len(u.received) = r)
  BY <1>4, Zenon
<1> QED BY <1>3, <1>5, <1>6, <1>7, CloseEffect

(* CANCEL, COMPLETE or ERROR as the last frame of an end.                  *)
LEMMA LastFrame ==
    ASSUME NEW k, NEW role \in Roles, NEW x, NEW type \in {"CANCEL", "COMPLETE", "ERROR"},
           role = "requester" => x.state # "NEW" /\ type \in ToResponder(k),
           role = "responder" => type \in ToRequester(k)
    PROVE  /\ <<Frame(type, 0)>> \in Seq(FrameSet)
           /\ LastWord(k, role, x, <<Frame(type, 0)>>)
           /\ Append(<< >>, Frame(type, 0)) = <<Frame(type, 0)>>
<1>1. PICK f : f = Frame(type, 0)
  OBVIOUS
<1>2. f.type = type /\ f.n = 0 /\ f = [type |-> type, n |-> 0]
  BY <1>1 DEF Frame
<1>3. f \in FrameSet
  BY <1>2, SizeMaxAssumption DEF FrameSet, FrameTypes
<1>4. <<f>> \in Seq(FrameSet) /\ Append(<< >>, f) = <<f>>
  BY <1>3
<1>5. LastWord(k, role, x, <<f>>)
  BY <1>2, <1>3 DEF LastWord
<1> QED BY <1>1, <1>4, <1>5

(* Which last frames each end may write.                                   *)
LEMMA LastWords ==
    ASSUME NEW k \in Kinds
    PROVE  /\ "CANCEL" \in ToResponder(k)
           /\ k # "response" => "ERROR" \in ToResponder(k)
           /\ k = "channel" => "COMPLETE" \in ToResponder(k)
           /\ "COMPLETE" \in ToRequester(k) /\ "ERROR" \in ToRequester(k)
BY DEF Kinds, ToResponder, ToRequester

(***************************************************************************)
(* The last frame is written.                                              *)
(***************************************************************************)
LEMMA MarkedOutput ==
    ASSUME NEW k, NEW role \in Roles, NEW x, NEW type \in {"CANCEL", "COMPLETE", "ERROR"},
           role = "requester" => x.state # "NEW" /\ type \in ToResponder(k),
           role = "responder" => type \in ToRequester(k),
           NEW u, Marked(x, u), u.out = << >>
    PROVE  LET v == Output(u, Frame(type, 0))
           IN  /\ Marked(x, v) /\ LastWord(k, role, x, v.out)
               /\ v.state = u.state /\ v.gaveUp = u.gaveUp
<1>1. PICK f : f = Frame(type, 0)
  OBVIOUS
<1>2. <<f>> \in Seq(FrameSet) /\ LastWord(k, role, x, <<f>>) /\ Append(<< >>, f) = <<f>>
  BY <1>1, LastFrame
<1>3. PICK v : v = Output(u, f)
  OBVIOUS
<1>4. u \in AutomatonSet
  BY DEF Marked
<1>5. v = [u EXCEPT !.out = <<f>>]
  BY <1>2, <1>3 DEF Output
<1>6. v \in AutomatonSet
  BY <1>2, <1>4, <1>5 DEF AutomatonSet
<1>7. Marked(u, v) /\ v.out = <<f>> /\ v.state = u.state /\ v.gaveUp = u.gaveUp
  BY <1>4, <1>5, <1>6 DEF AutomatonSet, Marked
<1>8. Marked(x, v)
  BY <1>7, Zenon DEF Marked
<1> QED BY <1>1, <1>2, <1>3, <1>7, <1>8

(***************************************************************************)
(* The requester cancels.                                                  *)
(***************************************************************************)
LEMMA RequesterCancelEffect ==
    ASSUME NEW k \in Kinds, NEW x, Local(k, "requester", x), x.out = << >>, x.open,
           k = "channel" /\ Tame => x.subscribed
    PROVE  Effect(k, "requester", x, RequesterCancel([x EXCEPT !.gaveUp = TRUE]),
                  Len(x.received), x.granted, "part")
<1>1. PICK u : u = [x EXCEPT !.gaveUp = TRUE]
  OBVIOUS
<1>2. "requester" \in Roles
  BY DEF Roles
<1>3. /\ x \in AutomatonSet /\ x.state \in StatesOf("requester")
      /\ x.open = (x.state \notin {"NONE", "CLOSED"})
      /\ Len(x.received) \in Nat /\ x.granted \in Nat
  BY <1>2, LocalTypes
<1>4. x.state = "NEW" \/ x.state = "REQUESTED"
  BY <1>3 DEF StatesOf
<1>5. u.state = x.state
  BY <1>1, <1>3 DEF AutomatonSet
<1>6. PICK v : v = [u EXCEPT !.state = "CLOSED"]
  OBVIOUS
<1>7. v = [x EXCEPT !.gaveUp = TRUE, !.state = "CLOSED"]
  BY <1>1, <1>3, <1>6 DEF AutomatonSet
<1>8. v \in AutomatonSet
  BY <1>3, <1>7 DEF AutomatonSet, States
<1>9. Marked(x, v) /\ v.out = << >> /\ v.state = "CLOSED" /\ v.gaveUp = TRUE
  BY <1>3, <1>7, <1>8 DEF AutomatonSet, Marked
<1>10. CASE x.state = "NEW"
  <2>1. RequesterCancel(u) = CloseStream(v, "CANCEL")
    BY <1>5, <1>6, <1>10 DEF RequesterCancel
  <2>2. LastWord(k, "requester", x, v.out)
    BY <1>9 DEF LastWord
  <2>3. Effect(k, "requester", x, CloseStream(v, "CANCEL"), Len(x.received), x.granted, "part")
    BY <1>2, <1>3, <1>9, <2>2, MarkedCloses
  <2> QED BY <1>1, <2>1, <2>3
<1>11. CASE x.state = "REQUESTED"
  <2>1. PICK c : c = Output(v, Frame("CANCEL", 0))
    OBVIOUS
  <2>2. RequesterCancel(u) = CloseStream(c, "CANCEL")
    BY <1>5, <1>6, <1>11, <2>1 DEF RequesterCancel, CancelStream
  <2>3. Marked(x, c) /\ LastWord(k, "requester", x, c.out)
        /\ c.state = v.state /\ c.gaveUp = v.gaveUp
    BY <1>2, <1>9, <1>11, <2>1, LastWords, MarkedOutput
  <2>4. Effect(k, "requester", x, CloseStream(c, "CANCEL"), Len(x.received), x.granted, "part")
    BY <1>2, <1>3, <1>9, <2>3, MarkedCloses
  <2> QED BY <1>1, <2>2, <2>4
<1> QED BY <1>4, <1>10, <1>11

(***************************************************************************)
(* The producer of a responder ends the stream, or its consumer cancels.   *)
(***************************************************************************)
LEMMA ResponderClosesAloud ==
    ASSUME NEW k \in Kinds, NEW x, Local(k, "responder", x), x.open,
           NEW v, Marked(x, v), v.out = << >>, v.state = "CLOSED",
           NEW type \in {"COMPLETE", "ERROR"}, NEW signal
    PROVE  Effect(k, "responder", x, CloseStream(Output(v, Frame(type, 0)), signal),
                  Len(x.received), x.granted, "part")
<1>1. "responder" \in Roles
  BY DEF Roles
<1>2. Len(x.received) \in Nat /\ x.granted \in Nat
  BY <1>1, LocalTypes
<1>3. PICK c : c = Output(v, Frame(type, 0))
  OBVIOUS
<1>4. type \in {"CANCEL", "COMPLETE", "ERROR"} /\ type \in ToRequester(k)
  BY LastWords
<1>5. Marked(x, c) /\ LastWord(k, "responder", x, c.out) /\ c.state = "CLOSED"
  BY <1>1, <1>3, <1>4, MarkedOutput
<1>6. PICK r : r = Len(x.received)
  OBVIOUS
<1>7. PICK g : g = x.granted
  OBVIOUS
<1>8. r \in Nat /\ g \in Nat /\ Len(x.received) <= r /\ x.granted <= g
  BY <1>2, <1>6, <1>7
<1>9. Effect(k, "responder", x, CloseStream(c, signal), r, g, "part")
  BY <1>1, <1>5, <1>8, MarkedCloses
<1> QED BY <1>3, <1>6, <1>7, <1>9

(* An open responder is RESPONDING.                                        *)
LEMMA ResponderState ==
    ASSUME NEW k, NEW x, Local(k, "responder", x), x.open
    PROVE  x.state = "RESPONDING" /\ x \in AutomatonSet
<1>1. "responder" \in Roles
  BY DEF Roles
<1> QED BY <1>1, LocalTypes DEF StatesOf

(* An open requester is NEW or REQUESTED.                                  *)
LEMMA RequesterState ==
    ASSUME NEW k, NEW x, Local(k, "requester", x), x.open
    PROVE  (x.state = "NEW" \/ x.state = "REQUESTED") /\ x \in AutomatonSet
<1>1. "requester" \in Roles
  BY DEF Roles
<1> QED BY <1>1, LocalTypes DEF StatesOf

(* onComplete of a responder's producer: COMPLETE, and the stream ends.    *)
LEMMA ResponderOnCompleteEffect ==
    ASSUME NEW k \in Kinds, NEW x, Local(k, "responder", x), x.out = << >>, x.open,
           NEW z, z = x \/ z = [x EXCEPT !.done = TRUE]
    PROVE  Effect(k, "responder", x, ResponderOnComplete(z),
                  Len(x.received), x.granted, "part")
<1>1. x.state = "RESPONDING" /\ x \in AutomatonSet
  BY ResponderState
<1>2. z.state = "RESPONDING"
  BY <1>1 DEF AutomatonSet
<1>3. PICK v : v = [[z EXCEPT !.done = TRUE] EXCEPT !.state = "CLOSED"]
  OBVIOUS
<1>4. ResponderOnComplete(z) = CloseStream(Output(v, Frame("COMPLETE", 0)), "COMPLETE")
  BY <1>2, <1>3, Zenon DEF ResponderOnComplete, CompleteStream
<1>5. v = [x EXCEPT !.done = TRUE, !.state = "CLOSED"]
  BY <1>1, <1>3 DEF AutomatonSet
<1>6. v \in AutomatonSet
  BY <1>1, <1>5 DEF AutomatonSet, States
<1>7. Marked(x, v) /\ v.out = << >> /\ v.state = "CLOSED"
  BY <1>1, <1>5, <1>6 DEF AutomatonSet, Marked
<1>8. Effect(k, "responder", x, CloseStream(Output(v, Frame("COMPLETE", 0)), "COMPLETE"),
             Len(x.received), x.granted, "part")
  BY <1>7, ResponderClosesAloud
<1> QED BY <1>4, <1>8

(* onError of a responder's producer: ERROR, and the stream ends.          *)
LEMMA ApplicationErrorEffect ==
    ASSUME NEW k \in Kinds, NEW x, Local(k, "responder", x), x.out = << >>, x.open,
           NEW z, z = [x EXCEPT !.done = TRUE]
    PROVE  Effect(k, "responder", x, ApplicationError([z EXCEPT !.state = "CLOSED"]),
                  Len(x.received), x.granted, "part")
<1>1. x.state = "RESPONDING" /\ x \in AutomatonSet
  BY ResponderState
<1>2. PICK v : v = [z EXCEPT !.state = "CLOSED"]
  OBVIOUS
<1>3. ApplicationError(v) = CloseStream(Output(v, Frame("ERROR", 0)), "APPLICATION_ERROR")
  BY DEF ApplicationError
<1>4. v = [x EXCEPT !.done = TRUE, !.state = "CLOSED"]
  BY <1>1, <1>2 DEF AutomatonSet
<1>5. v \in AutomatonSet
  BY <1>1, <1>4 DEF AutomatonSet, States
<1>6. Marked(x, v) /\ v.out = << >> /\ v.state = "CLOSED"
  BY <1>1, <1>4, <1>5 DEF AutomatonSet, Marked
<1>7. Effect(k, "responder", x, CloseStream(Output(v, Frame("ERROR", 0)), "APPLICATION_ERROR"),
             Len(x.received), x.granted, "part")
  BY <1>6, ResponderClosesAloud
<1> QED BY <1>2, <1>3, <1>7

(***************************************************************************)
(* The end that comes with a frame or with the end of the connection: the  *)
(* automaton says nothing.                                                 *)
(***************************************************************************)
LEMMA ClosesSilently ==
    ASSUME NEW k \in Kinds, NEW role \in Roles, NEW x, Local(k, role, x), x.open,
           NEW v, Marked(x, v), v.out = << >>, NEW signal, NEW whole,
           signal \in {"COMPLETE", "CANCEL"} => v.state = "CLOSED",
           k = "channel" /\ role = "requester" /\ Tame => x.subscribed,
           k # "channel" /\ role = "requester" /\ signal \in {"COMPLETE", "CANCEL"}
               => v.gaveUp \/ whole = "whole"
    PROVE  Effect(k, role, x, CloseStream(v, signal), Len(x.received), x.granted, whole)
<1>1. Len(x.received) \in Nat /\ x.granted \in Nat
  BY LocalTypes
<1>2. LastWord(k, role, x, v.out)
  BY DEF LastWord
<1>3. PICK r : r = Len(x.received)
  OBVIOUS
<1>4. PICK g : g = x.granted
  OBVIOUS
<1>5. r \in Nat /\ g \in Nat /\ Len(x.received) <= r /\ x.granted <= g
  BY <1>1, <1>3, <1>4
<1>6. k # "channel" /\ role = "requester" /\ signal \in {"COMPLETE", "CANCEL"}
               => v.gaveUp \/ (whole = "whole" /\ Len(x.received) = r)
  BY <1>3, Zenon
<1>7. Effect(k, role, x, CloseStream(v, signal), r, g, whole)
  BY <1>2, <1>5, <1>6, MarkedCloses
<1> QED BY <1>3, <1>4, <1>7

(* The end of the connection ends the stream with an error and without a   *)
(* frame.                                                                  *)
LEMMA ConnectionEndEffect ==
    ASSUME NEW k \in Kinds, NEW role \in Roles, NEW x, Local(k, role, x), x.out = << >>,
           x.open, k = "channel" /\ role = "requester" /\ Tame => x.subscribed
    PROVE  Effect(k, role, x, CloseStream(x, "CONNECTION_END"),
                  Len(x.received), x.granted, "part")
<1>1. x \in AutomatonSet
  BY LocalTypes
<1>2. Marked(x, x)
  BY <1>1 DEF Marked
<1> QED BY <1>2, ClosesSilently

(* Moving to CLOSED changes nothing else.                                  *)
LEMMA StateClosed ==
    ASSUME NEW x \in AutomatonSet, NEW v, v = [x EXCEPT !.state = "CLOSED"]
    PROVE  /\ Marked(x, v) /\ v.state = "CLOSED" /\ v.out = x.out /\ v.gaveUp = x.gaveUp
           /\ v.received = x.received
<1>1. v \in AutomatonSet
  BY DEF AutomatonSet, States
<1> QED BY <1>1 DEF AutomatonSet, Marked

(* A channel is requested by its producer, which has subscribed.           *)
LEMMA RequesterSubscribed ==
    ASSUME NEW x, Local("channel", "requester", x), x.state = "REQUESTED"
    PROVE  x.subscribed
BY DEF Local, Publishing

(***************************************************************************)
(* A frame that completes or cancels.                                      *)
(***************************************************************************)
LEMMA FrameCloses ==
    ASSUME NEW k \in Kinds, NEW role \in Roles, NEW x, Local(k, role, x), x.out = << >>,
           x.open, role = "requester" => x.state = "REQUESTED",
           NEW signal, NEW whole, k # "channel" /\ role = "requester" => whole = "whole"
    PROVE  Effect(k, role, x, CloseStream([x EXCEPT !.state = "CLOSED"], signal),
                  Len(x.received), x.granted, whole)
<1>1. x \in AutomatonSet
  BY LocalTypes
<1>2. PICK v : v = [x EXCEPT !.state = "CLOSED"]
  OBVIOUS
<1>3. Marked(x, v) /\ v.state = "CLOSED" /\ v.out = << >>
  BY <1>1, <1>2, StateClosed
<1>4. k = "channel" /\ role = "requester" /\ Tame => x.subscribed
  BY RequesterSubscribed
<1>5. Effect(k, role, x, CloseStream(v, signal), Len(x.received), x.granted, whole)
  BY <1>3, <1>4, ClosesSilently
<1> QED BY <1>2, <1>5

(***************************************************************************)
(* The consumer of a requester is told an error before the stream closes.  *)
(***************************************************************************)
LEMMA Notified ==
    ASSUME NEW x \in AutomatonSet, x.subscriber = TRUE, Len(x.terminal) = 0
    PROVE  Notify(x, "onError") = [x EXCEPT !.subscriber = FALSE, !.terminal = <<"onError">>]
<1>1. x.terminal \in Seq(Signals)
  BY DEF AutomatonSet, Signals
<1>2. x.terminal = << >>
  BY <1>1
<1>3. Append(x.terminal, "onError") = <<"onError">>
  BY <1>2
<1> QED BY <1>3 DEF Notify

(* closeStream of a requester whose subscriber has already been told of an *)
(* error.                                                                  *)
LEMMA ErrorCloses ==
    ASSUME NEW k \in Kinds, NEW x, Local(k, "requester", x), x.open,
           NEW v, Closable(k, x, v), v.subscriber = x.subscriber, v.terminal = x.terminal,
           v.out = << >>, v.emitted = x.emitted,
           NEW r \in Nat, NEW g \in Nat, NEW whole,
           Receipt(k, "requester", x, v, r), x.granted <= g,
           k = "channel" /\ Tame => x.subscribed
    PROVE  Effect(k, "requester", x, CloseStream(Notify(v, "onError"), "ERROR"), r, g, whole)
<1>1. "requester" \in Roles
  BY DEF Roles
<1>2. v \in AutomatonSet /\ x \in AutomatonSet
  BY <1>1, LocalTypes DEF Closable
<1>3. x.subscriber = TRUE /\ Len(x.terminal) = 0
  <2>1. x.state # "CLOSED"
    BY <1>1, LocalTypes
  <2> QED BY <1>2, <2>1 DEF Local, Consuming, IsConsumer, AutomatonSet
<1>4. PICK u : u = Notify(v, "onError")
  OBVIOUS
<1>5. u = [v EXCEPT !.subscriber = FALSE, !.terminal = <<"onError">>]
  BY <1>2, <1>3, <1>4, Notified
<1>6. u \in AutomatonSet
  <2>1. <<"onError">> \in Seq(Signals)
    BY DEF Signals
  <2> QED BY <1>2, <1>5, <2>1 DEF AutomatonSet, Signals
<1>7. /\ u.open = v.open /\ u.subscription = v.subscription /\ u.cancelled = v.cancelled
      /\ u.subscribed = v.subscribed /\ u.initialRequestN = v.initialRequestN
      /\ u.granted = v.granted /\ u.sent = v.sent
      /\ u.pendingAllowance = v.pendingAllowance
      /\ u.initialResponseAllowance = v.initialResponseAllowance
      /\ u.surplus = v.surplus /\ u.credit = v.credit /\ u.requests = v.requests
      /\ u.failed = v.failed /\ u.subscriber = FALSE /\ u.terminal = <<"onError">>
      /\ u.out = v.out /\ u.emitted = v.emitted /\ u.received = v.received
  BY <1>2, <1>5 DEF AutomatonSet
<1>8. Closable(k, x, u)
  BY <1>3, <1>6, <1>7, Zenon DEF Closable
<1>9. Parting(k, "requester", x, u)
  BY <1>7 DEF Parting
<1>10. Receipt(k, "requester", x, u, r)
  BY <1>7, Zenon DEF Receipt
<1>11. Effect(k, "requester", x, CloseStream(u, "ERROR"), r, g, whole)
  BY <1>1, <1>7, <1>8, <1>9, <1>10, CloseEffect
<1> QED BY <1>4, <1>11

(* An ERROR frame ends the stream at the requester.                        *)
LEMMA RequesterHandleErrorEffect ==
    ASSUME NEW k \in Kinds, NEW x, Local(k, "requester", x), x.out = << >>,
           x.state = "REQUESTED", NEW whole
    PROVE  Effect(k, "requester", x, RequesterHandleError(x),
                  Len(x.received), x.granted, whole)
<1>1. "requester" \in Roles
  BY DEF Roles
<1>2. /\ x \in AutomatonSet /\ Len(x.received) \in Nat /\ x.granted \in Nat
      /\ x.open = (x.state \notin {"NONE", "CLOSED"})
  BY <1>1, LocalTypes
<1>3. PICK v : v = [x EXCEPT !.state = "CLOSED"]
  OBVIOUS
<1>4. Marked(x, v) /\ v.out = << >>
  BY <1>2, <1>3, StateClosed
<1>5. v.open = TRUE
  BY <1>2, <1>4 DEF Marked
<1>6. Closable(k, x, v)
  BY <1>4, <1>5, Zenon DEF Closable, Marked
<1>7. v.subscriber = x.subscriber /\ v.terminal = x.terminal /\ v.emitted = x.emitted
      /\ v.received = x.received
  BY <1>4, Zenon DEF Marked
<1>8. PICK r : r = Len(x.received)
  OBVIOUS
<1>9. PICK g : g = x.granted
  OBVIOUS
<1>10. r \in Nat /\ g \in Nat /\ x.granted <= g /\ Receipt(k, "requester", x, v, r)
  BY <1>2, <1>7, <1>8, <1>9 DEF Receipt
<1>11. k = "channel" /\ Tame => x.subscribed
  BY RequesterSubscribed
<1>12. x.open
  BY <1>2
<1>13. Effect(k, "requester", x, CloseStream(Notify(v, "onError"), "ERROR"), r, g, whole)
  BY <1>4, <1>6, <1>7, <1>10, <1>11, <1>12, ErrorCloses
<1>14. RequesterHandleError(x) = CloseStream(Notify(v, "onError"), "ERROR")
  BY <1>3 DEF RequesterHandleError
<1> QED BY <1>8, <1>9, <1>13, <1>14

-----------------------------------------------------------------------------
(* Steps that do not end the stream                                        *)

(***************************************************************************)
(* The two halves of an open automaton: what it knows as the consumer and  *)
(* as the producer.                                                        *)
(***************************************************************************)
ConsumerHalf(k, role, x) ==
    /\ Consuming(k, role, x)
    /\ \/ x.allowance = SizeMax
       \/ x.allowance + Len(x.received) = x.pendingAllowance + x.sent
    /\ Tame /\ k # "response" =>
          /\ x.pendingAllowance + x.sent + x.initialResponseAllowance
                 <= LargestRequest * x.requests
          /\ x.requests <= IF k = "stream" THEN MaxRequests ELSE MaxChannelRequests

ProducerHalf(k, role, x) ==
    /\ Publishing(k, x)
    /\ \/ x.initialRequestN = SizeMax
       \/ /\ x.emitted <= x.granted
          /\ x.granted + OwnRequest(x) = x.initialRequestN + x.credit + x.emitted
    /\ x.initialRequestN <= x.granted
    /\ Tame /\ k = "channel" /\ role = "requester" /\ ~x.subscribed => x.state = "NEW"

Open(role, x) ==
    /\ x \in AutomatonSet
    /\ x.open = TRUE /\ x.terminated = FALSE
    /\ x.state \in StatesOf(role) /\ x.state # "NONE" /\ x.state # "CLOSED"

(* An open automaton is well formed when its consumer half and its         *)
(* producer half are.                                                      *)
LEMMA Halves ==
    ASSUME NEW k, NEW role \in Roles, NEW x
    PROVE  /\ Local(k, role, x) /\ x.open => /\ Open(role, x)
                                             /\ ConsumerHalf(k, role, x)
                                             /\ ProducerHalf(k, role, x)
                                             /\ Tame => x.failed = FALSE
           /\ Open(role, x) /\ ConsumerHalf(k, role, x) /\ ProducerHalf(k, role, x)
              /\ (Tame => x.failed = FALSE) => Local(k, role, x)
<1>1. ASSUME Local(k, role, x), x.open PROVE Open(role, x)
  <2>1. x \in AutomatonSet /\ x.state \in StatesOf(role)
        /\ x.open = (x.state \notin {"NONE", "CLOSED"})
    BY <1>1, LocalTypes
  <2>2. x.terminated = (x.state = "CLOSED")
    BY <1>1, Zenon DEF Local, Shape
  <2>3. x.state # "NONE" /\ x.state # "CLOSED"
    BY <1>1, <2>1, Zenon
  <2>4. x.terminated = FALSE /\ x.open = TRUE
    BY <2>1, <2>2, <2>3, Zenon
  <2> QED BY <2>1, <2>3, <2>4, Zenon DEF Open
<1>2. ASSUME Local(k, role, x), x.open
      PROVE  ConsumerHalf(k, role, x) /\ ProducerHalf(k, role, x) /\ (Tame => x.failed = FALSE)
  BY <1>2, Zenon DEF Local, Accounts, Checked, ConsumerHalf, ProducerHalf
<1>3. ASSUME Open(role, x), ConsumerHalf(k, role, x), ProducerHalf(k, role, x),
             Tame => x.failed = FALSE
      PROVE  Local(k, role, x)
  <2>1. Shape(role, x)
    BY <1>3, Zenon DEF Open, Shape
  <2>2. Accounts(x)
    BY <1>3, Zenon DEF Accounts, ConsumerHalf, ProducerHalf
  <2>3. Checked(k, role, x)
    BY <1>3, Zenon DEF Checked, ConsumerHalf, ProducerHalf
  <2> QED BY <1>3, <2>1, <2>2, <2>3, Zenon DEF Local, Open, ConsumerHalf, ProducerHalf
<1> QED BY <1>1, <1>2, <1>3, Zenon

ConsumerSame(x, y) ==
    /\ y.subscriber = x.subscriber /\ y.terminal = x.terminal /\ y.received = x.received
    /\ y.surplus = x.surplus /\ y.allowance = x.allowance
    /\ y.pendingAllowance = x.pendingAllowance
    /\ y.initialResponseAllowance = x.initialResponseAllowance
    /\ y.sent = x.sent /\ y.requests = x.requests

ProducerSame(x, y) ==
    /\ y.subscription = x.subscription /\ y.subscribed = x.subscribed
    /\ y.cancelled = x.cancelled /\ y.credit = x.credit /\ y.emitted = x.emitted
    /\ y.granted = x.granted /\ y.initialRequestN = x.initialRequestN

(* A step that leaves the consumer's fields alone.                         *)
LEMMA SameConsumer ==
    ASSUME NEW k, NEW role, NEW x, NEW y, Open(role, x), Open(role, y),
           ConsumerHalf(k, role, x), ConsumerSame(x, y)
    PROVE  ConsumerHalf(k, role, y)
<1>1. Consuming(k, role, y)
  BY Zenon DEF ConsumerHalf, ConsumerSame, Consuming, Open
<1> QED BY <1>1, Zenon DEF ConsumerHalf, ConsumerSame

(* A step that leaves the producer's fields alone.                         *)
LEMMA SameProducer ==
    ASSUME NEW k, NEW role, NEW x, NEW y, Open(role, x), Open(role, y),
           ProducerHalf(k, role, x), ProducerSame(x, y),
           y.state = x.state \/ (x.state = "NEW" /\ y.state = "REQUESTED" /\ k # "channel")
    PROVE  ProducerHalf(k, role, y)
<1>1. CASE y.state = x.state
  <2>1. Publishing(k, y)
    BY <1>1, Zenon DEF ProducerHalf, ProducerSame, Publishing, Open
  <2>2. OwnRequest(y) = OwnRequest(x)
    BY <1>1, Zenon DEF ProducerSame, OwnRequest
  <2> QED BY <1>1, <2>1, <2>2, Zenon DEF ProducerHalf, ProducerSame
<1>2. CASE x.state = "NEW" /\ y.state = "REQUESTED" /\ k # "channel"
  <2>1. x.subscribed = FALSE /\ (x.subscription => x.subscribed) /\ ~x.cancelled
    BY <1>2 DEF ProducerHalf, Publishing
  <2>2. ~x.subscription
    BY <2>1, Zenon
  <2>3. OwnRequest(x) = 0 /\ OwnRequest(y) = 0
    BY <1>2, <2>2, Zenon DEF OwnRequest, ProducerSame
  <2>4. Publishing(k, y)
    BY <1>2, <2>1, <2>2, Zenon DEF ProducerHalf, ProducerSame, Publishing, Open
  <2> QED BY <1>2, <2>3, <2>4, Zenon DEF ProducerHalf, ProducerSame
<1> QED BY <1>1, <1>2

(***************************************************************************)
(* A step after which the stream is still open.                            *)
(***************************************************************************)
LEMMA OpenEffect ==
    ASSUME NEW k, NEW role \in Roles, NEW x, NEW y, NEW r, NEW g, NEW whole,
           Local(k, role, x), x.open, Local(k, role, y), y.open,
           Written(k, role, x, y), \A i \in 1..Len(y.out) : ~Final(k, y.out[i]),
           Payloads(y.out, x.emitted, y.emitted),
           FlowsTo(k, Peer(role)) => Credits(y.out, x.sent, y.sent),
           Len(y.received) = r, y.granted = g,
           x.allowance = SizeMax => y.allowance = SizeMax,
           y.initialRequestN = SizeMax =>
              x.initialRequestN = SizeMax \/ (y.emitted = 0 /\ y.granted >= SizeMax)
    PROVE  Effect(k, role, x, y, r, g, whole)
<1>1. x.state # "CLOSED" /\ y.state # "NONE" /\ y.state # "CLOSED"
  BY Halves DEF Open
<1>2. Len(y.received) \in Nat /\ y.granted \in Nat
  BY LocalTypes
<1>3. Len(y.received) <= r /\ y.granted <= g
  BY <1>2
<1>4. role = "requester" => ~Told(y)
  <2> SUFFICES ASSUME role = "requester", Told(y) PROVE FALSE
    OBVIOUS
  <2>1. y.terminal = <<"onComplete">>
    BY DEF Told
  <2>2. Len(y.terminal) = 1
    BY <2>1
  <2> QED BY <1>1, <2>2 DEF Local, Consuming, IsConsumer
<1> QED BY <1>1, <1>3, <1>4, Zenon DEF Effect


(***************************************************************************)
(* The frames that carry credit.                                           *)
(***************************************************************************)
LEMMA AFrame ==
    ASSUME NEW type \in FrameTypes, NEW n \in 0..SizeMax
    PROVE  /\ Frame(type, n) \in FrameSet
           /\ Frame(type, n).type = type /\ Frame(type, n).n = n
<1>1. PICK f : f = Frame(type, n)
  OBVIOUS
<1>2. f = [type |-> type, n |-> n] /\ f.type = type /\ f.n = n
  BY <1>1 DEF Frame
<1>3. n \in Nat /\ n <= SizeMax
  BY SizeMaxAssumption
<1>4. f \in FrameSet
  BY <1>2, <1>3 DEF FrameSet
<1> QED BY <1>1, <1>2, <1>4

(***************************************************************************)
(* The frames v raise the credit sent from s to t, the frames from the     *)
(* given place on are REQUEST_N frames and none is final.                  *)
(***************************************************************************)
Spoken(k, v, from, e, s, t) ==
    /\ v \in Seq(FrameSet)
    /\ AllIn(v, from, {"REQUEST_N"})
    /\ \A i \in 1..Len(v) : ~Final(k, v[i])
    /\ Payloads(v, e, e)
    /\ Credits(v, s, t)

(* Nothing written, no credit sent.                                        *)
LEMMA SpokenNone ==
    ASSUME NEW k, NEW e \in Nat, NEW s \in Nat
    PROVE  Spoken(k, << >>, 1, e, s, s)
<1>1. Len(<< >>) = 0 /\ << >> \in Seq(FrameSet)
  OBVIOUS
<1>2. AllIn(<< >>, 1, {"REQUEST_N"})
  BY <1>1 DEF AllIn
<1> QED BY <1>1, <1>2, PayloadsNone, CreditsNone DEF Spoken

(* The request itself, with the credit it carries.                         *)
LEMMA SpokenFirst ==
    ASSUME NEW k, NEW type \in CreditTypes, NEW n \in 0..SizeMax,
           NEW e \in Nat, NEW s \in Nat
    PROVE  Spoken(k, <<Frame(type, n)>>, 2, e, s, s + n)
<1>1. PICK f : f = Frame(type, n)
  OBVIOUS
<1>2. type \in FrameTypes
  BY DEF CreditTypes, FrameTypes
<1>3. f \in FrameSet /\ f.type = type /\ f.n = n
  BY <1>1, <1>2, AFrame
<1>4. f.type # "PAYLOAD" /\ ~Final(k, f)
  BY <1>3 DEF CreditTypes, Final
<1>5. Payloads(<<f>>, e, TakesP(f, e)) /\ Credits(<<f>>, s, TakesC(f, s))
  BY <1>3, <1>4, PayloadsOne, CreditsOne
<1>6. TakesP(f, e) = e /\ TakesC(f, s) = s + n
  BY <1>3, <1>4 DEF TakesP, TakesC
<1>7. <<f>> \in Seq(FrameSet) /\ Len(<<f>>) = 1 /\ <<f>>[1] = f
  BY <1>3
<1>8. AllIn(<<f>>, 2, {"REQUEST_N"})
  BY <1>7 DEF AllIn
<1>9. \A i \in 1..Len(<<f>>) : ~Final(k, <<f>>[i])
  BY <1>4, <1>7
<1>10. Payloads(<<f>>, e, e) /\ Credits(<<f>>, s, s + n)
  BY <1>5, <1>6
<1> QED BY <1>1, <1>7, <1>8, <1>9, <1>10 DEF Spoken

(* A REQUEST_N after what was written before.                              *)
LEMMA SpokenMore ==
    ASSUME NEW k, NEW v, NEW from \in {1, 2}, NEW e \in Nat, NEW s \in Nat, NEW t \in Nat,
           Spoken(k, v, from, e, s, t), NEW n \in 0..SizeMax
    PROVE  Spoken(k, Append(v, Frame("REQUEST_N", n)), from, e, s, t + n)
<1>1. PICK f : f = Frame("REQUEST_N", n)
  OBVIOUS
<1>2. "REQUEST_N" \in CreditTypes /\ "REQUEST_N" \in FrameTypes
  BY DEF CreditTypes, FrameTypes
<1>3. f \in FrameSet /\ f.type = "REQUEST_N" /\ f.n = n
  BY <1>1, <1>2, AFrame
<1>4. v \in Seq(FrameSet) /\ <<f>> \in Seq(FrameSet) /\ Len(<<f>>) = 1 /\ <<f>>[1] = f
  BY <1>3 DEF Spoken
<1>5. PICK w : w = v \o <<f>>
  OBVIOUS
<1>6. Append(v, f) = w
  BY <1>3, <1>4, <1>5
<1>7. Spoken(k, <<f>>, 2, e, t, t + n)
  BY <1>1, <1>2, SpokenFirst
<1>8. Payloads(w, e, e) /\ Credits(w, s, t + n)
  BY <1>4, <1>5, <1>7, PayloadsJoin, CreditsJoin DEF Spoken
<1>9. AllIn(<<f>>, 1, {"REQUEST_N"})
  BY <1>3, <1>4 DEF AllIn
<1>10. AllIn(w, from, {"REQUEST_N"})
  BY <1>4, <1>5, <1>9, AllInJoin DEF Spoken
<1>11. /\ w \in Seq(FrameSet)
       /\ \A i \in 1..Len(v) : w[i] = v[i]
       /\ \A i \in 1..Len(w) : i > Len(v) => i - Len(v) \in 1..Len(<<f>>) /\ w[i] = <<f>>[i - Len(v)]
       /\ Len(v) \in Nat /\ Len(w) \in Nat
  BY <1>4, <1>5, Joined
<1>12. ASSUME NEW i \in 1..Len(w) PROVE ~Final(k, w[i])
  <2>1. CASE i <= Len(v)
    <3>1. i \in 1..Len(v)
      BY <1>11, <2>1
    <3> QED BY <1>11, <3>1 DEF Spoken
  <2>2. CASE i > Len(v)
    <3>1. w[i] = f
      BY <1>4, <1>11, <2>2
    <3> QED BY <1>3, <3>1 DEF Final
  <2> QED BY <1>11, <2>1, <2>2
<1> QED BY <1>1, <1>6, <1>8, <1>10, <1>11, <1>12 DEF Spoken

(***************************************************************************)
(* sendRequests: what it drains is credit for the peer; an infinite        *)
(* allowance stays.                                                        *)
(***************************************************************************)
Drains(x, y, p, d, failed, out) ==
    /\ y = [x EXCEPT !.pendingAllowance = p, !.sent = x.sent + d,
                     !.failed = failed, !.out = out]
    /\ \/ d = 0 /\ out = x.out
       \/ out = Append(x.out, Frame("REQUEST_N", d))
    /\ x.pendingAllowance = SizeMax => p = SizeMax
    /\ x.pendingAllowance # SizeMax => p + d = x.pendingAllowance /\ failed = x.failed

(* sendRequests drains the pending allowance into a REQUEST_N.             *)
LEMMA SendsRequests ==
    ASSUME NEW x \in AutomatonSet
    PROVE  \E out : \E p, d \in 0..SizeMax, failed \in BOOLEAN :
              Drains(x, SendRequests(x), p, d, failed, out)
<1>1. PICK d : d = Drained(x.pendingAllowance, MaxRequestN)
  OBVIOUS
<1>2. PICK p : p = AfterDrain(x.pendingAllowance, MaxRequestN)
  OBVIOUS
<1>3. x.pendingAllowance \in 0..SizeMax /\ x.sent \in Nat /\ x.failed \in BOOLEAN
  BY DEF AutomatonSet
<1>4. /\ d \in 0..SizeMax /\ p \in 0..SizeMax
      /\ x.pendingAllowance = SizeMax => p = SizeMax
      /\ x.pendingAllowance # SizeMax => p + d = x.pendingAllowance /\ d <= MaxRequestN
  BY <1>1, <1>2, <1>3, SizeMaxAssumption, MaxRequestNAssumption
     DEF Drained, AfterDrain, IsInfinite
<1>5. PICK y : y = [x EXCEPT !.pendingAllowance = p]
  OBVIOUS
<1>6. CASE d = 0
  <2>1. SendRequests(x) = y
    BY <1>1, <1>2, <1>5, <1>6, Zenon DEF SendRequests
  <2>2. y = [x EXCEPT !.pendingAllowance = p, !.sent = x.sent + d,
                      !.failed = x.failed, !.out = x.out]
    <3>1. PICK s, b, o : s = x.sent + d /\ b = x.failed /\ o = x.out
      BY Zenon
    <3>2. s = x.sent
      BY <1>3, <1>6, <3>1
    <3>3. y = [x EXCEPT !.pendingAllowance = p, !.sent = s, !.failed = b, !.out = o]
      BY <1>5, <3>1, <3>2 DEF AutomatonSet
    <3> QED BY <3>1, <3>3, Zenon
  <2>3. Drains(x, y, p, d, x.failed, x.out)
    BY <1>4, <1>6, <2>2, Zenon DEF Drains
  <2> QED BY <1>3, <1>4, <2>1, <2>3
<1>7. CASE d # 0
  <2>1. PICK z : z = [y EXCEPT !.sent = @ + d]
    OBVIOUS
  <2>2. PICK failed \in BOOLEAN : failed = (z.failed \/ ~(d <= MaxRequestN))
    BY Zenon
  <2>3. PICK f : f = Frame("REQUEST_N", d)
    OBVIOUS
  <2>4. SendRequests(x) = Output([z EXCEPT !.failed = failed], f)
    <3>1. SendRequests(x) = Output(Check([y EXCEPT !.sent = @ + d], d <= MaxRequestN),
                                   Frame("REQUEST_N", d))
      BY <1>1, <1>2, <1>5, <1>7, Zenon DEF SendRequests
    <3>2. Check(z, d <= MaxRequestN) = [z EXCEPT !.failed = failed]
      BY <2>2, Zenon DEF Check
    <3> QED BY <2>1, <2>3, <3>1, <3>2, Zenon
  <2>5. z = [x EXCEPT !.pendingAllowance = p, !.sent = x.sent + d]
    BY <1>5, <2>1 DEF AutomatonSet
  <2>6. PICK out : out = Append(x.out, f)
    OBVIOUS
  <2>7. Output([z EXCEPT !.failed = failed], f)
            = [x EXCEPT !.pendingAllowance = p, !.sent = x.sent + d,
                        !.failed = failed, !.out = out]
    BY <2>5, <2>6 DEF AutomatonSet, Output
  <2>8. z.failed = x.failed
    BY <2>5 DEF AutomatonSet
  <2>9. x.pendingAllowance # SizeMax => failed = x.failed
    BY <1>3, <1>4, <2>2, <2>8, Zenon
  <2>10. Drains(x, SendRequests(x), p, d, failed, out)
    BY <1>4, <2>3, <2>4, <2>6, <2>7, <2>9, Zenon DEF Drains
  <2> QED BY <1>4, <2>10
<1> QED BY <1>6, <1>7

(***************************************************************************)
(* What a step of the consumer leaves alone.                               *)
(***************************************************************************)
ConsumerMoves(x, y) ==
    /\ y \in AutomatonSet
    /\ y.open = x.open /\ y.terminated = x.terminated
    /\ y.subscriber = x.subscriber /\ y.terminal = x.terminal /\ y.surplus = x.surplus
    /\ ProducerSame(x, y)

(***************************************************************************)
(* sendRequests takes z to y; s is the credit sent before this step.       *)
(***************************************************************************)
Sends(k, from, e, s, z, y) ==
    /\ ConsumerMoves(z, y)
    /\ y.state = z.state /\ y.received = z.received /\ y.requests = z.requests
    /\ y.initialResponseAllowance = z.initialResponseAllowance
    /\ y.allowance = z.allowance
    /\ z.pendingAllowance = SizeMax => y.pendingAllowance = SizeMax
    /\ z.pendingAllowance # SizeMax =>
          /\ y.pendingAllowance + y.sent = z.pendingAllowance + z.sent
          /\ y.failed = z.failed
    /\ y.sent >= z.sent
    /\ Spoken(k, y.out, from, e, s, y.sent)
    /\ z.out # << >> => y.out # << >> /\ y.out[1] = z.out[1]

(* What sendRequests writes is covered by what was pending.                *)
LEMMA SendRequestsSends ==
    ASSUME NEW z \in AutomatonSet, NEW k, NEW from \in {1, 2}, NEW e \in Nat, NEW s \in Nat,
           Spoken(k, z.out, from, e, s, z.sent)
    PROVE  Sends(k, from, e, s, z, SendRequests(z))
<1>1. PICK y : y = SendRequests(z)
  OBVIOUS
<1>2. PICK out, p, d, failed :
          /\ p \in 0..SizeMax /\ d \in 0..SizeMax /\ failed \in BOOLEAN
          /\ Drains(z, y, p, d, failed, out)
  BY <1>1, SendsRequests
<1>3. /\ z.sent \in Nat /\ z.pendingAllowance \in 0..SizeMax /\ z.out \in Seq(FrameSet)
      /\ p \in 0..SizeMax /\ d \in 0..SizeMax /\ failed \in BOOLEAN
  BY <1>2 DEF AutomatonSet
<1>4. d \in Nat /\ p \in Nat /\ z.pendingAllowance \in Nat
  BY <1>3, SizeMaxAssumption
<1>5. PICK t : t = z.sent + d
  OBVIOUS
<1>6. t \in Nat /\ t >= z.sent
  BY <1>3, <1>4, <1>5
<1>7. Spoken(k, out, from, e, s, t)
  <2>1. CASE d = 0 /\ out = z.out
    BY <1>3, <1>5, <2>1
  <2>2. CASE out = Append(z.out, Frame("REQUEST_N", d))
    BY <1>3, <1>5, <2>2, SpokenMore
  <2> QED BY <1>2, <2>1, <2>2 DEF Drains
<1>8. z.out # << >> => out # << >> /\ out[1] = z.out[1]
  <2>1. CASE d = 0 /\ out = z.out
    BY <2>1
  <2>2. CASE out = Append(z.out, Frame("REQUEST_N", d))
    <3>1. PICK f : f = Frame("REQUEST_N", d)
      OBVIOUS
    <3>2. f \in FrameSet
      BY <1>3, <3>1, AFrame DEF FrameTypes
    <3>3. out = Append(z.out, f)
      BY <2>2, <3>1
    <3> QED BY <1>3, <3>2, <3>3
  <2> QED BY <1>2, <2>1, <2>2 DEF Drains
<1>9. out \in Seq(FrameSet)
  BY <1>7 DEF Spoken
<1>10. y = [z EXCEPT !.pendingAllowance = p, !.sent = t, !.failed = failed, !.out = out]
  BY <1>2, <1>5, Zenon DEF Drains
<1>11. y \in AutomatonSet
  BY <1>3, <1>6, <1>9, <1>10 DEF AutomatonSet
<1>12. ConsumerMoves(z, y)
  BY <1>10, <1>11 DEF ConsumerMoves, ProducerSame, AutomatonSet
<1>13. /\ y.state = z.state /\ y.received = z.received /\ y.requests = z.requests
       /\ y.initialResponseAllowance = z.initialResponseAllowance
       /\ y.allowance = z.allowance
       /\ y.pendingAllowance = p /\ y.sent = t /\ y.failed = failed /\ y.out = out
  BY <1>10 DEF AutomatonSet
<1>14. z.pendingAllowance # SizeMax => p + t = z.pendingAllowance + z.sent
  <2> SUFFICES ASSUME z.pendingAllowance # SizeMax
               PROVE  p + t = z.pendingAllowance + z.sent
    OBVIOUS
  <2>1. p + d = z.pendingAllowance
    BY <1>2 DEF Drains
  <2> QED BY <1>3, <1>4, <1>5, <2>1
<1>15. (z.pendingAllowance = SizeMax => p = SizeMax)
       /\ (z.pendingAllowance # SizeMax => failed = z.failed)
  BY <1>2, Zenon DEF Drains
<1>16. Sends(k, from, e, s, z, y)
  BY <1>6, <1>7, <1>8, <1>12, <1>13, <1>14, <1>15, Zenon DEF Sends
<1> QED BY <1>1, <1>16

(***************************************************************************)
(* The allowance is what was requested and not yet received, and nothing   *)
(* was received that the peer was not allowed to send.                     *)
(***************************************************************************)
Balanced(x) ==
    \/ x.allowance = SizeMax
    \/ /\ x.allowance + Len(x.received) = x.pendingAllowance + x.sent
       /\ Len(x.received) <= x.sent

(***************************************************************************)
(* generateRequest takes z to y and asks for n.                            *)
(***************************************************************************)
Asks(k, from, e, s, z, y, n) ==
    /\ ConsumerMoves(z, y)
    /\ y.state = z.state /\ y.received = z.received /\ y.requests = z.requests
    /\ y.initialResponseAllowance = z.initialResponseAllowance
    /\ Balanced(y)
    /\ z.allowance = SizeMax => y.allowance = SizeMax
    /\ z.pendingAllowance + n < SizeMax =>
          /\ y.pendingAllowance + y.sent = z.pendingAllowance + z.sent + n
          /\ y.failed = z.failed
    /\ Spoken(k, y.out, from, e, s, y.sent)
    /\ z.out # << >> => y.out # << >> /\ y.out[1] = z.out[1]

(* generateRequest adds to the allowance what it adds to the pending and   *)
(* the sent credit.                                                        *)
LEMMA GenerateRequestAsks ==
    ASSUME NEW z \in AutomatonSet, NEW k, NEW from \in {1, 2}, NEW e \in Nat, NEW s \in Nat,
           Spoken(k, z.out, from, e, s, z.sent), Balanced(z), NEW n \in Nat
    PROVE  Asks(k, from, e, s, z, GenerateRequest(z, n), n)
<1>1. PICK a : a = Release(z.allowance, n)
  OBVIOUS
<1>2. PICK q : q = Release(z.pendingAllowance, n)
  OBVIOUS
<1>3. PICK u : u = [z EXCEPT !.allowance = a, !.pendingAllowance = q]
  OBVIOUS
<1>4. PICK y : y = SendRequests(u)
  OBVIOUS
<1>5. GenerateRequest(z, n) = y
  BY <1>1, <1>2, <1>3, <1>4, Zenon DEF GenerateRequest
<1>6. /\ z.allowance \in 0..SizeMax /\ z.pendingAllowance \in 0..SizeMax /\ z.sent \in Nat
      /\ z.received \in Seq(Nat)
  BY DEF AutomatonSet
<1>7. Len(z.received) \in Nat
  BY <1>6
<1>8. /\ a \in 0..SizeMax /\ q \in 0..SizeMax
      /\ a = SizeMax \/ a = z.allowance + n
      /\ z.allowance = SizeMax => a = SizeMax
      /\ z.pendingAllowance + n < SizeMax => q = z.pendingAllowance + n
  BY <1>1, <1>2, <1>6, SizeMaxAssumption DEF Release
<1>9. u \in AutomatonSet
  BY <1>3, <1>8 DEF AutomatonSet
<1>10. /\ u.allowance = a /\ u.pendingAllowance = q /\ u.sent = z.sent /\ u.out = z.out
       /\ u.state = z.state /\ u.received = z.received /\ u.requests = z.requests
       /\ u.initialResponseAllowance = z.initialResponseAllowance /\ u.failed = z.failed
       /\ ConsumerMoves(z, u)
  BY <1>3, <1>9 DEF AutomatonSet, ConsumerMoves, ProducerSame
<1>11. Sends(k, from, e, s, u, y)
  BY <1>4, <1>9, <1>10, SendRequestsSends
<1>12. /\ y.state = u.state /\ y.received = u.received /\ y.requests = u.requests
       /\ y.initialResponseAllowance = u.initialResponseAllowance
       /\ y.allowance = u.allowance
       /\ Spoken(k, y.out, from, e, s, y.sent)
       /\ u.out # << >> => y.out # << >> /\ y.out[1] = u.out[1]
       /\ u.pendingAllowance # SizeMax =>
             /\ y.pendingAllowance + y.sent = u.pendingAllowance + u.sent
             /\ y.failed = u.failed
       /\ y.sent >= u.sent /\ ConsumerMoves(u, y)
  BY <1>11, Zenon DEF Sends
<1>13. ConsumerMoves(z, y)
  BY <1>10, <1>12, Zenon DEF ConsumerMoves, ProducerSame
<1>14. z.pendingAllowance + n < SizeMax =>
          /\ y.pendingAllowance + y.sent = z.pendingAllowance + z.sent + n
          /\ y.failed = z.failed
  <2> SUFFICES ASSUME z.pendingAllowance + n < SizeMax
               PROVE  /\ y.pendingAllowance + y.sent = z.pendingAllowance + z.sent + n
                      /\ y.failed = z.failed
    OBVIOUS
  <2>1. q = z.pendingAllowance + n /\ q # SizeMax
    BY <1>6, <1>8, SizeMaxAssumption
  <2>2. y.pendingAllowance + y.sent = q + z.sent /\ y.failed = z.failed
    BY <1>10, <1>12, <2>1
  <2> QED BY <1>6, <2>1, <2>2
<1>15. Balanced(y)
  <2>1. y.sent \in Nat /\ y.pendingAllowance \in 0..SizeMax
    BY <1>13 DEF ConsumerMoves, AutomatonSet
  <2>2. CASE a = SizeMax
    BY <1>10, <1>12, <2>2 DEF Balanced
  <2>3. CASE a # SizeMax
    <3>1. a = z.allowance + n /\ z.allowance # SizeMax /\ a < SizeMax
      BY <1>8, <2>3, SizeMaxAssumption
    <3>2. z.allowance + Len(z.received) = z.pendingAllowance + z.sent
          /\ Len(z.received) <= z.sent
      BY <3>1 DEF Balanced
    <3>3. z.pendingAllowance + n < SizeMax
      BY <1>6, <1>7, <3>1, <3>2, SizeMaxAssumption
    <3>4. y.pendingAllowance + y.sent = z.pendingAllowance + z.sent + n
      BY <1>14, <3>3
    <3>5. a + Len(z.received) = y.pendingAllowance + y.sent
      BY <1>6, <1>7, <2>1, <3>1, <3>2, <3>4, SizeMaxAssumption
    <3>6. Len(z.received) <= y.sent
      BY <1>6, <1>7, <1>10, <1>12, <2>1, <3>2
    <3> QED BY <1>10, <1>12, <3>5, <3>6 DEF Balanced
  <2> QED BY <2>2, <2>3
<1>16. z.allowance = SizeMax => y.allowance = SizeMax
  BY <1>8, <1>10, <1>12
<1>17. Asks(k, from, e, s, z, y, n)
  BY <1>10, <1>12, <1>13, <1>14, <1>15, <1>16, Zenon DEF Asks
<1> QED BY <1>5, <1>17

(***************************************************************************)
(* One more request keeps below the bound.                                 *)
(***************************************************************************)
LEMMA TimesGrows ==
    ASSUME NEW a \in Nat, NEW b \in Nat, NEW c \in Nat, b <= c
    PROVE  a * b <= a * c /\ a * b \in Nat /\ a * (b + 1) = a * b + a
<1>1. PICK d \in Nat : c = b + d
  <2>1. c - b \in Nat /\ c = b + (c - b)
    OBVIOUS
  <2> QED BY <2>1
<1>2. a * (b + d) = a * b + a * d /\ a * d \in Nat /\ a * b \in Nat
  OBVIOUS
<1>3. a * (b + 1) = a * b + a
  OBVIOUS
<1> QED BY <1>1, <1>2, <1>3

MaxRequestsOf(k) == IF k = "stream" THEN MaxRequests ELSE MaxChannelRequests

(* The bound on a single request is one.                                   *)
LEMMA LargestIs ==
    ASSUME Tame
    PROVE  /\ LargestRequest \in Nat
           /\ \A n \in RequestSizes : n <= LargestRequest
           /\ LargestRequest * MaxRequests < SizeMax
           /\ LargestRequest * MaxChannelRequests < SizeMax
<1>1. \E m \in Nat : CreditBound(m)
  BY Zenon DEF Tame, CreditFits
<1>2. LargestRequest \in Nat /\ CreditBound(LargestRequest)
  BY <1>1, Zenon DEF LargestRequest
<1> QED BY <1>2, Zenon DEF CreditBound

(* One more request stays below the largest size_t.                        *)
LEMMA AsksWithin ==
    ASSUME Tame, NEW k, NEW c \in Nat, c + 1 <= MaxRequestsOf(k), NEW n \in RequestSizes
    PROVE  /\ LargestRequest * (c + 1) = LargestRequest * c + LargestRequest
           /\ LargestRequest \in Nat /\ LargestRequest * c \in Nat
           /\ n <= LargestRequest /\ n \in Nat
           /\ LargestRequest * (c + 1) < SizeMax
<1>1. PICK L : L = LargestRequest
  OBVIOUS
<1>2. L \in Nat /\ n <= L /\ L * MaxRequests < SizeMax /\ L * MaxChannelRequests < SizeMax
  BY <1>1, LargestIs
<1>3. MaxRequests \in Nat /\ MaxChannelRequests \in Nat /\ n \in Nat
  BY InteractionsAssumption
<1>4. PICK m : m = MaxRequestsOf(k)
  OBVIOUS
<1>5. m \in Nat /\ L * m < SizeMax
  BY <1>2, <1>3, <1>4 DEF MaxRequestsOf
<1>6. c + 1 \in Nat /\ c + 1 <= m
  BY <1>4
<1>7. L * (c + 1) <= L * m /\ L * (c + 1) \in Nat
  BY <1>2, <1>5, <1>6, TimesGrows
<1>8. L * m \in Nat
  BY <1>2, <1>5
<1>9. L * (c + 1) < SizeMax
  BY <1>5, <1>7, <1>8, SizeMaxAssumption
<1>10. L * (c + 1) = L * c + L /\ L * c \in Nat
  BY <1>2, TimesGrows
<1> QED BY <1>1, <1>2, <1>3, <1>9, <1>10

(***************************************************************************)
(* Nothing was received beyond what was sent as credit.                    *)
(***************************************************************************)
LEMMA Afforded ==
    ASSUME IInv, NEW role \in Roles, kind # "response", NEW x, x = automaton[role], x.open
    PROVE  Balanced(x)
<1>1. PICK a : a = automaton[Peer(role)]
  OBVIOUS
<1>2. Peer(role) \in Roles /\ Peer(Peer(role)) = role
  BY PeerIs
<1>3. /\ Local(kind, role, x) /\ Local(kind, Peer(role), a)
      /\ Towards(kind, role, x, a, wire[role])
      /\ Towards(kind, Peer(role), a, x, wire[Peer(role)])
  BY <1>1, <1>2, Zenon DEF IInv
<1>4. Len(x.received) <= a.emitted /\ (a.initialRequestN = SizeMax => x.allowance = SizeMax)
  BY <1>3, Zenon DEF Towards, TowardsFrom
<1>5. a.granted <= x.sent
  BY <1>3, Zenon DEF Towards, TowardsFrom
<1>6. a.initialRequestN = SizeMax \/ a.emitted <= a.granted
  BY <1>3, Zenon DEF Local, Accounts
<1>7. x.allowance = SizeMax \/ x.allowance + Len(x.received) = x.pendingAllowance + x.sent
  BY <1>3, Zenon DEF Local, Accounts
<1>8. Len(x.received) \in Nat /\ a.emitted \in Nat /\ a.granted \in Nat /\ x.sent \in Nat
  BY <1>2, <1>3, LocalTypes
<1>9. a.initialRequestN = SizeMax \/ Len(x.received) <= x.sent
  BY <1>4, <1>5, <1>6, <1>8
<1> QED BY <1>4, <1>7, <1>9, Zenon DEF Balanced

(***************************************************************************)
(* A step of a consumer that may write the request and REQUEST_N frames.   *)
(***************************************************************************)
Opens(k, role, x, y, from) ==
    \/ from = 1 /\ y.state = x.state /\ (x.state = "NEW" => y.out = << >>)
    \/ /\ from = 2 /\ role = "requester" /\ x.state = "NEW" /\ y.state = "REQUESTED"
       /\ y.out # << >> /\ y.out[1].type = Opening(k)

(* Frames that grant credit are frames the other end expects.              *)
LEMMA SpokenWritten ==
    ASSUME NEW k \in {"stream", "channel"}, NEW role \in Roles, NEW x, NEW y, NEW from,
           role = "responder" => k = "channel", x.state \in StatesOf(role),
           NEW e, NEW s, NEW t, Spoken(k, y.out, from, e, s, t), Opens(k, role, x, y, from)
    PROVE  Written(k, role, x, y)
<1>1. "REQUEST_N" \in ToResponder(k) /\ (k = "channel" => "REQUEST_N" \in ToRequester(k))
  BY DEF ToResponder, ToRequester
<1>2. AllIn(y.out, from, ToResponder(k))
      /\ (k = "channel" => AllIn(y.out, from, ToRequester(k)))
  BY <1>1 DEF Spoken, AllIn
<1>3. role = "requester" \/ role = "responder"
  BY DEF Roles
<1>4. CASE role = "requester"
  BY <1>2, <1>4, Zenon DEF Written, Opens
<1>5. CASE role = "responder"
  BY <1>2, <1>5, Zenon DEF Written, Opens
<1> QED BY <1>3, <1>4, <1>5

(* A step that asks for credit and keeps the consumer's account balanced.  *)
LEMMA AsksEffect ==
    ASSUME NEW k \in {"stream", "channel"}, NEW role \in Roles,
           role = "responder" => k = "channel",
           NEW x, Local(k, role, x), x.open,
           NEW y, Open(role, y), Consuming(k, role, y), ProducerHalf(k, role, y),
           \/ y.allowance = SizeMax
           \/ y.allowance + Len(y.received) = y.pendingAllowance + y.sent,
           x.allowance = SizeMax => y.allowance = SizeMax,
           Tame => /\ y.failed = FALSE
                   /\ y.pendingAllowance + y.sent + y.initialResponseAllowance
                          <= LargestRequest * y.requests
                   /\ y.requests <= MaxRequestsOf(k),
           y.emitted = x.emitted, y.initialRequestN = x.initialRequestN,
           NEW from, Spoken(k, y.out, from, x.emitted, x.sent, y.sent),
           Opens(k, role, x, y, from),
           NEW r, r = Len(y.received), NEW g, g = y.granted, NEW whole
    PROVE  Effect(k, role, x, y, r, g, whole)
<1>1. y.allowance = SizeMax
      \/ y.allowance + Len(y.received) = y.pendingAllowance + y.sent
  OBVIOUS
<1>2. ConsumerHalf(k, role, y)
  BY <1>1, Zenon DEF ConsumerHalf, MaxRequestsOf
<1>3. Local(k, role, y)
  BY <1>2, Halves
<1>4. x.state \in StatesOf(role)
  BY LocalTypes
<1>5. Written(k, role, x, y)
  BY <1>4, SpokenWritten
<1>6. /\ \A i \in 1..Len(y.out) : ~Final(k, y.out[i])
      /\ Payloads(y.out, x.emitted, y.emitted) /\ Credits(y.out, x.sent, y.sent)
  BY Zenon DEF Spoken
<1>7. y.open
  BY DEF Open
<1> QED BY <1>3, <1>5, <1>6, <1>7, OpenEffect

(***************************************************************************)
(* A call of request(n) is counted.                                        *)
(***************************************************************************)
Counted(x, z) ==
    /\ ConsumerMoves(x, z)
    /\ z.requests = x.requests + 1
    /\ z.state = x.state /\ z.failed = x.failed /\ z.out = x.out
    /\ z.received = x.received /\ z.gaveUp = x.gaveUp
    /\ z.allowance = x.allowance /\ z.pendingAllowance = x.pendingAllowance
    /\ z.initialResponseAllowance = x.initialResponseAllowance
    /\ z.sent = x.sent

(* Counting a request changes nothing else.                                *)
LEMMA Counts ==
    ASSUME NEW x \in AutomatonSet, NEW z, z = [x EXCEPT !.requests = @ + 1]
    PROVE  Counted(x, z)
<1>1. PICK c : c = x.requests + 1
  OBVIOUS
<1>2. c \in Nat
  BY <1>1 DEF AutomatonSet
<1>3. z = [x EXCEPT !.requests = c]
  BY <1>1
<1>4. z \in AutomatonSet
  BY <1>2, <1>3 DEF AutomatonSet
<1> QED BY <1>1, <1>3, <1>4 DEF Counted, ConsumerMoves, ProducerSame, AutomatonSet

(***************************************************************************)
(* A call of request(n) that does nothing.                                 *)
(***************************************************************************)
LEMMA CountEffect ==
    ASSUME NEW k \in Kinds, NEW x, Local(k, "requester", x), x.out = << >>,
           k # "response" => x.requests + 1 <= MaxRequestsOf(k),
           NEW y, y = [x EXCEPT !.requests = @ + 1]
    PROVE  Effect(k, "requester", x, y, Len(x.received), x.granted, "part")
<1>1. "requester" \in Roles
  BY DEF Roles
<1>2. x \in AutomatonSet /\ x.state \in StatesOf("requester")
  BY <1>1, LocalTypes
<1>3. x.state # "NONE"
  BY <1>2 DEF StatesOf
<1>4. Counted(x, y)
  BY <1>2, Counts
<1>5. /\ ConsumerMoves(x, y) /\ ProducerSame(x, y)
      /\ y.state = x.state /\ y.failed = x.failed /\ y.out = x.out
      /\ y.received = x.received /\ y.gaveUp = x.gaveUp
      /\ y.allowance = x.allowance /\ y.pendingAllowance = x.pendingAllowance
      /\ y.initialResponseAllowance = x.initialResponseAllowance
      /\ y.sent = x.sent /\ y \in AutomatonSet
      /\ y.open = x.open /\ y.terminated = x.terminated
      /\ y.subscriber = x.subscriber /\ y.terminal = x.terminal /\ y.surplus = x.surplus
      /\ y.requests = x.requests + 1
  BY <1>4, Zenon DEF Counted, ConsumerMoves
<1>6. Shape("requester", y)
  BY <1>3, <1>5, Zenon DEF Local, Shape
<1>7. Publishing(k, y)
  BY <1>5, Zenon DEF Local, Publishing, ProducerSame
<1>8. Consuming(k, "requester", y)
  BY <1>5, Zenon DEF Local, Consuming
<1>9. Accounts(y)
  <2>1. OwnRequest(y) = OwnRequest(x)
    BY <1>5, Zenon DEF OwnRequest, ProducerSame
  <2> QED BY <1>5, <2>1, Zenon DEF Local, Accounts, ProducerSame
<1>10. Checked(k, "requester", y)
  <2> SUFFICES ASSUME Tame PROVE Checked(k, "requester", y)
    BY DEF Checked
  <2>1. /\ x.failed = FALSE
        /\ k # "response" =>
              /\ x.pendingAllowance + x.sent + x.initialResponseAllowance
                     <= LargestRequest * x.requests
        /\ k = "channel" /\ ~x.subscribed => x.state = "NEW"
    BY Zenon DEF Local, Checked
  <2>2. /\ x.requests \in Nat /\ x.sent \in Nat
        /\ x.pendingAllowance \in Nat /\ x.initialResponseAllowance \in Nat
    BY <1>2, SizeMaxAssumption DEF AutomatonSet
  <2>3. LargestRequest * x.requests <= LargestRequest * (x.requests + 1)
        /\ LargestRequest * x.requests \in Nat /\ LargestRequest * (x.requests + 1) \in Nat
    <3>1. LargestRequest \in Nat
      BY LargestIs
    <3> QED BY <2>2, <3>1, TimesGrows
  <2>4. PICK c, d : c = LargestRequest * x.requests /\ d = LargestRequest * (x.requests + 1)
    BY Zenon
  <2>5. PICK p : p = x.pendingAllowance + x.sent + x.initialResponseAllowance
    OBVIOUS
  <2>6. k # "response" => p <= d
    <3>1. p \in Nat /\ c \in Nat /\ d \in Nat /\ c <= d
      BY <2>2, <2>3, <2>4, <2>5
    <3> QED BY <2>1, <2>4, <2>5, <3>1
  <2>7. k # "response" => y.pendingAllowance + y.sent + y.initialResponseAllowance
                              <= LargestRequest * y.requests
    BY <1>5, <2>4, <2>5, <2>6, Zenon
  <2>8. k # "response" => y.requests <= MaxRequestsOf(k)
    BY <1>5, Zenon
  <2>9. y.failed = FALSE /\ (k = "channel" /\ ~y.subscribed => y.state = "NEW")
    BY <1>5, <2>1, Zenon DEF ProducerSame
  <2> QED BY <2>7, <2>8, <2>9, Zenon DEF Checked, MaxRequestsOf
<1>11. Local(k, "requester", y)
  BY <1>5, <1>6, <1>7, <1>8, <1>9, <1>10, Zenon DEF Local
<1>12. Effect(k, "requester", x, x, Len(x.received), x.granted, "part")
  BY <1>1, <1>3, NoEffect
<1>13. Written(k, "requester", x, y)
  BY <1>5, <1>12, Zenon DEF Effect, Written
<1>14. Told(y) <=> Told(x)
  BY <1>5, Zenon DEF Told
<1> QED BY <1>5, <1>11, <1>12, <1>13, <1>14, Zenon DEF Effect, ProducerSame

(* What Local says of an open automaton.                                   *)
LEMMA OpenAutomaton ==
    ASSUME NEW k, NEW role \in Roles, NEW x, Local(k, role, x), x.open
    PROVE  /\ x \in AutomatonSet /\ Open(role, x) /\ ConsumerHalf(k, role, x)
           /\ ProducerHalf(k, role, x) /\ Consuming(k, role, x)
           /\ Len(x.received) \in Nat /\ x.granted \in Nat /\ x.emitted \in Nat
           /\ x.sent \in Nat /\ x.requests \in Nat
           /\ x.pendingAllowance \in Nat /\ x.initialResponseAllowance \in Nat
           /\ Tame => x.failed = FALSE
<1>1. Open(role, x) /\ ConsumerHalf(k, role, x) /\ ProducerHalf(k, role, x)
      /\ (Tame => x.failed = FALSE)
  BY Halves
<1>2. x \in AutomatonSet
  BY LocalTypes
<1>3. x.requests \in Nat /\ x.pendingAllowance \in Nat /\ x.initialResponseAllowance \in Nat
  BY <1>2, SizeMaxAssumption DEF AutomatonSet
<1>4. Consuming(k, role, x)
  BY <1>1 DEF ConsumerHalf
<1> QED BY <1>1, <1>2, <1>3, <1>4, LocalTypes

(***************************************************************************)
(* What is kept while only the consumer of an open automaton moves.        *)
(***************************************************************************)
LEMMA MovesKeep ==
    ASSUME NEW k, NEW role \in Roles, NEW x, Local(k, role, x), x.open,
           NEW y, ConsumerMoves(x, y),
           y.state = x.state \/ (x.state = "NEW" /\ y.state = "REQUESTED" /\ k # "channel"
                                 /\ role = "requester")
    PROVE  /\ Open(role, y) /\ ProducerHalf(k, role, y)
           /\ y.received = x.received => Consuming(k, role, y)
<1>1. Open(role, x) /\ ProducerHalf(k, role, x) /\ Consuming(k, role, x)
  BY OpenAutomaton
<1>2. y.state \in StatesOf(role) /\ y.state # "NONE" /\ y.state # "CLOSED"
  BY <1>1 DEF Open, StatesOf
<1>3. Open(role, y)
  BY <1>1, <1>2, Zenon DEF Open, ConsumerMoves
<1>4. ProducerHalf(k, role, y)
  BY <1>1, <1>3, SameProducer DEF ConsumerMoves
<1>5. y.received = x.received => Consuming(k, role, y)
  BY <1>1, <1>2, Zenon DEF Consuming, ConsumerMoves, Open
<1> QED BY <1>3, <1>4, <1>5

(***************************************************************************)
(* What was asked for in all, when the application asks for n more.        *)
(***************************************************************************)
LEMMA AskedWithin ==
    ASSUME NEW k \in {"stream", "channel"}, NEW role \in Roles, NEW x, Local(k, role, x),
           x.open, NEW n \in RequestSizes, x.requests + 1 <= MaxRequestsOf(k), Tame
    PROVE  /\ x.pendingAllowance + x.sent + x.initialResponseAllowance + n
                  <= LargestRequest * (x.requests + 1)
           /\ LargestRequest * (x.requests + 1) \in Nat
           /\ LargestRequest * (x.requests + 1) < SizeMax
           /\ n \in Nat
<1>1. /\ x.sent \in Nat /\ x.requests \in Nat
      /\ x.pendingAllowance \in Nat /\ x.initialResponseAllowance \in Nat
      /\ ConsumerHalf(k, role, x)
  BY OpenAutomaton
<1>2. x.pendingAllowance + x.sent + x.initialResponseAllowance
          <= LargestRequest * x.requests
  BY <1>1 DEF ConsumerHalf
<1>3. PICK c, d, L : c = LargestRequest * x.requests /\ d = LargestRequest * (x.requests + 1)
                     /\ L = LargestRequest
  BY Zenon
<1>4. d = c + L /\ L \in Nat /\ c \in Nat /\ n <= L /\ n \in Nat /\ d < SizeMax
  BY <1>1, <1>3, AsksWithin
<1>5. x.pendingAllowance + x.sent + x.initialResponseAllowance + n <= d
  BY <1>1, <1>2, <1>3, <1>4
<1> QED BY <1>3, <1>4, <1>5

(***************************************************************************)
(* request(n) of a stream or channel that runs: REQUEST_N.                 *)
(***************************************************************************)
LEMMA GenerateRequestEffect ==
    ASSUME NEW k \in {"stream", "channel"}, NEW role \in Roles,
           role = "responder" => k = "channel",
           NEW x, Local(k, role, x), x.open, x.out = << >>, x.state # "NEW", Balanced(x),
           NEW n \in RequestSizes, x.requests + 1 <= MaxRequestsOf(k),
           NEW z, z = [x EXCEPT !.requests = @ + 1]
    PROVE  Effect(k, role, x, GenerateRequest(z, n), Len(x.received), x.granted, "part")
<1>1. /\ x \in AutomatonSet /\ x.sent \in Nat /\ x.emitted \in Nat
      /\ x.pendingAllowance \in Nat /\ x.initialResponseAllowance \in Nat
      /\ x.requests \in Nat
      /\ Tame => x.failed = FALSE
  BY OpenAutomaton
<1>2. Counted(x, z)
  BY <1>1, Counts
<1>3. /\ z \in AutomatonSet /\ z.out = << >> /\ z.sent = x.sent /\ z.received = x.received
      /\ z.allowance = x.allowance /\ z.pendingAllowance = x.pendingAllowance
      /\ z.state = x.state /\ z.failed = x.failed /\ z.requests = x.requests + 1
      /\ z.initialResponseAllowance = x.initialResponseAllowance
      /\ ConsumerMoves(x, z)
  BY <1>2, Zenon DEF Counted, ConsumerMoves
<1>4. Balanced(z)
  BY <1>3, Zenon DEF Balanced
<1>5. Spoken(k, z.out, 1, x.emitted, x.sent, z.sent)
  BY <1>1, <1>3, SpokenNone
<1>6. n \in Nat
  BY InteractionsAssumption
<1>7. PICK y : y = GenerateRequest(z, n)
  OBVIOUS
<1>8. Asks(k, 1, x.emitted, x.sent, z, y, n)
  BY <1>1, <1>3, <1>4, <1>5, <1>6, <1>7, GenerateRequestAsks
<1>9. /\ ConsumerMoves(z, y)
      /\ y.state = x.state /\ y.received = x.received /\ y.requests = x.requests + 1
      /\ y.initialResponseAllowance = x.initialResponseAllowance
      /\ Balanced(y)
      /\ x.allowance = SizeMax => y.allowance = SizeMax
      /\ x.pendingAllowance + n < SizeMax =>
            /\ y.pendingAllowance + y.sent = x.pendingAllowance + x.sent + n
            /\ y.failed = x.failed
      /\ Spoken(k, y.out, 1, x.emitted, x.sent, y.sent)
  BY <1>3, <1>8, Zenon DEF Asks
<1>10. ConsumerMoves(x, y)
  BY <1>3, <1>9, Zenon DEF ConsumerMoves, ProducerSame
<1>11. Open(role, y) /\ ProducerHalf(k, role, y) /\ Consuming(k, role, y)
  BY <1>9, <1>10, MovesKeep
<1>12. ASSUME Tame
       PROVE  /\ y.failed = FALSE
              /\ y.pendingAllowance + y.sent + y.initialResponseAllowance
                     <= LargestRequest * y.requests
              /\ y.requests <= MaxRequestsOf(k)
  <2>1. PICK d : d = LargestRequest * (x.requests + 1)
    OBVIOUS
  <2>2. x.pendingAllowance + x.sent + x.initialResponseAllowance + n <= d
        /\ d \in Nat /\ d < SizeMax
    BY <1>12, <2>1, AskedWithin
  <2>3. x.pendingAllowance + n < SizeMax
    BY <1>1, <1>6, <2>2, SizeMaxAssumption
  <2>4. y.pendingAllowance + y.sent = x.pendingAllowance + x.sent + n /\ y.failed = FALSE
    BY <1>1, <1>9, <1>12, <2>3
  <2>5. y.pendingAllowance \in Nat /\ y.sent \in Nat
    BY <1>10, SizeMaxAssumption DEF ConsumerMoves, AutomatonSet
  <2>6. y.pendingAllowance + y.sent + y.initialResponseAllowance <= d
    BY <1>1, <1>6, <1>9, <2>2, <2>4, <2>5
  <2> QED BY <1>9, <2>1, <2>4, <2>6
<1>13. Opens(k, role, x, y, 1)
  BY <1>9, Zenon DEF Opens
<1>14. y.emitted = x.emitted /\ y.initialRequestN = x.initialRequestN
       /\ y.granted = x.granted
  BY <1>10, Zenon DEF ConsumerMoves, ProducerSame
<1>15. PICK r, g : r = Len(x.received) /\ g = x.granted
  BY Zenon
<1>16. Effect(k, role, x, y, r, g, "part")
  <2>1. y.allowance = SizeMax
        \/ y.allowance + Len(y.received) = y.pendingAllowance + y.sent
    BY <1>9, Zenon DEF Balanced
  <2> QED BY <2>1, <1>9, <1>11, <1>12, <1>13, <1>14, <1>15, AsksEffect
<1> QED BY <1>7, <1>15, <1>16

(***************************************************************************)
(* The request itself: z has written it, with the credit i, and asks for m *)
(* more.                                                                   *)
(***************************************************************************)
Requesting(k, x, z, i, m) ==
    /\ z \in AutomatonSet /\ z.state = "REQUESTED"
    /\ z.open = x.open /\ z.terminated = x.terminated
    /\ z.subscriber = x.subscriber /\ z.terminal = x.terminal
    /\ z.surplus = x.surplus /\ z.received = x.received
    /\ z.emitted = x.emitted /\ z.initialRequestN = x.initialRequestN
    /\ z.granted = x.granted
    /\ ProducerHalf(k, "requester", z)
    /\ z.allowance = Release(x.allowance, i) /\ z.sent = x.sent + i
    /\ z.pendingAllowance = x.pendingAllowance
    /\ z.out = <<Frame(Opening(k), i)>>
    /\ Tame => /\ z.failed = FALSE
               /\ z.pendingAllowance + m < SizeMax
               /\ z.pendingAllowance + z.sent + m + z.initialResponseAllowance
                      <= LargestRequest * z.requests
               /\ z.requests <= MaxRequestsOf(k)

(* The request with the first credit, the rest through REQUEST_N.          *)
LEMMA FirstEffect ==
    ASSUME NEW k \in {"stream", "channel"}, NEW x, Local(k, "requester", x), x.open,
           x.state = "NEW", Balanced(x),
           NEW i \in 0..SizeMax, NEW m \in Nat, NEW z, Requesting(k, x, z, i, m),
           NEW y, (m = 0 /\ y = z) \/ y = GenerateRequest(z, m)
    PROVE  Effect(k, "requester", x, y, Len(x.received), x.granted, "part")
<1>0. /\ z \in AutomatonSet /\ z.state = "REQUESTED"
      /\ z.open = x.open /\ z.terminated = x.terminated
      /\ z.subscriber = x.subscriber /\ z.terminal = x.terminal
      /\ z.surplus = x.surplus /\ z.received = x.received
      /\ z.emitted = x.emitted /\ z.initialRequestN = x.initialRequestN
      /\ z.granted = x.granted
      /\ ProducerHalf(k, "requester", z)
      /\ z.allowance = Release(x.allowance, i) /\ z.sent = x.sent + i
      /\ z.pendingAllowance = x.pendingAllowance
      /\ z.out = <<Frame(Opening(k), i)>>
      /\ Tame => /\ z.failed = FALSE
                 /\ z.pendingAllowance + m < SizeMax
                 /\ z.pendingAllowance + z.sent + m + z.initialResponseAllowance
                        <= LargestRequest * z.requests
                 /\ z.requests <= MaxRequestsOf(k)
  BY Zenon DEF Requesting
<1>1. "requester" \in Roles
  BY DEF Roles
<1>2. /\ x \in AutomatonSet /\ x.sent \in Nat /\ x.emitted \in Nat
      /\ x.pendingAllowance \in Nat /\ Len(x.received) \in Nat
      /\ Open("requester", x) /\ Consuming(k, "requester", x)
  BY <1>1, OpenAutomaton
<1>3. x.allowance \in 0..SizeMax /\ i \in Nat /\ x.allowance \in Nat
  BY <1>2, SizeMaxAssumption DEF AutomatonSet
<1>4. Balanced(z)
  <2>1. CASE z.allowance = SizeMax
    BY <2>1 DEF Balanced
  <2>2. CASE z.allowance # SizeMax
    <3>1. z.allowance = x.allowance + i /\ x.allowance # SizeMax
      BY <1>0, <1>3, <2>2, SizeMaxAssumption DEF Release
    <3>2. x.allowance + Len(x.received) = x.pendingAllowance + x.sent
          /\ Len(x.received) <= x.sent
      BY <3>1 DEF Balanced
    <3>3. PICK b, l, p, s : b = x.allowance /\ l = Len(x.received)
                            /\ p = x.pendingAllowance /\ s = x.sent
      BY Zenon
    <3>4. b \in Nat /\ l \in Nat /\ p \in Nat /\ s \in Nat /\ b + l = p + s /\ l <= s
      BY <1>2, <1>3, <3>2, <3>3, Zenon
    <3>5. (b + i) + l = p + (s + i) /\ l <= s + i
      BY <1>3, <3>4
    <3> QED BY <1>0, <3>1, <3>3, <3>5, Zenon DEF Balanced
  <2> QED BY <2>1, <2>2
<1>5. x.allowance = SizeMax => z.allowance = SizeMax
  BY <1>0, <1>3, SizeMaxAssumption DEF Release
<1>6. Opening(k) \in CreditTypes /\ Opening(k) \in FrameTypes
  BY DEF Opening, CreditTypes, FrameTypes
<1>7. Spoken(k, z.out, 2, x.emitted, x.sent, z.sent)
  BY <1>0, <1>2, <1>6, SpokenFirst
<1>8. z.out # << >> /\ z.out[1].type = Opening(k)
  <2>1. PICK f : f = Frame(Opening(k), i)
    OBVIOUS
  <2>2. f.type = Opening(k)
    BY <1>6, <2>1, AFrame
  <2>3. z.out = <<f>>
    BY <1>0, <2>1
  <2> QED BY <2>2, <2>3
<1>9. Asks(k, 2, x.emitted, x.sent, z, y, m)
  <2>1. CASE m = 0 /\ y = z
    <3>1. ConsumerMoves(z, z)
      BY <1>0 DEF ConsumerMoves, ProducerSame
    <3>2. z.pendingAllowance + z.sent = z.pendingAllowance + z.sent + 0
      BY <1>0, <1>2, <1>3
    <3> QED BY <1>4, <1>7, <2>1, <3>1, <3>2, Zenon DEF Asks
  <2>2. CASE y = GenerateRequest(z, m)
    BY <1>0, <1>2, <1>4, <1>7, <2>2, GenerateRequestAsks
  <2> QED BY <2>1, <2>2
<1>10. /\ ConsumerMoves(z, y)
       /\ y.state = "REQUESTED" /\ y.received = x.received /\ y.requests = z.requests
       /\ y.initialResponseAllowance = z.initialResponseAllowance
       /\ Balanced(y)
       /\ z.allowance = SizeMax => y.allowance = SizeMax
       /\ z.pendingAllowance + m < SizeMax =>
             /\ y.pendingAllowance + y.sent = z.pendingAllowance + z.sent + m
             /\ y.failed = z.failed
       /\ Spoken(k, y.out, 2, x.emitted, x.sent, y.sent)
       /\ y.out # << >> /\ y.out[1] = z.out[1]
  BY <1>0, <1>8, <1>9, Zenon DEF Asks
<1>11. Open("requester", z)
  BY <1>0, <1>2, Zenon DEF Open, StatesOf
<1>12. Open("requester", y)
  BY <1>0, <1>10, <1>11, Zenon DEF Open, ConsumerMoves
<1>13. ProducerHalf(k, "requester", y)
  <2>1. ProducerSame(z, y)
    BY <1>10 DEF ConsumerMoves
  <2> QED BY <1>0, <1>10, <1>11, <1>12, <2>1, SameProducer
<1>14. Consuming(k, "requester", y)
  <2>1. y.state # "CLOSED" /\ x.state # "CLOSED"
    BY <1>10
  <2>2. y.open = x.open /\ y.subscriber = x.subscriber /\ y.terminal = x.terminal
        /\ y.surplus = x.surplus
    BY <1>0, <1>10, Zenon DEF ConsumerMoves
  <2> QED BY <1>2, <1>10, <2>1, <2>2, Zenon DEF Consuming
<1>15. y.emitted = x.emitted /\ y.initialRequestN = x.initialRequestN
       /\ y.granted = x.granted
  BY <1>0, <1>10, Zenon DEF ConsumerMoves, ProducerSame
<1>16. ASSUME Tame
       PROVE  /\ y.failed = FALSE
              /\ y.pendingAllowance + y.sent + y.initialResponseAllowance
                     <= LargestRequest * y.requests
              /\ y.requests <= MaxRequestsOf(k)
  <2>1. y.pendingAllowance + y.sent = z.pendingAllowance + z.sent + m /\ y.failed = FALSE
    BY <1>0, <1>10, <1>16
  <2>2. y.pendingAllowance + y.sent + y.initialResponseAllowance
            = z.pendingAllowance + z.sent + m + z.initialResponseAllowance
    BY <1>10, <2>1
  <2> QED BY <1>0, <1>10, <1>16, <2>1, <2>2
<1>17. Opens(k, "requester", x, y, 2)
  BY <1>8, <1>10, Zenon DEF Opens
<1>18. PICK r, g : r = Len(x.received) /\ g = x.granted
  BY Zenon
<1>19. x.allowance = SizeMax => y.allowance = SizeMax
  BY <1>5, <1>10
<1>20. Effect(k, "requester", x, y, r, g, "part")
  <2>1. y.allowance = SizeMax
        \/ y.allowance + Len(y.received) = y.pendingAllowance + y.sent
    BY <1>10, Zenon DEF Balanced
  <2> QED BY <2>1, <1>1, <1>10, <1>12, <1>13, <1>14, <1>15, <1>16, <1>17, <1>18, <1>19, AsksEffect
<1> QED BY <1>18, <1>20

(***************************************************************************)
(* The request of a stream with the credit i.                              *)
(***************************************************************************)
FirstSize(n) == IF n > MaxRequestN THEN MaxRequestN ELSE n

FirstAsked(u, i) ==
    Output([u EXCEPT !.state = "REQUESTED", !.allowance = Release(@, i), !.sent = @ + i],
           Frame("REQUEST_STREAM", i))

(***************************************************************************)
(* The first request(n) of a stream: REQUEST_STREAM with as much as fits.  *)
(***************************************************************************)
LEMMA FirstRequestEffect ==
    ASSUME NEW x, Local("stream", "requester", x), x.open, x.state = "NEW", x.out = << >>,
           Balanced(x),
           NEW n \in RequestSizes, x.requests + 1 <= MaxRequests,
           NEW u, u = [x EXCEPT !.requests = @ + 1],
           NEW i, i = FirstSize(n), NEW z, z = FirstAsked(u, i),
           NEW y, y = IF n > i THEN GenerateRequest(z, n - i) ELSE z
    PROVE  Effect("stream", "requester", x, y, Len(x.received), x.granted, "part")
<1>1. "requester" \in Roles /\ "stream" \in {"stream", "channel"}
  BY DEF Roles
<1>2. /\ x \in AutomatonSet /\ x.sent \in Nat /\ x.emitted \in Nat
      /\ x.pendingAllowance \in Nat /\ x.initialResponseAllowance \in Nat
      /\ x.requests \in Nat
      /\ Tame => x.failed = FALSE
  BY <1>1, OpenAutomaton
<1>3. n \in Nat
  BY InteractionsAssumption
<1>4. i \in Nat /\ i <= n /\ i <= SizeMax /\ i \in 0..SizeMax
  BY <1>3, MaxRequestNAssumption, SizeMaxAssumption DEF FirstSize
<1>5. PICK a, s, c, f : a = Release(x.allowance, i) /\ s = x.sent + i /\ c = x.requests + 1
                        /\ f = Frame("REQUEST_STREAM", i)
  BY Zenon
<1>6. x.allowance \in 0..SizeMax
  BY <1>2 DEF AutomatonSet
<1>7. a \in 0..SizeMax /\ s \in Nat /\ c \in Nat
  BY <1>2, <1>4, <1>5, <1>6, SizeMaxAssumption DEF Release
<1>8. f \in FrameSet
  BY <1>4, <1>5, AFrame DEF FrameTypes
<1>9. Append(<< >>, f) = <<f>> /\ <<f>> \in Seq(FrameSet)
  BY <1>8
<1>10. z = [x EXCEPT !.requests = c, !.state = "REQUESTED", !.allowance = a, !.sent = s,
                     !.out = <<f>>]
  <2>1. u.allowance = x.allowance /\ u.sent = x.sent /\ u.out = << >>
        /\ u = [x EXCEPT !.requests = c]
    BY <1>2, <1>5 DEF AutomatonSet
  <2>2. [u EXCEPT !.state = "REQUESTED", !.allowance = Release(@, i), !.sent = @ + i]
            = [u EXCEPT !.state = "REQUESTED", !.allowance = a, !.sent = s]
    BY <1>2, <1>5, <2>1 DEF AutomatonSet
  <2>3. PICK v : v = [u EXCEPT !.state = "REQUESTED", !.allowance = a, !.sent = s]
    OBVIOUS
  <2>4. v.out = << >>
    BY <1>2, <2>1, <2>3 DEF AutomatonSet
  <2>5. z = [v EXCEPT !.out = <<f>>]
    <3>1. z = Output(v, f)
      BY <1>5, <2>2, <2>3, Zenon DEF FirstAsked
    <3> QED BY <1>9, <2>4, <3>1 DEF Output
  <2> QED BY <1>2, <2>1, <2>3, <2>5 DEF AutomatonSet
<1>11. z \in AutomatonSet
  <2>1. "REQUESTED" \in States
    BY DEF States
  <2>2. PICK v : v = [x EXCEPT !.requests = c, !.state = "REQUESTED", !.allowance = a]
    OBVIOUS
  <2>3. v \in AutomatonSet
    BY <1>2, <1>7, <2>1, <2>2 DEF AutomatonSet
  <2>4. z = [v EXCEPT !.sent = s, !.out = <<f>>]
    BY <1>2, <1>10, <2>2 DEF AutomatonSet
  <2> QED BY <1>7, <1>9, <2>3, <2>4 DEF AutomatonSet
<1>12. /\ ConsumerMoves(x, z) /\ z.state = "REQUESTED" /\ z.received = x.received
       /\ z.allowance = a /\ z.sent = s /\ z.out = <<f>> /\ z.requests = c
       /\ z.pendingAllowance = x.pendingAllowance /\ z.failed = x.failed
       /\ z.initialResponseAllowance = x.initialResponseAllowance
  BY <1>2, <1>10, <1>11 DEF AutomatonSet, ConsumerMoves, ProducerSame
<1>13. ProducerHalf("stream", "requester", z)
  BY <1>1, <1>12, MovesKeep
<1>14. /\ z.open = x.open /\ z.terminated = x.terminated
       /\ z.subscriber = x.subscriber /\ z.terminal = x.terminal
       /\ z.surplus = x.surplus
       /\ z.emitted = x.emitted /\ z.initialRequestN = x.initialRequestN
       /\ z.granted = x.granted
  BY <1>12, Zenon DEF ConsumerMoves, ProducerSame
<1>15. PICK m : m = n - i
  OBVIOUS
<1>16. m \in Nat /\ i + m = n /\ ((m = 0 /\ y = z) \/ y = GenerateRequest(z, m))
  BY <1>3, <1>4, <1>15
<1>17. ASSUME Tame
       PROVE  /\ z.failed = FALSE
              /\ z.pendingAllowance + m < SizeMax
              /\ z.pendingAllowance + z.sent + m + z.initialResponseAllowance
                     <= LargestRequest * z.requests
              /\ z.requests <= MaxRequestsOf("stream")
  <2>1. x.requests + 1 <= MaxRequestsOf("stream")
    BY DEF MaxRequestsOf
  <2>2. PICK d : d = LargestRequest * (x.requests + 1)
    OBVIOUS
  <2>3. x.pendingAllowance + x.sent + x.initialResponseAllowance + n <= d
        /\ d \in Nat /\ d < SizeMax
    BY <1>1, <1>17, <2>1, <2>2, AskedWithin
  <2>4. z.pendingAllowance + m < SizeMax
    BY <1>2, <1>4, <1>12, <1>16, <2>3, SizeMaxAssumption
  <2>5. z.pendingAllowance + z.sent + m + z.initialResponseAllowance <= d
    BY <1>2, <1>4, <1>5, <1>12, <1>16, <2>3
  <2> QED BY <1>2, <1>5, <1>12, <1>17, <2>1, <2>2, <2>4, <2>5
<1>18. Opening("stream") = "REQUEST_STREAM"
  BY DEF Opening
<1>19. z.out = <<Frame(Opening("stream"), i)>>
  BY <1>5, <1>12, <1>18
<1>20. Requesting("stream", x, z, i, m)
  BY <1>5, <1>11, <1>12, <1>13, <1>14, <1>17, <1>19, Zenon DEF Requesting
<1> QED BY <1>1, <1>4, <1>16, <1>20, FirstEffect

(***************************************************************************)
(* Whatever was asked for so far is below the largest size_t.              *)
(***************************************************************************)
LEMMA TotalWithin ==
    ASSUME NEW k \in {"stream", "channel"}, NEW role \in Roles, NEW x, Local(k, role, x),
           x.open, Tame
    PROVE  /\ x.pendingAllowance + x.sent + x.initialResponseAllowance
                  <= LargestRequest * x.requests
           /\ LargestRequest * x.requests \in Nat
           /\ LargestRequest * x.requests < SizeMax
           /\ x.requests <= MaxRequestsOf(k)
<1>1. x.requests \in Nat /\ ConsumerHalf(k, role, x)
  BY OpenAutomaton
<1>2. /\ x.pendingAllowance + x.sent + x.initialResponseAllowance
             <= LargestRequest * x.requests
      /\ x.requests <= MaxRequestsOf(k)
  BY <1>1 DEF ConsumerHalf, MaxRequestsOf
<1>3. PICK L, m : L = LargestRequest /\ m = MaxRequestsOf(k)
  BY Zenon
<1>4. L \in Nat /\ L * MaxRequests < SizeMax /\ L * MaxChannelRequests < SizeMax
  BY <1>3, LargestIs
<1>5. m \in Nat /\ L * m < SizeMax
  BY <1>3, <1>4, InteractionsAssumption DEF MaxRequestsOf
<1>6. L * x.requests <= L * m /\ L * x.requests \in Nat /\ L * m \in Nat
  BY <1>1, <1>2, <1>3, <1>4, <1>5, TimesGrows
<1>7. L * x.requests < SizeMax
  BY <1>5, <1>6, SizeMaxAssumption
<1> QED BY <1>2, <1>3, <1>6, <1>7

-----------------------------------------------------------------------------
(* The three interactions use the same base classes                        *)

(***************************************************************************)
(* The base classes as RequestStream uses them.                            *)
(***************************************************************************)
StreamAlike ==
    /\ \A v, n : Stream!Release(v, n) = Release(v, n)
    /\ \A t, n : Stream!Frame(t, n) = Frame(t, n)
    /\ \A x, f : Stream!Output(x, f) = Output(x, f)
    /\ \A x, s : Stream!CloseStream(x, s) = CloseStream(x, s)
    /\ \A x : Stream!ApplicationError(x) = ApplicationError(x)
    /\ \A x, n : Stream!GenerateRequest(x, n) = GenerateRequest(x, n)
    /\ \A x, n : Stream!ProcessRequestN(x, n) = ProcessRequestN(x, n)
    /\ \A x : Stream!RequesterCancel(x) = RequesterCancel(x)
    /\ \A x : Stream!RequesterHandleError(x) = RequesterHandleError(x)
    /\ \A x, n : Stream!RequesterHandleNext(x, n) = RequesterHandleNext(x, n)
    /\ \A x : Stream!RequesterHandleComplete(x) = RequesterHandleComplete(x)
    /\ \A x, n : Stream!NewResponder(x, n) = NewResponder(x, n)
    /\ \A x : Stream!ResponderOnSubscribe(x) = ResponderOnSubscribe(x)
    /\ \A x : Stream!ResponderOnComplete(x) = ResponderOnComplete(x)
    /\ \A x : Stream!ResponderHandleCancel(x) = ResponderHandleCancel(x)

(* RequestStream uses the operators of StreamAutomata.                     *)
LEMMA StreamIsAlike == StreamAlike
<1>1. \A v : Stream!IsInfinite(v) = IsInfinite(v)
  BY Zenon DEF Stream!IsInfinite, IsInfinite
<1>2. \A v : Stream!CanAcquire(v) = CanAcquire(v)
  BY Zenon DEF Stream!CanAcquire, CanAcquire
<1>3. \A v : Stream!AfterAcquire(v) = AfterAcquire(v)
  BY <1>1, Zenon DEF Stream!AfterAcquire, AfterAcquire
<1>4. \A v, n : Stream!Release(v, n) = Release(v, n)
  BY Zenon DEF Stream!Release, Release
<1>5. \A v, n : Stream!Drained(v, n) = Drained(v, n)
  BY <1>1, Zenon DEF Stream!Drained, Drained
<1>6. \A v, n : Stream!AfterDrain(v, n) = AfterDrain(v, n)
  BY <1>1, <1>5, Zenon DEF Stream!AfterDrain, AfterDrain
<1>7. \A t, n : Stream!Frame(t, n) = Frame(t, n)
  BY Zenon DEF Stream!Frame, Frame
<1>8. \A x, f : Stream!Output(x, f) = Output(x, f)
  BY Zenon DEF Stream!Output, Output
<1>9. \A x, s : Stream!Notify(x, s) = Notify(x, s)
  BY Zenon DEF Stream!Notify, Notify
<1>10. \A x : Stream!TerminatePublisher(x) = TerminatePublisher(x)
  BY Zenon DEF Stream!TerminatePublisher, TerminatePublisher
<1>11. \A x, s : Stream!EndStream(x, s) = EndStream(x, s)
  BY <1>9, <1>10, Zenon DEF Stream!EndStream, EndStream, Stream!Check, Check
<1>12. \A x, s : Stream!CloseStream(x, s) = CloseStream(x, s)
  BY <1>11, Zenon DEF Stream!CloseStream, CloseStream
<1>13. \A x : Stream!ApplicationError(x) = ApplicationError(x)
  BY <1>12, <1>8, <1>7, Zenon DEF Stream!ApplicationError, ApplicationError
<1>14. \A x : Stream!ErrorStream(x) = ErrorStream(x)
  BY <1>12, <1>8, <1>7, Zenon DEF Stream!ErrorStream, ErrorStream
<1>15. \A x : Stream!CancelStream(x) = CancelStream(x)
  BY <1>12, <1>8, <1>7, Zenon DEF Stream!CancelStream, CancelStream
<1>16. \A x : Stream!CompleteStream(x) = CompleteStream(x)
  BY <1>12, <1>8, <1>7, Zenon DEF Stream!CompleteStream, CompleteStream
<1>17. \A x : Stream!SendRequests(x) = SendRequests(x)
    BY Zenon DEF Stream!SendRequests, SendRequests, Stream!Drained, Drained,
     Stream!AfterDrain, AfterDrain, Stream!IsInfinite, IsInfinite, Stream!Output,
     Output, Stream!Frame, Frame, Stream!Check, Check
<1>18. \A x, n : Stream!GenerateRequest(x, n) = GenerateRequest(x, n)
  BY <1>17, <1>4, Zenon DEF Stream!GenerateRequest, GenerateRequest
<1>19. \A x : Stream!HandleFlowControlError(x) = HandleFlowControlError(x)
  BY <1>14, <1>9, Zenon DEF Stream!HandleFlowControlError, HandleFlowControlError
<1>20. \A x, n : Stream!ProcessPayload(x, n) = ProcessPayload(x, n)
    BY <1>2, <1>3, <1>17, <1>19, Zenon DEF Stream!ProcessPayload, ProcessPayload,
     Stream!Check, Check
<1>21. \A x : Stream!PublisherSubscribe(x) = PublisherSubscribe(x)
    BY <1>5, <1>6, Zenon DEF Stream!PublisherSubscribe, PublisherSubscribe,
     Stream!Check, Check
<1>22. \A x, n : Stream!ProcessRequestN(x, n) = ProcessRequestN(x, n)
  BY <1>4, Zenon DEF Stream!ProcessRequestN, ProcessRequestN
<1>23. \A x : Stream!RequesterCancel(x) = RequesterCancel(x)
  BY <1>12, <1>15, Zenon DEF Stream!RequesterCancel, RequesterCancel
<1>24. \A x : Stream!RequesterHandleError(x) = RequesterHandleError(x)
    BY <1>12, <1>9, Zenon DEF Stream!RequesterHandleError, RequesterHandleError,
     Stream!Check, Check
<1>25. \A x, n : Stream!RequesterHandleNext(x, n) = RequesterHandleNext(x, n)
    BY <1>20, Zenon DEF Stream!RequesterHandleNext, RequesterHandleNext, Stream!Check,
     Check
<1>26. \A x : Stream!RequesterHandleComplete(x) = RequesterHandleComplete(x)
    BY <1>12, Zenon DEF Stream!RequesterHandleComplete, RequesterHandleComplete,
     Stream!Check, Check
<1>27. \A x, n : Stream!NewResponder(x, n) = NewResponder(x, n)
  BY Zenon DEF Stream!NewResponder, NewResponder
<1>28. \A x : Stream!ResponderOnSubscribe(x) = ResponderOnSubscribe(x)
  BY <1>21, Zenon DEF Stream!ResponderOnSubscribe, ResponderOnSubscribe
<1>29. \A x : Stream!ResponderOnComplete(x) = ResponderOnComplete(x)
  BY <1>16, Zenon DEF Stream!ResponderOnComplete, ResponderOnComplete
<1>30. \A x : Stream!ResponderHandleCancel(x) = ResponderHandleCancel(x)
  BY <1>12, Zenon DEF Stream!ResponderHandleCancel, ResponderHandleCancel
<1> QED BY <1>4, <1>7, <1>8, <1>12, <1>13, <1>18, <1>22, <1>23, <1>24, <1>25, <1>26,
     <1>27, <1>28, <1>29, <1>30, Zenon DEF StreamAlike

(***************************************************************************)
(* The base classes as RequestChannel uses them.                           *)
(***************************************************************************)
ChannelAlike ==
    /\ \A v, n : Channel!Release(v, n) = Release(v, n)
    /\ \A v, n : Channel!Drained(v, n) = Drained(v, n)
    /\ \A v, n : Channel!AfterDrain(v, n) = AfterDrain(v, n)
    /\ \A t, n : Channel!Frame(t, n) = Frame(t, n)
    /\ \A x, f : Channel!Output(x, f) = Output(x, f)
    /\ \A x, s : Channel!CloseStream(x, s) = CloseStream(x, s)
    /\ \A x : Channel!ApplicationError(x) = ApplicationError(x)
    /\ \A x : Channel!CompleteStream(x) = CompleteStream(x)
    /\ \A x, n : Channel!GenerateRequest(x, n) = GenerateRequest(x, n)
    /\ \A x, n : Channel!ProcessPayload(x, n) = ProcessPayload(x, n)
    /\ \A x : Channel!PublisherSubscribe(x) = PublisherSubscribe(x)
    /\ \A x, n : Channel!ProcessRequestN(x, n) = ProcessRequestN(x, n)
    /\ \A x : Channel!RequesterCancel(x) = RequesterCancel(x)
    /\ \A x : Channel!RequesterHandleError(x) = RequesterHandleError(x)
    /\ \A x, n : Channel!RequesterHandleNext(x, n) = RequesterHandleNext(x, n)
    /\ \A x : Channel!RequesterHandleComplete(x) = RequesterHandleComplete(x)
    /\ \A x, n : Channel!NewResponder(x, n) = NewResponder(x, n)
    /\ \A x : Channel!ResponderOnSubscribe(x) = ResponderOnSubscribe(x)
    /\ \A x : Channel!ResponderOnComplete(x) = ResponderOnComplete(x)
    /\ \A x : Channel!ResponderHandleCancel(x) = ResponderHandleCancel(x)

(* RequestChannel uses the operators of StreamAutomata.                    *)
LEMMA ChannelIsAlike == ChannelAlike
<1>1. \A v : Channel!IsInfinite(v) = IsInfinite(v)
  BY Zenon DEF Channel!IsInfinite, IsInfinite
<1>2. \A v : Channel!CanAcquire(v) = CanAcquire(v)
  BY Zenon DEF Channel!CanAcquire, CanAcquire
<1>3. \A v : Channel!AfterAcquire(v) = AfterAcquire(v)
  BY <1>1, Zenon DEF Channel!AfterAcquire, AfterAcquire
<1>4. \A v, n : Channel!Release(v, n) = Release(v, n)
  BY Zenon DEF Channel!Release, Release
<1>5. \A v, n : Channel!Drained(v, n) = Drained(v, n)
  BY <1>1, Zenon DEF Channel!Drained, Drained
<1>6. \A v, n : Channel!AfterDrain(v, n) = AfterDrain(v, n)
  BY <1>1, <1>5, Zenon DEF Channel!AfterDrain, AfterDrain
<1>7. \A t, n : Channel!Frame(t, n) = Frame(t, n)
  BY Zenon DEF Channel!Frame, Frame
<1>8. \A x, f : Channel!Output(x, f) = Output(x, f)
  BY Zenon DEF Channel!Output, Output
<1>9. \A x, s : Channel!Notify(x, s) = Notify(x, s)
  BY Zenon DEF Channel!Notify, Notify
<1>10. \A x : Channel!TerminatePublisher(x) = TerminatePublisher(x)
  BY Zenon DEF Channel!TerminatePublisher, TerminatePublisher
<1>11. \A x, s : Channel!EndStream(x, s) = EndStream(x, s)
  BY <1>9, <1>10, Zenon DEF Channel!EndStream, EndStream, Channel!Check, Check
<1>12. \A x, s : Channel!CloseStream(x, s) = CloseStream(x, s)
  BY <1>11, Zenon DEF Channel!CloseStream, CloseStream
<1>13. \A x : Channel!ApplicationError(x) = ApplicationError(x)
  BY <1>12, <1>8, <1>7, Zenon DEF Channel!ApplicationError, ApplicationError
<1>14. \A x : Channel!ErrorStream(x) = ErrorStream(x)
  BY <1>12, <1>8, <1>7, Zenon DEF Channel!ErrorStream, ErrorStream
<1>15. \A x : Channel!CancelStream(x) = CancelStream(x)
  BY <1>12, <1>8, <1>7, Zenon DEF Channel!CancelStream, CancelStream
<1>16. \A x : Channel!CompleteStream(x) = CompleteStream(x)
  BY <1>12, <1>8, <1>7, Zenon DEF Channel!CompleteStream, CompleteStream
<1>17. \A x : Channel!SendRequests(x) = SendRequests(x)
    BY Zenon DEF Channel!SendRequests, SendRequests, Channel!Drained, Drained,
     Channel!AfterDrain, AfterDrain, Channel!IsInfinite, IsInfinite, Channel!Output,
     Output, Channel!Frame, Frame, Channel!Check, Check
<1>18. \A x, n : Channel!GenerateRequest(x, n) = GenerateRequest(x, n)
  BY <1>17, <1>4, Zenon DEF Channel!GenerateRequest, GenerateRequest
<1>19. \A x : Channel!HandleFlowControlError(x) = HandleFlowControlError(x)
  BY <1>14, <1>9, Zenon DEF Channel!HandleFlowControlError, HandleFlowControlError
<1>20. \A x, n : Channel!ProcessPayload(x, n) = ProcessPayload(x, n)
    BY <1>2, <1>3, <1>17, <1>19, Zenon DEF Channel!ProcessPayload, ProcessPayload,
     Channel!Check, Check
<1>21. \A x : Channel!PublisherSubscribe(x) = PublisherSubscribe(x)
    BY <1>5, <1>6, Zenon DEF Channel!PublisherSubscribe, PublisherSubscribe,
     Channel!Check, Check
<1>22. \A x, n : Channel!ProcessRequestN(x, n) = ProcessRequestN(x, n)
  BY <1>4, Zenon DEF Channel!ProcessRequestN, ProcessRequestN
<1>23. \A x : Channel!RequesterCancel(x) = RequesterCancel(x)
  BY <1>12, <1>15, Zenon DEF Channel!RequesterCancel, RequesterCancel
<1>24. \A x : Channel!RequesterHandleError(x) = RequesterHandleError(x)
    BY <1>12, <1>9, Zenon DEF Channel!RequesterHandleError, RequesterHandleError,
     Channel!Check, Check
<1>25. \A x, n : Channel!RequesterHandleNext(x, n) = RequesterHandleNext(x, n)
    BY <1>20, Zenon DEF Channel!RequesterHandleNext, RequesterHandleNext, Channel!Check,
     Check
<1>26. \A x : Channel!RequesterHandleComplete(x) = RequesterHandleComplete(x)
    BY <1>12, Zenon DEF Channel!RequesterHandleComplete, RequesterHandleComplete,
     Channel!Check, Check
<1>27. \A x, n : Channel!NewResponder(x, n) = NewResponder(x, n)
  BY Zenon DEF Channel!NewResponder, NewResponder
<1>28. \A x : Channel!ResponderOnSubscribe(x) = ResponderOnSubscribe(x)
  BY <1>21, Zenon DEF Channel!ResponderOnSubscribe, ResponderOnSubscribe
<1>29. \A x : Channel!ResponderOnComplete(x) = ResponderOnComplete(x)
  BY <1>16, Zenon DEF Channel!ResponderOnComplete, ResponderOnComplete
<1>30. \A x : Channel!ResponderHandleCancel(x) = ResponderHandleCancel(x)
  BY <1>12, Zenon DEF Channel!ResponderHandleCancel, ResponderHandleCancel
<1> QED BY <1>4, <1>5, <1>6, <1>7, <1>8, <1>12, <1>13, <1>16, <1>18, <1>20, <1>21,
     <1>22, <1>23, <1>24, <1>25, <1>26, <1>27, <1>28, <1>29, <1>30, Zenon DEF
     ChannelAlike

(***************************************************************************)
(* The base classes as RequestResponse uses them.                          *)
(***************************************************************************)
ResponseAlike ==
    /\ \A t, n : Response!Frame(t, n) = Frame(t, n)
    /\ \A x, f : Response!Output(x, f) = Output(x, f)
    /\ \A x, s : Response!Notify(x, s) = Notify(x, s)
    /\ \A x, s : Response!CloseStream(x, s) = CloseStream(x, s)
    /\ \A x : Response!ApplicationError(x) = ApplicationError(x)
    /\ \A x : Response!RequesterCancel(x) = RequesterCancel(x)
    /\ \A x : Response!RequesterHandleError(x) = RequesterHandleError(x)
    /\ \A x, n : Response!NewResponder(x, n) = NewResponder(x, n)
    /\ \A x : Response!ResponderOnSubscribe(x) = ResponderOnSubscribe(x)
    /\ \A x : Response!ResponderOnComplete(x) = ResponderOnComplete(x)
    /\ \A x : Response!ResponderHandleCancel(x) = ResponderHandleCancel(x)

(* RequestResponse uses the operators of StreamAutomata.                   *)
LEMMA ResponseIsAlike == ResponseAlike
<1>1. \A v : Response!IsInfinite(v) = IsInfinite(v)
  BY Zenon DEF Response!IsInfinite, IsInfinite
<1>2. \A v, n : Response!Drained(v, n) = Drained(v, n)
  BY <1>1, Zenon DEF Response!Drained, Drained
<1>3. \A v, n : Response!AfterDrain(v, n) = AfterDrain(v, n)
  BY <1>1, <1>2, Zenon DEF Response!AfterDrain, AfterDrain
<1>4. \A t, n : Response!Frame(t, n) = Frame(t, n)
  BY Zenon DEF Response!Frame, Frame
<1>5. \A x, f : Response!Output(x, f) = Output(x, f)
  BY Zenon DEF Response!Output, Output
<1>6. \A x, s : Response!Notify(x, s) = Notify(x, s)
  BY Zenon DEF Response!Notify, Notify
<1>7. \A x : Response!TerminatePublisher(x) = TerminatePublisher(x)
  BY Zenon DEF Response!TerminatePublisher, TerminatePublisher
<1>8. \A x, s : Response!EndStream(x, s) = EndStream(x, s)
  BY <1>6, <1>7, Zenon DEF Response!EndStream, EndStream, Response!Check, Check
<1>9. \A x, s : Response!CloseStream(x, s) = CloseStream(x, s)
  BY <1>8, Zenon DEF Response!CloseStream, CloseStream
<1>10. \A x : Response!ApplicationError(x) = ApplicationError(x)
  BY <1>9, <1>5, <1>4, Zenon DEF Response!ApplicationError, ApplicationError
<1>11. \A x : Response!CancelStream(x) = CancelStream(x)
  BY <1>9, <1>5, <1>4, Zenon DEF Response!CancelStream, CancelStream
<1>12. \A x : Response!CompleteStream(x) = CompleteStream(x)
  BY <1>9, <1>5, <1>4, Zenon DEF Response!CompleteStream, CompleteStream
<1>13. \A x : Response!PublisherSubscribe(x) = PublisherSubscribe(x)
    BY <1>2, <1>3, Zenon DEF Response!PublisherSubscribe, PublisherSubscribe,
     Response!Check, Check
<1>14. \A x : Response!RequesterCancel(x) = RequesterCancel(x)
  BY <1>9, <1>11, Zenon DEF Response!RequesterCancel, RequesterCancel
<1>15. \A x : Response!RequesterHandleError(x) = RequesterHandleError(x)
    BY <1>9, <1>6, Zenon DEF Response!RequesterHandleError, RequesterHandleError,
     Response!Check, Check
<1>16. \A x, n : Response!NewResponder(x, n) = NewResponder(x, n)
  BY Zenon DEF Response!NewResponder, NewResponder
<1>17. \A x : Response!ResponderOnSubscribe(x) = ResponderOnSubscribe(x)
  BY <1>13, Zenon DEF Response!ResponderOnSubscribe, ResponderOnSubscribe
<1>18. \A x : Response!ResponderOnComplete(x) = ResponderOnComplete(x)
  BY <1>12, Zenon DEF Response!ResponderOnComplete, ResponderOnComplete
<1>19. \A x : Response!ResponderHandleCancel(x) = ResponderHandleCancel(x)
  BY <1>9, Zenon DEF Response!ResponderHandleCancel, ResponderHandleCancel
<1> QED BY <1>4, <1>5, <1>6, <1>9, <1>10, <1>14, <1>15, <1>16, <1>17, <1>18, <1>19,
     Zenon DEF ResponseAlike

FirstWritten(x, i, w) ==
    Output([Check(x, i <= MaxRequestN) EXCEPT
               !.state = "REQUESTED", !.initialResponseAllowance = w,
               !.allowance = Release(@, i), !.sent = @ + i],
           Frame("REQUEST_CHANNEL", i))

FirstLeft(x) == AfterDrain(x.initialResponseAllowance, MaxRequestN)

FirstDrained(x) == FirstWritten(x, Drained(x.initialResponseAllowance, MaxRequestN),
                                AfterDrain(FirstLeft(x), SizeMax))

(* FirstOnNext in two parts: the request, then the rest of the credit.     *)
LEMMA FirstOnNextIs ==
    ASSUME NEW x
    PROVE  Channel!FirstOnNext(x)
               = IF Drained(FirstLeft(x), SizeMax) # 0
                 THEN GenerateRequest(FirstDrained(x), Drained(FirstLeft(x), SizeMax))
                 ELSE FirstDrained(x)
<1>1. Channel!FirstOnNext(x)
               = IF Drained(FirstLeft(x), SizeMax) # 0
                 THEN Channel!GenerateRequest(FirstDrained(x), Drained(FirstLeft(x), SizeMax))
                 ELSE FirstDrained(x)
  BY Zenon DEF Channel!FirstOnNext, FirstDrained, FirstWritten, FirstLeft,
     Channel!Check, Check, Channel!Drained, Drained, Channel!AfterDrain, AfterDrain,
     Channel!IsInfinite, IsInfinite, Channel!Output, Output, Channel!Frame, Frame,
     Channel!Release, Release
<1>2. \A z, n : Channel!GenerateRequest(z, n) = GenerateRequest(z, n)
  BY ChannelIsAlike, Zenon DEF ChannelAlike
<1> QED BY <1>1, <1>2, Zenon

(***************************************************************************)
(* The first payload of a channel: REQUEST_CHANNEL with the credit that    *)
(* was collected, as much as fits.                                         *)
(***************************************************************************)
LEMMA FirstOnNextEffect ==
    ASSUME NEW x, Local("channel", "requester", x), x.open, x.state = "NEW", x.out = << >>,
           Balanced(x), x.subscribed, ~x.cancelled, x.credit >= 1,
           NEW u, u = [x EXCEPT !.credit = @ - 1]
    PROVE  Effect("channel", "requester", x, Channel!FirstOnNext(u),
                  Len(x.received), x.granted, "part")
<1>1. "requester" \in Roles /\ "channel" \in {"stream", "channel"}
  BY DEF Roles
<1>2. /\ x \in AutomatonSet /\ x.sent \in Nat /\ x.emitted \in Nat /\ x.granted \in Nat
      /\ x.pendingAllowance \in Nat /\ x.initialResponseAllowance \in Nat
      /\ x.requests \in Nat
      /\ Tame => x.failed = FALSE
      /\ ProducerHalf("channel", "requester", x)
  BY <1>1, OpenAutomaton
<1>3. /\ x.initialResponseAllowance \in 0..SizeMax /\ x.credit \in Nat
      /\ x.allowance \in 0..SizeMax /\ x.initialRequestN \in 0..SizeMax
      /\ x.failed \in BOOLEAN
  BY <1>2 DEF AutomatonSet
<1>4. PICK c : c = x.credit - 1
  OBVIOUS
<1>5. c \in Nat /\ x.credit = c + 1
  BY <1>3, <1>4
<1>6. u = [x EXCEPT !.credit = c] /\ u.initialResponseAllowance = x.initialResponseAllowance
      /\ u.failed = x.failed
  BY <1>2, <1>4 DEF AutomatonSet
<1>7. PICK i, left, m, w :
          /\ i = Drained(u.initialResponseAllowance, MaxRequestN)
          /\ left = AfterDrain(u.initialResponseAllowance, MaxRequestN)
          /\ m = Drained(left, SizeMax)
          /\ w = AfterDrain(left, SizeMax)
  BY Zenon
<1>8. /\ i \in 0..SizeMax /\ m \in 0..SizeMax /\ w \in 0..SizeMax
      /\ x.initialResponseAllowance # SizeMax =>
            /\ i <= MaxRequestN /\ i + m = x.initialResponseAllowance /\ w = 0
  BY <1>3, <1>6, <1>7, SizeMaxAssumption, MaxRequestNAssumption
     DEF Drained, AfterDrain, IsInfinite
<1>9. i \in Nat /\ m \in Nat
  BY <1>8, SizeMaxAssumption
<1>10. PICK failed \in BOOLEAN : failed = (u.failed \/ ~(i <= MaxRequestN))
  BY Zenon
<1>11. PICK a, s, f : a = Release(x.allowance, i) /\ s = x.sent + i
                      /\ f = Frame("REQUEST_CHANNEL", i)
  BY Zenon
<1>12. a \in 0..SizeMax /\ s \in Nat
  <2>1. PICK b \in 0..SizeMax, d \in Nat, j \in Nat :
            b = x.allowance /\ d = x.sent /\ j = i
    BY <1>2, <1>3, <1>9, Zenon
  <2>2. Release(b, j) \in 0..SizeMax /\ d + j \in Nat
    BY SizeMaxAssumption DEF Release
  <2> QED BY <1>11, <2>1, <2>2, Zenon
<1>13. f \in FrameSet
  BY <1>8, <1>11, AFrame DEF FrameTypes
<1>14. Append(<< >>, f) = <<f>> /\ <<f>> \in Seq(FrameSet)
  BY <1>13
<1>15. PICK b : b = [x EXCEPT !.credit = c, !.failed = failed]
  OBVIOUS
<1>16. Check(u, i <= MaxRequestN) = b
  <2>1. Check(u, i <= MaxRequestN) = [u EXCEPT !.failed = failed]
    BY <1>10, Zenon DEF Check
  <2>2. [u EXCEPT !.failed = failed] = b
    BY <1>2, <1>6, <1>15 DEF AutomatonSet
  <2> QED BY <2>1, <2>2
<1>17. b \in AutomatonSet
  BY <1>2, <1>5, <1>15 DEF AutomatonSet
<1>18. b.allowance = x.allowance /\ b.sent = x.sent /\ b.out = << >>
  BY <1>2, <1>15 DEF AutomatonSet
<1>19. PICK v : v = [b EXCEPT !.state = "REQUESTED", !.initialResponseAllowance = w,
                              !.allowance = a, !.sent = s]
  OBVIOUS
<1>20. PICK z : z = [v EXCEPT !.out = <<f>>]
  OBVIOUS
<1>21. Output(v, f) = z
  <2>1. v.out = << >>
    BY <1>17, <1>18, <1>19 DEF AutomatonSet
  <2> QED BY <1>14, <1>20, <2>1 DEF Output
<1>22. PICK y : y = Channel!FirstOnNext(u)
  OBVIOUS
<1>23. y = IF m # 0 THEN GenerateRequest(z, m) ELSE z
  <2>1. [b EXCEPT !.state = "REQUESTED", !.initialResponseAllowance = w,
                  !.allowance = Release(@, i), !.sent = @ + i] = v
    BY <1>11, <1>17, <1>18, <1>19 DEF AutomatonSet
  <2>2. FirstDrained(u) = z
    BY <1>7, <1>11, <1>16, <1>21, <2>1, Zenon DEF FirstDrained, FirstWritten, FirstLeft
  <2>3. m = Drained(FirstLeft(u), SizeMax)
    BY <1>7, Zenon DEF FirstLeft
  <2> QED BY <1>22, <2>2, <2>3, FirstOnNextIs, Zenon
<1>24. v \in AutomatonSet
  <2>1. "REQUESTED" \in States
    BY DEF States
  <2> QED BY <1>8, <1>12, <1>17, <1>19, <2>1 DEF AutomatonSet
<1>25. z \in AutomatonSet
  BY <1>14, <1>20, <1>24 DEF AutomatonSet
<1>26. /\ b.credit = c /\ b.failed = failed /\ ConsumerSame(x, b)
       /\ b.open = x.open /\ b.terminated = x.terminated
       /\ b.subscription = x.subscription /\ b.subscribed = x.subscribed
       /\ b.cancelled = x.cancelled /\ b.emitted = x.emitted
       /\ b.granted = x.granted /\ b.initialRequestN = x.initialRequestN
  BY <1>2, <1>15 DEF AutomatonSet, ConsumerSame
<1>27. /\ z.state = "REQUESTED" /\ z.initialResponseAllowance = w /\ z.allowance = a
       /\ z.sent = s /\ z.out = <<f>>
       /\ z.credit = b.credit /\ z.failed = b.failed
       /\ z.open = b.open /\ z.terminated = b.terminated
       /\ z.subscriber = b.subscriber /\ z.terminal = b.terminal
       /\ z.surplus = b.surplus /\ z.received = b.received
       /\ z.pendingAllowance = b.pendingAllowance /\ z.requests = b.requests
       /\ z.subscription = b.subscription /\ z.subscribed = b.subscribed
       /\ z.cancelled = b.cancelled /\ z.emitted = b.emitted
       /\ z.granted = b.granted /\ z.initialRequestN = b.initialRequestN
  BY <1>17, <1>19, <1>20 DEF AutomatonSet
<1>28. /\ z.credit = c /\ z.failed = failed
       /\ z.open = x.open /\ z.terminated = x.terminated
       /\ z.subscriber = x.subscriber /\ z.terminal = x.terminal
       /\ z.surplus = x.surplus /\ z.received = x.received
       /\ z.pendingAllowance = x.pendingAllowance /\ z.requests = x.requests
       /\ z.subscription = x.subscription /\ z.subscribed = x.subscribed
       /\ z.cancelled = x.cancelled /\ z.emitted = x.emitted
       /\ z.granted = x.granted /\ z.initialRequestN = x.initialRequestN
  BY <1>26, <1>27, Zenon DEF ConsumerSame
<1>29. ProducerHalf("channel", "requester", z)
  <2>1. Publishing("channel", x) /\ x.subscription /\ x.emitted = 0
    BY <1>2, Zenon DEF ProducerHalf, Publishing
  <2>2. OwnRequest(x) = 1 /\ OwnRequest(z) = 0
    BY <1>27, <2>1, Zenon DEF OwnRequest
  <2>3. Publishing("channel", z)
    BY <1>27, <1>28, <2>1, Zenon DEF Publishing
  <2>4. x.initialRequestN = SizeMax
        \/ x.granted + 1 = x.initialRequestN + x.credit + x.emitted
    BY <1>2, <2>2 DEF ProducerHalf
  <2>5. x.initialRequestN = SizeMax
        \/ x.granted + 0 = x.initialRequestN + c + x.emitted
    <3>1. x.initialRequestN \in Nat
      BY <1>3, SizeMaxAssumption
    <3>2. PICK h, l, b2, e : h = x.granted /\ l = x.initialRequestN /\ b2 = x.credit
                             /\ e = x.emitted
      BY Zenon
    <3>3. h \in Nat /\ l \in Nat /\ e \in Nat /\ b2 = c + 1
          /\ (l = SizeMax \/ h + 1 = l + b2 + e)
      BY <1>2, <1>5, <2>4, <3>1, <3>2, Zenon
    <3>4. l = SizeMax \/ h + 0 = l + c + e
      BY <1>5, <3>3
    <3> QED BY <3>2, <3>4, Zenon
  <2>6. x.emitted <= x.granted /\ x.initialRequestN <= x.granted
    BY <1>2, <2>1 DEF ProducerHalf
  <2> QED BY <1>27, <1>28, <2>2, <2>3, <2>5, <2>6, Zenon DEF ProducerHalf
<1>30. ASSUME Tame
       PROVE  /\ z.failed = FALSE
              /\ z.pendingAllowance + m < SizeMax
              /\ z.pendingAllowance + z.sent + m + z.initialResponseAllowance
                     <= LargestRequest * z.requests
              /\ z.requests <= MaxRequestsOf("channel")
  <2>1. PICK d : d = LargestRequest * x.requests
    OBVIOUS
  <2>2. /\ x.pendingAllowance + x.sent + x.initialResponseAllowance <= d
        /\ d \in Nat /\ d < SizeMax /\ x.requests <= MaxRequestsOf("channel")
    BY <1>1, <1>30, <2>1, TotalWithin
  <2>3. x.initialResponseAllowance # SizeMax
    BY <1>2, <2>2, SizeMaxAssumption
  <2>4. i <= MaxRequestN /\ i + m = x.initialResponseAllowance /\ w = 0
    BY <1>8, <2>3
  <2>5. z.failed = FALSE
    BY <1>2, <1>6, <1>10, <1>28, <1>30, <2>4, Zenon
  <2>6. x.pendingAllowance + m < SizeMax
    BY <1>2, <1>9, <2>2, <2>4, SizeMaxAssumption
  <2>7. x.pendingAllowance + s + m + w <= d
    BY <1>2, <1>9, <1>11, <2>2, <2>4
  <2> QED BY <1>27, <1>28, <2>1, <2>2, <2>5, <2>6, <2>7, Zenon
<1>31. Opening("channel") = "REQUEST_CHANNEL"
  BY DEF Opening
<1>32. z.out = <<Frame(Opening("channel"), i)>>
  BY <1>11, <1>27, <1>31
<1>33. Requesting("channel", x, z, i, m)
  BY <1>11, <1>25, <1>27, <1>28, <1>29, <1>30, <1>32, Zenon DEF Requesting
<1>34. (m = 0 /\ y = z) \/ y = GenerateRequest(z, m)
  BY <1>23, Zenon
<1>35. Effect("channel", "requester", x, y, Len(x.received), x.granted, "part")
  BY <1>1, <1>8, <1>9, <1>33, <1>34, FirstEffect
<1> QED BY <1>35, <1>22

-----------------------------------------------------------------------------
(* Steps without a frame, payloads and credit that arrive                  *)

(***************************************************************************)
(* A step that writes nothing.                                             *)
(***************************************************************************)
LEMMA QuietEffect ==
    ASSUME NEW k, NEW role \in Roles, NEW x, Local(k, role, x), x.open,
           NEW y, Local(k, role, y), y.open, y.state = x.state, y.out = << >>,
           y.emitted = x.emitted, y.sent = x.sent,
           NEW r, r = Len(y.received), NEW g, g = y.granted, NEW whole,
           x.allowance = SizeMax => y.allowance = SizeMax,
           y.initialRequestN = SizeMax =>
              x.initialRequestN = SizeMax \/ (y.emitted = 0 /\ y.granted >= SizeMax)
    PROVE  Effect(k, role, x, y, r, g, whole)
<1>1. x.emitted \in Nat /\ x.sent \in Nat
  BY LocalTypes
<1>2. Payloads(y.out, x.emitted, y.emitted) /\ Credits(y.out, x.sent, y.sent)
  BY <1>1, PayloadsNone, CreditsNone
<1>3. Len(y.out) = 0
  OBVIOUS
<1>4. Written(k, role, x, y)
  <2>1. \A types : AllIn(y.out, 1, types)
    BY <1>3 DEF AllIn
  <2> QED BY <2>1 DEF Written
<1>5. \A i \in 1..Len(y.out) : ~Final(k, y.out[i])
  BY <1>3
<1> QED BY <1>2, <1>4, <1>5, OpenEffect

(* Credit collected before the request stays in its type.                  *)
LEMMA CollectedType ==
    ASSUME NEW z \in AutomatonSet, NEW w \in 0..SizeMax
    PROVE  [z EXCEPT !.initialResponseAllowance = w] \in AutomatonSet
BY DEF AutomatonSet

(***************************************************************************)
(* request(n) before the channel has been requested is collected.          *)
(***************************************************************************)
LEMMA CollectEffect ==
    ASSUME NEW x, Local("channel", "requester", x), x.open, x.state = "NEW", x.out = << >>,
           Balanced(x),
           NEW n \in RequestSizes, x.requests + 1 <= MaxChannelRequests,
           NEW z, z = [x EXCEPT !.requests = @ + 1],
           NEW y, y = [z EXCEPT !.initialResponseAllowance = Release(@, n)]
    PROVE  Effect("channel", "requester", x, y, Len(x.received), x.granted, "part")
<1>1. "requester" \in Roles /\ "channel" \in {"stream", "channel"}
  BY DEF Roles
<1>2. /\ x \in AutomatonSet /\ x.sent \in Nat /\ x.emitted \in Nat
      /\ x.pendingAllowance \in Nat /\ x.initialResponseAllowance \in Nat
      /\ x.requests \in Nat
      /\ Tame => x.failed = FALSE
  BY <1>1, OpenAutomaton
<1>3. Counted(x, z)
  BY <1>2, Counts
<1>4. n \in Nat
  BY InteractionsAssumption
<1>5. z \in AutomatonSet /\ z.initialResponseAllowance = x.initialResponseAllowance
  BY <1>3 DEF Counted, ConsumerMoves
<1>6. PICK w : w = Release(x.initialResponseAllowance, n)
  OBVIOUS
<1>7. w \in 0..SizeMax /\ w <= x.initialResponseAllowance + n
  BY <1>2, <1>4, <1>6, SizeMaxAssumption DEF Release
<1>8. y = [z EXCEPT !.initialResponseAllowance = w]
  BY <1>5, <1>6 DEF AutomatonSet
<1>9. y \in AutomatonSet
  <2>1. [z EXCEPT !.initialResponseAllowance = w] \in AutomatonSet
    BY <1>5, <1>7, CollectedType
  <2>2. PICK v : v = [z EXCEPT !.initialResponseAllowance = w]
    OBVIOUS
  <2>3. v \in AutomatonSet
    BY <2>1, <2>2
  <2> QED BY <1>8, <2>2, <2>3, Zenon
<1>10. /\ ConsumerMoves(z, y) /\ y.state = z.state /\ y.out = z.out /\ y.failed = z.failed
       /\ y.received = z.received /\ y.allowance = z.allowance
       /\ y.pendingAllowance = z.pendingAllowance /\ y.sent = z.sent
       /\ y.requests = z.requests /\ y.initialResponseAllowance = w
  BY <1>5, <1>8, <1>9 DEF AutomatonSet, ConsumerMoves, ProducerSame
<1>11. /\ ConsumerMoves(x, y) /\ y.state = x.state /\ y.out = << >> /\ y.failed = x.failed
       /\ y.received = x.received /\ y.allowance = x.allowance
       /\ y.pendingAllowance = x.pendingAllowance /\ y.sent = x.sent
       /\ y.requests = x.requests + 1 /\ y.initialResponseAllowance = w
  BY <1>3, <1>10, Zenon DEF Counted, ConsumerMoves, ProducerSame
<1>12. /\ Open("requester", y) /\ ProducerHalf("channel", "requester", y)
       /\ Consuming("channel", "requester", y)
  BY <1>1, <1>11, MovesKeep
<1>13. ASSUME Tame
       PROVE  /\ y.failed = FALSE
              /\ y.pendingAllowance + y.sent + y.initialResponseAllowance
                     <= LargestRequest * y.requests
              /\ y.requests <= MaxRequestsOf("channel")
  <2>1. x.requests + 1 <= MaxRequestsOf("channel")
    BY DEF MaxRequestsOf
  <2>2. PICK d : d = LargestRequest * (x.requests + 1)
    OBVIOUS
  <2>3. x.pendingAllowance + x.sent + x.initialResponseAllowance + n <= d /\ d \in Nat
    BY <1>1, <1>13, <2>1, <2>2, AskedWithin
  <2>4. w \in Nat
    BY <1>7, SizeMaxAssumption
  <2>5. x.pendingAllowance + x.sent + w <= d
    BY <1>2, <1>4, <1>7, <2>3, <2>4
  <2> QED BY <1>2, <1>11, <1>13, <2>1, <2>2, <2>5, Zenon
<1>14. Spoken("channel", y.out, 1, x.emitted, x.sent, y.sent)
  BY <1>2, <1>11, SpokenNone
<1>15. Opens("channel", "requester", x, y, 1)
  BY <1>11, Zenon DEF Opens
<1>16. y.emitted = x.emitted /\ y.initialRequestN = x.initialRequestN
       /\ y.granted = x.granted
  BY <1>11, Zenon DEF ConsumerMoves, ProducerSame
<1>17. y.allowance = SizeMax
       \/ y.allowance + Len(y.received) = y.pendingAllowance + y.sent
  BY <1>11, Zenon DEF Balanced
<1>18. PICK r, g : r = Len(x.received) /\ g = x.granted
  BY Zenon
<1>19. Effect("channel", "requester", x, y, r, g, "part")
  BY <1>1, <1>11, <1>12, <1>13, <1>14, <1>15, <1>16, <1>17, <1>18, AsksEffect
<1> QED BY <1>18, <1>19

(***************************************************************************)
(* The request for one response.                                           *)
(***************************************************************************)
LEMMA ResponseRequestEffect ==
    ASSUME NEW x, Local("response", "requester", x), x.open, x.state = "NEW", x.out = << >>,
           NEW u, u = [x EXCEPT !.requests = @ + 1],
           NEW y, y = Output([u EXCEPT !.state = "REQUESTED"], Frame("REQUEST_RESPONSE", 1))
    PROVE  Effect("response", "requester", x, y, Len(x.received), x.granted, "part")
<1>1. "requester" \in Roles
  BY DEF Roles
<1>2. /\ x \in AutomatonSet /\ x.sent \in Nat /\ x.emitted \in Nat /\ x.requests \in Nat
      /\ ConsumerHalf("response", "requester", x)
      /\ Tame => x.failed = FALSE
  BY <1>1, OpenAutomaton
<1>3. PICK f : f = Frame("REQUEST_RESPONSE", 1)
  OBVIOUS
<1>4. f \in FrameSet /\ f.type = "REQUEST_RESPONSE"
  <2>1. 1 \in 0..SizeMax
    BY SizeMaxAssumption, MaxRequestNAssumption
  <2> QED BY <1>3, <2>1, AFrame DEF FrameTypes
<1>5. Append(<< >>, f) = <<f>> /\ <<f>> \in Seq(FrameSet) /\ Len(<<f>>) = 1
      /\ <<f>>[1] = f /\ <<f>> # << >>
  BY <1>4
<1>6. PICK c : c = x.requests + 1
  OBVIOUS
<1>7. c \in Nat
  BY <1>2, <1>6
<1>8. u = [x EXCEPT !.requests = c] /\ u.out = << >>
  BY <1>2, <1>6 DEF AutomatonSet
<1>9. y = [x EXCEPT !.requests = c, !.state = "REQUESTED", !.out = <<f>>]
  <2>1. PICK v : v = [u EXCEPT !.state = "REQUESTED"]
    OBVIOUS
  <2>2. v.out = << >> /\ v = [x EXCEPT !.requests = c, !.state = "REQUESTED"]
    BY <1>2, <1>8, <2>1 DEF AutomatonSet
  <2>3. y = [v EXCEPT !.out = <<f>>]
    BY <1>3, <1>5, <2>1, <2>2 DEF Output
  <2> QED BY <1>2, <2>2, <2>3 DEF AutomatonSet
<1>10. y \in AutomatonSet
  <2>1. "REQUESTED" \in States
    BY DEF States
  <2> QED BY <1>2, <1>5, <1>7, <1>9, <2>1 DEF AutomatonSet
<1>11. /\ ConsumerMoves(x, y) /\ y.state = "REQUESTED" /\ y.out = <<f>>
       /\ y.failed = x.failed /\ y.received = x.received /\ y.allowance = x.allowance
       /\ y.pendingAllowance = x.pendingAllowance /\ y.sent = x.sent
  BY <1>2, <1>9, <1>10 DEF AutomatonSet, ConsumerMoves, ProducerSame
<1>12. /\ Open("requester", y) /\ ProducerHalf("response", "requester", y)
       /\ Consuming("response", "requester", y)
  <2>1. y.state = x.state \/ (x.state = "NEW" /\ y.state = "REQUESTED"
                              /\ "response" # "channel" /\ "requester" = "requester")
    BY <1>11
  <2>2. ConsumerMoves(x, y) /\ y.received = x.received
    BY <1>11
  <2>3. PICK k : k = "response"
    OBVIOUS
  <2>4. Local(k, "requester", x) /\ k # "channel"
    BY <2>3
  <2>5. Open("requester", y) /\ ProducerHalf(k, "requester", y) /\ Consuming(k, "requester", y)
    BY <1>1, <2>1, <2>2, <2>4, MovesKeep
  <2> QED BY <2>3, <2>5
<1>13. ConsumerHalf("response", "requester", y)
  BY <1>2, <1>11, <1>12, Zenon DEF ConsumerHalf
<1>14. Local("response", "requester", y)
  BY <1>1, <1>2, <1>11, <1>12, <1>13, Halves
<1>15. Written("response", "requester", x, y)
  <2>1. Opening("response") = "REQUEST_RESPONSE"
    BY DEF Opening
  <2>2. AllIn(<<f>>, 2, ToResponder("response"))
    BY <1>5 DEF AllIn
  <2>3. y.out # << >> /\ y.out[1].type = Opening("response")
        /\ AllIn(y.out, 2, ToResponder("response"))
    BY <1>4, <1>5, <1>11, <2>1, <2>2
  <2> QED BY <1>11, <2>3, Zenon DEF Written
<1>16. \A i \in 1..Len(y.out) : ~Final("response", y.out[i])
  <2>1. ~Final("response", f)
    BY <1>4 DEF Final
  <2> QED BY <1>5, <1>11, <2>1
<1>17. y.emitted = x.emitted /\ y.initialRequestN = x.initialRequestN
       /\ y.granted = x.granted /\ y.open = x.open
  BY <1>11, Zenon DEF ConsumerMoves, ProducerSame
<1>18. Payloads(y.out, x.emitted, y.emitted)
  <2>1. Payloads(<<f>>, x.emitted, TakesP(f, x.emitted))
    BY <1>2, <1>4, PayloadsOne
  <2>2. TakesP(f, x.emitted) = x.emitted
    BY <1>4 DEF TakesP
  <2> QED BY <1>11, <1>17, <2>1, <2>2
<1>19. ~FlowsTo("response", Peer("requester"))
  BY DEF FlowsTo, Peer
<1>20. PICK r, g : r = Len(x.received) /\ g = x.granted
  BY Zenon
<1>21. Len(y.received) = r /\ y.granted = g /\ y.open
  BY <1>11, <1>17, <1>20, Zenon
<1>22. Effect("response", "requester", x, y, r, g, "part")
  BY <1>1, <1>11, <1>14, <1>15, <1>16, <1>17, <1>18, <1>19, <1>21, OpenEffect
<1> QED BY <1>20, <1>22

(***************************************************************************)
(* Credit that arrives, also before the producer has subscribed.           *)
(***************************************************************************)
Released(x, y, h, c, q) ==
    /\ y \in AutomatonSet /\ ConsumerSame(x, y)
    /\ y.state = x.state /\ y.open = x.open /\ y.terminated = x.terminated
    /\ y.failed = x.failed /\ y.out = x.out /\ y.emitted = x.emitted
    /\ y.subscription = x.subscription /\ y.subscribed = x.subscribed
    /\ y.cancelled = x.cancelled
    /\ y.granted = h /\ y.credit = c /\ y.initialRequestN = q

(* Credit that arrives changes three fields.                               *)
LEMMA ReleasedType ==
    ASSUME NEW x \in AutomatonSet, NEW h \in Nat, NEW c \in Nat, NEW q \in 0..SizeMax,
           NEW y, y = [x EXCEPT !.granted = h, !.credit = c, !.initialRequestN = q]
    PROVE  Released(x, y, h, c, q)
<1>1. y \in AutomatonSet
  BY DEF AutomatonSet
<1>2. /\ ConsumerSame(x, y)
      /\ y.state = x.state /\ y.open = x.open /\ y.terminated = x.terminated
      /\ y.failed = x.failed /\ y.out = x.out /\ y.emitted = x.emitted
      /\ y.subscription = x.subscription /\ y.subscribed = x.subscribed
      /\ y.cancelled = x.cancelled
      /\ y.granted = h /\ y.credit = c /\ y.initialRequestN = q
  BY DEF AutomatonSet, ConsumerSame
<1> QED BY <1>1, <1>2, Zenon DEF Released

(* REQUEST_N: credit for the producer, or kept until it subscribes.        *)
LEMMA ProcessRequestNEffect ==
    ASSUME NEW k, NEW role \in Roles, NEW x, Local(k, role, x), x.open, x.out = << >>,
           NEW n \in Nat, NEW whole
    PROVE  Effect(k, role, x, ProcessRequestN(x, n), Len(x.received), x.granted + n, whole)
<1>1. /\ x \in AutomatonSet /\ x.granted \in Nat /\ x.emitted \in Nat
      /\ Open(role, x) /\ ConsumerHalf(k, role, x) /\ ProducerHalf(k, role, x)
      /\ Tame => x.failed = FALSE
  BY OpenAutomaton
<1>2. x.credit \in Nat /\ x.initialRequestN \in 0..SizeMax /\ x.subscription \in BOOLEAN
  BY <1>1 DEF AutomatonSet
<1>3. PICK h : h = x.granted + n
  OBVIOUS
<1>4. h \in Nat /\ x.granted <= h
  BY <1>1, <1>3
<1>5. PICK c : c = IF x.subscription THEN x.credit + n ELSE x.credit
  OBVIOUS
<1>6. PICK q : q = IF x.subscription THEN x.initialRequestN ELSE Release(x.initialRequestN, n)
  OBVIOUS
<1>7. c \in Nat /\ q \in 0..SizeMax
  BY <1>2, <1>5, <1>6, SizeMaxAssumption DEF Release
<1>8. PICK y : y = [x EXCEPT !.granted = h, !.credit = c, !.initialRequestN = q]
  OBVIOUS
<1>9. ProcessRequestN(x, n) = y
  <2>1. CASE x.subscription
    BY <1>1, <1>3, <1>5, <1>6, <1>8, <2>1 DEF ProcessRequestN, AutomatonSet
  <2>2. CASE ~x.subscription
    BY <1>1, <1>3, <1>5, <1>6, <1>8, <2>2 DEF ProcessRequestN, AutomatonSet
  <2> QED BY <2>1, <2>2
<1>10. /\ y \in AutomatonSet /\ ConsumerSame(x, y)
       /\ y.state = x.state /\ y.open = x.open /\ y.terminated = x.terminated
       /\ y.failed = x.failed /\ y.out = x.out /\ y.emitted = x.emitted
       /\ y.subscription = x.subscription /\ y.subscribed = x.subscribed
       /\ y.cancelled = x.cancelled
       /\ y.granted = h /\ y.credit = c /\ y.initialRequestN = q
  <2>1. Released(x, y, h, c, q)
    BY <1>1, <1>4, <1>7, <1>8, ReleasedType
  <2> QED BY <2>1, Zenon DEF Released
<1>11. Open(role, y)
  BY <1>1, <1>10, Zenon DEF Open
<1>12. ConsumerHalf(k, role, y)
  BY <1>1, <1>10, <1>11, SameConsumer
<1>13. ~x.subscription => x.emitted = 0 /\ x.credit = 0 /\ x.subscribed = FALSE
  <2>1. x.subscribed \in BOOLEAN
    BY <1>1 DEF AutomatonSet
  <2> QED BY <1>1, <2>1, Zenon DEF ProducerHalf, Publishing, Open
<1>14. Publishing(k, y)
  <2>1. y.subscribed = FALSE => y.credit = 0 /\ y.emitted = 0
    BY <1>1, <1>5, <1>10, <1>13, Zenon DEF ProducerHalf, Publishing
  <2>2. y.subscribed \in BOOLEAN
    BY <1>10 DEF AutomatonSet
  <2> QED BY <1>1, <1>10, <2>1, <2>2, Zenon DEF ProducerHalf, Publishing
<1>15. OwnRequest(y) = OwnRequest(x) /\ OwnRequest(x) \in Nat
  BY <1>10 DEF OwnRequest
<1>16. PICK i, e, w, b, p : i = x.initialRequestN /\ e = x.emitted /\ w = OwnRequest(x)
                            /\ b = x.credit /\ p = x.granted
  BY Zenon
<1>17. /\ i \in 0..SizeMax /\ i \in Nat /\ e \in Nat /\ w \in Nat /\ b \in Nat /\ p \in Nat
       /\ i = SizeMax \/ (e <= p /\ p + w = i + b + e)
       /\ i <= p /\ h = p + n
  BY <1>1, <1>2, <1>3, <1>15, <1>16, SizeMaxAssumption DEF ProducerHalf
<1>18. (c = b + n /\ q = i) \/ (c = b /\ q = Release(i, n))
  BY <1>5, <1>6, <1>16
<1>19. /\ q = SizeMax \/ (e <= h /\ h + w = q + c + e)
       /\ q <= h
       /\ q = SizeMax => h >= SizeMax
  BY <1>4, <1>7, <1>17, <1>18, SizeMaxAssumption DEF Release
<1>20. ProducerHalf(k, role, y)
  <2>1. Tame /\ k = "channel" /\ role = "requester" /\ ~y.subscribed => y.state = "NEW"
    BY <1>1, <1>10, Zenon DEF ProducerHalf
  <2> QED BY <1>10, <1>14, <1>15, <1>16, <1>19, <2>1, Zenon DEF ProducerHalf
<1>21. Local(k, role, y)
  BY <1>1, <1>10, <1>11, <1>12, <1>20, Halves
<1>22. y.initialRequestN = SizeMax =>
          x.initialRequestN = SizeMax \/ (y.emitted = 0 /\ y.granted >= SizeMax)
  <2>1. CASE x.subscription
    BY <1>6, <1>10, <2>1
  <2>2. CASE ~x.subscription
    BY <1>10, <1>13, <1>19, <2>2
  <2> QED BY <2>1, <2>2
<1>23. PICK r : r = Len(x.received)
  OBVIOUS
<1>24. y.sent = x.sent /\ y.allowance = x.allowance /\ r = Len(y.received)
  BY <1>10, <1>23, Zenon DEF ConsumerSame
<1>25. y.open
  BY <1>11 DEF Open
<1>26. Effect(k, role, x, y, r, h, whole)
  BY <1>10, <1>21, <1>22, <1>24, <1>25, QuietEffect
<1> QED BY <1>3, <1>9, <1>23, <1>26

(***************************************************************************)
(* onSubscribe of a stream that has ended: the producer is cancelled.      *)
(***************************************************************************)
LEMMA LateSubscribeEffect ==
    ASSUME NEW k, NEW role \in Roles, NEW x, Local(k, role, x), x.state = "CLOSED",
           x.out = << >>, NEW failed \in BOOLEAN, Tame => failed = FALSE,
           NEW y, y = [x EXCEPT !.subscribed = TRUE, !.cancelled = TRUE, !.failed = failed]
    PROVE  Effect(k, role, x, y, Len(x.received), x.granted, "part")
<1>1. x \in AutomatonSet /\ x.granted \in Nat /\ Len(x.received) \in Nat
  BY LocalTypes
<1>2. y \in AutomatonSet
  BY <1>1 DEF AutomatonSet
<1>3. /\ y.state = x.state /\ y.open = x.open /\ y.terminated = x.terminated
      /\ y.failed = failed /\ y.out = x.out
      /\ y.subscribed = TRUE /\ y.cancelled = TRUE
      /\ y.subscription = x.subscription /\ y.credit = x.credit /\ y.emitted = x.emitted
      /\ y.granted = x.granted /\ y.initialRequestN = x.initialRequestN
      /\ y.gaveUp = x.gaveUp /\ ConsumerSame(x, y)
  BY <1>1 DEF AutomatonSet, ConsumerSame
<1>4. x.open = FALSE /\ x.subscription = FALSE
  <2>1. x.open = (x.state \notin {"NONE", "CLOSED"}) /\ x.subscription \in BOOLEAN
    BY <1>1, LocalTypes DEF AutomatonSet
  <2> QED BY <2>1, Zenon DEF Local, Publishing
<1>5. Shape(role, y)
  BY <1>3, Zenon DEF Local, Shape
<1>6. Publishing(k, y)
  BY <1>3, <1>4, Zenon DEF Publishing
<1>7. Consuming(k, role, y)
  BY <1>3, Zenon DEF Local, Consuming, ConsumerSame
<1>8. Accounts(y)
  BY <1>3, <1>4, Zenon DEF Local, Accounts
<1>9. Checked(k, role, y)
  BY <1>3, Zenon DEF Local, Checked, ConsumerSame
<1>10. Local(k, role, y)
  BY <1>2, <1>5, <1>6, <1>7, <1>8, <1>9, Zenon DEF Local
<1>11. Effect(k, role, x, x, Len(x.received), x.granted, "part")
  BY NoEffect
<1>12. Written(k, role, x, y)
  BY <1>3, <1>11, Zenon DEF Effect, Written
<1>13. Told(y) <=> Told(x)
  BY <1>3, Zenon DEF Told, ConsumerSame
<1> QED BY <1>3, <1>4, <1>10, <1>11, <1>12, <1>13, Zenon DEF Effect, ConsumerSame

(***************************************************************************)
(* onSubscribe of a stream that runs: the credit that came early goes to   *)
(* the producer; a channel's requester asks for the first payload itself.  *)
(***************************************************************************)
Subscribed(x, y, c, q) ==
    /\ y \in AutomatonSet /\ ConsumerSame(x, y)
    /\ y.state = x.state /\ y.open = x.open /\ y.terminated = x.terminated
    /\ y.failed = x.failed /\ y.out = x.out /\ y.emitted = x.emitted
    /\ y.subscription = TRUE /\ y.subscribed = TRUE
    /\ y.cancelled = x.cancelled /\ y.granted = x.granted
    /\ y.credit = c /\ y.initialRequestN = q

(* onSubscribe changes four fields.                                        *)
LEMMA SubscribedType ==
    ASSUME NEW x \in AutomatonSet, NEW c \in Nat, NEW q \in 0..SizeMax,
           NEW y, y = [x EXCEPT !.subscribed = TRUE, !.subscription = TRUE,
                                !.credit = c, !.initialRequestN = q]
    PROVE  Subscribed(x, y, c, q)
<1>1. y \in AutomatonSet
  BY DEF AutomatonSet
<1>2. /\ ConsumerSame(x, y)
      /\ y.state = x.state /\ y.open = x.open /\ y.terminated = x.terminated
      /\ y.failed = x.failed /\ y.out = x.out /\ y.emitted = x.emitted
      /\ y.subscription = TRUE /\ y.subscribed = TRUE
      /\ y.cancelled = x.cancelled /\ y.granted = x.granted
      /\ y.credit = c /\ y.initialRequestN = q
  BY DEF AutomatonSet, ConsumerSame
<1> QED BY <1>1, <1>2, Zenon DEF Subscribed

(* onSubscribe gives the producer the credit that came before it.          *)
LEMMA SubscribeEffect ==
    ASSUME NEW k, NEW role \in Roles, NEW x, Local(k, role, x), x.open, x.out = << >>,
           ~x.subscribed, role = "requester" => k = "channel",
           NEW c, c = x.credit + Drained(x.initialRequestN, SizeMax)
                          + (IF role = "requester" THEN 1 ELSE 0),
           NEW q, q = AfterDrain(x.initialRequestN, SizeMax),
           NEW y, Subscribed(x, y, c, q)
    PROVE  Effect(k, role, x, y, Len(x.received), x.granted, "part")
<1>1. /\ x \in AutomatonSet /\ x.granted \in Nat /\ x.emitted \in Nat
      /\ Open(role, x) /\ ConsumerHalf(k, role, x) /\ ProducerHalf(k, role, x)
      /\ Tame => x.failed = FALSE
  BY OpenAutomaton
<1>2. x.credit \in Nat /\ x.initialRequestN \in 0..SizeMax /\ x.subscription \in BOOLEAN
  BY <1>1 DEF AutomatonSet
<1>3. /\ x.subscription = FALSE /\ ~x.cancelled /\ x.credit = 0 /\ x.emitted = 0
      /\ k = "channel" => x.state # "REQUESTED"
      /\ x.initialRequestN <= x.granted
      /\ x.initialRequestN = SizeMax
            \/ x.granted + OwnRequest(x) = x.initialRequestN + x.credit + x.emitted
  BY <1>1, <1>2, Zenon DEF ProducerHalf, Publishing, Open
<1>4. role = "requester" <=> x.state = "NEW"
  BY <1>1, <1>3 DEF Open, StatesOf, Roles
<1>5. OwnRequest(x) = 0
  BY <1>3, Zenon DEF OwnRequest
<1>6. PICK w : w = IF role = "requester" THEN 1 ELSE 0
  OBVIOUS
<1>7. w \in Nat /\ c = x.credit + Drained(x.initialRequestN, SizeMax) + w
  BY <1>6
<1>8. /\ c \in Nat /\ q \in 0..SizeMax
      /\ q <= x.granted
      /\ q = SizeMax => x.initialRequestN = SizeMax
      /\ q = SizeMax \/ x.granted + w = q + c + x.emitted
  <2>1. PICK i, p : i = x.initialRequestN /\ p = x.granted
    BY Zenon
  <2>2. /\ i \in 0..SizeMax /\ i \in Nat /\ p \in Nat /\ i <= p
        /\ i = SizeMax \/ p + 0 = i + 0 + 0
    BY <1>1, <1>2, <1>3, <1>5, <2>1, SizeMaxAssumption
  <2>3. c = 0 + Drained(i, SizeMax) + w /\ q = AfterDrain(i, SizeMax)
    BY <1>3, <1>7, <2>1, Zenon
  <2>4. /\ c \in Nat /\ q \in 0..SizeMax
        /\ q <= p
        /\ q = SizeMax => i = SizeMax
        /\ q = SizeMax \/ p + w = q + c + 0
    BY <1>7, <2>2, <2>3, SizeMaxAssumption, MaxRequestNAssumption
       DEF Drained, AfterDrain, IsInfinite
  <2> QED BY <1>3, <2>1, <2>4, Zenon
<1>9. /\ y \in AutomatonSet /\ ConsumerSame(x, y)
      /\ y.state = x.state /\ y.open = x.open /\ y.terminated = x.terminated
      /\ y.failed = x.failed /\ y.out = x.out /\ y.emitted = x.emitted
      /\ y.subscription = TRUE /\ y.subscribed = TRUE
      /\ y.cancelled = x.cancelled /\ y.granted = x.granted
      /\ y.credit = c /\ y.initialRequestN = q
  BY Zenon DEF Subscribed
<1>10. Open(role, y)
  BY <1>1, <1>9, Zenon DEF Open
<1>11. ConsumerHalf(k, role, y)
  BY <1>1, <1>9, <1>10, SameConsumer
<1>12. OwnRequest(y) = w
  BY <1>4, <1>6, <1>9, Zenon DEF OwnRequest
<1>13. Publishing(k, y)
  <2>1. k # "channel" => x.state \notin {"NEW", "REQUESTED"}
    BY <1>1, <1>4 DEF Open, StatesOf, Roles
  <2> QED BY <1>3, <1>9, <1>10, <2>1, Zenon DEF Publishing, Open
<1>14. ProducerHalf(k, role, y)
  <2>1. y.emitted <= y.granted
    BY <1>1, <1>3, <1>9
  <2> QED BY <1>8, <1>9, <1>12, <1>13, <2>1, Zenon DEF ProducerHalf
<1>15. Local(k, role, y)
  BY <1>1, <1>9, <1>10, <1>11, <1>14, Halves
<1>16. PICK r, g : r = Len(x.received) /\ g = x.granted
  BY Zenon
<1>17. y.sent = x.sent /\ y.allowance = x.allowance /\ r = Len(y.received) /\ g = y.granted
  BY <1>9, <1>16, Zenon DEF ConsumerSame
<1>18. y.open
  BY <1>10 DEF Open
<1>19. Effect(k, role, x, y, r, g, "part")
  <2>1. y.initialRequestN = SizeMax =>
          x.initialRequestN = SizeMax \/ (y.emitted = 0 /\ y.granted >= SizeMax)
    BY <1>8, <1>9
  <2>2. y.out = << >> /\ (x.allowance = SizeMax => y.allowance = SizeMax)
    BY <1>9, <1>17
  <2>3. y.state = x.state /\ y.emitted = x.emitted /\ y.sent = x.sent
    BY <1>9, <1>17
  <2> QED BY <1>15, <1>17, <1>18, <2>1, <2>2, <2>3, QuietEffect
<1> QED BY <1>16, <1>19

(* Draining without a limit takes everything.                              *)
LEMMA DrainedWhole ==
    ASSUME NEW n \in 0..SizeMax
    PROVE  /\ Drained(n, SizeMax) \in Nat /\ Drained(n, SizeMax) = n
           /\ AfterDrain(n, SizeMax) \in 0..SizeMax
BY SizeMaxAssumption DEF Drained, AfterDrain, IsInfinite

(* What PublisherBase does in onSubscribe.                                 *)
LEMMA PublisherSubscribes ==
    ASSUME NEW x \in AutomatonSet, x.subscription = FALSE, NEW u, u = [x EXCEPT !.subscribed = TRUE]
    PROVE  Subscribed(x, PublisherSubscribe(u), x.credit + Drained(x.initialRequestN, SizeMax),
                      AfterDrain(x.initialRequestN, SizeMax))
<1>1. u \in AutomatonSet
  BY DEF AutomatonSet
<1>2. u.subscription = FALSE /\ u.initialRequestN = x.initialRequestN /\ u.credit = x.credit
  BY DEF AutomatonSet
<1>3. Check(u, ~u.subscription) = u
  <2>1. ~u.subscription
    BY <1>2
  <2> QED BY <1>1, <2>1, CheckHolds
<1>4. PICK c, q : c = x.credit + Drained(x.initialRequestN, SizeMax)
                  /\ q = AfterDrain(x.initialRequestN, SizeMax)
  BY Zenon
<1>5. x.initialRequestN \in 0..SizeMax /\ x.credit \in Nat
  BY DEF AutomatonSet
<1>6. c \in Nat /\ q \in 0..SizeMax
  BY <1>4, <1>5, DrainedWhole
<1>7. PICK y : y = PublisherSubscribe(u)
  OBVIOUS
<1>8. y = [u EXCEPT !.subscription = TRUE,
                    !.credit = @ + Drained(u.initialRequestN, SizeMax),
                    !.initialRequestN = AfterDrain(@, SizeMax)]
  BY <1>3, <1>7, Zenon DEF PublisherSubscribe
<1>9. y = [u EXCEPT !.subscription = TRUE, !.credit = c, !.initialRequestN = q]
  BY <1>1, <1>2, <1>4, <1>8 DEF AutomatonSet
<1>10. y = [x EXCEPT !.subscribed = TRUE, !.subscription = TRUE,
                     !.credit = c, !.initialRequestN = q]
  BY <1>9 DEF AutomatonSet
<1>11. Subscribed(x, y, c, q)
  BY <1>6, <1>10, SubscribedType
<1> QED BY <1>4, <1>7, <1>11

(***************************************************************************)
(* onSubscribe of the responders.                                          *)
(***************************************************************************)
LEMMA ResponderOnSubscribeEffect ==
    ASSUME NEW k \in Kinds, NEW x, Local(k, "responder", x), x.out = << >>,
           x.state # "NONE", ~x.subscribed
    PROVE  Effect(k, "responder", x, ResponderOnSubscribe(x),
                  Len(x.received), x.granted, "part")
<1>1. "responder" \in Roles
  BY DEF Roles
<1>2. /\ x \in AutomatonSet /\ x.state \in StatesOf("responder")
      /\ x.open = (x.state \notin {"NONE", "CLOSED"})
      /\ x.terminated = (x.state = "CLOSED")
  <2>1. x \in AutomatonSet /\ x.state \in StatesOf("responder")
        /\ x.open = (x.state \notin {"NONE", "CLOSED"})
    BY <1>1, LocalTypes
  <2>2. x.terminated = (x.state = "CLOSED")
    BY Zenon DEF Local, Shape
  <2> QED BY <2>1, <2>2, Zenon
<1>3. CASE x.state = "CLOSED"
  <2>1. x.terminated
    BY <1>2, <1>3, Zenon
  <2>2. PICK failed : failed = x.failed
    OBVIOUS
  <2>3. failed \in BOOLEAN
    BY <1>2, <2>2 DEF AutomatonSet
  <2>4. Tame => failed = FALSE
    BY <2>2, Zenon DEF Local, Checked
  <2>5. PICK y : y = [x EXCEPT !.subscribed = TRUE, !.cancelled = TRUE, !.failed = failed]
    OBVIOUS
  <2>6. y = [x EXCEPT !.subscribed = TRUE, !.cancelled = TRUE]
    BY <1>2, <2>2, <2>5 DEF AutomatonSet
  <2>7. ResponderOnSubscribe(x) = y
    BY <2>1, <2>6, Zenon DEF ResponderOnSubscribe
  <2>8. Effect(k, "responder", x, y, Len(x.received), x.granted, "part")
    BY <1>1, <1>3, <2>3, <2>4, <2>5, LateSubscribeEffect
  <2> QED BY <2>7, <2>8
<1>4. CASE x.state # "CLOSED"
  <2>1. x.open /\ ~x.terminated
    BY <1>2, <1>4, Zenon
  <2>2. x.subscription = FALSE
    <3>1. x.subscription \in BOOLEAN
      BY <1>2 DEF AutomatonSet
    <3> QED BY <3>1, Zenon DEF Local, Publishing
  <2>3. PICK u : u = [x EXCEPT !.subscribed = TRUE]
    OBVIOUS
  <2>4. PICK y : y = PublisherSubscribe(u)
    OBVIOUS
  <2>5. ResponderOnSubscribe(x) = y
    BY <2>1, <2>3, <2>4, Zenon DEF ResponderOnSubscribe
  <2>6. PICK c, q : c = x.credit + Drained(x.initialRequestN, SizeMax)
                    /\ q = AfterDrain(x.initialRequestN, SizeMax)
    BY Zenon
  <2>7. Subscribed(x, y, c, q)
    BY <1>2, <2>2, <2>3, <2>4, <2>6, PublisherSubscribes
  <2>8. c = x.credit + Drained(x.initialRequestN, SizeMax)
                + (IF "responder" = "requester" THEN 1 ELSE 0)
    <3>1. x.initialRequestN \in 0..SizeMax /\ x.credit \in Nat
      BY <1>2 DEF AutomatonSet
    <3>2. c \in Nat
      BY <2>6, <3>1, DrainedWhole
    <3> QED BY <2>6, <3>2
  <2>9. Effect(k, "responder", x, y, Len(x.received), x.granted, "part")
    BY <1>1, <2>1, <2>6, <2>7, <2>8, SubscribeEffect
  <2> QED BY <2>5, <2>9
<1> QED BY <1>3, <1>4

(***************************************************************************)
(* onSubscribe of a channel's requester.  It comes after the end only when *)
(* the application did not subscribe the producer first.                   *)
(***************************************************************************)
LEMMA RequesterOnSubscribeIs ==
    ASSUME NEW x
    PROVE  Channel!RequesterOnSubscribe(x) =
              IF Check([x EXCEPT !.subscribed = TRUE], x.state = "NEW").terminated
              THEN [Check([x EXCEPT !.subscribed = TRUE], x.state = "NEW") EXCEPT
                       !.cancelled = TRUE]
              ELSE [PublisherSubscribe(Check([x EXCEPT !.subscribed = TRUE], x.state = "NEW"))
                       EXCEPT !.credit = @ + 1]
<1>1. \A z : Channel!PublisherSubscribe(z) = PublisherSubscribe(z)
  BY ChannelIsAlike, Zenon DEF ChannelAlike
<1>2. Channel!RequesterOnSubscribe(x) =
         IF Check([x EXCEPT !.subscribed = TRUE], x.state = "NEW").terminated
         THEN [Check([x EXCEPT !.subscribed = TRUE], x.state = "NEW") EXCEPT
                  !.cancelled = TRUE]
         ELSE [Channel!PublisherSubscribe(
                  Check([x EXCEPT !.subscribed = TRUE], x.state = "NEW"))
                  EXCEPT !.credit = @ + 1]
  BY Zenon DEF Channel!RequesterOnSubscribe, Channel!Check, Check
<1> QED BY <1>1, <1>2, Zenon

(* onSubscribe of a channel's requester, which asks for the payload that   *)
(* makes the request.                                                      *)
LEMMA RequesterOnSubscribeEffect ==
    ASSUME NEW x, Local("channel", "requester", x), x.out = << >>, ~x.subscribed
    PROVE  Effect("channel", "requester", x, Channel!RequesterOnSubscribe(x),
                  Len(x.received), x.granted, "part")
<1>1. "requester" \in Roles
  BY DEF Roles
<1>2. /\ x \in AutomatonSet /\ x.state \in StatesOf("requester")
      /\ x.open = (x.state \notin {"NONE", "CLOSED"})
      /\ x.terminated = (x.state = "CLOSED")
  <2>1. x \in AutomatonSet /\ x.state \in StatesOf("requester")
        /\ x.open = (x.state \notin {"NONE", "CLOSED"})
    BY <1>1, LocalTypes
  <2>2. x.terminated = (x.state = "CLOSED")
    BY Zenon DEF Local, Shape
  <2> QED BY <2>1, <2>2, Zenon
<1>3. PICK u : u = [x EXCEPT !.subscribed = TRUE]
  OBVIOUS
<1>4. u \in AutomatonSet /\ u.terminated = x.terminated /\ u.failed = x.failed
  BY <1>2, <1>3 DEF AutomatonSet
<1>5. PICK failed \in BOOLEAN : failed = (u.failed \/ ~(x.state = "NEW"))
  BY Zenon
<1>6. PICK v : v = [u EXCEPT !.failed = failed]
  OBVIOUS
<1>7. Check(u, x.state = "NEW") = v
  BY <1>5, <1>6, Zenon DEF Check
<1>8. v.terminated = x.terminated
  BY <1>4, <1>6 DEF AutomatonSet
<1>9. Channel!RequesterOnSubscribe(x) =
         IF v.terminated THEN [v EXCEPT !.cancelled = TRUE]
         ELSE [PublisherSubscribe(v) EXCEPT !.credit = @ + 1]
  BY <1>3, <1>7, RequesterOnSubscribeIs, Zenon
<1>10. CASE x.state = "CLOSED"
  <2>1. PICK y : y = [x EXCEPT !.subscribed = TRUE, !.cancelled = TRUE, !.failed = failed]
    OBVIOUS
  <2>2. y = [v EXCEPT !.cancelled = TRUE]
    BY <1>2, <1>3, <1>6, <2>1 DEF AutomatonSet
  <2>3. v.terminated
    BY <1>2, <1>8, <1>10, Zenon
  <2>4. Tame => failed = FALSE
    <3>1. Tame => x.state = "NEW"
      BY Zenon DEF Local, Checked
    <3> QED BY <1>10, <3>1
  <2>5. Effect("channel", "requester", x, y, Len(x.received), x.granted, "part")
    BY <1>1, <1>10, <2>1, <2>4, LateSubscribeEffect
  <2> QED BY <1>9, <2>2, <2>3, <2>5, Zenon
<1>11. CASE x.state # "CLOSED"
  <2>1. x.open /\ ~v.terminated
    <3>1. x.state # "NONE"
      BY <1>2 DEF StatesOf
    <3> QED BY <1>2, <1>8, <1>11, <3>1, Zenon
  <2>2. x.subscription = FALSE /\ x.state # "REQUESTED"
    <3>1. x.subscription \in BOOLEAN
      BY <1>2 DEF AutomatonSet
    <3> QED BY <3>1, Zenon DEF Local, Publishing
  <2>3. x.state = "NEW"
    BY <1>2, <1>11, <2>2 DEF StatesOf
  <2>4. v = u
    BY <1>4, <1>7, <2>3, CheckHolds
  <2>5. PICK z : z = PublisherSubscribe(u)
    OBVIOUS
  <2>6. PICK b, q : b = x.credit + Drained(x.initialRequestN, SizeMax)
                    /\ q = AfterDrain(x.initialRequestN, SizeMax)
    BY Zenon
  <2>7. Subscribed(x, z, b, q)
    BY <1>2, <1>3, <2>2, <2>5, <2>6, PublisherSubscribes
  <2>8. PICK c : c = b + 1
    OBVIOUS
  <2>9. x.initialRequestN \in 0..SizeMax /\ x.credit \in Nat
    BY <1>2 DEF AutomatonSet
  <2>10. b \in Nat /\ c \in Nat
    BY <2>6, <2>8, <2>9, DrainedWhole
  <2>11. PICK y : y = [z EXCEPT !.credit = c]
    OBVIOUS
  <2>12. z \in AutomatonSet /\ z.credit = b
    BY <2>7, Zenon DEF Subscribed
  <2>13. [z EXCEPT !.credit = @ + 1] = y
    BY <2>8, <2>11, <2>12 DEF AutomatonSet
  <2>14. Channel!RequesterOnSubscribe(x) = y
    BY <1>9, <2>1, <2>4, <2>5, <2>13, Zenon
  <2>15. Subscribed(x, y, c, q)
    <3>1. y \in AutomatonSet
      BY <2>10, <2>11, <2>12 DEF AutomatonSet
    <3>2. /\ ConsumerSame(z, y)
          /\ y.state = z.state /\ y.open = z.open /\ y.terminated = z.terminated
          /\ y.failed = z.failed /\ y.out = z.out /\ y.emitted = z.emitted
          /\ y.subscription = z.subscription /\ y.subscribed = z.subscribed
          /\ y.cancelled = z.cancelled /\ y.granted = z.granted
          /\ y.credit = c /\ y.initialRequestN = z.initialRequestN
      BY <2>11, <2>12 DEF AutomatonSet, ConsumerSame
    <3> QED BY <2>7, <3>1, <3>2, Zenon DEF Subscribed, ConsumerSame
  <2>16. c = x.credit + Drained(x.initialRequestN, SizeMax)
                + (IF "requester" = "requester" THEN 1 ELSE 0)
    BY <2>6, <2>8
  <2>17. Effect("channel", "requester", x, y, Len(x.received), x.granted, "part")
    BY <1>1, <2>1, <2>6, <2>15, <2>16, SubscribeEffect
  <2> QED BY <2>14, <2>17
<1> QED BY <1>10, <1>11

(***************************************************************************)
(* A payload is written, within the credit.                                *)
(***************************************************************************)
Emitted(x, y, f) ==
    /\ y \in AutomatonSet /\ ConsumerSame(x, y)
    /\ y.state = x.state /\ y.open = x.open /\ y.terminated = x.terminated
    /\ y.failed = x.failed /\ y.subscription = x.subscription
    /\ y.subscribed = x.subscribed /\ y.cancelled = x.cancelled
    /\ y.granted = x.granted /\ y.initialRequestN = x.initialRequestN
    /\ y.credit = x.credit - 1 /\ y.emitted = x.emitted + 1
    /\ y.out = <<f>>

(* A payload is a frame.                                                   *)
LEMMA PayloadFrame ==
    ASSUME NEW n \in Nat
    PROVE  Frame("PAYLOAD", n) \in FrameSet /\ Frame("PAYLOAD", n).type = "PAYLOAD"
           /\ Frame("PAYLOAD", n).n = n
<1>1. PICK f : f = Frame("PAYLOAD", n)
  OBVIOUS
<1>2. f = [type |-> "PAYLOAD", n |-> n] /\ f.type = "PAYLOAD" /\ f.n = n
  BY <1>1 DEF Frame
<1>3. f \in FrameSet
  BY <1>2 DEF FrameSet, FrameTypes
<1> QED BY <1>1, <1>2, <1>3

(* What onNext writes and takes from the credit.                           *)
LEMMA Emits ==
    ASSUME NEW x \in AutomatonSet, x.out = << >>, x.credit >= 1,
           NEW u, u = [x EXCEPT !.credit = @ - 1],
           NEW f, f = Frame("PAYLOAD", x.emitted + 1)
    PROVE  /\ Emitted(x, Output([u EXCEPT !.emitted = @ + 1], f), f)
           /\ u \in AutomatonSet /\ u.emitted = x.emitted /\ u.subscription = x.subscription
           /\ u.state = x.state
<1>1. x.credit \in Nat /\ x.emitted \in Nat
  BY DEF AutomatonSet
<1>2. PICK c, e : c = x.credit - 1 /\ e = x.emitted + 1
  BY Zenon
<1>3. c \in Nat /\ e \in Nat
  BY <1>1, <1>2
<1>4. f \in FrameSet
  BY <1>2, <1>3, PayloadFrame
<1>5. Append(<< >>, f) = <<f>> /\ <<f>> \in Seq(FrameSet)
  BY <1>4
<1>6. u = [x EXCEPT !.credit = c] /\ u.emitted = x.emitted /\ u.out = << >>
      /\ u.subscription = x.subscription /\ u.state = x.state
  BY <1>2 DEF AutomatonSet
<1>7. PICK v : v = [u EXCEPT !.emitted = e]
  OBVIOUS
<1>8. [u EXCEPT !.emitted = @ + 1] = v
  BY <1>2, <1>6, <1>7 DEF AutomatonSet
<1>9. v.out = << >> /\ v = [x EXCEPT !.credit = c, !.emitted = e]
  BY <1>6, <1>7 DEF AutomatonSet
<1>10. PICK y : y = [v EXCEPT !.out = <<f>>]
  OBVIOUS
<1>11. Output(v, f) = y
  BY <1>5, <1>9, <1>10 DEF Output
<1>12. v \in AutomatonSet /\ u \in AutomatonSet
  BY <1>3, <1>6, <1>9 DEF AutomatonSet
<1>13. y \in AutomatonSet
  BY <1>5, <1>10, <1>12 DEF AutomatonSet
<1>14. y = [x EXCEPT !.credit = c, !.emitted = e, !.out = <<f>>]
  BY <1>9, <1>10 DEF AutomatonSet
<1>15. /\ ConsumerSame(x, y)
       /\ y.state = x.state /\ y.open = x.open /\ y.terminated = x.terminated
       /\ y.failed = x.failed /\ y.subscription = x.subscription
       /\ y.subscribed = x.subscribed /\ y.cancelled = x.cancelled
       /\ y.granted = x.granted /\ y.initialRequestN = x.initialRequestN
       /\ y.credit = c /\ y.emitted = e /\ y.out = <<f>>
  BY <1>14 DEF AutomatonSet, ConsumerSame
<1>16. Emitted(x, y, f)
  BY <1>2, <1>13, <1>15, Zenon DEF Emitted
<1> QED BY <1>6, <1>8, <1>11, <1>12, <1>16, Zenon

(* onNext: one payload, covered by the credit.                             *)
LEMMA EmitEffect ==
    ASSUME NEW k \in {"stream", "channel"}, NEW role \in Roles,
           role = "requester" => k = "channel",
           NEW x, Local(k, role, x), x.open, x.state # "NEW", x.subscribed, x.credit >= 1,
           NEW f, f = Frame("PAYLOAD", x.emitted + 1), NEW y, Emitted(x, y, f)
    PROVE  Effect(k, role, x, y, Len(x.received), x.granted, "part")
<1>1. /\ x \in AutomatonSet /\ x.granted \in Nat /\ x.emitted \in Nat /\ x.sent \in Nat
      /\ Open(role, x) /\ ConsumerHalf(k, role, x) /\ ProducerHalf(k, role, x)
      /\ Tame => x.failed = FALSE
  BY OpenAutomaton
<1>2. x.credit \in Nat /\ x.initialRequestN \in 0..SizeMax
  BY <1>1 DEF AutomatonSet
<1>3. /\ y \in AutomatonSet /\ ConsumerSame(x, y)
      /\ y.state = x.state /\ y.open = x.open /\ y.terminated = x.terminated
      /\ y.failed = x.failed /\ y.subscription = x.subscription
      /\ y.subscribed = x.subscribed /\ y.cancelled = x.cancelled
      /\ y.granted = x.granted /\ y.initialRequestN = x.initialRequestN
      /\ y.credit = x.credit - 1 /\ y.emitted = x.emitted + 1
      /\ y.out = <<f>>
  BY Zenon DEF Emitted
<1>4. f \in FrameSet /\ f.type = "PAYLOAD" /\ f.n = x.emitted + 1
  <2>1. x.emitted + 1 \in Nat
    BY <1>1
  <2> QED BY <2>1, PayloadFrame
<1>5. Open(role, y)
  BY <1>1, <1>3, Zenon DEF Open
<1>6. ConsumerHalf(k, role, y)
  BY <1>1, <1>3, <1>5, SameConsumer
<1>7. OwnRequest(x) = 0 /\ OwnRequest(y) = 0
  BY <1>3, Zenon DEF OwnRequest
<1>8. Publishing(k, y)
  BY <1>1, <1>3, Zenon DEF ProducerHalf, Publishing
<1>9. PICK i, e, b, p : i = x.initialRequestN /\ e = x.emitted /\ b = x.credit /\ p = x.granted
  BY Zenon
<1>10. /\ i \in Nat /\ e \in Nat /\ b \in Nat /\ p \in Nat /\ b >= 1
       /\ i = SizeMax \/ (e <= p /\ p + 0 = i + b + e)
       /\ i <= p
  BY <1>1, <1>2, <1>7, <1>9, SizeMaxAssumption DEF ProducerHalf
<1>11. i = SizeMax \/ (e + 1 <= p /\ p + 0 = i + (b - 1) + (e + 1))
  BY <1>10
<1>12. ProducerHalf(k, role, y)
  BY <1>3, <1>7, <1>8, <1>9, <1>10, <1>11, Zenon DEF ProducerHalf
<1>13. Local(k, role, y)
  BY <1>1, <1>3, <1>5, <1>6, <1>12, Halves
<1>14. <<f>> \in Seq(FrameSet) /\ Len(<<f>>) = 1 /\ <<f>>[1] = f
  BY <1>4
<1>15. Payloads(y.out, x.emitted, y.emitted) /\ Credits(y.out, x.sent, y.sent)
  <2>1. Payloads(<<f>>, x.emitted, TakesP(f, x.emitted)) /\ Credits(<<f>>, x.sent, TakesC(f, x.sent))
    BY <1>1, <1>4, PayloadsOne, CreditsOne
  <2>2. TakesP(f, x.emitted) = x.emitted + 1 /\ TakesC(f, x.sent) = x.sent
    BY <1>4 DEF TakesP, TakesC, CreditTypes
  <2>3. y.sent = x.sent
    BY <1>3, Zenon DEF ConsumerSame
  <2> QED BY <1>3, <2>1, <2>2, <2>3, Zenon
<1>16. ~Final(k, f)
  BY <1>4 DEF Final
<1>17. \A j \in 1..Len(y.out) : ~Final(k, y.out[j])
  BY <1>3, <1>14, <1>16
<1>18. Written(k, role, x, y)
  <2>1. k = "channel" => "PAYLOAD" \in ToResponder(k)
    BY DEF ToResponder
  <2>2. "PAYLOAD" \in ToRequester(k)
    BY DEF ToRequester
  <2>3. \A types : "PAYLOAD" \in types => AllIn(y.out, 1, types)
    BY <1>3, <1>4, <1>14 DEF AllIn
  <2>4. role = "requester" => AllIn(y.out, 1, ToResponder(k))
    BY <2>1, <2>3
  <2>5. AllIn(y.out, 1, ToRequester(k))
    BY <2>2, <2>3
  <2> QED BY <1>3, <2>4, <2>5, Zenon DEF Written
<1>19. PICK r, g : r = Len(x.received) /\ g = x.granted
  BY Zenon
<1>20. Len(y.received) = r /\ y.granted = g /\ y.open /\ y.allowance = x.allowance
  BY <1>3, <1>19, Zenon DEF ConsumerSame
<1>21. Effect(k, role, x, y, r, g, "part")
  BY <1>3, <1>13, <1>15, <1>17, <1>18, <1>20, OpenEffect
<1> QED BY <1>19, <1>21

(***************************************************************************)
(* A payload arrives, within the allowance.                                *)
(***************************************************************************)
LEMMA ProcessPayloadEffect ==
    ASSUME NEW k \in {"stream", "channel"}, NEW role \in Roles,
           role = "responder" => k = "channel",
           NEW x, Local(k, role, x), x.open, x.out = << >>, x.state # "NEW", Balanced(x),
           x.allowance >= 1, NEW n, n = Len(x.received) + 1, NEW whole
    PROVE  Effect(k, role, x, ProcessPayload(x, n), n, x.granted, whole)
<1>1. /\ x \in AutomatonSet /\ x.sent \in Nat /\ x.emitted \in Nat /\ x.granted \in Nat
      /\ x.pendingAllowance \in Nat /\ x.initialResponseAllowance \in Nat
      /\ x.requests \in Nat /\ Len(x.received) \in Nat
      /\ Consuming(k, role, x)
      /\ Tame => x.failed = FALSE
  BY OpenAutomaton
<1>2. PICK a : a = AfterAcquire(x.allowance)
  OBVIOUS
<1>3. x.allowance \in 0..SizeMax /\ x.received \in Seq(Nat)
  BY <1>1 DEF AutomatonSet
<1>4. /\ a \in 0..SizeMax
      /\ x.allowance = SizeMax => a = SizeMax
      /\ x.allowance # SizeMax => a + 1 = x.allowance
  BY <1>2, <1>3, SizeMaxAssumption DEF AfterAcquire, IsInfinite
<1>5. PICK w : w = [x EXCEPT !.allowance = a]
  OBVIOUS
<1>6. w \in AutomatonSet
  BY <1>1, <1>4, <1>5 DEF AutomatonSet
<1>7. /\ ConsumerMoves(x, w) /\ w.state = x.state /\ w.received = x.received
      /\ w.requests = x.requests /\ w.initialResponseAllowance = x.initialResponseAllowance
      /\ w.allowance = a /\ w.pendingAllowance = x.pendingAllowance /\ w.sent = x.sent
      /\ w.failed = x.failed /\ w.out = << >>
  BY <1>1, <1>5, <1>6 DEF AutomatonSet, ConsumerMoves, ProducerSame
<1>8. Spoken(k, w.out, 1, x.emitted, x.sent, w.sent)
  BY <1>1, <1>7, SpokenNone
<1>9. PICK v : v = SendRequests(w)
  OBVIOUS
<1>10. Sends(k, 1, x.emitted, x.sent, w, v)
  BY <1>1, <1>6, <1>8, <1>9, SendRequestsSends
<1>11. /\ ConsumerMoves(w, v) /\ v.state = x.state /\ v.received = x.received
       /\ v.requests = x.requests /\ v.initialResponseAllowance = x.initialResponseAllowance
       /\ v.allowance = a
       /\ x.pendingAllowance # SizeMax =>
             /\ v.pendingAllowance + v.sent = x.pendingAllowance + x.sent
             /\ v.failed = x.failed
       /\ Spoken(k, v.out, 1, x.emitted, x.sent, v.sent)
  BY <1>7, <1>10, Zenon DEF Sends
<1>12. ConsumerMoves(x, v) /\ v \in AutomatonSet /\ v.subscriber = x.subscriber
  BY <1>7, <1>11, Zenon DEF ConsumerMoves, ProducerSame
<1>13. x.subscriber = TRUE
  <2>1. IsConsumer(k, role) /\ x.open = TRUE
    BY <1>1 DEF IsConsumer, Roles, AutomatonSet
  <2> QED BY <1>1, <2>1 DEF Consuming
<1>14. Check(v, v.subscriber) = v
  <2>1. v.subscriber
    BY <1>12, <1>13
  <2> QED BY <1>12, <2>1, CheckHolds
<1>15. PICK l : l = Append(x.received, n)
  OBVIOUS
<1>16. /\ n \in Nat /\ l \in Seq(Nat) /\ Len(l) = n
       /\ \A i \in 1..Len(x.received) : l[i] = x.received[i]
       /\ l[n] = n
  BY <1>1, <1>3, <1>15
<1>17. PICK y : y = [v EXCEPT !.received = l]
  OBVIOUS
<1>18. ProcessPayload(x, n) = y
  <2>1. CanAcquire(x.allowance)
    BY DEF CanAcquire
  <2>2. ProcessPayload(x, n) = [Check(v, v.subscriber) EXCEPT !.received = Append(@, n)]
    <3>1. [x EXCEPT !.allowance = AfterAcquire(@)] = w
      BY <1>2, <1>5
    <3> QED BY <1>9, <2>1, <3>1, Zenon DEF ProcessPayload
  <2>3. [v EXCEPT !.received = Append(@, n)] = y
    BY <1>11, <1>12, <1>15, <1>17 DEF AutomatonSet
  <2> QED BY <1>14, <2>2, <2>3, Zenon
<1>19. y \in AutomatonSet
  BY <1>12, <1>16, <1>17 DEF AutomatonSet
<1>20. /\ ConsumerMoves(v, y) /\ y.state = v.state /\ y.received = l
       /\ y.requests = v.requests /\ y.initialResponseAllowance = v.initialResponseAllowance
       /\ y.allowance = v.allowance /\ y.pendingAllowance = v.pendingAllowance
       /\ y.sent = v.sent /\ y.failed = v.failed /\ y.out = v.out
  BY <1>12, <1>17, <1>19 DEF AutomatonSet, ConsumerMoves, ProducerSame
<1>21. /\ ConsumerMoves(x, y) /\ y.state = x.state
       /\ y.requests = x.requests /\ y.initialResponseAllowance = x.initialResponseAllowance
       /\ y.allowance = a
       /\ x.pendingAllowance # SizeMax =>
             /\ y.pendingAllowance + y.sent = x.pendingAllowance + x.sent
             /\ y.failed = x.failed
       /\ Spoken(k, y.out, 1, x.emitted, x.sent, y.sent)
  BY <1>11, <1>12, <1>20, Zenon DEF ConsumerMoves, ProducerSame
<1>22. Open(role, y) /\ ProducerHalf(k, role, y)
  BY <1>21, MovesKeep
<1>23. Consuming(k, role, y)
  <2>1. \A i \in 1..Len(y.received) : y.received[i] = i
    <3>1. \A i \in 1..Len(x.received) : x.received[i] = i
      BY <1>1 DEF Consuming
    <3>2. \A i \in 1..n : i \in 1..Len(x.received) \/ i = n
      BY <1>1
    <3> QED BY <1>16, <1>20, <3>1, <3>2
  <2>2. y.open = x.open /\ y.subscriber = x.subscriber /\ y.terminal = x.terminal
        /\ y.surplus = x.surplus
    BY <1>21, Zenon DEF ConsumerMoves
  <2> QED BY <1>1, <1>21, <2>1, <2>2, Zenon DEF Consuming
<1>24. y.allowance = SizeMax
       \/ y.allowance + Len(y.received) = y.pendingAllowance + y.sent
  <2>1. CASE x.allowance = SizeMax
    BY <1>4, <1>21, <2>1
  <2>2. CASE x.allowance # SizeMax
    <3>1. PICK b, m, p, s : b = x.allowance /\ m = Len(x.received)
                            /\ p = x.pendingAllowance /\ s = x.sent
      BY Zenon
    <3>2. b \in 0..SizeMax /\ m \in Nat /\ p \in Nat /\ s \in Nat /\ b # SizeMax
          /\ b + m = p + s /\ m <= s /\ a \in 0..SizeMax /\ a + 1 = b /\ n = m + 1
      BY <1>1, <1>3, <1>4, <2>2, <3>1, Zenon DEF Balanced
    <3>3. p # SizeMax /\ a + n = p + s
      BY <3>2, SizeMaxAssumption
    <3>4. y.pendingAllowance + y.sent = p + s
      BY <1>21, <3>1, <3>3
    <3> QED BY <1>16, <1>20, <1>21, <3>3, <3>4
  <2> QED BY <2>1, <2>2
<1>25. ASSUME Tame
       PROVE  /\ y.failed = FALSE
              /\ y.pendingAllowance + y.sent + y.initialResponseAllowance
                     <= LargestRequest * y.requests
              /\ y.requests <= MaxRequestsOf(k)
  <2>1. PICK d : d = LargestRequest * x.requests
    OBVIOUS
  <2>2. /\ x.pendingAllowance + x.sent + x.initialResponseAllowance <= d
        /\ d \in Nat /\ d < SizeMax /\ x.requests <= MaxRequestsOf(k)
    BY <1>25, <2>1, TotalWithin
  <2>3. x.pendingAllowance # SizeMax
    BY <1>1, <2>2, SizeMaxAssumption
  <2>4. y.pendingAllowance + y.sent + y.initialResponseAllowance
            = x.pendingAllowance + x.sent + x.initialResponseAllowance
    BY <1>21, <2>3
  <2> QED BY <1>1, <1>21, <1>25, <2>1, <2>2, <2>3, <2>4, Zenon
<1>26. Opens(k, role, x, y, 1)
  BY <1>21, Zenon DEF Opens
<1>27. y.emitted = x.emitted /\ y.initialRequestN = x.initialRequestN
       /\ y.granted = x.granted
  BY <1>21, Zenon DEF ConsumerMoves, ProducerSame
<1>28. x.allowance = SizeMax => y.allowance = SizeMax
  BY <1>4, <1>21
<1>29. PICK g : g = x.granted
  OBVIOUS
<1>30. n = Len(y.received) /\ g = y.granted
  BY <1>16, <1>20, <1>27, <1>29
<1>31. Effect(k, role, x, y, n, g, whole)
  BY <1>21, <1>22, <1>23, <1>24, <1>25, <1>26, <1>27, <1>28, <1>30, AsksEffect
<1> QED BY <1>18, <1>29, <1>31

-----------------------------------------------------------------------------
(* The request arrives at the responder                                    *)

(***************************************************************************)
(* A responder that has received nothing but the request.                  *)
(***************************************************************************)
Fresh(y, n) ==
    /\ y.failed = FALSE /\ y.allowance = 0 /\ y.pendingAllowance = 0
    /\ y.initialResponseAllowance = 0
    /\ y.requests = 0 /\ y.received = << >>
    /\ y.gaveUp = FALSE /\ y.sent = 0 /\ y.surplus = FALSE
    /\ y.granted = n /\ y.emitted = 0

FreshOpen(y, n, subscriber) ==
    /\ y \in AutomatonSet /\ Fresh(y, n)
    /\ y.state = "RESPONDING" /\ y.open = TRUE /\ y.terminated = FALSE
    /\ y.out = << >> /\ y.subscriber = subscriber /\ y.subscription = FALSE
    /\ y.initialRequestN = n /\ y.terminal = << >> /\ y.subscribed = FALSE
    /\ y.credit = 0 /\ y.cancelled = FALSE

(***************************************************************************)
(* The new responder starts with the credit of the request.                *)
(***************************************************************************)
LEMMA NewResponderIs ==
    ASSUME NEW x, x = NewAutomaton("NONE", FALSE), NEW n \in 0..SizeMax,
           NEW y, y = NewResponder(x, n)
    PROVE  FreshOpen(y, n, FALSE)
<1>1. << >> \in Seq(FrameSet) /\ << >> \in Seq(Nat) /\ << >> \in Seq({"onComplete", "onError"})
  OBVIOUS
<1>2. "NONE" \in States /\ "RESPONDING" \in States /\ 0 \in 0..SizeMax /\ n \in Nat
  BY SizeMaxAssumption DEF States
<1>3. x \in AutomatonSet
  BY <1>1, <1>2 DEF AutomatonSet, NewAutomaton
<1>4. /\ x.failed = FALSE /\ x.allowance = 0 /\ x.pendingAllowance = 0
      /\ x.initialResponseAllowance = 0
      /\ x.requests = 0 /\ x.received = << >>
      /\ x.gaveUp = FALSE /\ x.sent = 0 /\ x.surplus = FALSE
      /\ x.emitted = 0 /\ x.terminated = FALSE
      /\ x.out = << >> /\ x.subscriber = FALSE /\ x.subscription = FALSE
      /\ x.terminal = << >> /\ x.subscribed = FALSE
      /\ x.credit = 0 /\ x.cancelled = FALSE
  BY DEF NewAutomaton
<1>5. PICK z : z = x
  OBVIOUS
<1>6. y = [z EXCEPT !.state = "RESPONDING", !.open = TRUE,
                    !.initialRequestN = n, !.granted = n]
  BY <1>5 DEF NewResponder
<1>7. z \in AutomatonSet
  BY <1>3, <1>5
<1>8. y \in AutomatonSet
  BY <1>2, <1>6, <1>7 DEF AutomatonSet
<1>9. /\ y.state = "RESPONDING" /\ y.open = TRUE /\ y.initialRequestN = n /\ y.granted = n
      /\ y.failed = z.failed /\ y.allowance = z.allowance
      /\ y.pendingAllowance = z.pendingAllowance
      /\ y.initialResponseAllowance = z.initialResponseAllowance
      /\ y.requests = z.requests /\ y.received = z.received
      /\ y.gaveUp = z.gaveUp /\ y.sent = z.sent /\ y.surplus = z.surplus
      /\ y.emitted = z.emitted /\ y.terminated = z.terminated
      /\ y.out = z.out /\ y.subscriber = z.subscriber /\ y.subscription = z.subscription
      /\ y.terminal = z.terminal /\ y.subscribed = z.subscribed
      /\ y.credit = z.credit /\ y.cancelled = z.cancelled
  BY <1>6, <1>7 DEF AutomatonSet
<1> QED BY <1>4, <1>5, <1>8, <1>9, Zenon DEF FreshOpen, Fresh

(***************************************************************************)
(* What both ways of accepting a request have in common.                   *)
(***************************************************************************)
LEMMA FreshHolds ==
    ASSUME NEW k \in Kinds, NEW y \in AutomatonSet, NEW n \in 0..SizeMax, Fresh(y, n)
    PROVE  /\ y.received = << >> /\ Len(y.received) = 0
           /\ \A i \in 1..Len(y.received) : y.received[i] = i
           /\ y.allowance + Len(y.received) = y.pendingAllowance + y.sent
           /\ Tame /\ k # "response" =>
                 /\ y.pendingAllowance + y.sent + y.initialResponseAllowance
                       <= LargestRequest * y.requests
                 /\ y.requests <= MaxRequestsOf(k)
<1>1. /\ y.allowance = 0 /\ y.pendingAllowance = 0 /\ y.initialResponseAllowance = 0
      /\ y.requests = 0 /\ y.received = << >> /\ y.sent = 0
  BY DEF Fresh
<1>2. Len(y.received) = 0 /\ \A i \in 1..Len(y.received) : y.received[i] = i
  BY <1>1
<1>3. ASSUME Tame PROVE LargestRequest \in Nat
  BY <1>3, LargestIs DEF Tame
<1>4. MaxRequestsOf(k) \in Nat
  BY InteractionsAssumption DEF MaxRequestsOf
<1>5. ASSUME Tame, k # "response"
      PROVE  /\ y.pendingAllowance + y.sent + y.initialResponseAllowance
                       <= LargestRequest * y.requests
             /\ y.requests <= MaxRequestsOf(k)
  <2>1. LargestRequest * 0 = 0
    BY <1>3, <1>5
  <2> QED BY <1>1, <1>4, <2>1
<1> QED BY <1>1, <1>2, <1>5

(* A responder made by a request is well formed and agrees with it.        *)
LEMMA FreshEffect ==
    ASSUME NEW k \in Kinds, NEW x, x = NewAutomaton("NONE", FALSE), NEW n \in 0..SizeMax,
           NEW y, FreshOpen(y, n, k = "channel"),
           NEW g, FlowsTo(k, "responder") => g = n, NEW whole
    PROVE  Effect(k, "responder", x, y, 0, g, whole)
<1>1. "responder" \in Roles /\ "RESPONDING" \in StatesOf("responder")
  BY DEF Roles, StatesOf
<1>2. y \in AutomatonSet /\ Fresh(y, n)
  BY Zenon DEF FreshOpen
<1>3. /\ y.state = "RESPONDING" /\ y.open = TRUE /\ y.terminated = FALSE
      /\ y.out = << >> /\ y.subscription = FALSE
      /\ y.initialRequestN = n /\ y.terminal = << >> /\ y.subscribed = FALSE
      /\ y.credit = 0 /\ y.cancelled = FALSE
      /\ y.failed = FALSE /\ y.surplus = FALSE /\ y.granted = n /\ y.emitted = 0
      /\ y.sent = 0
  BY Zenon DEF FreshOpen, Fresh
<1>4. y.subscriber = (k = "channel")
  BY Zenon DEF FreshOpen
<1>5. /\ y.received = << >> /\ Len(y.received) = 0
      /\ \A i \in 1..Len(y.received) : y.received[i] = i
      /\ y.allowance + Len(y.received) = y.pendingAllowance + y.sent
      /\ Tame /\ k # "response" =>
            /\ y.pendingAllowance + y.sent + y.initialResponseAllowance
                  <= LargestRequest * y.requests
            /\ y.requests <= MaxRequestsOf(k)
  BY <1>2, FreshHolds
<1>6. Open("responder", y)
  BY <1>1, <1>2, <1>3 DEF Open
<1>7. Consuming(k, "responder", y)
  <2>1. Len(y.terminal) = 0
    BY <1>3
  <2>2. IF IsConsumer(k, "responder")
        THEN /\ y.subscriber = y.open
             /\ Len(y.terminal) = IF y.state = "CLOSED" THEN 1 ELSE 0
        ELSE y.subscriber = FALSE
    <3>1. CASE k = "channel"
      <4>1. y.subscriber = TRUE
        BY <1>4, <3>1, Zenon
      <4>2. y.subscriber = y.open /\ y.state # "CLOSED"
        BY <1>3, <4>1
      <4> QED BY <2>1, <3>1, <4>2, Zenon DEF IsConsumer
    <3>2. CASE k # "channel"
      <4>1. y.subscriber = FALSE /\ ~IsConsumer(k, "responder")
        BY <1>4, <3>2, Zenon DEF IsConsumer
      <4> QED BY <4>1
    <3> QED BY <3>1, <3>2
  <2> QED BY <1>3, <1>5, <2>2, Zenon DEF Consuming
<1>8. ConsumerHalf(k, "responder", y)
  BY <1>5, <1>7, Zenon DEF ConsumerHalf, MaxRequestsOf
<1>9. ProducerHalf(k, "responder", y)
  <2>1. Publishing(k, y)
    BY <1>3 DEF Publishing
  <2>2. OwnRequest(y) = 0
    BY <1>3 DEF OwnRequest
  <2>3. /\ y.emitted <= y.granted
        /\ y.granted + OwnRequest(y) = y.initialRequestN + y.credit + y.emitted
        /\ y.initialRequestN <= y.granted
    BY <1>3, <2>2
  <2> QED BY <2>1, <2>3 DEF ProducerHalf
<1>10. Local(k, "responder", y)
  BY <1>1, <1>3, <1>6, <1>8, <1>9, Halves
<1>11. x.state = "NONE" /\ x.emitted = 0 /\ x.sent = 0 /\ x.open = FALSE
  BY DEF NewAutomaton
<1>12. Written(k, "responder", x, y)
  <2>1. Len(y.out) = 0
    BY <1>3
  <2> QED BY <2>1 DEF Written, AllIn
<1>13. \A i \in 1..Len(y.out) : Final(k, y.out[i]) => i = Len(y.out) /\ y.state = "CLOSED"
  <2>1. Len(y.out) = 0
    BY <1>3
  <2> QED BY <2>1
<1>14. Payloads(y.out, x.emitted, y.emitted) /\ Credits(y.out, x.sent, y.sent)
  BY <1>3, <1>11, PayloadsNone, CreditsNone
<1>15. FlowsTo(k, "responder") => y.granted <= g /\ y.granted = g
  BY <1>3
<1>16. y.initialRequestN = SizeMax => y.emitted = 0 /\ y.granted >= SizeMax
  BY <1>3
<1>17. Len(y.received) <= 0 /\ Len(y.received) = 0
  BY <1>5
<1>18. x.state # "CLOSED" /\ ~x.open /\ y.state # "NONE" /\ y.state # "CLOSED"
  BY <1>3, <1>11
<1> QED BY <1>10, <1>12, <1>13, <1>14, <1>15, <1>16, <1>17, <1>18, Zenon DEF Effect

FreshDone(z, n, f) ==
    /\ z \in AutomatonSet /\ Fresh(z, n)
    /\ z.state = "CLOSED" /\ z.open = FALSE /\ z.terminated = TRUE
    /\ z.out = <<f>> /\ z.subscriber = FALSE /\ z.subscription = FALSE
    /\ z.initialRequestN = AfterDrain(n, SizeMax) /\ z.terminal = <<"onComplete">>
    /\ z.subscribed = TRUE /\ z.cancelled = TRUE

(***************************************************************************)
(* The handler of the request completes the channel at once; its sink of   *)
(* requests is subscribed after the end, and is told the end then.         *)
(***************************************************************************)
LEMMA DoneAtOnce ==
    ASSUME NEW n \in 0..SizeMax, NEW y, FreshOpen(y, n, FALSE), NEW f, f = Frame("COMPLETE", 0),
           NEW w, w = ResponderOnComplete(ResponderOnSubscribe(y))
    PROVE  w.terminated /\ FreshDone([w EXCEPT !.terminal = Append(@, "onComplete")], n, f)
<1>1. y \in AutomatonSet /\ y.state = "RESPONDING" /\ y.open = TRUE /\ y.out = << >>
      /\ y.subscription = FALSE /\ y.terminated = FALSE /\ y.credit = 0
      /\ y.initialRequestN = n /\ y.cancelled = FALSE /\ y.failed = FALSE
      /\ y.subscriber = FALSE /\ y.terminal = << >>
  BY Zenon DEF FreshOpen, Fresh
<1>2. PICK u0 : u0 = [y EXCEPT !.subscribed = TRUE]
  OBVIOUS
<1>3. PICK u : u = PublisherSubscribe(u0)
  OBVIOUS
<1>4. ResponderOnSubscribe(y) = u
  BY <1>1, <1>2, <1>3, Zenon DEF ResponderOnSubscribe
<1>5. PICK c, q : c = y.credit + Drained(y.initialRequestN, SizeMax)
                  /\ q = AfterDrain(y.initialRequestN, SizeMax)
  BY Zenon
<1>6. Subscribed(y, u, c, q)
  BY <1>1, <1>2, <1>3, <1>5, PublisherSubscribes
<1>7. u \in AutomatonSet /\ u.state = "RESPONDING" /\ u.out = << >> /\ u.open = TRUE
      /\ u.failed = FALSE /\ u.subscription = TRUE /\ u.subscriber = FALSE
      /\ u.terminal = << >> /\ u.cancelled = FALSE
      /\ u.initialRequestN = q /\ u.subscribed = TRUE /\ u.granted = y.granted
      /\ u.emitted = y.emitted
  BY <1>1, <1>6, Zenon DEF Subscribed, ConsumerSame
<1>8. PICK v : v = [[u EXCEPT !.done = TRUE] EXCEPT !.state = "CLOSED"]
  OBVIOUS
<1>9. PICK d : d = Output(v, f)
  OBVIOUS
<1>10. w = CloseStream(d, "COMPLETE")
  BY <1>4, <1>7, <1>8, <1>9, Zenon DEF ResponderOnComplete, CompleteStream
<1>11. f \in FrameSet /\ <<f>> \in Seq(FrameSet) /\ Append(<< >>, f) = <<f>>
  <2>1. "COMPLETE" \in FrameTypes /\ 0 \in 0..SizeMax
    BY SizeMaxAssumption DEF FrameTypes
  <2>2. f \in FrameSet
    BY <2>1, AFrame
  <2> QED BY <2>2
<1>12. v = [u EXCEPT !.done = TRUE, !.state = "CLOSED"]
  BY <1>7, <1>8 DEF AutomatonSet
<1>13. d = [u EXCEPT !.done = TRUE, !.state = "CLOSED", !.out = <<f>>]
  <2>1. d = [v EXCEPT !.out = Append(@, f)]
    BY <1>9 DEF Output
  <2>2. v.out = << >>
    BY <1>7, <1>12 DEF AutomatonSet
  <2>3. d = [v EXCEPT !.out = <<f>>]
    BY <1>11, <2>1, <2>2
  <2> QED BY <1>7, <1>12, <2>3 DEF AutomatonSet
<1>14. d \in AutomatonSet
  <2>1. "CLOSED" \in States
    BY DEF States
  <2> QED BY <1>7, <1>11, <1>13, <2>1 DEF AutomatonSet
<1>15. /\ d.state = "CLOSED" /\ d.out = <<f>> /\ d.open = u.open /\ d.failed = u.failed
       /\ d.subscription = u.subscription /\ d.subscriber = u.subscriber
       /\ d.terminal = u.terminal /\ d.cancelled = u.cancelled
       /\ d.initialRequestN = u.initialRequestN /\ d.subscribed = u.subscribed
       /\ d.granted = u.granted /\ d.emitted = u.emitted /\ d.allowance = u.allowance
       /\ d.pendingAllowance = u.pendingAllowance
       /\ d.initialResponseAllowance = u.initialResponseAllowance
       /\ d.requests = u.requests /\ d.received = u.received /\ d.gaveUp = u.gaveUp
       /\ d.sent = u.sent /\ d.surplus = u.surplus
  BY <1>7, <1>13 DEF AutomatonSet
<1>16. u.gaveUp = FALSE
  <2>1. u0 \in AutomatonSet /\ u0.gaveUp = y.gaveUp
    BY <1>1, <1>2 DEF AutomatonSet
  <2>2. Check(u0, ~u0.subscription) = u0
    <3>1. ~u0.subscription
      BY <1>1, <1>2 DEF AutomatonSet
    <3> QED BY <2>1, <3>1, CheckHolds
  <2>3. u = [u0 EXCEPT !.subscription = TRUE,
                       !.credit = @ + Drained(u0.initialRequestN, SizeMax),
                       !.initialRequestN = AfterDrain(@, SizeMax)]
    BY <1>3, <2>2, Zenon DEF PublisherSubscribe
  <2>4. u.gaveUp = u0.gaveUp
    BY <2>1, <2>3 DEF AutomatonSet
  <2>5. y.gaveUp = FALSE
    BY Zenon DEF FreshOpen, Fresh
  <2> QED BY <2>1, <2>4, <2>5
<1>17. PICK failed, cancelled \in BOOLEAN, terminal \in Seq(Signals) :
              /\ CloseStream(d, "COMPLETE") = Ended(d, failed, cancelled, terminal)
              /\ cancelled = (d.cancelled \/ d.subscription)
              /\ (d.failed = FALSE
                  /\ (d.state = "CLOSED" \/ "COMPLETE" \notin {"COMPLETE", "CANCEL"}))
                     => failed = FALSE
              /\ terminal = IF d.subscriber THEN Append(d.terminal, TerminalOf("COMPLETE"))
                                            ELSE d.terminal
  <2>1. d.open
    BY <1>7, <1>15
  <2> QED BY <1>14, <2>1, CloseStreamEnds
<1>18. failed = FALSE /\ cancelled = TRUE /\ terminal = << >>
  BY <1>7, <1>15, <1>17, Zenon
<1>19. Ends(d, w, FALSE, TRUE, << >>) /\ w \in AutomatonSet
  BY <1>10, <1>14, <1>17, <1>18, EndedFields, EndedType
<1>20. PICK z : z = [w EXCEPT !.terminal = Append(@, "onComplete")]
  OBVIOUS
<1>21. w.terminal = << >> /\ w.terminated = TRUE
  BY <1>19, Zenon DEF Ends
<1>22. z = [w EXCEPT !.terminal = <<"onComplete">>]
  BY <1>20, <1>21
<1>23. z \in AutomatonSet
  <2>1. <<"onComplete">> \in Seq({"onComplete", "onError"})
    OBVIOUS
  <2>2. w \in AutomatonSet
    BY <1>19
  <2> QED BY <1>22, <2>1, <2>2 DEF AutomatonSet
<1>24. /\ z.terminal = <<"onComplete">> /\ z.failed = w.failed /\ z.allowance = w.allowance
       /\ z.pendingAllowance = w.pendingAllowance
       /\ z.initialResponseAllowance = w.initialResponseAllowance
       /\ z.requests = w.requests /\ z.received = w.received
       /\ z.gaveUp = w.gaveUp /\ z.sent = w.sent /\ z.surplus = w.surplus
       /\ z.granted = w.granted /\ z.emitted = w.emitted
       /\ z.state = w.state /\ z.open = w.open /\ z.terminated = w.terminated
       /\ z.out = w.out /\ z.subscriber = w.subscriber
       /\ z.subscription = w.subscription /\ z.initialRequestN = w.initialRequestN
       /\ z.subscribed = w.subscribed /\ z.cancelled = w.cancelled
  BY <1>19, <1>22 DEF AutomatonSet
<1>25. Fresh(u, n)
  BY <1>6, <1>16, Zenon DEF Subscribed, ConsumerSame, FreshOpen, Fresh
<1>26. Fresh(d, n)
  BY <1>15, <1>25, Zenon DEF Fresh
<1>27. Fresh(w, n)
  BY <1>19, <1>26, Zenon DEF Fresh, Ends
<1>28. Fresh(z, n)
  BY <1>24, <1>27, Zenon DEF Fresh
<1>29. /\ w.state = "CLOSED" /\ w.open = FALSE /\ w.terminated = TRUE
       /\ w.out = <<f>> /\ w.subscriber = FALSE /\ w.subscription = FALSE
       /\ w.initialRequestN = q /\ w.subscribed = TRUE /\ w.cancelled = TRUE
  BY <1>7, <1>15, <1>19, Zenon DEF Ends
<1>30. q = AfterDrain(n, SizeMax)
  BY <1>1, <1>5
<1>31. FreshDone(z, n, f)
  BY <1>23, <1>24, <1>28, <1>29, <1>30, Zenon DEF FreshDone
<1> QED BY <1>20, <1>21, <1>31

(* A channel's responder that the handler completes before it has          *)
(* returned.                                                               *)
LEMMA DoneEffect ==
    ASSUME NEW x, x = NewAutomaton("NONE", FALSE), NEW n \in 0..SizeMax,
           NEW f, f = Frame("COMPLETE", 0), NEW z, FreshDone(z, n, f), NEW whole
    PROVE  Effect("channel", "responder", x, z, 0, n, whole)
<1>1. PICK k \in Kinds : k = "channel"
  BY DEF Kinds
<1>2. z \in AutomatonSet /\ Fresh(z, n)
  BY Zenon DEF FreshDone
<1>3. /\ z.state = "CLOSED" /\ z.open = FALSE /\ z.terminated = TRUE
      /\ z.out = <<f>> /\ z.subscriber = FALSE /\ z.subscription = FALSE
      /\ z.initialRequestN = AfterDrain(n, SizeMax) /\ z.terminal = <<"onComplete">>
      /\ z.subscribed = TRUE /\ z.cancelled = TRUE
      /\ z.failed = FALSE /\ z.surplus = FALSE /\ z.granted = n /\ z.emitted = 0
      /\ z.sent = 0
  BY Zenon DEF FreshDone, Fresh
<1>4. /\ z.received = << >> /\ Len(z.received) = 0
      /\ \A i \in 1..Len(z.received) : z.received[i] = i
      /\ Tame /\ k # "response" =>
            /\ z.pendingAllowance + z.sent + z.initialResponseAllowance
                  <= LargestRequest * z.requests
            /\ z.requests <= MaxRequestsOf(k)
  BY <1>2, FreshHolds
<1>5. /\ AfterDrain(n, SizeMax) <= n /\ (AfterDrain(n, SizeMax) = SizeMax => n >= SizeMax)
      /\ AfterDrain(n, SizeMax) \in Nat
  BY SizeMaxAssumption DEF AfterDrain, Drained, IsInfinite
<1>6. Shape("responder", z)
  <2>1. "CLOSED" \in StatesOf("responder")
    BY DEF StatesOf
  <2>2. z.open = (z.state \notin {"NONE", "CLOSED"}) /\ z.terminated = (z.state = "CLOSED")
    BY <1>3, Zenon
  <2> QED BY <1>3, <2>1, <2>2, Zenon DEF Shape
<1>7. Publishing(k, z)
  BY <1>3 DEF Publishing
<1>8. Consuming(k, "responder", z)
  <2>1. Len(z.terminal) = 1 /\ z.subscriber = z.open
    BY <1>3
  <2> QED BY <1>1, <1>3, <1>4, <2>1, Zenon DEF Consuming, IsConsumer
<1>9. Accounts(z)
  <2>1. z.emitted <= z.granted /\ z.initialRequestN <= z.granted /\ ~z.open
    BY <1>3, <1>5
  <2> QED BY <2>1, Zenon DEF Accounts
<1>10. Checked(k, "responder", z)
  BY <1>1, <1>3, <1>4, Zenon DEF Checked, MaxRequestsOf
<1>11. Local(k, "responder", z)
  BY <1>2, <1>6, <1>7, <1>8, <1>9, <1>10, Zenon DEF Local
<1>12. x.state = "NONE" /\ x.emitted = 0 /\ x.sent = 0 /\ x.open = FALSE
  BY DEF NewAutomaton
<1>13. f \in FrameSet /\ f.type = "COMPLETE"
  <2>1. "COMPLETE" \in FrameTypes /\ 0 \in 0..SizeMax
    BY SizeMaxAssumption DEF FrameTypes
  <2> QED BY <2>1, AFrame
<1>14. PICK v : v = z.out
  OBVIOUS
<1>15. Len(v) = 1 /\ v[1] = f /\ v = <<f>>
  BY <1>3, <1>14
<1>16. Written(k, "responder", x, z)
  <2>1. "COMPLETE" \in ToRequester(k)
    BY LastWords
  <2>2. AllIn(v, 1, ToRequester(k))
    BY <1>13, <1>15, <2>1 DEF AllIn
  <2> QED BY <1>14, <2>2 DEF Written
<1>17. \A i \in 1..Len(z.out) : Final(k, z.out[i]) => i = Len(z.out) /\ z.state = "CLOSED"
  BY <1>3, <1>14, <1>15
<1>18. Payloads(z.out, x.emitted, z.emitted)
  <2>1. Payloads(<<f>>, 0, TakesP(f, 0)) /\ TakesP(f, 0) = 0
    BY <1>13, PayloadsOne DEF TakesP
  <2> QED BY <1>3, <1>12, <2>1
<1>19. Credits(z.out, x.sent, z.sent)
  <2>1. Credits(<<f>>, 0, TakesC(f, 0)) /\ TakesC(f, 0) = 0
    BY <1>13, CreditsOne DEF TakesC, CreditTypes
  <2> QED BY <1>3, <1>12, <2>1
<1>20. z.granted <= n /\ z.granted = n
  BY <1>3
<1>21. z.initialRequestN = SizeMax => z.emitted = 0 /\ z.granted >= SizeMax
  BY <1>3, <1>5
<1>22. Len(z.received) <= 0 /\ Len(z.received) = 0
  BY <1>4
<1>23. x.state # "CLOSED" /\ ~x.open /\ z.state # "NONE" /\ ~z.open
  BY <1>3, <1>12
<1>24. Effect(k, "responder", x, z, 0, n, whole)
  BY <1>11, <1>16, <1>17, <1>18, <1>19, <1>20, <1>21, <1>22, <1>23, Zenon DEF Effect
<1> QED BY <1>1, <1>24

(***************************************************************************)
(* ChannelResponder: the request, whether or not its handler is done with  *)
(* the responses at once.                                                  *)
(***************************************************************************)
LEMMA AcceptEffect ==
    ASSUME NEW x, x = NewAutomaton("NONE", FALSE), NEW frame, frame.n \in 0..SizeMax,
           NEW done \in BOOLEAN, NEW whole
    PROVE  Effect("channel", "responder", x, Channel!Accept(x, frame, done),
                  0, frame.n, whole)
<1>1. PICK k \in Kinds : k = "channel"
  BY DEF Kinds
<1>2. PICK n : n = frame.n
  OBVIOUS
<1>3. n \in 0..SizeMax
  BY <1>2
<1>4. PICK y : y = NewResponder(x, n)
  OBVIOUS
<1>5. FreshOpen(y, n, FALSE)
  BY <1>3, <1>4, NewResponderIs
<1>6. y = Channel!NewResponder(x, frame.n)
  BY <1>2, <1>4, ChannelIsAlike, Zenon DEF ChannelAlike
<1>7. CASE ~done
  <2>1. y.terminated = FALSE /\ y \in AutomatonSet
    BY <1>5, Zenon DEF FreshOpen
  <2>2. PICK z : z = [y EXCEPT !.subscriber = TRUE]
    OBVIOUS
  <2>3. Channel!Accept(x, frame, done) = z
    BY <1>6, <1>7, <2>1, <2>2, Zenon DEF Channel!Accept, Channel!Subscribe
  <2>4. z \in AutomatonSet
    BY <2>1, <2>2 DEF AutomatonSet
  <2>5. /\ z.subscriber = TRUE
        /\ z.state = y.state /\ z.open = y.open /\ z.terminated = y.terminated
        /\ z.out = y.out /\ z.subscription = y.subscription
        /\ z.initialRequestN = y.initialRequestN /\ z.terminal = y.terminal
        /\ z.subscribed = y.subscribed /\ z.credit = y.credit /\ z.cancelled = y.cancelled
        /\ z.failed = y.failed /\ z.allowance = y.allowance
        /\ z.pendingAllowance = y.pendingAllowance
        /\ z.initialResponseAllowance = y.initialResponseAllowance
        /\ z.requests = y.requests /\ z.received = y.received
        /\ z.gaveUp = y.gaveUp /\ z.sent = y.sent /\ z.surplus = y.surplus
        /\ z.granted = y.granted /\ z.emitted = y.emitted
    BY <2>1, <2>2 DEF AutomatonSet
  <2>6. FreshOpen(z, n, TRUE)
    BY <1>5, <2>4, <2>5, Zenon DEF FreshOpen, Fresh
  <2>7. FreshOpen(z, n, k = "channel")
    BY <1>1, <2>6, Zenon DEF FreshOpen
  <2>8. Effect(k, "responder", x, z, 0, n, whole)
    BY <1>3, <2>7, FreshEffect
  <2> QED BY <1>1, <1>2, <2>3, <2>8
<1>8. CASE done
  <2>1. PICK w : w = ResponderOnComplete(ResponderOnSubscribe(y))
    OBVIOUS
  <2>2. PICK f : f = Frame("COMPLETE", 0)
    OBVIOUS
  <2>3. PICK z : z = [w EXCEPT !.terminal = Append(@, "onComplete")]
    OBVIOUS
  <2>4. w.terminated /\ FreshDone(z, n, f)
    BY <1>3, <1>5, <2>1, <2>2, <2>3, DoneAtOnce
  <2>5. w = Channel!ResponderOnComplete(Channel!ResponderOnSubscribe(y))
    BY <2>1, ChannelIsAlike, Zenon DEF ChannelAlike
  <2>6. Channel!Accept(x, frame, done) = z
    BY <1>6, <1>8, <2>3, <2>4, <2>5, Zenon DEF Channel!Accept, Channel!Subscribe
  <2>7. Effect("channel", "responder", x, z, 0, n, whole)
    BY <1>3, <2>2, <2>4, DoneEffect
  <2> QED BY <1>2, <2>6, <2>7
<1> QED BY <1>7, <1>8

(***************************************************************************)
(* StreamResponder and RequestResponseResponder: the request.              *)
(***************************************************************************)
LEMMA NewResponderEffect ==
    ASSUME NEW k \in {"stream", "response"}, NEW x, x = NewAutomaton("NONE", FALSE),
           NEW n \in 0..SizeMax, NEW g, k = "stream" => g = n, NEW whole
    PROVE  Effect(k, "responder", x, NewResponder(x, n), 0, g, whole)
<1>1. k \in Kinds /\ k # "channel"
  BY DEF Kinds
<1>2. PICK y : y = NewResponder(x, n)
  OBVIOUS
<1>3. FreshOpen(y, n, FALSE)
  BY <1>2, NewResponderIs
<1>4. FreshOpen(y, n, k = "channel")
  BY <1>1, <1>3, Zenon DEF FreshOpen
<1>5. FlowsTo(k, "responder") => g = n
  BY DEF FlowsTo
<1>6. Effect(k, "responder", x, y, 0, g, whole)
  BY <1>1, <1>4, <1>5, FreshEffect
<1> QED BY <1>2, <1>6

(***************************************************************************)
(* A frame that changes nothing (an ERROR at a responder).                 *)
(***************************************************************************)
LEMMA IgnoreEffect ==
    ASSUME NEW k, NEW role \in Roles, NEW x, Local(k, role, x), x.out = << >>, x.open,
           NEW whole
    PROVE  Effect(k, role, x, x, Len(x.received), x.granted, whole)
<1>1. PICK r, g : r = Len(x.received) /\ g = x.granted
  OBVIOUS
<1>2. Effect(k, role, x, x, r, g, whole)
  BY <1>1, QuietEffect
<1> QED BY <1>1, <1>2

-----------------------------------------------------------------------------
(* The ends of a channel                                                   *)

(***************************************************************************)
(* A producer that may signal has its subscription: its stream is open.    *)
(***************************************************************************)
LEMMA MaySignalOpen ==
    ASSUME NEW k, NEW role \in Roles, NEW x, Local(k, role, x), x.subscribed, ~x.cancelled
    PROVE  x.subscription /\ x.open /\ x.state # "NONE" /\ x.state # "CLOSED"
<1>1. x.subscription /\ x.open
  BY Zenon DEF Local, Publishing
<1>2. x.open = (x.state \notin {"NONE", "CLOSED"})
  BY LocalTypes
<1> QED BY <1>1, <1>2, Zenon

(* Signalling the end marks the producer done.                             *)
LEMMA MarkedDone ==
    ASSUME NEW x \in AutomatonSet, NEW z, z = [x EXCEPT !.done = TRUE],
           NEW v, v = [z EXCEPT !.state = "CLOSED"]
    PROVE  /\ Marked(x, z) /\ z.state = x.state /\ z.out = x.out
           /\ Marked(x, v) /\ v.state = "CLOSED" /\ v.out = x.out
<1>1. z \in AutomatonSet
  BY DEF AutomatonSet
<1>2. Marked(x, z) /\ z.state = x.state /\ z.out = x.out
  BY <1>1 DEF AutomatonSet, Marked
<1>3. Marked(z, v) /\ v.state = "CLOSED" /\ v.out = z.out
  BY <1>1, StateClosed
<1>4. Marked(x, v)
  BY <1>2, <1>3, Zenon DEF Marked
<1> QED BY <1>2, <1>3, <1>4

(***************************************************************************)
(* ChannelRequester: the end is written once the request was.              *)
(***************************************************************************)
LEMMA RequesterClosesAloud ==
    ASSUME NEW k \in {"channel"}, NEW x, Local(k, "requester", x), x.open,
           x.state = "REQUESTED",
           NEW v, Marked(x, v), v.out = << >>, NEW type \in {"COMPLETE", "ERROR"},
           NEW signal, signal \in {"COMPLETE", "CANCEL"} => v.state = "CLOSED"
    PROVE  Effect(k, "requester", x, CloseStream(Output(v, Frame(type, 0)), signal),
                  Len(x.received), x.granted, "part")
<1>1. "requester" \in Roles /\ k \in Kinds
  BY DEF Roles, Kinds
<1>2. Len(x.received) \in Nat /\ x.granted \in Nat
  BY <1>1, LocalTypes
<1>3. PICK c : c = Output(v, Frame(type, 0))
  OBVIOUS
<1>4. type \in {"CANCEL", "COMPLETE", "ERROR"} /\ type \in ToResponder(k)
  BY <1>1, LastWords
<1>5. Marked(x, c) /\ LastWord(k, "requester", x, c.out) /\ c.state = v.state
  <2>1. PICK role \in Roles : role = "requester"
    BY <1>1
  <2>2. /\ role = "requester" => x.state # "NEW" /\ type \in ToResponder(k)
        /\ role = "responder" => type \in ToRequester(k)
    BY <1>4, <2>1
  <2>3. Marked(x, c) /\ LastWord(k, role, x, c.out)
    BY <1>3, <1>4, <2>2, MarkedOutput
  <2>4. v \in AutomatonSet
    BY DEF Marked
  <2>5. c.state = v.state
    BY <1>3, <2>4 DEF Output, AutomatonSet
  <2> QED BY <2>1, <2>3, <2>5
<1>6. PICK r : r = Len(x.received)
  OBVIOUS
<1>7. PICK g : g = x.granted
  OBVIOUS
<1>8. r \in Nat /\ g \in Nat /\ Len(x.received) <= r /\ x.granted <= g
  BY <1>2, <1>6, <1>7
<1>9. x.subscribed
  BY RequesterSubscribed
<1>10. Effect(k, "requester", x, CloseStream(c, signal), r, g, "part")
  BY <1>1, <1>5, <1>8, <1>9, MarkedCloses
<1> QED BY <1>3, <1>6, <1>7, <1>10

(***************************************************************************)
(* onComplete and onError of a channel's requester.                        *)
(***************************************************************************)
LEMMA RequesterDoneEffect ==
    ASSUME NEW x, Local("channel", "requester", x), x.out = << >>, x.subscribed, ~x.cancelled,
           NEW z, z = [x EXCEPT !.done = TRUE]
    PROVE  /\ Effect("channel", "requester", x, Channel!RequesterOnComplete(z),
                     Len(x.received), x.granted, "part")
           /\ Effect("channel", "requester", x, Channel!RequesterOnError(z),
                     Len(x.received), x.granted, "part")
<1>1. "requester" \in Roles
  BY DEF Roles
<1>2. PICK k : k = "channel"
  OBVIOUS
<1>3. k \in Kinds
  BY <1>2 DEF Kinds
<1>4. Local(k, "requester", x)
  BY <1>2
<1>5. x.open
  BY <1>1, <1>4, MaySignalOpen
<1>6. (x.state = "NEW" \/ x.state = "REQUESTED") /\ x \in AutomatonSet
  BY <1>4, <1>5, RequesterState
<1>7. PICK v : v = [z EXCEPT !.state = "CLOSED"]
  OBVIOUS
<1>8. /\ Marked(x, z) /\ z.state = x.state /\ z.out = << >>
      /\ Marked(x, v) /\ v.state = "CLOSED" /\ v.out = << >>
  <2>1. /\ Marked(x, z) /\ z.state = x.state /\ z.out = x.out
        /\ Marked(x, v) /\ v.state = "CLOSED" /\ v.out = x.out
    BY <1>6, <1>7, MarkedDone, ZenonT(40)
  <2> QED BY <2>1
<1>9. CASE x.state = "NEW"
  <2>1. /\ Channel!RequesterOnComplete(z) = CloseStream(v, "COMPLETE")
        /\ Channel!RequesterOnError(z) = CloseStream(v, "APPLICATION_ERROR")
    <3>1. \A b, s : Channel!CloseStream(b, s) = CloseStream(b, s)
      BY ChannelIsAlike, Zenon DEF ChannelAlike
    <3> QED BY <1>7, <1>8, <1>9, <3>1, Zenon
            DEF Channel!RequesterOnComplete, Channel!RequesterOnError
  <2>2. Effect(k, "requester", x, CloseStream(v, "COMPLETE"),
               Len(x.received), x.granted, "part")
    BY <1>1, <1>2, <1>3, <1>4, <1>5, <1>8, ClosesSilently
  <2>3. Effect(k, "requester", x, CloseStream(v, "APPLICATION_ERROR"),
               Len(x.received), x.granted, "part")
    BY <1>1, <1>2, <1>3, <1>4, <1>5, <1>8, ClosesSilently
  <2> QED BY <1>2, <2>1, <2>2, <2>3
<1>10. CASE x.state = "REQUESTED"
  <2>1. /\ Channel!RequesterOnComplete(z) = CloseStream(Output(v, Frame("COMPLETE", 0)), "COMPLETE")
        /\ Channel!RequesterOnError(z)
              = CloseStream(Output(z, Frame("ERROR", 0)), "APPLICATION_ERROR")
    <3>1. /\ \A b : Channel!CompleteStream(b) = CompleteStream(b)
          /\ \A b : Channel!ApplicationError(b) = ApplicationError(b)
      BY ChannelIsAlike, Zenon DEF ChannelAlike
    <3> QED BY <1>7, <1>8, <1>10, <3>1, Zenon
            DEF Channel!RequesterOnComplete, Channel!RequesterOnError,
                CompleteStream, ApplicationError
  <2>2. Effect(k, "requester", x, CloseStream(Output(v, Frame("COMPLETE", 0)), "COMPLETE"),
               Len(x.received), x.granted, "part")
    BY <1>2, <1>4, <1>5, <1>8, <1>10, RequesterClosesAloud
  <2>3. Effect(k, "requester", x,
               CloseStream(Output(z, Frame("ERROR", 0)), "APPLICATION_ERROR"),
               Len(x.received), x.granted, "part")
    BY <1>2, <1>4, <1>5, <1>8, <1>10, RequesterClosesAloud
  <2> QED BY <1>2, <2>1, <2>2, <2>3
<1> QED BY <1>6, <1>9, <1>10

(***************************************************************************)
(* The consumer of a channel's responder cancels.                          *)
(***************************************************************************)
LEMMA ResponderCancelEffect ==
    ASSUME NEW x, Local("channel", "responder", x), x.out = << >>, x.open,
           NEW z, z = [x EXCEPT !.gaveUp = TRUE]
    PROVE  Effect("channel", "responder", x, Channel!ResponderCancel(z),
                  Len(x.received), x.granted, "part")
<1>1. PICK k : k = "channel"
  OBVIOUS
<1>2. k \in Kinds
  BY <1>1 DEF Kinds
<1>3. Local(k, "responder", x)
  BY <1>1
<1>4. x.state = "RESPONDING" /\ x \in AutomatonSet
  BY <1>3, ResponderState
<1>5. z \in AutomatonSet
  BY <1>4 DEF AutomatonSet
<1>6. Marked(x, z) /\ z.state = "RESPONDING" /\ z.out = << >>
  BY <1>4, <1>5 DEF AutomatonSet, Marked
<1>7. PICK v : v = [z EXCEPT !.state = "CLOSED"]
  OBVIOUS
<1>8. Marked(z, v) /\ v.state = "CLOSED" /\ v.out = << >>
  BY <1>5, <1>6, <1>7, StateClosed
<1>9. Marked(x, v)
  BY <1>6, <1>8, Zenon DEF Marked
<1>10. Channel!ResponderCancel(z) = CloseStream(Output(v, Frame("COMPLETE", 0)), "COMPLETE")
  <2>1. \A b : Channel!CompleteStream(b) = CompleteStream(b)
    BY ChannelIsAlike, Zenon DEF ChannelAlike
  <2> QED BY <1>6, <1>7, <2>1, Zenon DEF Channel!ResponderCancel, CompleteStream
<1>11. Effect(k, "responder", x, CloseStream(Output(v, Frame("COMPLETE", 0)), "COMPLETE"),
              Len(x.received), x.granted, "part")
  BY <1>2, <1>3, <1>8, <1>9, ResponderClosesAloud
<1> QED BY <1>1, <1>10, <1>11

-----------------------------------------------------------------------------
(* The ends of a request for one response                                  *)

(***************************************************************************)
(* RequestResponseRequester: request(n) after the first.                   *)
(***************************************************************************)
LEMMA AgainEffect ==
    ASSUME NEW k \in {"response"}, NEW x, Local(k, "requester", x), x.out = << >>,
           x.state = "REQUESTED" \/ x.state = "CLOSED",
           NEW v, v = [x EXCEPT !.requests = @ + 1]
    PROVE  Effect(k, "requester", x, CloseStream(Notify(v, "onError"), "ERROR"),
                  Len(x.received), x.granted, "part")
<1>1. "requester" \in Roles /\ k \in Kinds
  BY DEF Roles, Kinds
<1>2. /\ x \in AutomatonSet /\ Len(x.received) \in Nat /\ x.granted \in Nat
      /\ x.open = (x.state \notin {"NONE", "CLOSED"})
  BY <1>1, LocalTypes
<1>3. Counted(x, v)
  BY <1>2, Counts
<1>4. CASE x.state = "REQUESTED"
  <2>1. x.open /\ x.open = TRUE
    BY <1>2, <1>4
  <2>2. v.open = TRUE
    BY <1>3, <2>1, Zenon DEF Counted, ConsumerMoves
  <2>3. Closable(k, x, v)
    <3>1. k = "response"
      OBVIOUS
    <3> QED BY <1>3, <2>2, <3>1, Zenon DEF Closable, Counted, ConsumerMoves, ProducerSame
  <2>4. v.subscriber = x.subscriber /\ v.terminal = x.terminal /\ v.out = << >>
        /\ v.emitted = x.emitted /\ v.received = x.received
    BY <1>3, Zenon DEF Counted, ConsumerMoves, ProducerSame
  <2>5. PICK r, g : r = Len(x.received) /\ g = x.granted
    OBVIOUS
  <2>6. r \in Nat /\ g \in Nat /\ x.granted <= g /\ Receipt(k, "requester", x, v, r)
    BY <1>2, <2>4, <2>5 DEF Receipt
  <2>7. k # "channel"
    OBVIOUS
  <2>8. Effect(k, "requester", x, CloseStream(Notify(v, "onError"), "ERROR"), r, g, "part")
    BY <1>1, <2>1, <2>3, <2>4, <2>6, <2>7, ErrorCloses
  <2> QED BY <2>5, <2>8
<1>5. CASE x.state = "CLOSED"
  <2>1. x.subscriber = FALSE /\ x.open = FALSE
    <3>1. x.open = FALSE
      BY <1>2, <1>5
    <3>2. x.subscriber = x.open
      BY Zenon DEF Local, Consuming, IsConsumer
    <3> QED BY <3>1, <3>2
  <2>2. v.subscriber = FALSE /\ v.open = FALSE
    BY <1>3, <2>1, Zenon DEF Counted, ConsumerMoves
  <2>3. CloseStream(Notify(v, "onError"), "ERROR") = v
    BY <2>2, Zenon DEF Notify, CloseStream
  <2>4. k = "response"
    OBVIOUS
  <2>5. Effect(k, "requester", x, v, Len(x.received), x.granted, "part")
    BY <1>1, <2>4, CountEffect
  <2> QED BY <2>3, <2>5
<1> QED BY <1>4, <1>5

(***************************************************************************)
(* The response arrives: it closes the stream, also when the application   *)
(* requests again in onNext.                                               *)
(***************************************************************************)
Received(x, z) ==
    /\ z.open = x.open /\ z.terminated = x.terminated /\ z.failed = x.failed
    /\ z.subscriber = x.subscriber /\ z.allowance = x.allowance
    /\ z.pendingAllowance = x.pendingAllowance
    /\ z.initialResponseAllowance = x.initialResponseAllowance
    /\ z.subscription = x.subscription /\ z.initialRequestN = x.initialRequestN
    /\ z.requests = x.requests /\ z.terminal = x.terminal
    /\ z.gaveUp = x.gaveUp /\ z.out = x.out
    /\ z.sent = x.sent /\ z.surplus = x.surplus /\ z.subscribed = x.subscribed
    /\ z.credit = x.credit /\ z.cancelled = x.cancelled
    /\ z.granted = x.granted /\ z.emitted = x.emitted

(* The response is received as the requester moves to CLOSED.              *)
LEMMA ResponseClosable ==
    ASSUME NEW x \in AutomatonSet, x.open, NEW n \in Nat, n = Len(x.received) + 1,
           NEW z, z = [x EXCEPT !.state = "CLOSED", !.received = Append(@, n)]
    PROVE  /\ z \in AutomatonSet /\ z.state = "CLOSED" /\ Closable("response", x, z)
           /\ Received(x, z)
           /\ z.received = Append(x.received, Len(x.received) + 1) /\ Len(z.received) = n
<1>1. PICK s : s = Append(x.received, n)
  OBVIOUS
<1>2. x.received \in Seq(Nat) /\ x.open = TRUE
  BY DEF AutomatonSet
<1>3. s \in Seq(Nat) /\ Len(s) = n /\ s = Append(x.received, Len(x.received) + 1)
  BY <1>1, <1>2
<1>4. z = [x EXCEPT !.state = "CLOSED", !.received = s]
  BY <1>1
<1>5. "CLOSED" \in States
  BY DEF States
<1>6. z \in AutomatonSet
  BY <1>3, <1>4, <1>5 DEF AutomatonSet
<1>7. Received(x, z) /\ z.state = "CLOSED" /\ z.received = s
  BY <1>4 DEF AutomatonSet, Received
<1>8. Closable("response", x, z)
  BY <1>2, <1>6, <1>7, Zenon DEF Closable, Received
<1> QED BY <1>3, <1>6, <1>7, <1>8

(* A subscriber told of an error is let go.                                *)
LEMMA NotifiedType ==
    ASSUME NEW z \in AutomatonSet,
           NEW u, u = [z EXCEPT !.subscriber = FALSE, !.terminal = <<"onError">>]
    PROVE  u \in AutomatonSet /\ u.open = z.open
<1>1. <<"onError">> \in Seq({"onComplete", "onError"})
  OBVIOUS
<1>2. u \in AutomatonSet
  BY <1>1 DEF AutomatonSet
<1> QED BY <1>2 DEF AutomatonSet

(* The response ends the stream, with onComplete or, when onNext has       *)
(* requested again, with onError.                                          *)
LEMMA ResponseArrives ==
    ASSUME NEW x, Local("response", "requester", x), x.out = << >>, x.state = "REQUESTED",
           NEW n, n = Len(x.received) + 1,
           NEW z, z = [x EXCEPT !.state = "CLOSED", !.received = Append(@, n)]
    PROVE  /\ Effect("response", "requester", x, CloseStream(z, "COMPLETE"),
                     n, x.granted, "whole")
           /\ Effect("response", "requester", x, CloseStream(Notify(z, "onError"), "ERROR"),
                     n, x.granted, "whole")
           /\ CloseStream(Notify(z, "onError"), "ERROR").open = FALSE
<1>1. PICK k \in Kinds : k = "response"
  BY DEF Kinds
<1>2. "requester" \in Roles /\ Local(k, "requester", x)
  BY <1>1 DEF Roles
<1>3. /\ x \in AutomatonSet /\ Len(x.received) \in Nat /\ x.granted \in Nat
      /\ x.open = (x.state \notin {"NONE", "CLOSED"})
  BY <1>2, LocalTypes
<1>4. x.open /\ n \in Nat
  <2>1. x.open
    BY <1>3, Zenon
  <2>2. n \in Nat
    BY <1>3
  <2> QED BY <2>1, <2>2
<1>5. /\ z \in AutomatonSet /\ z.state = "CLOSED" /\ Closable(k, x, z)
      /\ Received(x, z)
      /\ z.received = Append(x.received, Len(x.received) + 1) /\ Len(z.received) = n
  <2>1. x \in AutomatonSet
    BY <1>3
  <2> QED BY <1>1, <1>4, <2>1, ResponseClosable
<1>6. z.out = << >> /\ z.emitted = x.emitted /\ z.subscriber = x.subscriber
      /\ z.terminal = x.terminal
  BY <1>5, Zenon DEF Received
<1>7. Parting(k, "requester", x, z)
  BY <1>6, Zenon DEF Parting
<1>8. Receipt(k, "requester", x, z, n)
  BY <1>1, <1>5 DEF Receipt
<1>9. PICK g : g = x.granted
  OBVIOUS
<1>10. g \in Nat /\ x.granted <= g /\ k # "channel"
  BY <1>1, <1>3, <1>9
<1>11. Effect(k, "requester", x, CloseStream(z, "COMPLETE"), n, g, "whole")
  BY <1>2, <1>4, <1>5, <1>7, <1>8, <1>10, CloseEffect
<1>12. Effect(k, "requester", x, CloseStream(Notify(z, "onError"), "ERROR"), n, g, "whole")
  BY <1>2, <1>4, <1>5, <1>6, <1>8, <1>10, ErrorCloses
<1>13. CloseStream(Notify(z, "onError"), "ERROR").open = FALSE
  <2>1. PICK y : y = CloseStream(Notify(z, "onError"), "ERROR")
    OBVIOUS
  <2>4. PICK u : u = Notify(z, "onError")
    OBVIOUS
  <2>5. x.subscriber = TRUE /\ Len(x.terminal) = 0
    <3>1. x.subscriber = x.open /\ Len(x.terminal) = 0
      BY <1>2, Zenon DEF Local, Consuming, IsConsumer
    <3> QED BY <1>3, <3>1
  <2>6. u = [z EXCEPT !.subscriber = FALSE, !.terminal = <<"onError">>]
    BY <1>5, <1>6, <2>4, <2>5, Notified
  <2>7. u \in AutomatonSet /\ u.open
    <3>1. z \in AutomatonSet /\ z.open = x.open
      BY <1>5, Zenon DEF Received
    <3>2. u \in AutomatonSet /\ u.open = z.open
      BY <2>6, <3>1, NotifiedType
    <3> QED BY <1>4, <3>1, <3>2, Zenon
  <2>8. PICK failed, cancelled \in BOOLEAN, terminal \in Seq(Signals) :
           y = Ended(u, failed, cancelled, terminal)
    BY <2>1, <2>4, <2>7, CloseStreamEnds
  <2>9. y.open = FALSE
    <3>1. Ends(u, y, failed, cancelled, terminal)
      BY <2>7, <2>8, EndedFields
    <3> QED BY <3>1, Zenon DEF Ends
  <2> QED BY <2>1, <2>9
<1> QED BY <1>1, <1>9, <1>11, <1>12, <1>13

(***************************************************************************)
(* RequestResponseRequester: handlePayload.                                *)
(***************************************************************************)
LEMMA HandlePayloadEffect ==
    ASSUME NEW x, Local("response", "requester", x), x.out = << >>, x.state = "REQUESTED",
           NEW frame, frame.type \in {"PAYLOAD", "COMPLETE"},
           frame.type = "PAYLOAD" => frame.n = Len(x.received) + 1,
           NEW again \in BOOLEAN
    PROVE  Effect("response", "requester", x, Response!HandlePayload(x, frame, again),
                  TakesP(frame, Len(x.received)), TakesC(frame, x.granted),
                  Ending("response", frame))
<1>1. PICK k \in Kinds : k = "response"
  BY DEF Kinds
<1>2. "requester" \in Roles /\ Local(k, "requester", x)
  BY <1>1 DEF Roles
<1>3. x \in AutomatonSet /\ x.open = (x.state \notin {"NONE", "CLOSED"})
  BY <1>2, LocalTypes
<1>4. x.open
  BY <1>3, Zenon
<1>5. x.subscriber
  BY <1>2, <1>4, Zenon DEF Local, Consuming, IsConsumer
<1>6. Check(x, x.state = "REQUESTED") = x
  BY <1>3, CheckHolds
<1>7. PICK y : y = [x EXCEPT !.state = "CLOSED"]
  OBVIOUS
<1>8. y \in AutomatonSet /\ y.subscriber
  <2>1. Marked(x, y)
    BY <1>3, <1>7, StateClosed
  <2> QED BY <1>5, <2>1, Zenon DEF Marked
<1>9. Check(y, y.subscriber) = y
  BY <1>8, CheckHolds
<1>10. PICK n : n = frame.n
  OBVIOUS
<1>11. PICK z : z = [x EXCEPT !.state = "CLOSED", !.received = Append(@, n)]
  OBVIOUS
<1>12. z = [y EXCEPT !.received = Append(@, frame.n)]
  BY <1>3, <1>7, <1>10, <1>11 DEF AutomatonSet
<1>13. y = [Check(x, x.state = "REQUESTED") EXCEPT !.state = "CLOSED"]
  BY <1>6, <1>7, Zenon
<1>14. z = [Check(y, y.subscriber) EXCEPT !.received = Append(@, frame.n)]
  BY <1>9, <1>12, Zenon
<1>15. /\ frame.type = "COMPLETE" =>
             Response!HandlePayload(x, frame, again) = CloseStream(y, "COMPLETE")
       /\ frame.type = "PAYLOAD" /\ ~again =>
             Response!HandlePayload(x, frame, again) = CloseStream(z, "COMPLETE")
       /\ frame.type = "PAYLOAD" /\ again =>
             Response!HandlePayload(x, frame, again)
                 = CloseStream(Response!Request(z, 1), "COMPLETE")
  <2>1. \A b, s : Response!CloseStream(b, s) = CloseStream(b, s)
    BY ResponseIsAlike, Zenon DEF ResponseAlike
  <2>2. y = [Response!Check(x, x.state = "REQUESTED") EXCEPT !.state = "CLOSED"]
    BY <1>13, Zenon DEF Response!Check, Check
  <2>3. z = [Response!Check(y, y.subscriber) EXCEPT !.received = Append(@, frame.n)]
    BY <1>14, Zenon DEF Response!Check, Check
  <2>4. Response!HandlePayload(x, frame, again)
          = CloseStream(CASE frame.type = "COMPLETE"          -> y
                          [] frame.type = "PAYLOAD" /\ again  -> Response!Request(z, 1)
                          [] frame.type = "PAYLOAD" /\ ~again -> z,
                        "COMPLETE")
    BY <2>1, <2>2, <2>3, Zenon DEF Response!HandlePayload
  <2>5. CASE frame.type = "COMPLETE"
    <3>1. frame.type # "PAYLOAD"
      BY <2>5
    <3>2. Response!HandlePayload(x, frame, again) = CloseStream(y, "COMPLETE")
      BY <2>4, <2>5, <3>1, Zenon
    <3> QED BY <3>1, <3>2, Zenon
  <2>6. CASE frame.type = "PAYLOAD" /\ ~again
    <3>1. frame.type # "COMPLETE"
      BY <2>6
    <3>2. Response!HandlePayload(x, frame, again) = CloseStream(z, "COMPLETE")
      BY <2>4, <2>6, <3>1, Zenon
    <3> QED BY <2>6, <3>1, <3>2, Zenon
  <2>7. CASE frame.type = "PAYLOAD" /\ again
    <3>1. frame.type # "COMPLETE"
      BY <2>7
    <3>2. Response!HandlePayload(x, frame, again) = CloseStream(Response!Request(z, 1), "COMPLETE")
      BY <2>4, <2>7, <3>1, Zenon
    <3> QED BY <2>7, <3>1, <3>2, Zenon
  <2> QED BY <2>5, <2>6, <2>7, Zenon
<1>16. Final(k, frame) /\ Ending(k, frame) = "whole"
  BY <1>1 DEF Final, Ending
<1>17. CASE frame.type = "COMPLETE"
  <2>1. TakesP(frame, Len(x.received)) = Len(x.received) /\ TakesC(frame, x.granted) = x.granted
    BY <1>17 DEF TakesP, TakesC, CreditTypes
  <2>2. Effect(k, "requester", x, CloseStream(y, "COMPLETE"), Len(x.received), x.granted,
               "whole")
    BY <1>2, <1>4, <1>7, FrameCloses
  <2>3. Response!HandlePayload(x, frame, again) = CloseStream(y, "COMPLETE")
    BY <1>15, <1>17, Zenon
  <2> QED BY <1>1, <1>16, <2>1, <2>2, <2>3
<1>18. CASE frame.type = "PAYLOAD"
  <2>1. TakesP(frame, Len(x.received)) = n /\ TakesC(frame, x.granted) = x.granted
    BY <1>10, <1>18 DEF TakesP, TakesC, CreditTypes
  <2>2. n = Len(x.received) + 1
    BY <1>10, <1>18
  <2>3. /\ Effect("response", "requester", x, CloseStream(z, "COMPLETE"),
                  n, x.granted, "whole")
        /\ Effect("response", "requester", x, CloseStream(Notify(z, "onError"), "ERROR"),
                  n, x.granted, "whole")
        /\ CloseStream(Notify(z, "onError"), "ERROR").open = FALSE
    BY <1>11, <2>2, ResponseArrives
  <2>4. CASE ~again
    <3>1. Response!HandlePayload(x, frame, again) = CloseStream(z, "COMPLETE")
      BY <1>15, <1>18, <2>4, Zenon
    <3> QED BY <1>1, <1>16, <2>1, <2>3, <3>1
  <2>5. CASE again
    <3>1. PICK c : c = CloseStream(Notify(z, "onError"), "ERROR")
      OBVIOUS
    <3>2. z.state = "CLOSED"
      BY <1>3, <1>11 DEF AutomatonSet
    <3>3. Response!Request(z, 1) = c
      <4>1. /\ \A b, s : Response!CloseStream(b, s) = CloseStream(b, s)
            /\ \A b, s : Response!Notify(b, s) = Notify(b, s)
        BY ResponseIsAlike, Zenon DEF ResponseAlike
      <4>2. 1 # 0 /\ z.state # "NEW"
        BY <3>2
      <4> QED BY <3>1, <4>1, <4>2, Zenon DEF Response!Request
    <3>4. CloseStream(c, "COMPLETE") = c
      BY <2>3, <3>1, Zenon DEF CloseStream
    <3>5. Response!HandlePayload(x, frame, again) = c
      BY <1>15, <1>18, <2>5, <3>3, <3>4, Zenon
    <3> QED BY <1>1, <1>16, <2>1, <2>3, <3>1, <3>5
  <2> QED BY <2>4, <2>5
<1> QED BY <1>17, <1>18

(***************************************************************************)
(* RequestResponseResponder: the response completes the stream.            *)
(***************************************************************************)
LEMMA ResponseIsLast ==
    ASSUME NEW x \in AutomatonSet, x.open, x.out = << >>, x.credit >= 1, x.subscribed = TRUE,
           NEW f, f = Frame("PAYLOAD", x.emitted + 1),
           NEW u, u = Output([[x EXCEPT !.credit = @ - 1] EXCEPT !.state = "CLOSED",
                                                                 !.emitted = @ + 1], f)
    PROVE  /\ Closable("response", x, u) /\ Parting("response", "responder", x, u)
           /\ u.state = "CLOSED" /\ u.received = x.received
<1>1. x.emitted \in Nat /\ x.credit \in Nat /\ x.open = TRUE
  BY DEF AutomatonSet
<1>2. PICK c, e : c = x.credit - 1 /\ e = x.emitted + 1
  OBVIOUS
<1>3. c \in Nat /\ e \in Nat
  BY <1>1, <1>2
<1>4. f \in FrameSet /\ f.type = "PAYLOAD" /\ f.n = e
  BY <1>2, <1>3, PayloadFrame
<1>5. <<f>> \in Seq(FrameSet) /\ Append(<< >>, f) = <<f>>
  BY <1>4
<1>6. PICK v : v = [x EXCEPT !.credit = c, !.state = "CLOSED", !.emitted = e]
  OBVIOUS
<1>7. v = [[x EXCEPT !.credit = @ - 1] EXCEPT !.state = "CLOSED", !.emitted = @ + 1]
  BY <1>2, <1>6 DEF AutomatonSet
<1>8. v.out = << >>
  BY <1>6 DEF AutomatonSet
<1>9. u = [v EXCEPT !.out = <<f>>]
  BY <1>5, <1>7, <1>8 DEF Output
<1>10. PICK z : z = [x EXCEPT !.credit = c, !.state = "CLOSED", !.emitted = e, !.out = <<f>>]
  OBVIOUS
<1>11. u = z
  BY <1>6, <1>9, <1>10 DEF AutomatonSet
<1>12. z \in AutomatonSet
  <2>1. "CLOSED" \in States
    BY DEF States
  <2> QED BY <1>3, <1>5, <1>10, <2>1 DEF AutomatonSet
<1>13. /\ z.open = x.open /\ z.subscription = x.subscription /\ z.cancelled = x.cancelled
       /\ z.subscribed = x.subscribed
       /\ z.initialRequestN = x.initialRequestN /\ z.granted = x.granted /\ z.sent = x.sent
       /\ z.pendingAllowance = x.pendingAllowance
       /\ z.initialResponseAllowance = x.initialResponseAllowance
       /\ z.surplus = x.surplus
       /\ z.subscriber = x.subscriber /\ z.terminal = x.terminal
       /\ z.requests = x.requests /\ z.failed = x.failed
       /\ z.received = x.received
       /\ z.out = <<f>> /\ z.emitted = e /\ z.state = "CLOSED"
  BY <1>10 DEF AutomatonSet
<1>14. Closable("response", x, z)
  BY <1>1, <1>12, <1>13, Zenon DEF Closable
<1>15. Parting("response", "responder", x, z)
  <2>1. f.type \notin CreditTypes /\ f.type \in ToRequester("response")
    BY <1>4 DEF CreditTypes, ToRequester
  <2>2. z.emitted = TakesP(f, x.emitted) /\ f.n = x.emitted + 1
    BY <1>2, <1>4, <1>13 DEF TakesP
  <2>3. "responder" # "requester"
    OBVIOUS
  <2> QED BY <1>4, <1>13, <2>1, <2>2, <2>3, Zenon DEF Parting
<1> QED BY <1>11, <1>13, <1>14, <1>15

(* onNext of a request for one response: the payload is the last frame.    *)
LEMMA ResponseOnNextEffect ==
    ASSUME NEW x, Local("response", "responder", x), x.out = << >>,
           x.subscribed, ~x.cancelled, x.credit > 0
    PROVE  Effect("response", "responder", x, Response!OnNext(x),
                  Len(x.received), x.granted, "part")
<1>1. PICK k \in Kinds : k = "response"
  BY DEF Kinds
<1>2. "responder" \in Roles /\ Local(k, "responder", x)
  BY <1>1 DEF Roles
<1>3. x.subscription /\ x.open
  BY <1>2, MaySignalOpen
<1>4. x.state = "RESPONDING" /\ x \in AutomatonSet
  BY <1>2, <1>3, ResponderState
<1>5. Check(x, x.subscription) = x
  BY <1>3, <1>4, CheckHolds
<1>6. x.credit >= 1 /\ x.subscribed = TRUE
  BY <1>4 DEF AutomatonSet
<1>7. PICK f : f = Frame("PAYLOAD", x.emitted + 1)
  OBVIOUS
<1>8. PICK u : u = Output([[x EXCEPT !.credit = @ - 1] EXCEPT !.state = "CLOSED",
                                                              !.emitted = @ + 1], f)
  OBVIOUS
<1>9. Response!OnNext(x) = CloseStream(u, "COMPLETE")
  <2>1. /\ \A b, s : Response!CloseStream(b, s) = CloseStream(b, s)
        /\ \A b, g : Response!Output(b, g) = Output(b, g)
        /\ \A t, n : Response!Frame(t, n) = Frame(t, n)
    BY ResponseIsAlike, Zenon DEF ResponseAlike
  <2>2. Response!Check(x, x.subscription) = x
    BY <1>5, Zenon DEF Response!Check, Check
  <2> QED BY <1>4, <1>7, <1>8, <2>1, <2>2, Zenon DEF Response!OnNext
<1>10. /\ Closable(k, x, u) /\ Parting(k, "responder", x, u)
       /\ u.state = "CLOSED" /\ u.received = x.received
  BY <1>1, <1>3, <1>4, <1>6, <1>7, <1>8, ResponseIsLast
<1>11. Len(x.received) \in Nat /\ x.granted \in Nat
  BY <1>2, LocalTypes
<1>12. PICK r, g : r = Len(x.received) /\ g = x.granted
  OBVIOUS
<1>13. r \in Nat /\ g \in Nat /\ x.granted <= g /\ Receipt(k, "responder", x, u, r)
  BY <1>10, <1>11, <1>12 DEF Receipt
<1>14. Effect(k, "responder", x, CloseStream(u, "COMPLETE"), r, g, "part")
  BY <1>2, <1>3, <1>10, <1>13, CloseEffect
<1> QED BY <1>1, <1>9, <1>12, <1>14

-----------------------------------------------------------------------------
(* The actions                                                             *)

(***************************************************************************)
(* What the invariant says of one end.                                     *)
(***************************************************************************)
LEMMA AtEnd ==
    ASSUME IInv, NEW role \in Roles, NEW x, x = automaton[role]
    PROVE  /\ Local(kind, role, x) /\ x \in AutomatonSet /\ x.out = << >>
           /\ x.state \in StatesOf(role)
           /\ x.open = (x.state \notin {"NONE", "CLOSED"})
           /\ x.state # "NONE" /\ x.state # "CLOSED" => x.open
           /\ ~x.open => x.state = "NONE" \/ x.state = "CLOSED"
           /\ x.state = "CLOSED" => ~x.open
           /\ x.state = "NONE" => x = NewAutomaton("NONE", FALSE)
           /\ kind \in Kinds
<1>1. Local(kind, role, x) /\ x.out = << >> /\ kind \in Kinds
  BY DEF IInv
<1>2. /\ x \in AutomatonSet /\ x.state \in StatesOf(role)
      /\ x.open = (x.state \notin {"NONE", "CLOSED"})
  BY <1>1, LocalTypes
<1>3. x.state = "NONE" => x = NewAutomaton("NONE", FALSE)
  BY <1>1, Zenon DEF Local, Shape
<1> QED BY <1>1, <1>2, <1>3, Zenon

(***************************************************************************)
(* ConnectionAutomaton::close at one end.                                  *)
(***************************************************************************)
LEMMA ClosesKeeps ==
    ASSUME IInv, NEW role \in Roles, ConnectionCloses(role), kind' = kind,
           kind = "channel" /\ role = "requester" /\ Tame => automaton[role].subscribed
    PROVE  IInv'
<1>1. PICK x : x = automaton[role]
  OBVIOUS
<1>2. PICK a : a = automaton[Peer(role)]
  OBVIOUS
<1>3. PICK v : v = wire[role]
  OBVIOUS
<1>4. /\ Local(kind, role, x) /\ Towards(kind, role, x, a, v) /\ x.out = << >>
      /\ Towards(kind, Peer(role), a, x, wire[Peer(role)])
      /\ up \subseteq Roles /\ kind \in Kinds /\ DOMAIN wire = Roles
      /\ automaton \in [Roles -> AutomatonSet]
  BY <1>1, <1>2, <1>3, PeerIs DEF IInv
<1>5. /\ x \in AutomatonSet /\ Len(x.received) \in Nat /\ x.granted \in Nat
      /\ x.state \in StatesOf(role) /\ x.open = (x.state \notin {"NONE", "CLOSED"})
  BY <1>4, LocalTypes
<1>6. PICK y : y = CloseStream(x, "CONNECTION_END")
  OBVIOUS
<1>7. /\ role \in up /\ up' = up \ {role}
      /\ automaton' = [automaton EXCEPT ![role] = y] /\ wire' = wire
  BY <1>1, <1>6, Zenon DEF ConnectionCloses
<1>8. CASE x.open
  <2>1. kind = "channel" /\ role = "requester" /\ Tame => x.subscribed
    BY <1>1, Zenon
  <2>2. Effect(kind, role, x, y, Len(x.received), x.granted, "part")
    BY <1>4, <1>6, <1>8, <2>1, ConnectionEndEffect
  <2>3. PICK failed, cancelled \in BOOLEAN, terminal \in Seq(Signals) :
           y = Ended(x, failed, cancelled, terminal)
    BY <1>5, <1>6, <1>8, CloseStreamEnds
  <2>4. Ends(x, y, failed, cancelled, terminal) /\ y \in AutomatonSet
    BY <1>5, <2>3, EndedFields, EndedType
  <2>5. y.out = << >> /\ y.state = "CLOSED" /\ y.open = FALSE
    BY <1>4, <2>4, Zenon DEF Ends
  <2>6. y = [y EXCEPT !.out = << >>]
    BY <2>4, <2>5 DEF AutomatonSet
  <2>7. automaton' = [automaton EXCEPT ![role] = [y EXCEPT !.out = << >>]]
    BY <1>7, <2>6, Zenon
  <2>8. x.state # "NONE"
    BY <1>5, <1>8, Zenon
  <2>9. Facing(kind, role, x, y, Len(x.received), x.granted, "part", a, v)
    <3>1. IF role = "requester"
          THEN /\ x.state # "CLOSED" => AllIn(v, 1, ToRequester(kind))
               /\ x.state = "NEW" => v = << >>
          ELSE /\ y.state = "RESPONDING" => AllIn(v, 1, ToResponder(kind))
               /\ a.state # "NEW"
      <4>1. CASE role = "requester"
        BY <1>4, <4>1 DEF Towards, TowardsFrom, FramesFit
      <4>2. CASE role # "requester"
        BY <1>4, <2>5, <2>8, <4>2 DEF Towards, TowardsFrom, FramesFit
      <4> QED BY <4>1, <4>2
    <3> QED BY <1>4, <1>5, <2>8, <3>1 DEF Facing, Towards, TowardsFrom, FlowsTo
  <2>10. wire[Peer(role)] \in Seq(FrameSet)
    BY <1>4 DEF Towards, TowardsFrom
  <2>11. wire'[role] = v /\ wire'[Peer(role)] = wire[Peer(role)] \o y.out /\ DOMAIN wire' = Roles
    BY <1>3, <1>4, <1>7, <2>5, <2>10
  <2>12. up' \subseteq up /\ up \ {role} \subseteq up' /\ (role \notin up' => ~y.open)
    BY <1>7, <2>5
  <2> QED BY <1>1, <1>2, <1>5, <2>2, <2>7, <2>9, <2>11, <2>12, Advance
<1>9. CASE ~x.open
  <2>1. y = x
    BY <1>6, <1>9, Zenon DEF CloseStream
  <2>2. automaton' = automaton
    BY <1>1, <1>4, <1>7, <2>1
  <2>3. up' \subseteq Roles
    BY <1>4, <1>7
  <2>4. \A other \in Roles : other \notin up' => ~automaton[other].open
    <3> SUFFICES ASSUME NEW other \in Roles, other \notin up' PROVE ~automaton[other].open
      OBVIOUS
    <3>1. CASE other = role
      BY <1>1, <1>9, <3>1, Zenon
    <3>2. CASE other # role
      <4>1. other \notin up
        BY <1>7, <3>2
      <4> QED BY <4>1 DEF IInv
    <3> QED BY <3>1, <3>2
  <2> QED BY <1>7, <2>2, <2>3, <2>4, Zenon DEF IInv
<1> QED BY <1>8, <1>9

(***************************************************************************)
(* The steps of the connection are the same in the three interactions.     *)
(***************************************************************************)
LEMMA StreamSteps ==
    ASSUME NEW role \in Roles, NEW x
    PROVE  /\ Stream!Step(role, x) <=> Step(role, x)
           /\ Stream!ReceiveStep(role, x) <=> ReceiveStep(role, x)
           /\ Stream!Arrives(role) <=> Arrives(role)
           /\ Stream!Arriving(role) = Arriving(role)
<1>1. \A r : Stream!Peer(r) = Peer(r)
  BY Zenon DEF Stream!Peer, Peer
<1>2. Stream!Step(role, x) <=> Step(role, x)
  BY <1>1, Zenon DEF Stream!Step, Step
<1>3. Stream!ReceiveStep(role, x) <=> ReceiveStep(role, x)
  BY <1>1, Zenon DEF Stream!ReceiveStep, ReceiveStep
<1>4. (Stream!Arrives(role) <=> Arrives(role)) /\ Stream!Arriving(role) = Arriving(role)
  BY Zenon DEF Stream!Arrives, Arrives, Stream!Arriving, Arriving
<1> QED BY <1>2, <1>3, <1>4

(* The steps of RequestChannel are those of StreamAutomata.                *)
LEMMA ChannelSteps ==
    ASSUME NEW role \in Roles, NEW x
    PROVE  /\ Channel!Step(role, x) <=> Step(role, x)
           /\ Channel!ReceiveStep(role, x) <=> ReceiveStep(role, x)
           /\ Channel!Arrives(role) <=> Arrives(role)
           /\ Channel!Arriving(role) = Arriving(role)
<1>1. \A r : Channel!Peer(r) = Peer(r)
  BY Zenon DEF Channel!Peer, Peer
<1>2. Channel!Step(role, x) <=> Step(role, x)
  BY <1>1, Zenon DEF Channel!Step, Step
<1>3. Channel!ReceiveStep(role, x) <=> ReceiveStep(role, x)
  BY <1>1, Zenon DEF Channel!ReceiveStep, ReceiveStep
<1>4. (Channel!Arrives(role) <=> Arrives(role)) /\ Channel!Arriving(role) = Arriving(role)
  BY Zenon DEF Channel!Arrives, Arrives, Channel!Arriving, Arriving
<1> QED BY <1>2, <1>3, <1>4

(* The steps of RequestResponse are those of StreamAutomata.               *)
LEMMA ResponseSteps ==
    ASSUME NEW role \in Roles, NEW x
    PROVE  /\ Response!Step(role, x) <=> Step(role, x)
           /\ Response!ReceiveStep(role, x) <=> ReceiveStep(role, x)
           /\ Response!Arrives(role) <=> Arrives(role)
           /\ Response!Arriving(role) = Arriving(role)
<1>1. \A r : Response!Peer(r) = Peer(r)
  BY Zenon DEF Response!Peer, Peer
<1>2. Response!Step(role, x) <=> Step(role, x)
  BY <1>1, Zenon DEF Response!Step, Step
<1>3. Response!ReceiveStep(role, x) <=> ReceiveStep(role, x)
  BY <1>1, Zenon DEF Response!ReceiveStep, ReceiveStep
<1>4. (Response!Arrives(role) <=> Arrives(role)) /\ Response!Arriving(role) = Arriving(role)
  BY Zenon DEF Response!Arrives, Arrives, Response!Arriving, Arriving
<1> QED BY <1>2, <1>3, <1>4

(***************************************************************************)
(* RequestStream: request(n).                                              *)
(***************************************************************************)
LEMMA StreamRequestEffect ==
    ASSUME IInv, kind = "stream", NEW x, x = automaton["requester"],
           NEW n \in RequestSizes, x.requests < MaxRequests,
           NEW u, u = [x EXCEPT !.requests = @ + 1]
    PROVE  Effect(kind, "requester", x, Stream!Request(u, n),
                  Len(x.received), x.granted, "part")
<1>1. "requester" \in Roles
  BY DEF Roles
<1>2. PICK k : k = kind
  OBVIOUS
<1>3. k \in Kinds /\ k \in {"stream", "channel"} /\ k = "stream"
  BY <1>2 DEF Kinds
<1>4. /\ Local(k, "requester", x) /\ x \in AutomatonSet /\ x.out = << >>
      /\ x.state \in StatesOf("requester")
      /\ x.state # "NONE" /\ x.state # "CLOSED" => x.open
  BY <1>1, <1>2, AtEnd
<1>5. x.requests + 1 <= MaxRequests /\ x.requests + 1 <= MaxRequestsOf(k)
  <2>1. x.requests \in Nat /\ MaxRequests \in Nat /\ MaxRequestsOf(k) = MaxRequests
    BY <1>3, <1>4, InteractionsAssumption DEF AutomatonSet, MaxRequestsOf
  <2> QED BY <2>1
<1>6. u.state = x.state
  BY <1>4 DEF AutomatonSet
<1>7. ASSUME x.open PROVE Balanced(x)
  BY <1>1, <1>7, Afforded
<1>8. CASE x.state = "NEW" /\ n # 0
  <2>1. x.open
    BY <1>4, <1>8
  <2>2. PICK i : i = FirstSize(n)
    OBVIOUS
  <2>3. PICK z : z = FirstAsked(u, i)
    OBVIOUS
  <2>4. PICK y : y = IF n > i THEN GenerateRequest(z, n - i) ELSE z
    OBVIOUS
  <2>5. Stream!FirstRequest(u, n) = y
    <3>1. /\ \A v, m : Stream!Release(v, m) = Release(v, m)
          /\ \A t, m : Stream!Frame(t, m) = Frame(t, m)
          /\ \A b, f : Stream!Output(b, f) = Output(b, f)
          /\ \A b, m : Stream!GenerateRequest(b, m) = GenerateRequest(b, m)
      BY StreamIsAlike, Zenon DEF StreamAlike
    <3>2. Stream!FirstRequest(u, n)
            = IF n > FirstSize(n)
              THEN Stream!GenerateRequest(FirstAsked(u, FirstSize(n)), n - FirstSize(n))
              ELSE FirstAsked(u, FirstSize(n))
      BY <3>1, Zenon DEF Stream!FirstRequest, FirstAsked, FirstSize, Stream!Release, Release,
                         Stream!Frame, Frame, Stream!Output, Output
    <3> QED BY <2>2, <2>3, <2>4, <3>1, <3>2, Zenon
  <2>6. Stream!Request(u, n) = y
    BY <1>6, <1>8, <2>5, Zenon DEF Stream!Request
  <2>7. Effect("stream", "requester", x, y, Len(x.received), x.granted, "part")
    <3>1. Local("stream", "requester", x) /\ Balanced(x) /\ x.state = "NEW"
      BY <1>3, <1>4, <1>7, <1>8, <2>1
    <3> QED BY <1>4, <1>5, <2>1, <2>2, <2>3, <2>4, <3>1, FirstRequestEffect
  <2> QED BY <2>6, <2>7
<1>9. CASE x.state = "REQUESTED" /\ n # 0
  <2>1. x.open /\ x.state # "NEW"
    BY <1>4, <1>9
  <2>2. Stream!Request(u, n) = GenerateRequest(u, n)
    <3>1. \A b, m : Stream!GenerateRequest(b, m) = GenerateRequest(b, m)
      BY StreamIsAlike, Zenon DEF StreamAlike
    <3> QED BY <1>6, <1>9, <2>1, <3>1, Zenon DEF Stream!Request
  <2>3. Effect(k, "requester", x, GenerateRequest(u, n), Len(x.received), x.granted, "part")
    BY <1>1, <1>3, <1>4, <1>5, <1>7, <2>1, GenerateRequestEffect
  <2> QED BY <1>2, <2>2, <2>3
<1>10. CASE ~(x.state = "NEW" /\ n # 0) /\ ~(x.state = "REQUESTED" /\ n # 0)
  <2>1. Stream!Request(u, n) = u
    BY <1>6, <1>10, Zenon DEF Stream!Request
  <2>2. Effect(k, "requester", x, u, Len(x.received), x.granted, "part")
    BY <1>3, <1>4, <1>5, CountEffect
  <2> QED BY <1>2, <2>1, <2>2
<1> QED BY <1>8, <1>9, <1>10

(* request(n) at a StreamRequester preserves the invariant.                *)
LEMMA StreamRequests ==
    ASSUME IInv, kind = "stream", kind' = kind, NEW n \in RequestSizes,
           Stream!ConsumerRequests(n)
    PROVE  IInv'
<1>1. "requester" \in Roles
  BY DEF Roles
<1>2. PICK x : x = automaton["requester"]
  OBVIOUS
<1>3. PICK u : u = [x EXCEPT !.requests = @ + 1]
  OBVIOUS
<1>4. PICK y : y = Stream!Request(u, n)
  OBVIOUS
<1>5. x.requests < MaxRequests /\ Stream!Step("requester", y)
  BY <1>2, <1>3, <1>4, Zenon DEF Stream!ConsumerRequests, Stream!requester
<1>6. Effect(kind, "requester", x, y, Len(x.received), x.granted, "part")
  BY <1>2, <1>3, <1>4, <1>5, StreamRequestEffect
<1>7. Step("requester", y)
  BY <1>1, <1>5, StreamSteps
<1>8. x.state # "NONE"
  BY <1>1, <1>2, AtEnd DEF StatesOf
<1> QED BY <1>1, <1>2, <1>6, <1>7, <1>8, StepKeeps

(* cancel at a StreamRequester preserves the invariant.                    *)
LEMMA StreamCancels ==
    ASSUME IInv, kind = "stream", kind' = kind, Stream!ConsumerCancels
    PROVE  IInv'
<1>1. "requester" \in Roles
  BY DEF Roles
<1>2. PICK x : x = automaton["requester"]
  OBVIOUS
<1>3. PICK y : y = RequesterCancel([x EXCEPT !.gaveUp = TRUE])
  OBVIOUS
<1>4. x.state # "CLOSED" /\ Stream!Step("requester", y)
  <2>1. \A b : Stream!RequesterCancel(b) = RequesterCancel(b)
    BY StreamIsAlike, Zenon DEF StreamAlike
  <2> QED BY <1>2, <1>3, <2>1, Zenon DEF Stream!ConsumerCancels, Stream!requester
<1>5. /\ Local(kind, "requester", x) /\ x.out = << >> /\ kind \in Kinds
      /\ x.state # "NONE" /\ x.open
  BY <1>1, <1>2, <1>4, AtEnd DEF StatesOf
<1>6. PICK k \in Kinds : k = kind
  BY <1>5
<1>7. Effect(k, "requester", x, y, Len(x.received), x.granted, "part")
  BY <1>3, <1>5, <1>6, RequesterCancelEffect
<1>8. Step("requester", y)
  BY <1>1, <1>4, StreamSteps
<1> QED BY <1>1, <1>2, <1>5, <1>6, <1>7, <1>8, StepKeeps

(***************************************************************************)
(* What the producers of all responders do alike.                          *)
(***************************************************************************)
LEMMA ResponderSubscribes ==
    ASSUME IInv, kind' = kind, NEW x, x = automaton["responder"], x.state # "NONE",
           ~x.subscribed, NEW y, y = ResponderOnSubscribe(x), Step("responder", y)
    PROVE  IInv'
<1>1. "responder" \in Roles
  BY DEF Roles
<1>2. Local(kind, "responder", x) /\ x.out = << >> /\ kind \in Kinds
  BY <1>1, AtEnd
<1>3. PICK k \in Kinds : k = kind
  BY <1>2
<1>4. Effect(k, "responder", x, y, Len(x.received), x.granted, "part")
  BY <1>2, <1>3, ResponderOnSubscribeEffect
<1> QED BY <1>1, <1>3, <1>4, StepKeeps

(* onComplete at a responder preserves the invariant.                      *)
LEMMA ResponderCompletes ==
    ASSUME IInv, kind' = kind, NEW x, x = automaton["responder"], x.subscribed, ~x.cancelled,
           NEW z, z = x \/ z = [x EXCEPT !.done = TRUE],
           NEW y, y = ResponderOnComplete(z), Step("responder", y)
    PROVE  IInv'
<1>1. "responder" \in Roles
  BY DEF Roles
<1>2. Local(kind, "responder", x) /\ x.out = << >> /\ kind \in Kinds
  BY <1>1, AtEnd
<1>3. PICK k \in Kinds : k = kind
  BY <1>2
<1>4. x.open /\ x.state # "NONE"
  BY <1>1, <1>2, MaySignalOpen
<1>5. Effect(k, "responder", x, y, Len(x.received), x.granted, "part")
  BY <1>2, <1>3, <1>4, ResponderOnCompleteEffect
<1> QED BY <1>1, <1>3, <1>4, <1>5, StepKeeps

(* onError at a responder preserves the invariant.                         *)
LEMMA ResponderFails ==
    ASSUME IInv, kind' = kind, NEW x, x = automaton["responder"], x.subscribed, ~x.cancelled,
           NEW z, z = [x EXCEPT !.done = TRUE],
           NEW y, y = ApplicationError([z EXCEPT !.state = "CLOSED"]), Step("responder", y)
    PROVE  IInv'
<1>1. "responder" \in Roles
  BY DEF Roles
<1>2. Local(kind, "responder", x) /\ x.out = << >> /\ kind \in Kinds
  BY <1>1, AtEnd
<1>3. PICK k \in Kinds : k = kind
  BY <1>2
<1>4. x.open /\ x.state # "NONE"
  BY <1>1, <1>2, MaySignalOpen
<1>5. Effect(k, "responder", x, y, Len(x.received), x.granted, "part")
  BY <1>2, <1>3, <1>4, ApplicationErrorEffect
<1> QED BY <1>1, <1>3, <1>4, <1>5, StepKeeps

(***************************************************************************)
(* What a frame adds to what was received and granted.                     *)
(***************************************************************************)
LEMMA Takes ==
    ASSUME NEW k, NEW f, NEW r, NEW g
    PROVE  /\ f.type = "PAYLOAD" => TakesP(f, r) = r + 1 /\ TakesC(f, g) = g
           /\ f.type \in CreditTypes => TakesP(f, r) = r /\ TakesC(f, g) = g + f.n
           /\ f.type \in {"COMPLETE", "ERROR", "CANCEL", "REQUEST_RESPONSE"} =>
                 TakesP(f, r) = r /\ TakesC(f, g) = g
           /\ f.type = "COMPLETE" => Ending(k, f) = "whole"
BY DEF TakesP, TakesC, CreditTypes, Ending, Final

(***************************************************************************)
(* A frame arrives at the requester of a stream or a channel.              *)
(***************************************************************************)
LEMMA RequesterTakes ==
    ASSUME IInv, kind \in {"stream", "channel"}, kind' = kind, Arrives("requester"),
           NEW x, x = automaton["requester"], x.open, NEW f, f = Arriving("requester"),
           NEW y, ReceiveStep("requester", y),
           \/ f.type = "PAYLOAD" /\ y = RequesterHandleNext(x, f.n)
           \/ f.type = "COMPLETE" /\ y = RequesterHandleComplete(x)
           \/ f.type = "ERROR" /\ y = RequesterHandleError(x)
           \/ f.type = "REQUEST_N" /\ y = ProcessRequestN(x, f.n)
    PROVE  IInv'
<1>1. "requester" \in Roles
  BY DEF Roles
<1>2. PICK k \in {"stream", "channel"} : k = kind
  OBVIOUS
<1>3. /\ Local(k, "requester", x) /\ x \in AutomatonSet /\ x.out = << >> /\ k \in Kinds
      /\ x.state # "CLOSED"
  BY <1>1, <1>2, AtEnd
<1>4. Arrival(k, "requester", x, f)
  BY <1>1, <1>2, <1>3, ArrivalFits
<1>5. x.state = "REQUESTED" /\ x.state # "NEW" /\ f.n \in Nat
  BY <1>4 DEF Arrival, FrameSet
<1>6. Balanced(x)
  BY <1>1, <1>2, Afforded
<1>7. PICK r, g, whole : r = Len(x.received) /\ g = x.granted /\ whole = Ending(k, f)
  OBVIOUS
<1>8. Check(x, x.state # "NEW") = x
  BY <1>3, <1>5, CheckHolds
<1>9. Effect(k, "requester", x, y, TakesP(f, r), TakesC(f, g), whole)
  <2>1. CASE f.type = "PAYLOAD" /\ y = RequesterHandleNext(x, f.n)
    <3>1. PICK n : n = f.n
      OBVIOUS
    <3>2. y = ProcessPayload(x, n)
      BY <1>8, <2>1, <3>1, Zenon DEF RequesterHandleNext
    <3>3. n = Len(x.received) + 1 /\ x.allowance >= 1
      BY <1>2, <1>4, <2>1, <3>1 DEF Arrival
    <3>4. TakesP(f, r) = n /\ TakesC(f, g) = x.granted
      BY <1>7, <2>1, <3>3, Takes
    <3>5. Effect(k, "requester", x, ProcessPayload(x, n), n, x.granted, whole)
      BY <1>1, <1>3, <1>5, <1>6, <3>3, ProcessPayloadEffect
    <3> QED BY <3>2, <3>4, <3>5
  <2>2. CASE f.type = "COMPLETE" /\ y = RequesterHandleComplete(x)
    <3>1. y = CloseStream([x EXCEPT !.state = "CLOSED"], "COMPLETE")
      BY <1>5, <2>2 DEF RequesterHandleComplete
    <3>2. TakesP(f, r) = Len(x.received) /\ TakesC(f, g) = x.granted /\ whole = "whole"
      BY <1>7, <2>2, Takes
    <3>3. Effect(k, "requester", x, CloseStream([x EXCEPT !.state = "CLOSED"], "COMPLETE"),
                 Len(x.received), x.granted, whole)
      BY <1>1, <1>3, <1>5, <3>2, FrameCloses
    <3> QED BY <3>1, <3>2, <3>3
  <2>3. CASE f.type = "ERROR" /\ y = RequesterHandleError(x)
    <3>1. TakesP(f, r) = Len(x.received) /\ TakesC(f, g) = x.granted
      BY <1>7, <2>3, Takes
    <3>2. Effect(k, "requester", x, y, Len(x.received), x.granted, whole)
      BY <1>3, <1>5, <2>3, RequesterHandleErrorEffect
    <3> QED BY <3>1, <3>2
  <2>4. CASE f.type = "REQUEST_N" /\ y = ProcessRequestN(x, f.n)
    <3>1. PICK n \in Nat : n = f.n
      BY <1>5
    <3>2. TakesP(f, r) = Len(x.received) /\ TakesC(f, g) = x.granted + n
      <4>1. f.type \in CreditTypes
        BY <2>4 DEF CreditTypes
      <4> QED BY <1>7, <3>1, <4>1, Takes
    <3>3. Effect(k, "requester", x, ProcessRequestN(x, n), Len(x.received), x.granted + n, whole)
      BY <1>1, <1>3, ProcessRequestNEffect
    <3> QED BY <2>4, <3>1, <3>2, <3>3
  <2> QED BY <2>1, <2>2, <2>3, <2>4
<1> QED BY <1>1, <1>2, <1>3, <1>7, <1>9, ReceiveKeeps

(***************************************************************************)
(* A frame arrives at a responder.                                         *)
(***************************************************************************)
LEMMA ResponderTakes ==
    ASSUME IInv, kind' = kind, Arrives("responder"),
           NEW x, x = automaton["responder"], x.open, NEW f, f = Arriving("responder"),
           NEW y, ReceiveStep("responder", y),
           \/ kind = "channel" /\ f.type = "PAYLOAD" /\ y = ProcessPayload(x, f.n)
           \/ f.type \in {"COMPLETE", "CANCEL"}
              /\ y = CloseStream([x EXCEPT !.state = "CLOSED"], f.type)
           \/ f.type = "REQUEST_N" /\ y = ProcessRequestN(x, f.n)
           \/ f.type = "ERROR" /\ y = x
    PROVE  IInv'
<1>1. "responder" \in Roles
  BY DEF Roles
<1>2. PICK k : k = kind
  OBVIOUS
<1>3. /\ Local(k, "responder", x) /\ x \in AutomatonSet /\ x.out = << >> /\ k \in Kinds
      /\ x.state # "CLOSED" /\ x.state # "NEW"
  BY <1>1, <1>2, AtEnd DEF StatesOf
<1>4. Arrival(k, "responder", x, f)
  BY <1>1, <1>2, <1>3, ArrivalFits
<1>5. f.n \in Nat
  BY <1>4 DEF Arrival, FrameSet
<1>6. k # "response" => Balanced(x)
  BY <1>1, <1>2, Afforded
<1>7. PICK r, g, whole : r = Len(x.received) /\ g = x.granted /\ whole = Ending(k, f)
  OBVIOUS
<1>8. Effect(k, "responder", x, y, TakesP(f, r), TakesC(f, g), whole)
  <2>1. CASE kind = "channel" /\ f.type = "PAYLOAD" /\ y = ProcessPayload(x, f.n)
    <3>1. PICK n : n = f.n
      OBVIOUS
    <3>2. n = Len(x.received) + 1 /\ x.allowance >= 1
      BY <1>2, <1>4, <2>1, <3>1 DEF Arrival
    <3>3. TakesP(f, r) = n /\ TakesC(f, g) = x.granted
      BY <1>7, <2>1, <3>2, Takes
    <3>4. k \in {"stream", "channel"} /\ k = "channel" /\ Balanced(x)
      BY <1>2, <1>6, <2>1
    <3>5. Effect(k, "responder", x, ProcessPayload(x, n), n, x.granted, whole)
      BY <1>1, <1>3, <3>2, <3>4, ProcessPayloadEffect
    <3> QED BY <2>1, <3>1, <3>3, <3>5
  <2>2. CASE f.type \in {"COMPLETE", "CANCEL"}
             /\ y = CloseStream([x EXCEPT !.state = "CLOSED"], f.type)
    <3>1. PICK signal : signal = f.type
      OBVIOUS
    <3>2. TakesP(f, r) = Len(x.received) /\ TakesC(f, g) = x.granted
      BY <1>7, <2>2, Takes
    <3>3. Effect(k, "responder", x, CloseStream([x EXCEPT !.state = "CLOSED"], signal),
                 Len(x.received), x.granted, whole)
      BY <1>1, <1>3, FrameCloses
    <3> QED BY <2>2, <3>1, <3>2, <3>3
  <2>3. CASE f.type = "REQUEST_N" /\ y = ProcessRequestN(x, f.n)
    <3>1. PICK n \in Nat : n = f.n
      BY <1>5
    <3>2. TakesP(f, r) = Len(x.received) /\ TakesC(f, g) = x.granted + n
      <4>1. f.type \in CreditTypes
        BY <2>3 DEF CreditTypes
      <4> QED BY <1>7, <3>1, <4>1, Takes
    <3>3. Effect(k, "responder", x, ProcessRequestN(x, n), Len(x.received), x.granted + n, whole)
      BY <1>1, <1>3, ProcessRequestNEffect
    <3> QED BY <2>3, <3>1, <3>2, <3>3
  <2>4. CASE f.type = "ERROR" /\ y = x
    <3>1. TakesP(f, r) = Len(x.received) /\ TakesC(f, g) = x.granted
      BY <1>7, <2>4, Takes
    <3>2. Effect(k, "responder", x, x, Len(x.received), x.granted, whole)
      BY <1>1, <1>3, IgnoreEffect
    <3> QED BY <2>4, <3>1, <3>2
  <2> QED BY <2>1, <2>2, <2>3, <2>4
<1> QED BY <1>1, <1>2, <1>3, <1>7, <1>8, ReceiveKeeps

(***************************************************************************)
(* onNext of a producer whose request was written: one payload leaves.     *)
(***************************************************************************)
LEMMA Emitting ==
    ASSUME IInv, kind \in {"stream", "channel"}, kind' = kind, NEW role \in Roles,
           role = "requester" => kind = "channel",
           NEW x, x = automaton[role], x.subscribed, ~x.cancelled, x.state # "NEW",
           x.credit >= 1,
           NEW y, Emitted(x, y, Frame("PAYLOAD", x.emitted + 1)), Step(role, y)
    PROVE  IInv'
<1>1. PICK k \in {"stream", "channel"} : k = kind
  OBVIOUS
<1>2. Local(k, role, x)
  BY <1>1, AtEnd
<1>3. x.open /\ x.state # "NONE"
  BY <1>2, MaySignalOpen
<1>4. PICK f : f = Frame("PAYLOAD", x.emitted + 1)
  OBVIOUS
<1>5. Emitted(x, y, f)
  BY <1>4
<1>6. Effect(k, role, x, y, Len(x.received), x.granted, "part")
  BY <1>1, <1>2, <1>3, <1>4, <1>5, EmitEffect
<1> QED BY <1>1, <1>3, <1>6, StepKeeps

(***************************************************************************)
(* The first frame of a stream makes its responder.                        *)
(***************************************************************************)
LEMMA ResponderOpens ==
    ASSUME IInv, kind' = kind, Arrives("responder"),
           NEW x, x = automaton["responder"], x.state = "NONE",
           NEW f, f = Arriving("responder"), NEW y, ReceiveStep("responder", y),
           NEW done \in BOOLEAN,
           IF kind = "channel" THEN y = Channel!Accept(x, f, done)
                               ELSE y = NewResponder(x, f.n)
    PROVE  IInv'
<1>1. "responder" \in Roles
  BY DEF Roles
<1>2. PICK k : k = kind
  OBVIOUS
<1>3. /\ Local(k, "responder", x) /\ x.state # "CLOSED" /\ k \in Kinds
      /\ x = NewAutomaton("NONE", FALSE)
  BY <1>1, <1>2, AtEnd
<1>4. Arrival(k, "responder", x, f)
  BY <1>1, <1>2, <1>3, ArrivalFits
<1>5. f.type = Opening(k) /\ f \in FrameSet
  BY <1>4 DEF Arrival
<1>6. f.type # "PAYLOAD" /\ (k # "response" => f.type \in CreditTypes)
  BY <1>3, <1>5 DEF Opening, Kinds, CreditTypes
<1>7. PICK n : n = f.n
  OBVIOUS
<1>8. n \in 0..SizeMax
  <2>1. n \in Nat /\ n <= SizeMax
    BY <1>5, <1>6, <1>7 DEF FrameSet
  <2> QED BY <2>1, SizeMaxAssumption
<1>9. Len(x.received) = 0 /\ x.granted = 0
  BY <1>3 DEF NewAutomaton
<1>10. PICK g, whole : g = TakesC(f, 0) /\ whole = Ending(k, f)
  OBVIOUS
<1>11. TakesP(f, 0) = 0 /\ (k # "response" => g = n)
  BY <1>6, <1>7, <1>8, <1>10 DEF TakesP, TakesC
<1>12. Effect(k, "responder", x, y, 0, g, whole)
  <2>1. CASE k = "channel"
    <3>1. y = Channel!Accept(x, f, done)
      BY <1>2, <2>1
    <3>2. Effect("channel", "responder", x, Channel!Accept(x, f, done), 0, f.n, whole)
      BY <1>3, <1>7, <1>8, AcceptEffect
    <3> QED BY <1>7, <1>11, <2>1, <3>1, <3>2
  <2>2. CASE k # "channel"
    <3>1. k \in {"stream", "response"} /\ y = NewResponder(x, n)
      BY <1>2, <1>3, <1>7, <2>2 DEF Kinds
    <3>2. Effect(k, "responder", x, NewResponder(x, n), 0, g, whole)
      BY <1>3, <1>8, <1>11, <3>1, NewResponderEffect
    <3> QED BY <3>1, <3>2
  <2> QED BY <2>1, <2>2
<1>13. Effect(kind, "responder", x, y, TakesP(f, Len(x.received)), TakesC(f, x.granted),
              Ending(kind, f))
  BY <1>2, <1>9, <1>10, <1>11, <1>12
<1> QED BY <1>1, <1>3, <1>13, ReceiveKeeps

-----------------------------------------------------------------------------
(* RequestStream: the remaining steps.                                     *)

(* The signals of a StreamResponder's producer preserve the invariant.     *)
LEMMA StreamProduces ==
    ASSUME IInv, kind = "stream", kind' = kind,
           Stream!ProducerSubscribes \/ Stream!ProducerEmits
           \/ Stream!ProducerCompletes \/ Stream!ProducerFails
    PROVE  IInv'
<1>1. "responder" \in Roles
  BY DEF Roles
<1>2. PICK x : x = automaton["responder"]
  OBVIOUS
<1>3. Local("stream", "responder", x) /\ x \in AutomatonSet /\ x.out = << >>
  BY <1>1, <1>2, AtEnd
<1>4. CASE Stream!ProducerSubscribes
  <2>1. PICK y : y = ResponderOnSubscribe(x)
    OBVIOUS
  <2>2. x.state # "NONE" /\ ~x.subscribed /\ Stream!Step("responder", y)
    <3>1. \A b : Stream!ResponderOnSubscribe(b) = ResponderOnSubscribe(b)
      BY StreamIsAlike, Zenon DEF StreamAlike
    <3> QED BY <1>2, <1>4, <2>1, <3>1, Zenon DEF Stream!ProducerSubscribes, Stream!responder
  <2>3. Step("responder", y)
    BY <1>1, <2>2, StreamSteps
  <2> QED BY <1>2, <2>1, <2>2, <2>3, ResponderSubscribes
<1>5. ASSUME x.subscribed, ~x.cancelled
      PROVE  x.subscription /\ x.state = "RESPONDING" /\ x.state # "NEW" /\ Check(x, x.subscription) = x
  <2>1. x.subscription /\ x.state # "NONE" /\ x.state # "CLOSED"
    BY <1>1, <1>3, <1>5, MaySignalOpen
  <2>2. x.state = "RESPONDING"
    BY <1>1, <1>2, <2>1, AtEnd DEF StatesOf
  <2>3. Check(x, x.subscription) = x
    BY <1>3, <2>1, CheckHolds
  <2> QED BY <2>1, <2>2, <2>3
<1>6. CASE Stream!ProducerEmits
  <2>1. PICK y : y = Stream!OnNext(x)
    OBVIOUS
  <2>2. x.subscribed /\ ~x.cancelled /\ x.credit > 0 /\ Stream!Step("responder", y)
    BY <1>2, <1>6, <2>1, Zenon DEF Stream!ProducerEmits, Stream!responder, Stream!MaySignal
  <2>3. x.credit >= 1
    BY <1>3, <2>2 DEF AutomatonSet
  <2>4. PICK u : u = [x EXCEPT !.credit = @ - 1]
    OBVIOUS
  <2>5. PICK f : f = Frame("PAYLOAD", x.emitted + 1)
    OBVIOUS
  <2>6. Emitted(x, Output([u EXCEPT !.emitted = @ + 1], f), f)
    BY <1>3, <2>3, <2>4, <2>5, Emits
  <2>7. y = Output([u EXCEPT !.emitted = @ + 1], f)
    <3>1. /\ \A t, m : Stream!Frame(t, m) = Frame(t, m)
          /\ \A b, g : Stream!Output(b, g) = Output(b, g)
      BY StreamIsAlike, Zenon DEF StreamAlike
    <3>2. Stream!Check(x, x.subscription) = x
      BY <1>5, <2>2, Zenon DEF Stream!Check, Check
    <3> QED BY <1>5, <2>1, <2>2, <2>4, <2>5, <3>1, <3>2, Zenon DEF Stream!OnNext
  <2>8. Emitted(x, y, Frame("PAYLOAD", x.emitted + 1))
    BY <2>5, <2>6, <2>7, Zenon
  <2>9. Step("responder", y)
    BY <1>1, <2>2, StreamSteps
  <2>10. x.state # "NEW" /\ kind \in {"stream", "channel"}
    BY <1>5, <2>2
  <2>11. x.subscribed /\ ~x.cancelled
    BY <2>2
  <2> HIDE <2>1, <2>4, <2>6, <2>7
  <2> QED BY <1>1, <1>2, <2>3, <2>8, <2>9, <2>10, <2>11, Emitting
<1>7. CASE Stream!ProducerCompletes
  <2>1. PICK y : y = ResponderOnComplete(x)
    OBVIOUS
  <2>2. x.subscribed /\ ~x.cancelled /\ Stream!Step("responder", y)
    <3>1. \A b : Stream!ResponderOnComplete(b) = ResponderOnComplete(b)
      BY StreamIsAlike, Zenon DEF StreamAlike
    <3> QED BY <1>2, <1>7, <2>1, <3>1, Zenon DEF Stream!ProducerCompletes, Stream!responder, Stream!MaySignal
  <2>3. Step("responder", y)
    BY <1>1, <2>2, StreamSteps
  <2> QED BY <1>2, <2>1, <2>2, <2>3, ResponderCompletes
<1>8. CASE Stream!ProducerFails
  <2>1. PICK z : z = [x EXCEPT !.done = TRUE]
    OBVIOUS
  <2>2. PICK y : y = ApplicationError([z EXCEPT !.state = "CLOSED"])
    OBVIOUS
  <2>3. x.subscribed /\ ~x.cancelled /\ Stream!Step("responder", Stream!OnError(x))
    BY <1>2, <1>8, Zenon DEF Stream!ProducerFails, Stream!responder, Stream!MaySignal
  <2>4. Stream!OnError(x) = y
    <3>1. \A b : Stream!ApplicationError(b) = ApplicationError(b)
      BY StreamIsAlike, Zenon DEF StreamAlike
    <3>2. Stream!Check(x, x.subscription) = x
      BY <1>5, <2>3, Zenon DEF Stream!Check, Check
    <3> QED BY <1>5, <2>1, <2>2, <2>3, <3>1, <3>2, Zenon DEF Stream!OnError
  <2>5. Step("responder", y)
    BY <1>1, <2>3, <2>4, StreamSteps
  <2> QED BY <1>2, <2>1, <2>2, <2>3, <2>5, ResponderFails
<1> QED BY <1>4, <1>6, <1>7, <1>8

(* A frame for a StreamRequester, or for none any more.                    *)
LEMMA StreamRequesterReceives ==
    ASSUME IInv, kind = "stream", kind' = kind, Stream!RequesterReceives
    PROVE  IInv'
<1>1. "requester" \in Roles
  BY DEF Roles
<1>2. PICK x : x = automaton["requester"]
  OBVIOUS
<1>3. PICK f : f = Arriving("requester")
  OBVIOUS
<1>4. PICK y : y = Stream!RequesterHandleFrame(x, f)
  OBVIOUS
<1>5. Arrives("requester") /\ ReceiveStep("requester", y)
  <2>1. Stream!Arriving("requester") = f
    BY <1>1, <1>3, StreamSteps
  <2>2. Stream!Arrives("requester") /\ Stream!ReceiveStep("requester", y)
    BY <1>2, <1>4, <2>1, Zenon DEF Stream!RequesterReceives, Stream!requester
  <2> QED BY <1>1, <2>2, StreamSteps
<1>6. CASE ~x.open
  <2>1. x.state = "CLOSED"
    BY <1>1, <1>2, <1>6, AtEnd DEF StatesOf
  <2>2. y = x
    BY <1>4, <1>6, Zenon DEF Stream!RequesterHandleFrame
  <2> QED BY <1>1, <1>2, <1>5, <2>1, <2>2, DropKeeps
<1>7. CASE x.open
  <2>1. x.state # "CLOSED"
    BY <1>1, <1>2, <1>7, AtEnd
  <2>2. f.type \in {"PAYLOAD", "COMPLETE", "ERROR"}
    BY <1>1, <1>2, <1>3, <1>5, <2>1, ArrivalFits DEF Arrival, ToRequester
  <2>3. /\ f.type = "PAYLOAD" => y = RequesterHandleNext(x, f.n)
        /\ f.type = "COMPLETE" => y = RequesterHandleComplete(x)
        /\ f.type = "ERROR" => y = RequesterHandleError(x)
    <3>1. /\ \A b, n : Stream!RequesterHandleNext(b, n) = RequesterHandleNext(b, n)
          /\ \A b : Stream!RequesterHandleComplete(b) = RequesterHandleComplete(b)
          /\ \A b : Stream!RequesterHandleError(b) = RequesterHandleError(b)
      BY StreamIsAlike, Zenon DEF StreamAlike
    <3>2. /\ f.type = "PAYLOAD" => Stream!RequesterHandleFrame(x, f) = Stream!RequesterHandleNext(x, f.n)
          /\ f.type = "COMPLETE" => Stream!RequesterHandleFrame(x, f) = Stream!RequesterHandleComplete(x)
          /\ f.type = "ERROR" => Stream!RequesterHandleFrame(x, f) = Stream!RequesterHandleError(x)
      BY <1>7 DEF Stream!RequesterHandleFrame
    <3> QED BY <1>4, <3>1, <3>2, Zenon
  <2> QED BY <1>2, <1>3, <1>5, <1>7, <2>2, <2>3, RequesterTakes
<1> QED BY <1>6, <1>7

(* A frame for a StreamResponder, before, while and after it is open.      *)
LEMMA StreamResponderReceives ==
    ASSUME IInv, kind = "stream", kind' = kind, Stream!ResponderReceives
    PROVE  IInv'
<1>1. "responder" \in Roles
  BY DEF Roles
<1>2. PICK x : x = automaton["responder"]
  OBVIOUS
<1>3. PICK f : f = Arriving("responder")
  OBVIOUS
<1>4. PICK y : y = Stream!ResponderHandleFrame(x, f)
  OBVIOUS
<1>5. Arrives("responder") /\ ReceiveStep("responder", y)
  <2>1. Stream!Arriving("responder") = f
    BY <1>1, <1>3, StreamSteps
  <2>2. Stream!Arrives("responder") /\ Stream!ReceiveStep("responder", y)
    BY <1>2, <1>4, <2>1, Zenon DEF Stream!ResponderReceives, Stream!responder
  <2> QED BY <1>1, <2>2, StreamSteps
<1>6. x.state = "NONE" \/ x.state = "CLOSED" => ~x.open
  BY <1>1, <1>2, AtEnd
<1>7. CASE x.state = "NONE"
  <2>1. y = NewResponder(x, f.n)
    <3>1. \A b, n : Stream!NewResponder(b, n) = NewResponder(b, n)
      BY StreamIsAlike, Zenon DEF StreamAlike
    <3>2. Stream!ResponderHandleFrame(x, f) = Stream!NewResponder(x, f.n)
      BY <1>6, <1>7 DEF Stream!ResponderHandleFrame
    <3> QED BY <1>4, <3>1, <3>2, Zenon
  <2>2. TRUE \in BOOLEAN /\ kind # "channel"
    OBVIOUS
  <2> QED BY <1>2, <1>3, <1>5, <1>7, <2>1, <2>2, ResponderOpens
<1>8. CASE x.state = "CLOSED"
  <2>1. y = x
    BY <1>4, <1>6, <1>8 DEF Stream!ResponderHandleFrame
  <2> QED BY <1>1, <1>2, <1>5, <1>8, <2>1, DropKeeps
<1>9. CASE x.state # "NONE" /\ x.state # "CLOSED"
  <2>1. x.open /\ x.state = "RESPONDING"
    BY <1>1, <1>2, <1>9, AtEnd DEF StatesOf
  <2>2. f.type \in {"REQUEST_N", "CANCEL", "ERROR"}
    BY <1>1, <1>2, <1>3, <1>5, <1>9, ArrivalFits DEF Arrival, ToResponder
  <2>3. /\ f.type = "REQUEST_N" => y = ProcessRequestN(x, f.n)
        /\ f.type = "CANCEL" => y = CloseStream([x EXCEPT !.state = "CLOSED"], f.type)
        /\ f.type = "ERROR" => y = x
    <3>1. /\ \A b, n : Stream!ProcessRequestN(b, n) = ProcessRequestN(b, n)
          /\ \A b : Stream!ResponderHandleCancel(b) = ResponderHandleCancel(b)
      BY StreamIsAlike, Zenon DEF StreamAlike
    <3>2. /\ f.type = "REQUEST_N" => Stream!ResponderHandleFrame(x, f) = Stream!ProcessRequestN(x, f.n)
          /\ f.type = "CANCEL" => Stream!ResponderHandleFrame(x, f) = Stream!ResponderHandleCancel(x)
          /\ f.type = "ERROR" => Stream!ResponderHandleFrame(x, f) = x
      BY <1>9, <2>1 DEF Stream!ResponderHandleFrame
    <3>3. ResponderHandleCancel(x) = CloseStream([x EXCEPT !.state = "CLOSED"], "CANCEL")
      BY <2>1 DEF ResponderHandleCancel
    <3> QED BY <1>4, <3>1, <3>2, <3>3, Zenon
  <2> QED BY <1>2, <1>3, <1>5, <2>1, <2>2, <2>3, ResponderTakes
<1> QED BY <1>7, <1>8, <1>9

(* The connection of either end of a stream closes.                        *)
LEMMA StreamCloses ==
    ASSUME IInv, kind = "stream", kind' = kind, NEW role \in Roles,
           Stream!ConnectionCloses(role)
    PROVE  IInv'
<1>1. ConnectionCloses(role)
  <2>1. \A b, s : Stream!CloseStream(b, s) = CloseStream(b, s)
    BY StreamIsAlike, Zenon DEF StreamAlike
  <2> QED BY <2>1, Zenon DEF Stream!ConnectionCloses, ConnectionCloses
<1> QED BY <1>1, ClosesKeeps

(***************************************************************************)
(* RequestStream: every step.                                              *)
(***************************************************************************)
LEMMA StreamNext ==
    ASSUME IInv, kind = "stream", kind' = kind, Stream!Next
    PROVE  IInv'
<1>1. Stream!Roles = Roles
  BY DEF Stream!Roles, Roles
<1>2. \/ \E n \in RequestSizes : Stream!ConsumerRequests(n)
      \/ Stream!ConsumerCancels
      \/ Stream!ProducerSubscribes \/ Stream!ProducerEmits
      \/ Stream!ProducerCompletes \/ Stream!ProducerFails
      \/ Stream!RequesterReceives
      \/ Stream!ResponderReceives
      \/ \E role \in Roles : Stream!ConnectionCloses(role)
  BY <1>1, Zenon DEF Stream!Next
<1> QED BY <1>2, StreamRequests, StreamCancels, StreamProduces, StreamRequesterReceives,
           StreamResponderReceives, StreamCloses

-----------------------------------------------------------------------------
(* RequestResponse.                                                        *)

(***************************************************************************)
(* request(n): the first one is the request, any other ends the stream.    *)
(***************************************************************************)
LEMMA ResponseRequests ==
    ASSUME IInv, kind = "response", kind' = kind, NEW n \in RequestSizes,
           Response!ConsumerRequests(n)
    PROVE  IInv'
<1>1. "requester" \in Roles
  BY DEF Roles
<1>2. PICK x : x = automaton["requester"]
  OBVIOUS
<1>3. /\ Local("response", "requester", x) /\ x \in AutomatonSet /\ x.out = << >>
      /\ x.state # "NONE" /\ (x.state # "CLOSED" => x.open)
      /\ x.state \in {"NEW", "REQUESTED", "CLOSED"}
  BY <1>1, <1>2, AtEnd DEF StatesOf
<1>4. CASE n = 0
  <2>1. Response!Step("requester", x)
    BY <1>2, <1>4, Zenon DEF Response!ConsumerRequests, Response!Request, Response!requester
  <2>2. Step("requester", x)
    BY <1>1, <2>1, ResponseSteps
  <2>3. Effect("response", "requester", x, x, Len(x.received), x.granted, "part")
    BY <1>1, <1>3, NoEffect
  <2> QED BY <1>1, <1>2, <1>3, <2>2, <2>3, StepKeeps
<1>5. CASE n # 0
  <2>1. PICK u : u = [x EXCEPT !.requests = @ + 1]
    OBVIOUS
  <2>2. PICK y : y = Response!Request(u, n)
    OBVIOUS
  <2>3. Response!Step("requester", y)
    BY <1>2, <1>5, <2>1, <2>2, Zenon DEF Response!ConsumerRequests, Response!requester
  <2>4. Step("requester", y)
    BY <1>1, <2>3, ResponseSteps
  <2>5. u.state = x.state
    BY <1>3, <2>1 DEF AutomatonSet
  <2>6. CASE x.state = "NEW"
    <3>1. y = Output([u EXCEPT !.state = "REQUESTED"], Frame("REQUEST_RESPONSE", 1))
      <4>1. /\ \A t, m : Response!Frame(t, m) = Frame(t, m)
            /\ \A b, g : Response!Output(b, g) = Output(b, g)
        BY ResponseIsAlike, Zenon DEF ResponseAlike
      <4> QED BY <1>5, <2>2, <2>5, <2>6, <4>1, Zenon DEF Response!Request
    <3>2. Effect("response", "requester", x, y, Len(x.received), x.granted, "part")
      BY <1>3, <2>1, <2>6, <3>1, ResponseRequestEffect
    <3> QED BY <1>1, <1>2, <1>3, <2>4, <3>2, StepKeeps
  <2>7. CASE x.state # "NEW"
    <3>1. y = CloseStream(Notify(u, "onError"), "ERROR")
      <4>1. /\ \A b, s : Response!Notify(b, s) = Notify(b, s)
            /\ \A b, s : Response!CloseStream(b, s) = CloseStream(b, s)
        BY ResponseIsAlike, Zenon DEF ResponseAlike
      <4> QED BY <1>5, <2>2, <2>5, <2>7, <4>1, Zenon DEF Response!Request
    <3>2. PICK k \in {"response"} : k = "response"
      OBVIOUS
    <3>3. x.state = "REQUESTED" \/ x.state = "CLOSED"
      BY <1>3, <2>7
    <3>4. Effect(k, "requester", x, y, Len(x.received), x.granted, "part")
      BY <1>3, <2>1, <3>1, <3>2, <3>3, AgainEffect
    <3> QED BY <1>1, <1>2, <1>3, <2>4, <3>2, <3>4, StepKeeps
  <2> QED BY <2>6, <2>7
<1> QED BY <1>4, <1>5

(* cancel at a RequestResponseRequester preserves the invariant.           *)
LEMMA ResponseCancels ==
    ASSUME IInv, kind = "response", kind' = kind, Response!ConsumerCancels
    PROVE  IInv'
<1>1. "requester" \in Roles
  BY DEF Roles
<1>2. PICK x : x = automaton["requester"]
  OBVIOUS
<1>3. PICK y : y = RequesterCancel([x EXCEPT !.gaveUp = TRUE])
  OBVIOUS
<1>4. x.open /\ Response!Step("requester", y)
  <2>1. \A b : Response!RequesterCancel(b) = RequesterCancel(b)
    BY ResponseIsAlike, Zenon DEF ResponseAlike
  <2> QED BY <1>2, <1>3, <2>1, Zenon DEF Response!ConsumerCancels, Response!requester
<1>5. /\ Local(kind, "requester", x) /\ x.out = << >> /\ kind \in Kinds
      /\ x.state # "NONE"
  BY <1>1, <1>2, AtEnd DEF StatesOf
<1>6. PICK k \in Kinds : k = kind
  BY <1>5
<1>7. Effect(k, "requester", x, y, Len(x.received), x.granted, "part")
  BY <1>3, <1>4, <1>5, <1>6, RequesterCancelEffect
<1>8. Step("requester", y)
  BY <1>1, <1>4, ResponseSteps
<1> QED BY <1>1, <1>2, <1>5, <1>6, <1>7, <1>8, StepKeeps

(* The signals of a RequestResponseResponder's producer preserve the       *)
(* invariant.                                                              *)
LEMMA ResponseProduces ==
    ASSUME IInv, kind = "response", kind' = kind,
           Response!ProducerSubscribes \/ Response!ProducerEmits
           \/ Response!ProducerCompletes \/ Response!ProducerFails
    PROVE  IInv'
<1>1. "responder" \in Roles
  BY DEF Roles
<1>2. PICK x : x = automaton["responder"]
  OBVIOUS
<1>3. Local("response", "responder", x) /\ x \in AutomatonSet /\ x.out = << >>
  BY <1>1, <1>2, AtEnd
<1>4. CASE Response!ProducerSubscribes
  <2>1. PICK y : y = ResponderOnSubscribe(x)
    OBVIOUS
  <2>2. x.state # "NONE" /\ ~x.subscribed /\ Response!Step("responder", y)
    <3>1. \A b : Response!ResponderOnSubscribe(b) = ResponderOnSubscribe(b)
      BY ResponseIsAlike, Zenon DEF ResponseAlike
    <3> QED BY <1>2, <1>4, <2>1, <3>1, Zenon DEF Response!ProducerSubscribes, Response!responder
  <2>3. Step("responder", y)
    BY <1>1, <2>2, ResponseSteps
  <2> QED BY <1>2, <2>1, <2>2, <2>3, ResponderSubscribes
<1>5. ASSUME x.subscribed, ~x.cancelled
      PROVE  x.subscription /\ x.state = "RESPONDING" /\ x.state # "NEW" /\ Check(x, x.subscription) = x
  <2>1. x.subscription /\ x.state # "NONE" /\ x.state # "CLOSED"
    BY <1>1, <1>3, <1>5, MaySignalOpen
  <2>2. x.state = "RESPONDING"
    BY <1>1, <1>2, <2>1, AtEnd DEF StatesOf
  <2>3. Check(x, x.subscription) = x
    BY <1>3, <2>1, CheckHolds
  <2> QED BY <2>1, <2>2, <2>3
<1>6. CASE Response!ProducerEmits
  <2>1. PICK y : y = Response!OnNext(x)
    OBVIOUS
  <2>2. x.subscribed /\ ~x.cancelled /\ x.credit > 0 /\ Response!Step("responder", y)
    BY <1>2, <1>6, <2>1, Zenon DEF Response!ProducerEmits, Response!responder,
                                   Response!MaySignal
  <2>3. Effect("response", "responder", x, y, Len(x.received), x.granted, "part")
    BY <1>3, <2>1, <2>2, ResponseOnNextEffect
  <2>4. Step("responder", y) /\ x.state # "NONE"
    BY <1>1, <1>5, <2>2, ResponseSteps
  <2> QED BY <1>1, <1>2, <2>3, <2>4, StepKeeps
<1>7. CASE Response!ProducerCompletes
  <2>1. PICK y : y = ResponderOnComplete(x)
    OBVIOUS
  <2>2. x.subscribed /\ ~x.cancelled /\ Response!Step("responder", y)
    <3>1. \A b : Response!ResponderOnComplete(b) = ResponderOnComplete(b)
      BY ResponseIsAlike, Zenon DEF ResponseAlike
    <3> QED BY <1>2, <1>7, <2>1, <3>1, Zenon DEF Response!ProducerCompletes, Response!responder, Response!MaySignal
  <2>3. Step("responder", y)
    BY <1>1, <2>2, ResponseSteps
  <2> QED BY <1>2, <2>1, <2>2, <2>3, ResponderCompletes
<1>8. CASE Response!ProducerFails
  <2>1. PICK z : z = [x EXCEPT !.done = TRUE]
    OBVIOUS
  <2>2. PICK y : y = ApplicationError([z EXCEPT !.state = "CLOSED"])
    OBVIOUS
  <2>3. x.subscribed /\ ~x.cancelled /\ Response!Step("responder", Response!OnError(x))
    BY <1>2, <1>8, Zenon DEF Response!ProducerFails, Response!responder, Response!MaySignal
  <2>4. Response!OnError(x) = y
    <3>1. \A b : Response!ApplicationError(b) = ApplicationError(b)
      BY ResponseIsAlike, Zenon DEF ResponseAlike
    <3>2. Response!Check(x, x.subscription) = x
      BY <1>5, <2>3, Zenon DEF Response!Check, Check
    <3> QED BY <1>5, <2>1, <2>2, <2>3, <3>1, <3>2, Zenon DEF Response!OnError
  <2>5. Step("responder", y)
    BY <1>1, <2>3, <2>4, ResponseSteps
  <2> QED BY <1>2, <2>1, <2>2, <2>3, <2>5, ResponderFails
<1> QED BY <1>4, <1>6, <1>7, <1>8

(* A frame for a RequestResponseRequester, which may request again in      *)
(* onNext.                                                                 *)
LEMMA ResponseRequesterReceives ==
    ASSUME IInv, kind = "response", kind' = kind, NEW again \in BOOLEAN,
           Response!RequesterReceives(again)
    PROVE  IInv'
<1>1. "requester" \in Roles
  BY DEF Roles
<1>2. PICK x : x = automaton["requester"]
  OBVIOUS
<1>3. PICK f : f = Arriving("requester")
  OBVIOUS
<1>4. PICK y : y = Response!RequesterHandleFrame(x, f, again)
  OBVIOUS
<1>5. Arrives("requester") /\ ReceiveStep("requester", y)
  <2>1. Response!Arriving("requester") = f
    BY <1>1, <1>3, ResponseSteps
  <2>2. Response!Arrives("requester") /\ Response!ReceiveStep("requester", y)
    BY <1>2, <1>4, <2>1, Zenon DEF Response!RequesterReceives, Response!requester
  <2> QED BY <1>1, <2>2, ResponseSteps
<1>6. CASE ~x.open
  <2>1. x.state = "CLOSED"
    BY <1>1, <1>2, <1>6, AtEnd DEF StatesOf
  <2>2. y = x
    BY <1>4, <1>6, Zenon DEF Response!RequesterHandleFrame
  <2> QED BY <1>1, <1>2, <1>5, <2>1, <2>2, DropKeeps
<1>7. CASE x.open
  <2>1. Local("response", "requester", x) /\ x.out = << >> /\ x.state # "CLOSED"
    BY <1>1, <1>2, <1>7, AtEnd
  <2>2. /\ x.state = "REQUESTED" /\ f.type \in {"PAYLOAD", "COMPLETE", "ERROR"}
        /\ f.type = "PAYLOAD" => f.n = Len(x.received) + 1
    BY <1>1, <1>2, <1>3, <1>5, <2>1, ArrivalFits DEF Arrival, ToRequester
  <2>3. PICK r, g, whole : /\ r = TakesP(f, Len(x.received)) /\ g = TakesC(f, x.granted)
                           /\ whole = Ending("response", f)
    OBVIOUS
  <2>4. CASE f.type = "ERROR"
    <3>1. y = RequesterHandleError(x)
      <4>1. \A b : Response!RequesterHandleError(b) = RequesterHandleError(b)
        BY ResponseIsAlike, Zenon DEF ResponseAlike
      <4>2. Response!RequesterHandleFrame(x, f, again) = Response!RequesterHandleError(x)
        BY <1>7, <2>4, Zenon DEF Response!RequesterHandleFrame
      <4> QED BY <1>4, <4>1, <4>2, Zenon
    <3>2. r = Len(x.received) /\ g = x.granted
      BY <2>3, <2>4, Takes
    <3>3. PICK k \in Kinds : k = "response"
      BY DEF Kinds
    <3>4. Effect(k, "requester", x, y, Len(x.received), x.granted, whole)
      BY <2>1, <2>2, <3>1, <3>3, RequesterHandleErrorEffect
    <3> QED BY <1>1, <1>2, <1>3, <1>5, <2>1, <2>3, <3>2, <3>3, <3>4, ReceiveKeeps
  <2>5. CASE f.type # "ERROR"
    <3>1. y = Response!HandlePayload(x, f, again)
      BY <1>4, <1>7, <2>5, Zenon DEF Response!RequesterHandleFrame
    <3>2. f.type \in {"PAYLOAD", "COMPLETE"}
      BY <2>2, <2>5
    <3>3. Effect("response", "requester", x, y, r, g, whole)
      BY <2>1, <2>2, <2>3, <3>1, <3>2, HandlePayloadEffect
    <3> QED BY <1>1, <1>2, <1>3, <1>5, <2>1, <2>3, <3>3, ReceiveKeeps
  <2> QED BY <2>4, <2>5
<1> QED BY <1>6, <1>7

(* A frame for a RequestResponseResponder.                                 *)
LEMMA ResponseResponderReceives ==
    ASSUME IInv, kind = "response", kind' = kind, Response!ResponderReceives
    PROVE  IInv'
<1>1. "responder" \in Roles
  BY DEF Roles
<1>2. PICK x : x = automaton["responder"]
  OBVIOUS
<1>3. PICK f : f = Arriving("responder")
  OBVIOUS
<1>4. PICK y : y = Response!ResponderHandleFrame(x, f)
  OBVIOUS
<1>5. Arrives("responder") /\ ReceiveStep("responder", y)
  <2>1. Response!Arriving("responder") = f
    BY <1>1, <1>3, ResponseSteps
  <2>2. Response!Arrives("responder") /\ Response!ReceiveStep("responder", y)
    BY <1>2, <1>4, <2>1, Zenon DEF Response!ResponderReceives, Response!responder
  <2> QED BY <1>1, <2>2, ResponseSteps
<1>6. x.state = "NONE" \/ x.state = "CLOSED" => ~x.open
  BY <1>1, <1>2, AtEnd
<1>7. CASE x.state = "NONE"
  <2>1. y = NewResponder(x, f.n)
    <3>1. \A b, n : Response!NewResponder(b, n) = NewResponder(b, n)
      BY ResponseIsAlike, Zenon DEF ResponseAlike
    <3>2. Response!ResponderHandleFrame(x, f) = Response!NewResponder(x, f.n)
      BY <1>6, <1>7 DEF Response!ResponderHandleFrame
    <3> QED BY <1>4, <3>1, <3>2, Zenon
  <2>2. TRUE \in BOOLEAN /\ kind # "channel"
    OBVIOUS
  <2> QED BY <1>2, <1>3, <1>5, <1>7, <2>1, <2>2, ResponderOpens
<1>8. CASE x.state = "CLOSED"
  <2>1. y = x
    BY <1>4, <1>6, <1>8 DEF Response!ResponderHandleFrame
  <2> QED BY <1>1, <1>2, <1>5, <1>8, <2>1, DropKeeps
<1>9. CASE x.state # "NONE" /\ x.state # "CLOSED"
  <2>1. x.open /\ x.state = "RESPONDING"
    BY <1>1, <1>2, <1>9, AtEnd DEF StatesOf
  <2>2. f.type \in {"CANCEL"}
    BY <1>1, <1>2, <1>3, <1>5, <1>9, ArrivalFits DEF Arrival, ToResponder
  <2>3. y = CloseStream([x EXCEPT !.state = "CLOSED"], f.type)
    <3>1. \A b : Response!ResponderHandleCancel(b) = ResponderHandleCancel(b)
      BY ResponseIsAlike, Zenon DEF ResponseAlike
    <3>2. Response!ResponderHandleFrame(x, f) = Response!ResponderHandleCancel(x)
      BY <1>9, <2>1, <2>2 DEF Response!ResponderHandleFrame
    <3>3. ResponderHandleCancel(x) = CloseStream([x EXCEPT !.state = "CLOSED"], "CANCEL")
      BY <2>1 DEF ResponderHandleCancel
    <3>4. f.type = "CANCEL"
      BY <2>2
    <3> QED BY <1>4, <3>1, <3>2, <3>3, <3>4, Zenon
  <2>4. f.type \in {"COMPLETE", "CANCEL"}
    BY <2>2
  <2> QED BY <1>2, <1>3, <1>5, <2>1, <2>3, <2>4, ResponderTakes
<1> QED BY <1>7, <1>8, <1>9

(* The connection of either end of a request for one response closes.      *)
LEMMA ResponseCloses ==
    ASSUME IInv, kind = "response", kind' = kind, NEW role \in Roles,
           Response!ConnectionCloses(role)
    PROVE  IInv'
<1>1. ConnectionCloses(role)
  <2>1. \A b, s : Response!CloseStream(b, s) = CloseStream(b, s)
    BY ResponseIsAlike, Zenon DEF ResponseAlike
  <2> QED BY <2>1, Zenon DEF Response!ConnectionCloses, ConnectionCloses
<1> QED BY <1>1, ClosesKeeps

(***************************************************************************)
(* RequestResponse: every step.                                              *)
(***************************************************************************)
LEMMA ResponseNext ==
    ASSUME IInv, kind = "response", kind' = kind, Response!Next
    PROVE  IInv'
<1>1. Response!Roles = Roles
  BY DEF Response!Roles, Roles
<1>2. \/ \E n \in RequestSizes : Response!ConsumerRequests(n)
      \/ Response!ConsumerCancels
      \/ Response!ProducerSubscribes \/ Response!ProducerEmits
      \/ Response!ProducerCompletes \/ Response!ProducerFails
      \/ \E again \in BOOLEAN : Response!RequesterReceives(again)
      \/ Response!ResponderReceives
      \/ \E role \in Roles : Response!ConnectionCloses(role)
  BY <1>1, Zenon DEF Response!Next
<1> QED BY <1>2, ResponseRequests, ResponseCancels, ResponseProduces, ResponseRequesterReceives,
           ResponseResponderReceives, ResponseCloses

-----------------------------------------------------------------------------
(* RequestChannel.                                                         *)

(* request(n) at either end of a channel: collected before the request,    *)
(* sent after it.                                                          *)
LEMMA ChannelRequests ==
    ASSUME IInv, kind = "channel", kind' = kind, NEW role \in Roles,
           NEW n \in RequestSizes \ {0}, Channel!ConsumerRequests(role, n)
    PROVE  IInv'
<1>1. PICK x : x = automaton[role]
  OBVIOUS
<1>2. PICK u : u = [x EXCEPT !.requests = @ + 1]
  OBVIOUS
<1>3. PICK k \in {"stream", "channel"} : k = kind /\ k = "channel"
  OBVIOUS
<1>4. /\ Local(k, role, x) /\ x \in AutomatonSet /\ x.out = << >>
      /\ x.state \in StatesOf(role) /\ (x.state = "NONE" \/ x.state = "CLOSED" => ~x.open)
  BY <1>1, <1>3, AtEnd
<1>5. u.state = x.state /\ u.requests = x.requests + 1
  BY <1>2, <1>4 DEF AutomatonSet
<1>6. u.open = x.open
  BY <1>2, <1>4, Zenon DEF AutomatonSet
<1>7. PICK y : y = IF role = "requester" THEN Channel!RequesterRequest(u, n)
                                         ELSE Channel!ResponderRequest(u, n)
  OBVIOUS
<1>8. u.open /\ u.requests <= MaxChannelRequests /\ Channel!Step(role, y)
  BY <1>1, <1>2, <1>7, Zenon DEF Channel!ConsumerRequests
<1>9. x.open /\ x.state # "CLOSED" /\ x.state # "NONE"
  <2>1. x.open
    BY <1>6, <1>8, Zenon
  <2> QED BY <1>4, <2>1
<1>10. x.requests + 1 <= MaxChannelRequests /\ x.requests + 1 <= MaxRequestsOf(k)
  BY <1>3, <1>5, <1>8 DEF MaxRequestsOf
<1>11. Balanced(x) /\ Step(role, y)
  BY <1>1, <1>3, <1>8, <1>9, Afforded, ChannelSteps
<1>12. \A b, m : Channel!GenerateRequest(b, m) = GenerateRequest(b, m)
  BY ChannelIsAlike, Zenon DEF ChannelAlike
<1>13. Effect(k, role, x, y, Len(x.received), x.granted, "part")
  <2>1. CASE role = "requester" /\ x.state = "NEW"
    <3>1. y = [u EXCEPT !.initialResponseAllowance = Release(@, n)]
      <4>1. \A v, m : Channel!Release(v, m) = Release(v, m)
        BY ChannelIsAlike, Zenon DEF ChannelAlike
      <4> QED BY <1>5, <1>7, <2>1, <4>1, Zenon DEF Channel!RequesterRequest
    <3>2. Local("channel", "requester", x)
      BY <1>3, <1>4, <2>1
    <3>3. Effect("channel", "requester", x, y, Len(x.received), x.granted, "part")
      BY <1>2, <1>4, <1>9, <1>10, <1>11, <2>1, <3>1, <3>2, CollectEffect
    <3> QED BY <1>3, <2>1, <3>3
  <2>2. CASE x.state # "NEW"
    <3>1. y = GenerateRequest(u, n)
      <4>1. CASE role = "requester"
        <5>1. x.state = "REQUESTED"
          BY <1>4, <1>9, <2>2, <4>1 DEF StatesOf
        <5> QED BY <1>5, <1>7, <1>12, <2>2, <4>1, <5>1, Zenon DEF Channel!RequesterRequest
      <4>2. CASE role # "requester"
        <5>1. x.state = "RESPONDING"
          BY <1>4, <1>9, <4>2 DEF StatesOf
        <5> QED BY <1>5, <1>7, <1>12, <4>2, <5>1, Zenon DEF Channel!ResponderRequest
      <4> QED BY <4>1, <4>2
    <3>2. Effect(k, role, x, GenerateRequest(u, n), Len(x.received), x.granted, "part")
      BY <1>2, <1>3, <1>4, <1>9, <1>10, <1>11, <2>2, GenerateRequestEffect
    <3> QED BY <3>1, <3>2
  <2>3. role = "requester" \/ x.state # "NEW"
    BY <1>4 DEF StatesOf
  <2> QED BY <2>1, <2>2, <2>3
<1> QED BY <1>1, <1>3, <1>9, <1>11, <1>13, StepKeeps

(* cancel at either end of a channel.                                      *)
LEMMA ChannelCancels ==
    ASSUME IInv, kind = "channel", kind' = kind, NEW role \in Roles,
           Channel!ConsumerCancels(role)
    PROVE  IInv'
<1>1. PICK x : x = automaton[role]
  OBVIOUS
<1>2. PICK u : u = [x EXCEPT !.gaveUp = TRUE]
  OBVIOUS
<1>3. PICK k \in Kinds : k = kind /\ k = "channel"
  BY DEF Kinds
<1>4. /\ Local(k, role, x) /\ x \in AutomatonSet /\ x.out = << >>
      /\ x.state # "NONE" /\ x.state # "CLOSED" => x.open
  BY <1>1, <1>3, AtEnd
<1>5. u.state = x.state
  BY <1>2, <1>4 DEF AutomatonSet
<1>6. PICK y : y = IF role = "requester" THEN RequesterCancel(u)
                                         ELSE Channel!ResponderCancel(u)
  OBVIOUS
<1>7. u.state \notin {"NONE", "CLOSED"} /\ Channel!MayEnd(role) /\ Channel!Step(role, y)
  <2>1. \A b : Channel!RequesterCancel(b) = RequesterCancel(b)
    BY ChannelIsAlike, Zenon DEF ChannelAlike
  <2> QED BY <1>1, <1>2, <1>6, <2>1, Zenon DEF Channel!ConsumerCancels
<1>8. x.open /\ x.state # "NONE"
  BY <1>4, <1>5, <1>7
<1>9. Step(role, y)
  BY <1>7, ChannelSteps
<1>10. Effect(k, role, x, y, Len(x.received), x.granted, "part")
  <2>1. CASE role = "requester"
    <3>1. Tame => x.subscribed
      BY <1>1, <1>7, <2>1 DEF Channel!MayEnd, Tame
    <3>2. y = RequesterCancel([x EXCEPT !.gaveUp = TRUE])
      BY <1>2, <1>6, <2>1
    <3>3. Effect(k, "requester", x, RequesterCancel([x EXCEPT !.gaveUp = TRUE]),
                 Len(x.received), x.granted, "part")
      BY <1>4, <1>8, <2>1, <3>1, RequesterCancelEffect
    <3> QED BY <2>1, <3>2, <3>3
  <2>2. CASE role # "requester"
    <3>1. role = "responder" /\ y = Channel!ResponderCancel(u)
      BY <1>6, <2>2 DEF Roles
    <3>2. Local("channel", "responder", x)
      BY <1>3, <1>4, <3>1
    <3>3. Effect("channel", "responder", x, Channel!ResponderCancel(u),
                 Len(x.received), x.granted, "part")
      BY <1>2, <1>4, <1>8, <3>2, ResponderCancelEffect
    <3> QED BY <1>3, <3>1, <3>3
  <2> QED BY <2>1, <2>2
<1> QED BY <1>1, <1>3, <1>8, <1>9, <1>10, StepKeeps

(* onSubscribe at either end of a channel.                                 *)
LEMMA ChannelSubscribes ==
    ASSUME IInv, kind = "channel", kind' = kind, NEW role \in Roles,
           Channel!ProducerSubscribes(role)
    PROVE  IInv'
<1>1. PICK x : x = automaton[role]
  OBVIOUS
<1>2. Local("channel", role, x) /\ x.out = << >>
  BY <1>1, AtEnd
<1>3. PICK y : y = IF role = "requester" THEN Channel!RequesterOnSubscribe(x)
                                         ELSE ResponderOnSubscribe(x)
  OBVIOUS
<1>4. x.state # "NONE" /\ ~x.subscribed /\ Channel!Step(role, y)
  <2>1. \A b : Channel!ResponderOnSubscribe(b) = ResponderOnSubscribe(b)
    BY ChannelIsAlike, Zenon DEF ChannelAlike
  <2> QED BY <1>1, <1>3, <2>1, Zenon DEF Channel!ProducerSubscribes
<1>5. Step(role, y)
  BY <1>4, ChannelSteps
<1>6. CASE role = "requester"
  <2>1. Effect("channel", "requester", x, Channel!RequesterOnSubscribe(x),
               Len(x.received), x.granted, "part")
    BY <1>2, <1>4, <1>6, RequesterOnSubscribeEffect
  <2> QED BY <1>1, <1>3, <1>4, <1>5, <1>6, <2>1, StepKeeps
<1>7. CASE role # "requester"
  <2>1. role = "responder" /\ y = ResponderOnSubscribe(x)
    BY <1>3, <1>7 DEF Roles
  <2> QED BY <1>1, <1>4, <1>5, <2>1, ResponderSubscribes
<1> QED BY <1>6, <1>7

(* onNext at either end of a channel; the requester's first one is the     *)
(* request.                                                                *)
LEMMA ChannelEmits ==
    ASSUME IInv, kind = "channel", kind' = kind, NEW role \in Roles,
           Channel!ProducerEmits(role)
    PROVE  IInv'
<1>1. PICK x : x = automaton[role]
  OBVIOUS
<1>2. PICK u : u = [x EXCEPT !.credit = @ - 1]
  OBVIOUS
<1>3. /\ Local("channel", role, x) /\ x \in AutomatonSet /\ x.out = << >>
      /\ x.state \in StatesOf(role)
  BY <1>1, AtEnd
<1>4. PICK y : y = IF role = "requester" THEN Channel!RequesterOnNext(u)
                                         ELSE Channel!ResponderOnNext(u)
  OBVIOUS
<1>5. u.subscribed /\ ~u.cancelled /\ u.credit >= 0 /\ Channel!Step(role, y)
  BY <1>1, <1>2, <1>4, Zenon DEF Channel!ProducerEmits, Channel!MaySignal
<1>6. Step(role, y)
  BY <1>5, ChannelSteps
<1>7. x.subscribed /\ ~x.cancelled
  <2>1. u.subscribed = x.subscribed /\ u.cancelled = x.cancelled
    BY <1>2, <1>3, Zenon DEF AutomatonSet
  <2> QED BY <1>5, <2>1, Zenon
<1>8. x.credit >= 1
  <2>1. x.credit \in Nat /\ u.credit = x.credit - 1
    BY <1>2, <1>3 DEF AutomatonSet
  <2> QED BY <1>5, <2>1
<1>9. x.subscription /\ x.open /\ x.state # "NONE" /\ x.state # "CLOSED"
  BY <1>3, <1>7, MaySignalOpen
<1>10. CASE x.state = "NEW"
  <2>1. role = "requester"
    BY <1>3, <1>10 DEF StatesOf
  <2>2. y = Channel!FirstOnNext(u)
    <3>1. u.state = "NEW"
      BY <1>2, <1>3, <1>10 DEF AutomatonSet
    <3> QED BY <1>4, <2>1, <3>1, Zenon DEF Channel!RequesterOnNext
  <2>3. Local("channel", "requester", x) /\ Balanced(x)
    BY <1>1, <1>3, <1>9, <2>1, Afforded
  <2>4. Effect("channel", "requester", x, Channel!FirstOnNext(u),
               Len(x.received), x.granted, "part")
    BY <1>2, <1>3, <1>7, <1>8, <1>9, <1>10, <2>3, FirstOnNextEffect
  <2> QED BY <1>1, <1>6, <1>9, <2>1, <2>2, <2>4, StepKeeps
<1>11. CASE x.state # "NEW"
  <2>1. PICK f : f = Frame("PAYLOAD", x.emitted + 1)
    OBVIOUS
  <2>2. /\ Emitted(x, Output([u EXCEPT !.emitted = @ + 1], f), f)
        /\ u \in AutomatonSet /\ u.emitted = x.emitted /\ u.subscription = x.subscription
        /\ u.state = x.state
    BY <1>2, <1>3, <1>8, <2>1, Emits
  <2>3. Channel!Check(u, u.subscription) = u
    <3>1. u.subscription
      BY <1>9, <2>2, Zenon
    <3>2. Check(u, u.subscription) = u
      BY <2>2, <3>1, CheckHolds
    <3> QED BY <3>2, Zenon DEF Channel!Check, Check
  <2>4. Channel!WritePayload(u) = Output([u EXCEPT !.emitted = @ + 1], f)
    <3>1. /\ \A t, m : Channel!Frame(t, m) = Frame(t, m)
          /\ \A b, g : Channel!Output(b, g) = Output(b, g)
      BY ChannelIsAlike, Zenon DEF ChannelAlike
    <3> QED BY <2>1, <2>2, <3>1, Zenon DEF Channel!WritePayload
  <2>5. y = Channel!WritePayload(u)
    <3>1. CASE role = "requester"
      <4>1. x.state = "REQUESTED"
        BY <1>3, <1>9, <1>11, <3>1 DEF StatesOf
      <4> QED BY <1>4, <1>11, <2>2, <2>3, <3>1, <4>1, Zenon DEF Channel!RequesterOnNext
    <3>2. CASE role # "requester"
      <4>1. x.state = "RESPONDING"
        BY <1>3, <1>9, <3>2 DEF StatesOf
      <4> QED BY <1>4, <2>2, <2>3, <3>2, <4>1, Zenon DEF Channel!ResponderOnNext
    <3> QED BY <3>1, <3>2
  <2>6. Emitted(x, y, Frame("PAYLOAD", x.emitted + 1))
    BY <2>1, <2>2, <2>4, <2>5, Zenon
  <2>7. kind \in {"stream", "channel"}
    OBVIOUS
  <2> HIDE <1>2, <1>4, <2>2, <2>4, <2>5
  <2> QED BY <1>1, <1>6, <1>7, <1>8, <1>11, <2>6, <2>7, Emitting
<1> QED BY <1>10, <1>11

(* onComplete and onError at either end of a channel.                      *)
LEMMA ChannelEnds ==
    ASSUME IInv, kind = "channel", kind' = kind, NEW role \in Roles,
           Channel!ProducerCompletes(role) \/ Channel!ProducerFails(role)
    PROVE  IInv'
<1>1. PICK x : x = automaton[role]
  OBVIOUS
<1>2. PICK z : z = [x EXCEPT !.done = TRUE]
  OBVIOUS
<1>3. /\ Local("channel", role, x) /\ x \in AutomatonSet /\ x.out = << >>
      /\ x.state \in StatesOf(role)
  BY <1>1, AtEnd
<1>4. x.subscribed /\ ~x.cancelled
  BY <1>1, Zenon DEF Channel!ProducerCompletes, Channel!ProducerFails, Channel!MaySignal
<1>5. x.state # "NONE" /\ x.state # "CLOSED" /\ z.state = x.state
  <2>1. x.state # "NONE" /\ x.state # "CLOSED"
    BY <1>3, <1>4, MaySignalOpen
  <2> QED BY <1>2, <1>3, <2>1 DEF AutomatonSet
<1>6. CASE role = "requester"
  <2>1. PICK y : /\ y = Channel!RequesterOnComplete(z) \/ y = Channel!RequesterOnError(z)
                 /\ Channel!Step(role, y)
    BY <1>1, <1>2, <1>6, Zenon DEF Channel!ProducerCompletes, Channel!ProducerFails
  <2>2. Local("channel", "requester", x)
    BY <1>3, <1>6
  <2>3. Effect("channel", "requester", x, y, Len(x.received), x.granted, "part")
    BY <1>2, <1>3, <1>4, <2>1, <2>2, RequesterDoneEffect
  <2>4. Step(role, y)
    BY <2>1, ChannelSteps
  <2> QED BY <1>1, <1>5, <1>6, <2>3, <2>4, StepKeeps
<1>7. CASE role # "requester"
  <2>1. role = "responder" /\ x.state = "RESPONDING"
    BY <1>3, <1>5, <1>7 DEF Roles, StatesOf
  <2>2. PICK y : /\ \/ y = Channel!ResponderOnComplete(z)
                    \/ y = Channel!ResponderOnError(z)
                 /\ Channel!Step(role, y)
    BY <1>1, <1>2, <1>7, Zenon DEF Channel!ProducerCompletes, Channel!ProducerFails
  <2>3. Step("responder", y)
    BY <2>1, <2>2, ChannelSteps
  <2>4. CASE y = Channel!ResponderOnComplete(z)
    <3>1. y = ResponderOnComplete(z)
      <4>1. \A b : Channel!ResponderOnComplete(b) = ResponderOnComplete(b)
        BY ChannelIsAlike, Zenon DEF ChannelAlike
      <4> QED BY <2>4, <4>1, Zenon
    <3> QED BY <1>1, <1>2, <1>4, <2>1, <2>3, <3>1, ResponderCompletes
  <2>5. CASE y = Channel!ResponderOnError(z)
    <3>1. y = ApplicationError([z EXCEPT !.state = "CLOSED"])
      <4>1. \A b : Channel!ApplicationError(b) = ApplicationError(b)
        BY ChannelIsAlike, Zenon DEF ChannelAlike
      <4> QED BY <1>5, <2>1, <2>5, <4>1, Zenon DEF Channel!ResponderOnError
    <3> QED BY <1>1, <1>2, <1>4, <2>1, <2>3, <3>1, ResponderFails
  <2> QED BY <2>2, <2>4, <2>5
<1> QED BY <1>6, <1>7

(* A frame for a ChannelRequester.                                         *)
LEMMA ChannelRequesterReceives ==
    ASSUME IInv, kind = "channel", kind' = kind, Channel!RequesterReceives
    PROVE  IInv'
<1>1. "requester" \in Roles
  BY DEF Roles
<1>2. PICK x : x = automaton["requester"]
  OBVIOUS
<1>3. PICK f : f = Arriving("requester")
  OBVIOUS
<1>4. PICK y : y = Channel!RequesterHandleFrame(x, f)
  OBVIOUS
<1>5. Arrives("requester") /\ ReceiveStep("requester", y)
  <2>1. Channel!Arriving("requester") = f
    BY <1>1, <1>3, ChannelSteps
  <2>2. Channel!Arrives("requester") /\ Channel!ReceiveStep("requester", y)
    BY <1>2, <1>4, <2>1, Zenon DEF Channel!RequesterReceives
  <2> QED BY <1>1, <2>2, ChannelSteps
<1>6. CASE ~x.open
  <2>1. x.state = "CLOSED"
    BY <1>1, <1>2, <1>6, AtEnd DEF StatesOf
  <2>2. y = x
    BY <1>4, <1>6, Zenon DEF Channel!RequesterHandleFrame
  <2> QED BY <1>1, <1>2, <1>5, <2>1, <2>2, DropKeeps
<1>7. CASE x.open
  <2>1. x.state # "CLOSED"
    BY <1>1, <1>2, <1>7, AtEnd
  <2>2. f.type \in {"PAYLOAD", "COMPLETE", "ERROR", "REQUEST_N"}
    BY <1>1, <1>2, <1>3, <1>5, <2>1, ArrivalFits DEF Arrival, ToRequester
  <2>3. /\ f.type = "PAYLOAD" => y = RequesterHandleNext(x, f.n)
        /\ f.type = "COMPLETE" => y = RequesterHandleComplete(x)
        /\ f.type = "ERROR" => y = RequesterHandleError(x)
        /\ f.type = "REQUEST_N" => y = ProcessRequestN(x, f.n)
    <3>1. /\ \A b, n : Channel!RequesterHandleNext(b, n) = RequesterHandleNext(b, n)
          /\ \A b : Channel!RequesterHandleComplete(b) = RequesterHandleComplete(b)
          /\ \A b : Channel!RequesterHandleError(b) = RequesterHandleError(b)
          /\ \A b, n : Channel!ProcessRequestN(b, n) = ProcessRequestN(b, n)
      BY ChannelIsAlike, Zenon DEF ChannelAlike
    <3>2. LET z == Channel!RequesterHandleFrame(x, f)
          IN  /\ f.type = "PAYLOAD" => z = Channel!RequesterHandleNext(x, f.n)
              /\ f.type = "COMPLETE" => z = Channel!RequesterHandleComplete(x)
              /\ f.type = "ERROR" => z = Channel!RequesterHandleError(x)
              /\ f.type = "REQUEST_N" => z = Channel!ProcessRequestN(x, f.n)
      BY <1>7 DEF Channel!RequesterHandleFrame
    <3> QED BY <1>4, <3>1, <3>2, Zenon
  <2>4. kind \in {"stream", "channel"}
    OBVIOUS
  <2> QED BY <1>2, <1>3, <1>5, <1>7, <2>2, <2>3, <2>4, RequesterTakes
<1> QED BY <1>6, <1>7

(* A frame for a ChannelResponder; the handler may be done with the        *)
(* channel at once.                                                        *)
LEMMA ChannelResponderReceives ==
    ASSUME IInv, kind = "channel", kind' = kind, NEW done \in BOOLEAN,
           Channel!ResponderReceives(done)
    PROVE  IInv'
<1>1. "responder" \in Roles
  BY DEF Roles
<1>2. PICK x : x = automaton["responder"]
  OBVIOUS
<1>3. PICK f : f = Arriving("responder")
  OBVIOUS
<1>4. PICK y : y = Channel!ResponderHandleFrame(x, f, done)
  OBVIOUS
<1>5. Arrives("responder") /\ ReceiveStep("responder", y)
  <2>1. Channel!Arriving("responder") = f
    BY <1>1, <1>3, ChannelSteps
  <2>2. Channel!Arrives("responder") /\ Channel!ReceiveStep("responder", y)
    BY <1>2, <1>4, <2>1, Zenon DEF Channel!ResponderReceives
  <2> QED BY <1>1, <2>2, ChannelSteps
<1>6. x.state = "NONE" \/ x.state = "CLOSED" => ~x.open
  BY <1>1, <1>2, AtEnd
<1>7. CASE x.state = "NONE"
  <2>1. y = Channel!Accept(x, f, done)
    BY <1>4, <1>6, <1>7, Zenon DEF Channel!ResponderHandleFrame
  <2> QED BY <1>2, <1>3, <1>5, <1>7, <2>1, ResponderOpens
<1>8. CASE x.state = "CLOSED"
  <2>1. y = x
    BY <1>4, <1>6, <1>8, Zenon DEF Channel!ResponderHandleFrame
  <2> QED BY <1>1, <1>2, <1>5, <1>8, <2>1, DropKeeps
<1>9. CASE x.state # "NONE" /\ x.state # "CLOSED"
  <2>1. x.open /\ x.state = "RESPONDING"
    BY <1>1, <1>2, <1>9, AtEnd DEF StatesOf
  <2>2. f.type \in {"REQUEST_N", "CANCEL", "ERROR", "PAYLOAD", "COMPLETE"}
    BY <1>1, <1>2, <1>3, <1>5, <1>9, ArrivalFits DEF Arrival, ToResponder
  <2>3. /\ f.type = "PAYLOAD" => y = ProcessPayload(x, f.n)
        /\ f.type \in {"COMPLETE", "CANCEL"} =>
              y = CloseStream([x EXCEPT !.state = "CLOSED"], f.type)
        /\ f.type = "REQUEST_N" => y = ProcessRequestN(x, f.n)
        /\ f.type = "ERROR" => y = x
    <3>1. /\ \A b, n : Channel!ProcessPayload(b, n) = ProcessPayload(b, n)
          /\ \A b, n : Channel!ProcessRequestN(b, n) = ProcessRequestN(b, n)
          /\ \A b : Channel!ResponderHandleCancel(b) = ResponderHandleCancel(b)
          /\ \A b, s : Channel!CloseStream(b, s) = CloseStream(b, s)
      BY ChannelIsAlike, Zenon DEF ChannelAlike
    <3>2. LET z == Channel!ResponderHandleFrame(x, f, done)
          IN  /\ f.type = "PAYLOAD" => z = Channel!ProcessPayload(x, f.n)
              /\ f.type = "COMPLETE" => z = Channel!ResponderHandleComplete(x)
              /\ f.type = "CANCEL" => z = Channel!ResponderHandleCancel(x)
              /\ f.type = "REQUEST_N" => z = Channel!ProcessRequestN(x, f.n)
              /\ f.type = "ERROR" => z = x
      BY <1>9, <2>1, Zenon DEF Channel!ResponderHandleFrame
    <3>3. ResponderHandleCancel(x) = CloseStream([x EXCEPT !.state = "CLOSED"], "CANCEL")
      BY <2>1 DEF ResponderHandleCancel
    <3>4. Channel!ResponderHandleComplete(x)
            = CloseStream([x EXCEPT !.state = "CLOSED"], "COMPLETE")
      BY <2>1, <3>1, Zenon DEF Channel!ResponderHandleComplete
    <3> QED BY <1>4, <3>1, <3>2, <3>3, <3>4, Zenon
  <2> QED BY <1>2, <1>3, <1>5, <2>1, <2>2, <2>3, ResponderTakes
<1> QED BY <1>7, <1>8, <1>9

(* The connection of either end of a channel closes.                       *)
LEMMA ChannelCloses ==
    ASSUME IInv, kind = "channel", kind' = kind, NEW role \in Roles, Channel!Closes(role)
    PROVE  IInv'
<1>1. ConnectionCloses(role)
  <2>1. \A b, s : Channel!CloseStream(b, s) = CloseStream(b, s)
    BY ChannelIsAlike, Zenon DEF ChannelAlike
  <2> QED BY <2>1, Zenon DEF Channel!Closes, Channel!ConnectionCloses, ConnectionCloses
<1>2. role = "requester" /\ Tame => automaton[role].subscribed
  BY DEF Channel!Closes, Channel!MayEnd, Tame
<1> QED BY <1>1, <1>2, ClosesKeeps

(***************************************************************************)
(* RequestChannel: every step.                                             *)
(***************************************************************************)
LEMMA ChannelNext ==
    ASSUME IInv, kind = "channel", kind' = kind, Channel!Next
    PROVE  IInv'
<1>1. Channel!Roles = Roles
  BY DEF Channel!Roles, Roles
<1>2. \/ \E role \in Roles :
            \/ \E n \in RequestSizes \ {0} : Channel!ConsumerRequests(role, n)
            \/ Channel!ConsumerCancels(role)
            \/ Channel!ProducerSubscribes(role)
            \/ Channel!ProducerEmits(role)
            \/ Channel!ProducerCompletes(role) \/ Channel!ProducerFails(role)
            \/ Channel!Closes(role)
      \/ Channel!RequesterReceives
      \/ \E done \in BOOLEAN : Channel!ResponderReceives(done)
  BY <1>1, Zenon DEF Channel!Next
<1> QED BY <1>2, ChannelRequests, ChannelCancels, ChannelSubscribes, ChannelEmits,
           ChannelEnds, ChannelRequesterReceives, ChannelResponderReceives, ChannelCloses

-----------------------------------------------------------------------------
(* The invariant of all interactions.                                      *)

(***************************************************************************)
(* The automata a stream starts with.                                      *)
(***************************************************************************)
Unused(x, state, open) ==
    /\ x \in AutomatonSet /\ Fresh(x, 0)
    /\ x.state = state /\ x.open = open /\ x.terminated = FALSE
    /\ x.out = << >> /\ x.subscriber = open /\ x.subscription = FALSE
    /\ x.initialRequestN = 0 /\ x.terminal = << >> /\ x.subscribed = FALSE
    /\ x.credit = 0 /\ x.cancelled = FALSE

(* The fields of a new automaton.                                          *)
LEMMA NewAutomatonIs ==
    ASSUME NEW state \in States, NEW open \in BOOLEAN,
           NEW x, x = NewAutomaton(state, open)
    PROVE  Unused(x, state, open)
<1>1. << >> \in Seq(FrameSet) /\ << >> \in Seq(Nat) /\ << >> \in Seq({"onComplete", "onError"})
  OBVIOUS
<1>2. 0 \in 0..SizeMax /\ 0 \in Nat
  BY SizeMaxAssumption
<1>3. x \in AutomatonSet
  BY <1>1, <1>2, Zenon DEF AutomatonSet, NewAutomaton
<1>4. Fresh(x, 0)
  BY Zenon DEF Fresh, NewAutomaton
<1>5. /\ x.state = state /\ x.open = open /\ x.terminated = FALSE
      /\ x.out = << >> /\ x.subscriber = open /\ x.subscription = FALSE
      /\ x.initialRequestN = 0 /\ x.terminal = << >> /\ x.subscribed = FALSE
      /\ x.credit = 0 /\ x.cancelled = FALSE
  BY Zenon DEF NewAutomaton
<1> QED BY <1>3, <1>4, <1>5, Zenon DEF Unused

(* A new automaton is well formed.                                         *)
LEMMA UnusedHolds ==
    ASSUME NEW k \in Kinds, NEW role \in Roles, NEW x,
           x = IF role = "requester" THEN NewAutomaton("NEW", TRUE)
                                     ELSE NewAutomaton("NONE", FALSE)
    PROVE  /\ Local(k, role, x) /\ x.out = << >> /\ Len(x.received) = 0
           /\ x.granted = 0 /\ x.emitted = 0 /\ x.sent = 0
           /\ x.initialRequestN = 0 /\ x.terminal = << >>
           /\ x.state = IF role = "requester" THEN "NEW" ELSE "NONE"
<1>1. PICK state \in States, open \in BOOLEAN :
          /\ state = IF role = "requester" THEN "NEW" ELSE "NONE"
          /\ open = (role = "requester")
          /\ x = NewAutomaton(state, open)
  BY DEF States
<1>2. Unused(x, state, open)
  BY <1>1, NewAutomatonIs
<1>3. x \in AutomatonSet /\ Fresh(x, 0)
  BY <1>2, Zenon DEF Unused
<1>4. /\ x.state = state /\ x.out = << >>
      /\ x.initialRequestN = 0 /\ x.terminal = << >> /\ x.credit = 0
  BY <1>2, Zenon DEF Unused
<1>5. /\ x.terminated = FALSE /\ x.subscription = FALSE /\ x.subscribed = FALSE
      /\ x.cancelled = FALSE /\ x.open = open /\ x.subscriber = open
  BY <1>2, Zenon DEF Unused
<1>6. 0 \in 0..SizeMax
  BY SizeMaxAssumption
<1>7. /\ x.received = << >> /\ Len(x.received) = 0
      /\ \A i \in 1..Len(x.received) : x.received[i] = i
      /\ x.allowance + Len(x.received) = x.pendingAllowance + x.sent
      /\ Tame /\ k # "response" =>
            /\ x.pendingAllowance + x.sent + x.initialResponseAllowance
                  <= LargestRequest * x.requests
            /\ x.requests <= MaxRequestsOf(k)
  BY <1>3, <1>6, FreshHolds
<1>8. /\ x.failed = FALSE /\ x.surplus = FALSE
      /\ x.granted = 0 /\ x.emitted = 0 /\ x.sent = 0
  BY <1>3, Zenon DEF Fresh
<1>9. Shape(role, x)
  <2>1. x.state \in StatesOf(role) /\ x.state # "CLOSED"
    BY <1>1, <1>4 DEF StatesOf
  <2>2. x.open = (x.state \notin {"NONE", "CLOSED"})
    <3>1. CASE role = "requester"
      <4>1. x.open = TRUE /\ x.state \notin {"NONE", "CLOSED"}
        BY <1>1, <1>4, <1>5, <3>1
      <4> QED BY <4>1
    <3>2. CASE role # "requester"
      <4>1. x.open = FALSE /\ x.state = "NONE"
        BY <1>1, <1>4, <1>5, <3>2
      <4> QED BY <4>1
    <3> QED BY <3>1, <3>2
  <2>3. x.terminated = (x.state = "CLOSED")
    BY <1>5, <2>1
  <2>4. x.state = "NONE" => x = NewAutomaton("NONE", FALSE)
    BY <1>1, <1>4
  <2> QED BY <2>1, <2>2, <2>3, <2>4, Zenon DEF Shape
<1>10. Publishing(k, x)
  BY <1>1, <1>4, <1>5, <1>8 DEF Publishing
<1>11. Consuming(k, role, x)
  <2>1. Len(x.terminal) = 0 /\ x.state # "CLOSED"
    BY <1>1, <1>4
  <2>2. x.subscriber = x.open
    BY <1>5, Zenon
  <2>3. ~IsConsumer(k, role) => x.subscriber = FALSE
    BY <1>1, <1>5 DEF IsConsumer
  <2>4. IF IsConsumer(k, role)
        THEN /\ x.subscriber = x.open
             /\ Len(x.terminal) = IF x.state = "CLOSED" THEN 1 ELSE 0
        ELSE x.subscriber = FALSE
    BY <2>1, <2>2, <2>3, Zenon
  <2>5. k = "response" => Len(x.received) = 0 \/ (Len(x.received) = 1 /\ ~x.open)
    BY <1>7, Zenon
  <2> QED BY <1>7, <1>8, <2>4, <2>5, Zenon DEF Consuming
<1>12. Accounts(x)
  <2>1. OwnRequest(x) = 0
    BY <1>5, Zenon DEF OwnRequest
  <2>2. /\ x.emitted <= x.granted /\ x.initialRequestN <= x.granted
        /\ x.granted + OwnRequest(x) = x.initialRequestN + x.credit + x.emitted
    <3>1. PICK a, b, c, d, e : /\ a = x.emitted /\ b = x.granted /\ c = x.initialRequestN
                               /\ d = x.credit /\ e = OwnRequest(x)
      BY Zenon
    <3>2. a = 0 /\ b = 0 /\ c = 0 /\ d = 0 /\ e = 0
      BY <1>4, <1>8, <2>1, <3>1, Zenon
    <3>3. a <= b /\ c <= b /\ b + e = c + d + a
      BY <3>2
    <3> QED BY <3>1, <3>3, Zenon
  <2> QED BY <1>7, <2>2, Zenon DEF Accounts
<1>13. Checked(k, role, x)
  <2>1. k = "channel" /\ role = "requester" /\ ~x.subscribed => x.state = "NEW"
    BY <1>1, <1>4
  <2>2. MaxRequestsOf(k) = IF k = "stream" THEN MaxRequests ELSE MaxChannelRequests
    BY Zenon DEF MaxRequestsOf
  <2> QED BY <1>7, <1>8, <2>1, <2>2, Zenon DEF Checked
<1>14. Local(k, role, x)
  BY <1>3, <1>9, <1>10, <1>11, <1>12, <1>13, Zenon DEF Local
<1> QED BY <1>1, <1>4, <1>7, <1>8, <1>14

(***************************************************************************)
(* The invariant holds when a stream is made.                              *)
(***************************************************************************)
LEMMA InitEstablishes ==
    ASSUME InteractionInit
    PROVE  IInv
<1>1. PICK k \in Kinds : k = kind
  BY DEF InteractionInit, Kinds
<1>2. /\ automaton = [role \in Roles |-> IF role = "requester"
                                         THEN NewAutomaton("NEW", TRUE)
                                         ELSE NewAutomaton("NONE", FALSE)]
      /\ wire = [role \in Roles |-> << >>]
      /\ up = Roles
  BY DEF InteractionInit, Init
<1>3. ASSUME NEW role \in Roles, NEW x, x = automaton[role]
      PROVE  /\ Local(k, role, x) /\ x.out = << >> /\ Len(x.received) = 0
             /\ x.granted = 0 /\ x.emitted = 0 /\ x.sent = 0
             /\ x.initialRequestN = 0 /\ x.terminal = << >>
             /\ x.state = IF role = "requester" THEN "NEW" ELSE "NONE"
  BY <1>2, <1>3, UnusedHolds
<1>4. automaton \in [Roles -> AutomatonSet]
  <2>1. \A role \in Roles : automaton[role] \in AutomatonSet
    BY <1>3, LocalTypes
  <2> QED BY <1>2, <2>1
<1>5. ASSUME NEW role \in Roles
      PROVE  Towards(k, role, automaton[role], automaton[Peer(role)], wire[role])
  <2>1. PICK b : b = automaton[role]
    OBVIOUS
  <2>2. PICK a : a = automaton[Peer(role)]
    OBVIOUS
  <2>3. PICK w \in Seq(FrameSet) : w = << >> /\ w = wire[role] /\ Len(w) = 0
    <3>1. wire[role] = << >>
      BY <1>2
    <3>2. << >> \in Seq(FrameSet) /\ Len(<< >>) = 0
      OBVIOUS
    <3> QED BY <3>1, <3>2, Zenon
  <2>4. Peer(role) \in Roles /\ (role = "responder" <=> Peer(role) = "requester")
    BY PeerIs
  <2>5. /\ Len(b.received) = 0 /\ b.granted = 0 /\ a.emitted = 0 /\ a.sent = 0
        /\ a.initialRequestN = 0
        /\ b.state = IF role = "requester" THEN "NEW" ELSE "NONE"
        /\ a.state = IF role = "requester" THEN "NONE" ELSE "NEW"
    BY <1>3, <2>1, <2>2, <2>4 DEF Roles
  <2>6. Payloads(w, 0, 0) /\ Credits(w, 0, 0)
    BY <2>3, PayloadsNone, CreditsNone
  <2>7. FramesFit(k, role, b, a, w)
    BY <2>3, <2>5 DEF FramesFit, AllIn
  <2>8. a.initialRequestN # SizeMax
    BY <2>5, MaxRequestNAssumption, SizeMaxAssumption
  <2>9. TowardsFrom(k, role, b, 0, 0, a, w)
    BY <2>3, <2>5, <2>6, <2>7, <2>8 DEF TowardsFrom
  <2> QED BY <2>1, <2>2, <2>3, <2>5, <2>9 DEF Towards
<1>6. Whole(k, automaton["requester"], automaton["responder"])
  <2>1. automaton["requester"].terminal = << >>
    BY <1>3 DEF Roles
  <2> QED BY <2>1 DEF Whole, Told
<1>7. DOMAIN wire = Roles /\ up \subseteq Roles /\ \A role \in Roles : role \in up
  BY <1>2
<1> QED BY <1>1, <1>3, <1>4, <1>5, <1>6, <1>7 DEF IInv

(***************************************************************************)
(* Every step preserves it.                                                *)
(***************************************************************************)
LEMMA NextPreserves ==
    ASSUME IInv, [InteractionNext]_allVars
    PROVE  IInv'
<1>1. CASE InteractionNext
  <2>1. kind' = kind
    BY <1>1 DEF InteractionNext
  <2>2. \/ kind = "stream" /\ Stream!Next
        \/ kind = "channel" /\ Channel!Next
        \/ kind = "response" /\ Response!Next
    BY <1>1, Zenon DEF InteractionNext
  <2> QED BY <2>1, <2>2, StreamNext, ChannelNext, ResponseNext
<1>2. CASE UNCHANGED allVars
  <2>1. kind' = kind /\ automaton' = automaton /\ wire' = wire /\ up' = up
    BY <1>2 DEF allVars, vars
  <2> QED BY <2>1, Zenon DEF IInv
<1> QED BY <1>1, <1>2

(***************************************************************************)
(* The two ends of a stream and the frames between them agree, in every    *)
(* state of every interaction.                                             *)
(***************************************************************************)
THEOREM Invariance == Spec => []IInv
<1>1. InteractionInit => IInv
  BY InitEstablishes
<1>2. IInv /\ [InteractionNext]_allVars => IInv'
  BY NextPreserves
<1> QED BY <1>1, <1>2, PTL DEF Spec

-----------------------------------------------------------------------------
(* What the invariant says of each interaction.                            *)

(***************************************************************************)
(* Nothing is kept outside its type, and a stream is in the streams_ map   *)
(* of its connection exactly until its automaton is CLOSED (closeStream).  *)
(***************************************************************************)
THEOREM TypeCorrect == Spec => []TypeOK
<1>1. ASSUME IInv PROVE TypeOK
  <2>1. up \subseteq Roles
    BY <1>1 DEF IInv
  <2>2. ASSUME NEW role \in Roles, NEW x, x = automaton[role]
        PROVE  /\ x.state \in {"NONE", "NEW", "REQUESTED", "RESPONDING", "CLOSED"}
               /\ x.open <=> x.state \notin {"NONE", "CLOSED"}
               /\ {x.allowance, x.pendingAllowance, x.initialResponseAllowance,
                   x.initialRequestN} \subseteq 0..SizeMax
               /\ x.credit \in Nat
               /\ x.out = << >>
    <3>1. x \in AutomatonSet /\ x.out = << >>
      BY <1>1, <2>2, AtEnd
    <3>2. x.open <=> x.state \notin {"NONE", "CLOSED"}
      BY <1>1, <2>2, AtEnd, Zenon
    <3>3. x.state \in States /\ x.credit \in Nat
      BY <3>1 DEF AutomatonSet
    <3>4. /\ x.allowance \in 0..SizeMax /\ x.pendingAllowance \in 0..SizeMax
          /\ x.initialResponseAllowance \in 0..SizeMax /\ x.initialRequestN \in 0..SizeMax
      BY <3>1 DEF AutomatonSet
    <3> QED BY <3>1, <3>2, <3>3, <3>4, Zenon DEF States
  <2> QED BY <2>1, <2>2, Zenon DEF TypeOK
<1> QED BY <1>1, Invariance, PTL

(***************************************************************************)
(* handleFlowControlError is never reached: a producer that keeps to its   *)
(* credit never exceeds the allowance of the consumer at the other end,    *)
(* whatever is on its way in both directions.                              *)
(***************************************************************************)
THEOREM NoFlowControlError == Spec => []NoSurplus
<1>1. ASSUME IInv PROVE NoSurplus
  <2>1. ASSUME NEW role \in Roles PROVE ~automaton[role].surplus
    <3>1. Local(kind, role, automaton[role])
      BY <1>1, <2>1 DEF IInv
    <3> QED BY <3>1, Zenon DEF Local, Consuming
  <2> QED BY <2>1, Zenon DEF NoSurplus
<1> QED BY <1>1, Invariance, PTL

(***************************************************************************)
(* endStream: every consumer gets payloads in order and one terminal       *)
(* signal, exactly when the stream is CLOSED at its end; a request for one *)
(* response gets at most one.                                              *)
(***************************************************************************)
THEOREM TerminalSignalOnce == Spec => []OneTerminalSignal
<1>1. ASSUME IInv PROVE OneTerminalSignal
  <2>1. ASSUME NEW role \in Roles, IsConsumer(kind, role)
        PROVE  OneTerminalSignalTo(role)
    <3>1. Consuming(kind, role, automaton[role])
      BY <1>1, <2>1 DEF IInv, Local
    <3> QED BY <2>1, <3>1, Zenon DEF Consuming, OneTerminalSignalTo
  <2>2. "requester" \in Roles /\ IsConsumer(kind, "requester")
    BY DEF Roles, IsConsumer
  <2>3. OneTerminalSignalTo("requester")
    BY <2>1, <2>2
  <2>4. kind = "stream" => Stream!OneTerminalSignal
    BY <2>3, Zenon DEF Stream!OneTerminalSignal, Stream!OneTerminalSignalTo,
                       OneTerminalSignalTo
  <2>5. kind = "channel" => Channel!OneTerminalSignal
    <3>1. kind = "channel" => \A role \in Roles : OneTerminalSignalTo(role)
      BY <2>1 DEF IsConsumer
    <3>2. Channel!Roles = Roles
      BY DEF Channel!Roles, Roles
    <3> QED BY <3>1, <3>2, Zenon DEF Channel!OneTerminalSignal, Channel!OneTerminalSignalTo,
                                     OneTerminalSignalTo
  <2>6. kind = "response" => Response!OneResponse
    <3>1. Consuming(kind, "requester", automaton["requester"])
      BY <1>1, <2>2 DEF IInv, Local
    <3>2. PICK n : n = Len(automaton["requester"].received)
      OBVIOUS
    <3>3. kind = "response" => n = 0 \/ n = 1
      BY <3>1, <3>2, Zenon DEF Consuming
    <3>4. kind = "response" => n <= 1
      BY <3>3
    <3> QED BY <2>3, <3>2, <3>4, Zenon DEF Response!OneResponse, Response!requester,
                      Response!OneTerminalSignalTo, OneTerminalSignalTo
  <2> QED BY <2>4, <2>5, <2>6, Zenon DEF OneTerminalSignal
<1> QED BY <1>1, Invariance, PTL

(***************************************************************************)
(* onComplete of a response or of a stream that nobody cancelled means     *)
(* that everything the responder has emitted was received: neither a       *)
(* connection that ends nor a repeated request looks like completion.      *)
(***************************************************************************)
THEOREM CompletionIsWhole == Spec => []CompleteIsWhole
<1>1. ASSUME IInv PROVE CompleteIsWhole
  <2>1. Whole(kind, automaton["requester"], automaton["responder"])
    BY <1>1 DEF IInv
  <2> QED BY <2>1, Zenon DEF Whole, Told, CompleteIsWhole, CompleteMeansAll
<1> QED BY <1>1, Invariance, PTL

(***************************************************************************)
(* The credit between a consumer and the producer at the other end.        *)
(***************************************************************************)
LEMMA CreditBetween ==
    ASSUME IInv, kind # "response", NEW role \in Roles,
           NEW c, c = automaton[role], NEW p, p = automaton[Peer(role)],
           c.open, p.open, c.allowance # SizeMax
    PROVE  c.allowance = c.pendingAllowance + (c.sent - p.granted)
                         + p.initialRequestN + p.credit + (p.emitted - Len(c.received))
<1>1. /\ Local(kind, role, c) /\ Local(kind, Peer(role), p) /\ Peer(role) \in Roles
      /\ Towards(kind, role, c, p, wire[role])
      /\ Towards(kind, Peer(role), p, c, wire[Peer(role)])
  BY PeerIs DEF IInv
<1>2. c.allowance + Len(c.received) = c.pendingAllowance + c.sent
  BY <1>1, Zenon DEF Local, Accounts
<1>3. p.initialRequestN # SizeMax
  BY <1>1, Zenon DEF Towards, TowardsFrom
<1>4. OwnRequest(p) = 0
  <2>1. p.state = "NEW" => FALSE
    <3>1. CASE role = "requester"
      <4>1. Peer(role) = "responder"
        BY <3>1, PeerIs
      <4> QED BY <1>1, <4>1, AtEnd DEF StatesOf
    <3>2. CASE role # "requester"
      <4>1. p.state = "NEW" => c.state = "NONE"
        BY <1>1, <3>2, Zenon DEF Towards, TowardsFrom, FramesFit
      <4>2. c.state # "NONE"
        BY AtEnd
      <4> QED BY <4>1, <4>2
    <3> QED BY <3>1, <3>2
  <2> QED BY <2>1, Zenon DEF OwnRequest
<1>5. p.granted + OwnRequest(p) = p.initialRequestN + p.credit + p.emitted
  BY <1>1, <1>3, Zenon DEF Local, Accounts
<1>6. /\ c.allowance \in Nat /\ c.pendingAllowance \in Nat /\ c.sent \in Nat
      /\ Len(c.received) \in Nat /\ p.granted \in Nat /\ p.initialRequestN \in Nat
      /\ p.credit \in Nat /\ p.emitted \in Nat
  <2>1. c \in AutomatonSet /\ p \in AutomatonSet /\ Len(c.received) \in Nat
    BY <1>1, LocalTypes
  <2>2. c.sent \in Nat /\ p.granted \in Nat /\ p.credit \in Nat /\ p.emitted \in Nat
    BY <2>1 DEF AutomatonSet
  <2>3. /\ c.allowance \in 0..SizeMax /\ c.pendingAllowance \in 0..SizeMax
        /\ p.initialRequestN \in 0..SizeMax
    BY <2>1 DEF AutomatonSet
  <2> QED BY <2>1, <2>2, <2>3
<1>7. PICK a, b, s, l, g, i, d, e \in Nat :
          /\ a = c.allowance /\ b = c.pendingAllowance /\ s = c.sent /\ l = Len(c.received)
          /\ g = p.granted /\ i = p.initialRequestN /\ d = p.credit /\ e = p.emitted
  BY <1>6
<1>8. a + l = b + s /\ g + 0 = i + d + e
  BY <1>2, <1>4, <1>5, <1>7, Zenon
<1>9. a = b + (s - g) + i + d + (e - l)
  BY <1>8
<1> QED BY <1>7, <1>9, Zenon

(***************************************************************************)
(* Flow control: what a consumer may still receive is exactly what is not  *)
(* yet sent, on its way, with the producer at the other end or spent on    *)
(* payloads on their way (AllowanceSemaphore at both ends, REQUEST_N and   *)
(* payloads between them); unless it is infinite.                          *)
(***************************************************************************)
THEOREM CreditIsConserved == Spec => []CreditConserved
<1>1. ASSUME IInv PROVE CreditConserved
  <2>1. kind = "stream" => Stream!CreditConserved
    <3>1. PICK c, p : c = automaton["requester"] /\ p = automaton["responder"]
      OBVIOUS
    <3>2. "requester" \in Roles /\ Peer("requester") = "responder"
      BY DEF Roles, Peer
    <3>3. kind = "stream" /\ c.open /\ p.open /\ c.allowance # SizeMax =>
              c.allowance = c.pendingAllowance + (c.sent - p.granted)
                            + p.initialRequestN + p.credit + (p.emitted - Len(c.received))
      BY <1>1, <3>1, <3>2, CreditBetween
    <3> QED BY <3>1, <3>3, Zenon DEF Stream!CreditConserved, Stream!requester,
                                     Stream!responder, Stream!IsInfinite
  <2>2. kind = "channel" => Channel!CreditConserved
    <3>1. ASSUME kind = "channel", NEW role \in Roles,
                 NEW c, c = automaton[role], NEW p, p = automaton[Peer(role)],
                 c.open, p.open
          PROVE  \/ c.allowance = SizeMax
                 \/ c.allowance = c.pendingAllowance + (c.sent - p.granted)
                        + p.initialRequestN + p.credit + (p.emitted - Len(c.received))
      BY <1>1, <3>1, CreditBetween
    <3>2. Channel!Roles = Roles /\ \A role \in Roles : Peer(role) \in Roles
      BY PeerIs DEF Channel!Roles, Roles
    <3>3. \A r : Channel!Peer(r) = Peer(r)
      BY Zenon DEF Channel!Peer, Peer
    <3> QED BY <3>1, <3>2, <3>3, Zenon DEF Channel!CreditConserved, Channel!IsInfinite
  <2> QED BY <2>1, <2>2, Zenon DEF CreditConserved
<1> QED BY <1>1, Invariance, PTL

(***************************************************************************)
(* No CHECK or DCHECK of the automata fails, no REQUEST_N beyond           *)
(* kMaxRequestN is built and no null subscriber is called; provided that   *)
(* an application asks for less than the largest size_t in all (an         *)
(* infinite allowance is sent whole, and does not fit a frame) and that a  *)
(* channel's producer subscribes first (onSubscribe checks for NEW).       *)
(***************************************************************************)
THEOREM ChecksHold == ASSUME CreditFits, SubscribedFirst PROVE Spec => []NoCheckFails
<1>1. Tame
  BY DEF Tame
<1>2. ASSUME IInv PROVE NoCheckFails
  <2>1. ASSUME NEW role \in Roles PROVE ~automaton[role].failed
    <3>1. Local(kind, role, automaton[role])
      BY <1>2, <2>1 DEF IInv
    <3> QED BY <1>1, <3>1, Zenon DEF Local, Checked
  <2> QED BY <2>1, Zenon DEF NoCheckFails
<1>3. IInv => NoCheckFails
  BY <1>2
<1> HIDE <1>1
<1> QED BY <1>3, Invariance, PTL
=============================================================================
