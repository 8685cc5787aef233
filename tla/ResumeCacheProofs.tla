------------------------- MODULE ResumeCacheProofs -------------------------
(***************************************************************************)
(* Proofs about ResumeCache.  The inductive invariant says that the queue  *)
(* of cached frames is a suffix of everything that was sent (Linked), from *)
(* which exact replay follows for every capacity and every frame length.   *)
(***************************************************************************)
EXTENDS ResumeCache, SequenceTheorems, WellFoundedInduction, TLAPS

-----------------------------------------------------------------------------
(* Facts about numbers and sequences                                       *)

(***************************************************************************)
(* A nonempty set of naturals has a least element.                         *)
(***************************************************************************)
LEMMA LeastNat ==
  ASSUME NEW S \in SUBSET Nat, S # {}
  PROVE  \E m \in S : \A n \in S : m <= n
<1> DEFINE R == {ss \in Nat \X Nat : ss[1] < ss[2]}
<1>1. IsWellFoundedOn(R, Nat)
  BY NatLessThanWellFounded, Zenon DEF OpToRel
<1>2. \E x \in S : \A y \in S : ~(<<y, x>> \in R)
  <2> HIDE DEF R
  <2> QED BY <1>1, WFMin
<1>3. \A x, y \in Nat : <<y, x>> \in R <=> y < x
  BY SMT
<1>4. \A x, y \in Nat : ~(y < x) => x <= y
  BY SMT
<1> HIDE DEF R
<1> QED BY <1>2, <1>3, <1>4

(***************************************************************************)
(* lower_bound is well defined: it splits the queue into frames below p    *)
(* and a rest that starts at or above p.                                   *)
(***************************************************************************)
LEMMA LowerBoundSplits ==
  ASSUME NEW frames \in Seq(EntrySet), NEW p \in Nat
  PROVE  LET b == LowerBound(frames, p)
         IN  /\ b \in 1..Len(frames) + 1
             /\ b = Len(frames) + 1 \/ frames[b].pos >= p
             /\ \A j \in 1..b - 1 : frames[j].pos < p
<1> DEFINE S == {i \in 1..Len(frames) + 1 :
                    i = Len(frames) + 1 \/ frames[i].pos >= p}
<1>1. S \in SUBSET Nat /\ S # {}
  <2>1. Len(frames) \in Nat
    OBVIOUS
  <2>2. Len(frames) + 1 \in S
    BY <2>1
  <2> QED BY <2>1, <2>2
<1>2. PICK m \in S : \A n \in S : m <= n
  BY <1>1, LeastNat
<1>3. \A j \in 1..m - 1 : frames[j].pos < p
  <2> TAKE j \in 1..m - 1
  <2>1. Len(frames) \in Nat /\ m \in Nat
    BY <1>2
  <2>2. j \in 1..Len(frames) /\ j \notin S
    BY <1>2, <2>1
  <2>3. frames[j] \in EntrySet
    BY <2>2
  <2> QED BY <2>2, <2>3 DEF EntrySet
<1>4. \E i \in 1..Len(frames) + 1 :
          /\ i = Len(frames) + 1 \/ frames[i].pos >= p
          /\ \A j \in 1..i - 1 : frames[j].pos < p
  BY <1>2, <1>3
<1> QED BY <1>4 DEF LowerBound

(***************************************************************************)
(* What is left of a queue after its first b - 1 frames are dropped.       *)
(***************************************************************************)
LEMMA DropProperties ==
  ASSUME NEW S, NEW s \in Seq(S), NEW b \in 1..Len(s) + 1
  PROVE  /\ SubSeq(s, b, Len(s)) \in Seq(S)
         /\ Len(SubSeq(s, b, Len(s))) = Len(s) - b + 1
         /\ \A k \in 1..Len(s) - b + 1 : SubSeq(s, b, Len(s))[k] = s[b + k - 1]
<1>1. Len(s) \in Nat /\ b \in Int
  OBVIOUS
<1>2. \A i \in b..Len(s) : s[i] \in S
  OBVIOUS
<1> QED BY <1>1, <1>2, SubSeqProperties

-----------------------------------------------------------------------------
(* The inductive invariant                                                 *)

Increasing(log) ==
    \A i, j \in 1..Len(log) : i < j => log[i].pos < log[j].pos

IsSuffixOf(f, log) ==
    /\ Len(f) <= Len(log)
    /\ \A k \in 1..Len(f) : f[k] = log[Len(log) - Len(f) + k]

(***************************************************************************)
(* The cached frames f are the last ones of the log and start at or above  *)
(* the reset position r; what is no longer cached lies at or below it.     *)
(***************************************************************************)
CachedFrom(r, f, log) ==
    /\ IsSuffixOf(f, log)
    /\ \A k \in 1..Len(f) : f[k].pos >= r
    /\ \A i \in 1..Len(log) - Len(f) : log[i].pos <= r

Linked(c, log) ==
    /\ c.resetPosition <= c.position
    /\ CachedFrom(c.resetPosition, c.frames, log)
    /\ \A i \in 1..Len(log) : log[i].pos < c.position

IInv ==
    /\ TypeOK
    /\ cache.position <= MaxPosition
    /\ Increasing(sent)
    /\ Linked(cache, sent)

(***************************************************************************)
(* size_ stays in the range of size_t.                                     *)
(***************************************************************************)
LEMMA SizeRange ==
  ASSUME NEW a \in 0..SizeMod - 1, NEW b \in 0..SizeMod - 1
  PROVE  /\ SizePlus(a, b) \in 0..SizeMod - 1
         /\ SizeMinus(a, b) \in 0..SizeMod - 1
BY CapacityAssumption DEF SizePlus, SizeMinus

(***************************************************************************)
(* What is cached after a reset to p, and its size.                        *)
(***************************************************************************)
KeptFrames(c, p) == SubSeq(c.frames, LowerBound(c.frames, p), Len(c.frames))

KeptSize(c, p) ==
    LET b == LowerBound(c.frames, p)
        pos == IF b = Len(c.frames) + 1 THEN p ELSE c.frames[b].pos
    IN  IF c.frames = << >> THEN c.size
        ELSE SizeMinus(c.size, pos - c.resetPosition)

(***************************************************************************)
(* When no frame is cached, nothing is kept.                               *)
(***************************************************************************)
LEMMA KeptNothing ==
  ASSUME NEW c \in CacheSet, NEW p \in Nat, c.frames = << >>
  PROVE  KeptFrames(c, p) = << >>
<1>1. LowerBound(c.frames, p) \in 1..Len(c.frames) + 1
  BY LowerBoundSplits DEF CacheSet
<1>2. Len(c.frames) = 0
  OBVIOUS
<1> QED BY <1>1, <1>2, SubSeqEmpty DEF KeptFrames

(***************************************************************************)
(* What clearFrames does when its own DCHECKs hold.                        *)
(***************************************************************************)
LEMMA ClearFramesResult ==
  ASSUME NEW c \in CacheSet, NEW p \in Nat,
         p <= c.position, p >= c.resetPosition
  PROVE  ClearFrames(c, p) = [c EXCEPT !.frames = KeptFrames(c, p),
                                       !.size   = KeptSize(c, p)]
<1> DEFINE f == KeptFrames(c, p)
           s == KeptSize(c, p)
           x == c.failed \/ p > c.position \/ p < c.resetPosition
<1>1. c.position \in Nat /\ c.resetPosition \in Nat /\ c.failed \in BOOLEAN
  BY DEF CacheSet
<1>2. ~(p > c.position) /\ ~(p < c.resetPosition)
  BY <1>1
<1>3. x = c.failed
  BY <1>1, <1>2, Zenon
<1>4. ASSUME c.frames = << >>
      PROVE  ClearFrames(c, p) = [c EXCEPT !.frames = f, !.size = s]
  <2>1. f = c.frames /\ s = c.size
    BY <1>4, KeptNothing DEF KeptSize
  <2>2. ClearFrames(c, p) = c
    BY <1>4, Zenon DEF ClearFrames
  <2> HIDE DEF f, s
  <2> QED BY <2>1, <2>2 DEF CacheSet
<1>5. ASSUME c.frames # << >>
      PROVE  ClearFrames(c, p) = [c EXCEPT !.frames = f, !.size = s]
  <2>1. ClearFrames(c, p) = [c EXCEPT !.frames = f, !.size = s, !.failed = x]
    BY <1>5, Zenon DEF ClearFrames, KeptFrames, KeptSize
  <2> HIDE DEF f, s, x
  <2>2. [c EXCEPT !.frames = f, !.size = s, !.failed = c.failed]
          = [c EXCEPT !.frames = f, !.size = s]
    BY DEF CacheSet
  <2> QED BY <1>3, <2>1, <2>2
<1> QED BY <1>4, <1>5

(***************************************************************************)
(* What resetUpToPosition does to each field when it does not return       *)
(* early; p is the position after the cut to position_.                    *)
(***************************************************************************)
LEMMA ResetFields ==
  ASSUME NEW c \in CacheSet, NEW q \in Nat, NEW p \in Nat,
         q > c.resetPosition, c.resetPosition <= c.position,
         p = IF q > c.position THEN c.position ELSE q,
         NEW y, y = (c.failed \/ ~FrontIs(KeptFrames(c, p), p))
  PROVE  LET d == ResetUpToPosition(c, q)
         IN  /\ d.position = c.position
             /\ d.impliedPosition = c.impliedPosition
             /\ d.resetPosition = p
             /\ d.streamMap = ForgetStreams(c.streamMap, p)
             /\ d.frames = KeptFrames(c, p)
             /\ d.size = KeptSize(c, p)
             /\ d.failed = y
             /\ (/\ KeptFrames(c, p) \in Seq(EntrySet)
                 /\ KeptSize(c, p) \in 0..SizeMod - 1) => d \in CacheSet
<1> DEFINE m == ForgetStreams(c.streamMap, p)
           c1 == [c EXCEPT !.streamMap = m]
           d1 == ClearFrames(c1, p)
           x == d1.failed \/ ~FrontIs(d1.frames, p)
           f == KeptFrames(c, p)
           s == KeptSize(c, p)
<1>1. ~(q <= c.resetPosition) /\ p <= c.position /\ p >= c.resetPosition
  BY DEF CacheSet
<1>2. ResetUpToPosition(c, q) = [d1 EXCEPT !.resetPosition = p, !.failed = x]
  BY <1>1, Zenon DEF ResetUpToPosition
<1>3. m \in [StreamIds -> Nat]
  BY DEF ForgetStreams, CacheSet
<1>4. /\ c1 \in CacheSet
      /\ c1.frames = c.frames
      /\ c1.position = c.position
      /\ c1.resetPosition = c.resetPosition
      /\ c1.size = c.size
  BY <1>3 DEF CacheSet
<1>5. KeptFrames(c1, p) = f /\ KeptSize(c1, p) = s
  <2> HIDE DEF c1
  <2> QED BY <1>4, Zenon DEF KeptFrames, KeptSize
<1>6. d1 = [c1 EXCEPT !.frames = f, !.size = s]
  <2> HIDE DEF c1, f, s
  <2> QED BY <1>1, <1>4, <1>5, ClearFramesResult
<1>7. d1 = [c EXCEPT !.streamMap = m, !.frames = f, !.size = s]
  <2> HIDE DEF d1, m, f, s
  <2> QED BY <1>6 DEF CacheSet
<1>8. d1.failed = c.failed /\ d1.frames = f
  <2> HIDE DEF d1, m, f, s
  <2> QED BY <1>7 DEF CacheSet
<1>9. x = y
  BY <1>8, Zenon
<1>10. [d1 EXCEPT !.resetPosition = p, !.failed = y]
         = [c EXCEPT !.resetPosition = p, !.streamMap = m, !.frames = f,
                     !.size = s, !.failed = y]
  <2> HIDE DEF d1, m, f, s
  <2> QED BY <1>7 DEF CacheSet
<1>11. ResetUpToPosition(c, q)
         = [c EXCEPT !.resetPosition = p, !.streamMap = m, !.frames = f,
                     !.size = s, !.failed = y]
  <2> HIDE DEF d1, x
  <2> QED BY <1>2, <1>9, <1>10
<1>12. y \in BOOLEAN
  BY Zenon
<1> DEFINE d == ResetUpToPosition(c, q)
<1>13. /\ d.position = c.position
       /\ d.impliedPosition = c.impliedPosition
       /\ d.resetPosition = p
       /\ d.streamMap = m
       /\ d.frames = f
       /\ d.size = s
       /\ d.failed = y
       /\ f \in Seq(EntrySet) /\ s \in 0..SizeMod - 1 => d \in CacheSet
  <2> HIDE DEF m, f, s, d
  <2> QED BY <1>3, <1>11, <1>12 DEF CacheSet, d
<1> QED BY <1>13

(***************************************************************************)
(* What the log has beyond the suffix f, it had beyond f0 already or it is *)
(* one of the first b - 1 elements of f0.                                  *)
(***************************************************************************)
DroppedBetween(log, f0, b, f) ==
    \A i \in 1..Len(log) - Len(f) :
        \/ i \in 1..Len(log) - Len(f0)
        \/ \E j \in 1..b - 1 : log[i] = f0[j]

(***************************************************************************)
(* f is f0 without its first b - 1 elements.                               *)
(***************************************************************************)
IsDrop(f0, b, f) ==
    \A k \in 1..Len(f) : b + k - 1 \in b..Len(f0) /\ f[k] = f0[b + k - 1]

(***************************************************************************)
(* Dropping frames from the front of a suffix of the log leaves a suffix.  *)
(***************************************************************************)
LEMMA DropSuffix ==
  ASSUME NEW log \in Seq(EntrySet), NEW f0 \in Seq(EntrySet),
         IsSuffixOf(f0, log),
         NEW b \in 1..Len(f0) + 1, NEW f, f = SubSeq(f0, b, Len(f0))
  PROVE  /\ f \in Seq(EntrySet)
         /\ Len(f) = Len(f0) - b + 1
         /\ IsSuffixOf(f, log)
         /\ IsDrop(f0, b, f)
         /\ DroppedBetween(log, f0, b, f)
<1>1. Len(log) \in Nat /\ Len(f0) \in Nat /\ b \in Nat /\ b >= 1
  OBVIOUS
<1>2. /\ f \in Seq(EntrySet)
      /\ Len(f) = Len(f0) - b + 1
      /\ \A k \in 1..Len(f0) - b + 1 : f[k] = f0[b + k - 1]
  BY DropProperties
<1>3. Len(f) \in Nat
  BY <1>2
<1>4. IsSuffixOf(f, log)
  <2>1. Len(f) <= Len(log)
    BY <1>1, <1>2 DEF IsSuffixOf
  <2>2. ASSUME NEW k \in 1..Len(f)
        PROVE  f[k] = log[Len(log) - Len(f) + k]
    <3>1. b + k - 1 \in 1..Len(f0)
      BY <1>1, <1>2
    <3>2. f[k] = f0[b + k - 1]
      BY <1>2
    <3>3. f0[b + k - 1] = log[Len(log) - Len(f0) + (b + k - 1)]
      BY <3>1 DEF IsSuffixOf
    <3>4. Len(log) - Len(f0) + (b + k - 1) = Len(log) - Len(f) + k
      BY <1>1, <1>2
    <3> QED BY <3>2, <3>3, <3>4
  <2> QED BY <2>1, <2>2 DEF IsSuffixOf
<1>5. ASSUME NEW i \in 1..Len(log) - Len(f), i \notin 1..Len(log) - Len(f0)
      PROVE  \E j \in 1..b - 1 : log[i] = f0[j]
  <2> DEFINE j == i - (Len(log) - Len(f0))
  <2>1. j \in 1..b - 1 /\ j \in 1..Len(f0)
    BY <1>1, <1>2, <1>3, <1>5 DEF IsSuffixOf
  <2>2. f0[j] = log[Len(log) - Len(f0) + j]
    BY <2>1 DEF IsSuffixOf
  <2>3. Len(log) - Len(f0) + j = i
    BY <1>1
  <2> QED BY <2>1, <2>2, <2>3
<1>6. IsDrop(f0, b, f)
  BY <1>1, <1>2, <1>3 DEF IsDrop
<1> QED BY <1>2, <1>4, <1>5, <1>6 DEF DroppedBetween

(***************************************************************************)
(* A suffix of an increasing log is increasing.                            *)
(***************************************************************************)
LEMMA SuffixIncreasing ==
  ASSUME NEW log \in Seq(EntrySet), NEW f \in Seq(EntrySet),
         IsSuffixOf(f, log), Increasing(log)
  PROVE  Increasing(f)
<1> SUFFICES ASSUME NEW i \in 1..Len(f), NEW j \in 1..Len(f), i < j
             PROVE  f[i].pos < f[j].pos
  BY DEF Increasing
<1> DEFINE base == Len(log) - Len(f)
<1>1. base + i \in 1..Len(log) /\ base + j \in 1..Len(log) /\ base + i < base + j
  BY DEF IsSuffixOf
<1>2. f[i] = log[base + i] /\ f[j] = log[base + j]
  BY DEF IsSuffixOf
<1> HIDE DEF base
<1> QED BY <1>1, <1>2 DEF Increasing

(***************************************************************************)
(* A cached frame starts below position_.                                  *)
(***************************************************************************)
LEMMA CachedBelowPosition ==
  ASSUME NEW c \in CacheSet, NEW log \in Seq(EntrySet), Linked(c, log),
         NEW k \in 1..Len(c.frames)
  PROVE  c.frames[k].pos \in Nat /\ c.frames[k].pos < c.position
<1>1. c.frames \in Seq(EntrySet)
  BY DEF CacheSet
<1> DEFINE f == c.frames
<1> HIDE DEF f
<1>2. f \in Seq(EntrySet) /\ k \in 1..Len(f) /\ IsSuffixOf(f, log)
  BY <1>1 DEF f, Linked, CachedFrom
<1>3. f[k] \in EntrySet
  BY <1>2
<1>4. Len(log) - Len(f) + k \in 1..Len(log)
  BY <1>2 DEF IsSuffixOf
<1>5. f[k] = log[Len(log) - Len(f) + k]
  BY <1>2 DEF IsSuffixOf
<1>6. log[Len(log) - Len(f) + k].pos < c.position
  BY <1>4 DEF Linked, CachedFrom
<1>7. f[k].pos \in Nat
  BY <1>3 DEF EntrySet
<1> QED BY <1>5, <1>6, <1>7 DEF f

(***************************************************************************)
(* The frames kept by a reset are a suffix of the log, all dropped frames  *)
(* start below p or were dropped before, and the new size is in range.     *)
(***************************************************************************)
LEMMA KeptProperties ==
  ASSUME NEW c \in CacheSet, NEW p \in Nat, NEW log \in Seq(EntrySet),
         Linked(c, log), Increasing(log), c.position < SizeMod,
         p <= c.position, p >= c.resetPosition
  PROVE  LET f == KeptFrames(c, p)
         IN  /\ f \in Seq(EntrySet)
             /\ IsSuffixOf(f, log)
             /\ \A k \in 1..Len(f) : f[k].pos >= p
             /\ \A i \in 1..Len(log) - Len(f) : log[i].pos <= p
             /\ KeptSize(c, p) \in 0..SizeMod - 1
<1> DEFINE f0 == c.frames
           b == LowerBound(f0, p)
           f == SubSeq(f0, b, Len(f0))
           pos == IF b = Len(f0) + 1 THEN p ELSE f0[b].pos
<1>1. f0 \in Seq(EntrySet) /\ IsSuffixOf(f0, log)
  BY DEF CacheSet, Linked, CachedFrom
<1>2. /\ c.position \in Nat
      /\ c.resetPosition \in Nat
      /\ c.size \in 0..SizeMod - 1
  BY DEF CacheSet
<1>3. \A i \in 1..Len(log) - Len(f0) : log[i].pos <= c.resetPosition
  BY DEF Linked, CachedFrom
<1>4. \A k \in 1..Len(f0) : f0[k].pos \in Nat /\ f0[k].pos < c.position
  BY CachedBelowPosition
<1>5. KeptFrames(c, p) = f
  BY Zenon DEF KeptFrames
<1>6. c.frames # << >> => KeptSize(c, p) = SizeMinus(c.size, pos - c.resetPosition)
  BY Zenon DEF KeptSize
<1>7. c.frames = << >> => KeptSize(c, p) = c.size
  BY Zenon DEF KeptSize
<1> HIDE DEF f0
<1>8. /\ b \in 1..Len(f0) + 1
      /\ b = Len(f0) + 1 \/ f0[b].pos >= p
      /\ \A j \in 1..b - 1 : f0[j].pos < p
  BY <1>1, LowerBoundSplits
<1> HIDE DEF b
<1>a. f = SubSeq(f0, b, Len(f0))
  OBVIOUS
<1> HIDE DEF f
<1>9. /\ f \in Seq(EntrySet)
      /\ IsSuffixOf(f, log)
      /\ IsDrop(f0, b, f)
      /\ DroppedBetween(log, f0, b, f)
  <2>1. f0 \in Seq(EntrySet) /\ IsSuffixOf(f0, log) /\ b \in 1..Len(f0) + 1
    BY <1>1, <1>8
  <2> QED BY <2>1, <1>a, DropSuffix
<1>10. ASSUME NEW i \in 1..Len(log) - Len(f)
       PROVE  log[i].pos <= p
  <2>1. CASE i \in 1..Len(log) - Len(f0)
    <3>1. i \in 1..Len(log)
      BY <2>1, <1>1
    <3>a. log[i] \in EntrySet
      BY <3>1
    <3>2. log[i].pos \in Nat
      BY <3>a DEF EntrySet
    <3>3. log[i].pos <= c.resetPosition
      BY <2>1, <1>3
    <3> QED BY <1>2, <3>2, <3>3
  <2>2. ASSUME NEW j \in 1..b - 1, log[i] = f0[j]
        PROVE  log[i].pos <= p
    <3>1. f0[j].pos < p
      BY <1>8
    <3>2. j \in 1..Len(f0)
      BY <1>1, <1>8
    <3>3. f0[j].pos \in Nat
      BY <3>2, <1>4
    <3> QED BY <3>1, <3>3, <2>2
  <2> QED BY <1>9, <2>1, <2>2 DEF DroppedBetween
<1>11. KeptSize(c, p) \in 0..SizeMod - 1
  <2>1. pos \in Nat /\ pos >= p /\ pos <= c.position
    <3>1. CASE b = Len(f0) + 1
      BY <3>1
    <3>2. CASE b # Len(f0) + 1
      <4>1. b \in 1..Len(f0)
        BY <3>2, <1>1, <1>8
      <4>2. pos = f0[b].pos
        BY <3>2
      <4>3. f0[b].pos \in Nat /\ f0[b].pos < c.position /\ f0[b].pos >= p
        BY <4>1, <1>4, <1>8, <3>2
      <4> HIDE DEF pos
      <4> QED BY <4>2, <4>3, <1>2
    <3> QED BY <3>1, <3>2
  <2> HIDE DEF pos
  <2>2. pos - c.resetPosition \in 0..SizeMod - 1
    BY <2>1, <1>2, CapacityAssumption
  <2>3. SizeMinus(c.size, pos - c.resetPosition) \in 0..SizeMod - 1
    BY <2>2, <1>2, SizeRange
  <2> QED BY <2>3, <1>2, <1>6, <1>7
<1>12. ASSUME NEW k \in 1..Len(f) PROVE f[k].pos >= p
  <2>1. PICK j : j = b + k - 1
    BY Zenon
  <2>2. /\ b \in 1..Len(f0) /\ j \in 1..Len(f0) /\ b <= j
        /\ f[k] = f0[j]
    BY <2>1, <1>8, <1>9 DEF IsDrop
  <2>3. f0[b].pos >= p /\ f0[b].pos \in Nat /\ f0[j].pos \in Nat
    BY <2>2, <1>4, <1>8
  <2>4. CASE j = b
    BY <2>2, <2>3, <2>4
  <2>5. CASE j # b
    <3>1. Increasing(f0)
      BY <1>1, SuffixIncreasing
    <3>2. b < j
      BY <2>2, <2>5
    <3>3. f0[b].pos < f0[j].pos
      BY <2>2, <3>1, <3>2 DEF Increasing
    <3> QED BY <2>2, <2>3, <3>3
  <2> QED BY <2>4, <2>5
<1> QED BY <1>5, <1>9, <1>10, <1>11, <1>12

(***************************************************************************)
(* A reset to any position keeps the queue a suffix of the log.            *)
(***************************************************************************)
LEMMA ResetKeepsLinked ==
  ASSUME NEW c \in CacheSet, NEW q \in Nat, NEW log \in Seq(EntrySet),
         Linked(c, log), Increasing(log), c.position < SizeMod
  PROVE  LET d == ResetUpToPosition(c, q)
         IN  /\ d \in CacheSet
             /\ d.position = c.position
             /\ d.impliedPosition = c.impliedPosition
             /\ Linked(d, log)
             /\ q <= c.position => d.resetPosition >= q
<1> DEFINE d == ResetUpToPosition(c, q)
<1>1. ASSUME q <= c.resetPosition PROVE d = c
  BY <1>1, Zenon DEF ResetUpToPosition
<1>2. ASSUME ~(q <= c.resetPosition), NEW p,
             p = IF q > c.position THEN c.position ELSE q
      PROVE  /\ d \in CacheSet
             /\ d.position = c.position
             /\ d.impliedPosition = c.impliedPosition
             /\ Linked(d, log)
             /\ q <= c.position => d.resetPosition >= q
  <2>1. /\ q > c.resetPosition
        /\ c.resetPosition <= c.position
        /\ p \in Nat /\ p <= c.position /\ p >= c.resetPosition
    BY <1>2 DEF CacheSet, Linked, CachedFrom
  <2>2. PICK y : y = (c.failed \/ ~FrontIs(KeptFrames(c, p), p))
    BY Zenon
  <2>3. /\ KeptFrames(c, p) \in Seq(EntrySet)
        /\ IsSuffixOf(KeptFrames(c, p), log)
        /\ \A k \in 1..Len(KeptFrames(c, p)) : KeptFrames(c, p)[k].pos >= p
        /\ \A i \in 1..Len(log) - Len(KeptFrames(c, p)) : log[i].pos <= p
        /\ KeptSize(c, p) \in 0..SizeMod - 1
    BY <2>1, KeptProperties
  <2> HIDE DEF d
  <2>4. /\ d.position = c.position
        /\ d.impliedPosition = c.impliedPosition
        /\ d.resetPosition = p
        /\ d.frames = KeptFrames(c, p)
        /\ d \in CacheSet
    <3> USE DEF d
    <3> QED BY <1>2, <2>1, <2>2, <2>3, ResetFields
  <2>5. \A i \in 1..Len(log) : log[i].pos < c.position
    BY DEF Linked, CachedFrom
  <2>6. Linked(d, log)
    BY <2>1, <2>3, <2>4, <2>5 DEF Linked, CachedFrom
  <2>7. q <= c.position => d.resetPosition >= q
    BY <1>2, <2>4 DEF CacheSet
  <2> QED BY <2>4, <2>6, <2>7
<1>3. PICK p : p = IF q > c.position THEN c.position ELSE q
  BY Zenon
<1> HIDE DEF d
<1>4. CASE q <= c.resetPosition
  BY <1>1, <1>4 DEF d, CacheSet
<1>5. CASE ~(q <= c.resetPosition)
  BY <1>2, <1>3, <1>5 DEF d
<1> QED BY <1>4, <1>5

(***************************************************************************)
(* The position reached by a round of eviction is a position of the cache. *)
(***************************************************************************)
LEMMA RoundPositionNat ==
  ASSUME NEW c \in CacheSet, NEW log \in Seq(EntrySet), Linked(c, log),
         NEW k \in 1..Len(c.frames)
  PROVE  RoundPosition(c, k) \in Nat /\ RoundPosition(c, k) <= c.position
<1>1. c.position \in Nat /\ Len(c.frames) \in Nat
  BY DEF CacheSet
<1>2. CASE k < Len(c.frames)
  <2>1. k + 1 \in 1..Len(c.frames)
    BY <1>1, <1>2
  <2>2. c.frames[k + 1].pos \in Nat /\ c.frames[k + 1].pos < c.position
    BY <2>1, CachedBelowPosition
  <2>3. RoundPosition(c, k) = c.frames[k + 1].pos
    BY <1>2, Zenon DEF RoundPosition
  <2> QED BY <1>1, <2>2, <2>3
<1>3. CASE ~(k < Len(c.frames))
  <2>1. RoundPosition(c, k) = c.position
    BY <1>3, Zenon DEF RoundPosition
  <2> QED BY <1>1, <2>1
<1> QED BY <1>2, <1>3

(***************************************************************************)
(* The number of rounds is the least one after which the new frame fits.   *)
(***************************************************************************)
Rounds(c) ==
    CHOOSE k \in 1..Len(c.frames) :
        /\ FitsAfter(c, k)
        /\ \A j \in 1..k - 1 : ~FitsAfter(c, j)

(***************************************************************************)
(* When some round of the eviction loop makes size_ fit, there is a first  *)
(* one.                                                                    *)
(***************************************************************************)
LEMMA RoundsLeast ==
  ASSUME NEW c \in CacheSet, \E k \in 1..Len(c.frames) : FitsAfter(c, k)
  PROVE  /\ Rounds(c) \in 1..Len(c.frames)
         /\ FitsAfter(c, Rounds(c))
         /\ \A j \in 1..Rounds(c) - 1 : ~FitsAfter(c, j)
<1> DEFINE S == {k \in 1..Len(c.frames) : FitsAfter(c, k)}
<1>1. Len(c.frames) \in Nat
  BY DEF CacheSet
<1>2. S \in SUBSET Nat /\ S # {}
  BY <1>1
<1>3. PICK m \in S : \A n \in S : m <= n
  BY <1>2, LeastNat
<1>4. \A j \in 1..m - 1 : ~FitsAfter(c, j)
  <2> SUFFICES ASSUME NEW j \in 1..m - 1 PROVE j \notin S
    BY <1>1, <1>3
  <2>1. m \in Nat /\ j \in Nat /\ ~(m <= j)
    BY <1>2, <1>3
  <2> QED BY <1>3, <2>1
<1>5. \E k \in 1..Len(c.frames) : /\ FitsAfter(c, k)
                                  /\ \A j \in 1..k - 1 : ~FitsAfter(c, j)
  BY <1>3, <1>4
<1> QED BY <1>5, Zenon DEF Rounds

(***************************************************************************)
(* The eviction loop is no step, one reset, or a reset of everything after *)
(* which the process fails.                                                *)
(***************************************************************************)
LEMMA EvictCases ==
  ASSUME NEW c \in CacheSet, NEW d, d = EvictUntilFits(c)
  PROVE  \/ c.size <= Capacity /\ d = c
         \/ /\ ~(c.size <= Capacity)
            /\ \E k \in 1..Len(c.frames) : FitsAfter(c, k)
            /\ d = ResetUpToPosition(c, RoundPosition(c, Rounds(c)))
         \/ /\ ~(c.size <= Capacity)
            /\ ~\E k \in 1..Len(c.frames) : FitsAfter(c, k)
            /\ d = [ResetUpToPosition(c, c.position) EXCEPT !.failed = TRUE]
BY Zenon DEF EvictUntilFits, Rounds

(***************************************************************************)
(* The eviction loop of addFrame, whatever number of rounds it takes,      *)
(* leaves a suffix of what was sent.                                       *)
(***************************************************************************)
LEMMA EvictKeepsLinked ==
  ASSUME NEW c \in CacheSet, NEW log \in Seq(EntrySet),
         Linked(c, log), Increasing(log), c.position < SizeMod,
         NEW d, d = EvictUntilFits(c)
  PROVE  /\ d \in CacheSet
         /\ d.position = c.position
         /\ d.impliedPosition = c.impliedPosition
         /\ Linked(d, log)
<1>1. CASE d = c
  BY <1>1
<1>2. CASE /\ \E k \in 1..Len(c.frames) : FitsAfter(c, k)
           /\ d = ResetUpToPosition(c, RoundPosition(c, Rounds(c)))
  <2>1. Rounds(c) \in 1..Len(c.frames)
    BY <1>2, RoundsLeast
  <2>2. RoundPosition(c, Rounds(c)) \in Nat
    BY <2>1, RoundPositionNat
  <2> QED BY <1>2, <2>2, ResetKeepsLinked
<1>3. CASE d = [ResetUpToPosition(c, c.position) EXCEPT !.failed = TRUE]
  <2> DEFINE e == ResetUpToPosition(c, c.position)
  <2>1. c.position \in Nat
    BY DEF CacheSet
  <2>2. /\ e \in CacheSet
        /\ e.position = c.position
        /\ e.impliedPosition = c.impliedPosition
        /\ Linked(e, log)
    BY <2>1, ResetKeepsLinked
  <2> HIDE DEF e
  <2>3. d = [e EXCEPT !.failed = TRUE]
    BY <1>3 DEF e
  <2>4. /\ d \in CacheSet
        /\ d.position = e.position
        /\ d.resetPosition = e.resetPosition
        /\ d.impliedPosition = e.impliedPosition
        /\ d.frames = e.frames
    BY <2>2, <2>3 DEF CacheSet
  <2>5. Linked(d, log)
    BY <2>2, <2>4, Zenon DEF Linked, CachedFrom
  <2> QED BY <2>2, <2>4, <2>5
<1> QED BY <1>1, <1>2, <1>3, EvictCases

(***************************************************************************)
(* Append under a name that is only expanded where that is asked for.      *)
(***************************************************************************)
Snoc(s, e) == Append(s, e)

(***************************************************************************)
(* Appending the same entry to the log and to its suffix.                  *)
(***************************************************************************)
LEMMA SnocCached ==
  ASSUME NEW log \in Seq(EntrySet), NEW f \in Seq(EntrySet), NEW r \in Nat,
         CachedFrom(r, f, log), NEW e \in EntrySet, e.pos >= r
  PROVE  CachedFrom(r, Snoc(f, e), Snoc(log, e))
<1> DEFINE g == Snoc(f, e)
           h == Snoc(log, e)
<1>1. /\ Len(f) \in Nat /\ Len(log) \in Nat
      /\ Len(g) = Len(f) + 1
      /\ Len(h) = Len(log) + 1
      /\ g[Len(f) + 1] = e
      /\ h[Len(log) + 1] = e
      /\ \A k \in 1..Len(f) : g[k] = f[k]
      /\ \A k \in 1..Len(log) : h[k] = log[k]
  BY DEF Snoc
<1>a. IsSuffixOf(f, log)
  BY DEF CachedFrom
<1> HIDE DEF g, h
<1>2. ASSUME NEW k \in 1..Len(g)
      PROVE  g[k] = h[Len(h) - Len(g) + k] /\ g[k].pos >= r
  <2>1. CASE k = Len(f) + 1
    <3>1. Len(h) - Len(g) + k = Len(log) + 1
      BY <1>1, <2>1
    <3> QED BY <1>1, <2>1, <3>1
  <2>2. CASE k # Len(f) + 1
    <3>1. k \in 1..Len(f) /\ Len(log) - Len(f) + k \in 1..Len(log)
      BY <1>1, <1>a, <2>2 DEF IsSuffixOf
    <3>2. Len(h) - Len(g) + k = Len(log) - Len(f) + k
      BY <1>1, <3>1
    <3>3. f[k] = log[Len(log) - Len(f) + k]
      BY <3>1, <1>a DEF IsSuffixOf
    <3>4. f[k].pos >= r
      BY <3>1 DEF CachedFrom
    <3> QED BY <1>1, <3>1, <3>2, <3>3, <3>4
  <2> QED BY <2>1, <2>2
<1>3. Len(g) <= Len(h) /\ Len(h) - Len(g) = Len(log) - Len(f)
  BY <1>1, <1>a DEF IsSuffixOf
<1>4. ASSUME NEW i \in 1..Len(h) - Len(g) PROVE h[i].pos <= r
  <2>1. i \in 1..Len(log) - Len(f) /\ i \in 1..Len(log)
    BY <1>1, <1>3
  <2>2. log[i].pos <= r
    BY <2>1 DEF CachedFrom
  <2> QED BY <1>1, <2>1, <2>2
<1>5. CachedFrom(r, g, h)
  BY <1>2, <1>3, <1>4 DEF IsSuffixOf, CachedFrom
<1> QED BY <1>5 DEF g, h

(***************************************************************************)
(* A frame has at least one byte.                                          *)
(***************************************************************************)
LEMMA LengthPositive == \A l \in Lengths : l \in Nat /\ l > 0
<1> SUFFICES ASSUME NEW l \in Lengths PROVE l \in Nat /\ l > 0
  OBVIOUS
<1>1. l \in Nat /\ l # 0
  BY LengthsAssumption, Zenon
<1> QED BY <1>1

(***************************************************************************)
(* What a new entry at position_ changes of the log.                       *)
(***************************************************************************)
LEMMA AppendLog ==
  ASSUME NEW c \in CacheSet, NEW log \in Seq(EntrySet),
         Linked(c, log), Increasing(log),
         NEW frame \in FrameSet,
         NEW e, e = [pos |-> c.position, frame |-> frame],
         NEW h, h = Append(log, e)
  PROVE  /\ e \in EntrySet
         /\ h \in Seq(EntrySet)
         /\ frame.len \in Nat /\ frame.len > 0
         /\ Increasing(h)
         /\ \A i \in 1..Len(h) : h[i].pos < c.position + frame.len
<1>1. c.position \in Nat
  BY DEF CacheSet
<1>2. e \in EntrySet /\ e.pos = c.position
  BY <1>1 DEF EntrySet
<1>3. frame.len \in Nat /\ frame.len > 0
  <2>1. frame.len \in Lengths
    BY DEF FrameSet
  <2> QED BY <2>1, LengthPositive
<1>4. /\ h \in Seq(EntrySet)
      /\ Len(log) \in Nat
      /\ Len(h) = Len(log) + 1
      /\ h[Len(log) + 1] = e
      /\ \A k \in 1..Len(log) : h[k] = log[k]
  BY <1>2
<1>5. ASSUME NEW k \in 1..Len(log)
      PROVE  log[k].pos \in Nat /\ log[k].pos < c.position
  <2>1. log[k] \in EntrySet
    OBVIOUS
  <2>2. log[k].pos \in Nat
    BY <2>1 DEF EntrySet
  <2> QED BY <2>2 DEF Linked, CachedFrom
<1>6. Increasing(h)
  <2> SUFFICES ASSUME NEW i \in 1..Len(h), NEW j \in 1..Len(h), i < j
               PROVE  h[i].pos < h[j].pos
    BY DEF Increasing
  <2>1. i \in 1..Len(log) /\ h[i] = log[i]
    BY <1>4
  <2>2. CASE j = Len(log) + 1
    BY <2>1, <2>2, <1>2, <1>4, <1>5
  <2>3. CASE j # Len(log) + 1
    <3>1. j \in 1..Len(log) /\ h[j] = log[j]
      BY <2>3, <1>4
    <3> QED BY <2>1, <3>1 DEF Increasing
  <2> QED BY <2>2, <2>3
<1>7. ASSUME NEW i \in 1..Len(h) PROVE h[i].pos < c.position + frame.len
  <2>1. CASE i = Len(log) + 1
    BY <2>1, <1>1, <1>2, <1>3, <1>4
  <2>2. CASE i # Len(log) + 1
    <3>1. i \in 1..Len(log) /\ h[i] = log[i]
      BY <2>2, <1>4
    <3> QED BY <3>1, <1>1, <1>3, <1>5
  <2> QED BY <2>1, <2>2
<1> QED BY <1>2, <1>3, <1>4, <1>6, <1>7

(***************************************************************************)
(* The object after the first statement of addFrame.                       *)
(***************************************************************************)
WithSizeOf(c, frame) == [c EXCEPT !.size = SizePlus(c.size, frame.len)]

(***************************************************************************)
(* trackSentFrame on a frame that fits: evict, append, advance.  c1 is the *)
(* object after size_ was increased, d after the eviction loop.            *)
(***************************************************************************)
LEMMA CacheFrameFields ==
  ASSUME NEW c \in CacheSet, NEW frame \in FrameSet, frame.len \in Nat,
         SizePlus(c.size, frame.len) \in 0..SizeMod - 1,
         NEW c1, c1 = WithSizeOf(c, frame),
         NEW d \in CacheSet, d = EvictUntilFits(c1),
         NEW e \in EntrySet, e = [pos |-> c.position, frame |-> frame],
         NEW n, n = CacheFrame(c, frame)
  PROVE  /\ n \in CacheSet
         /\ n.position = c.position + frame.len
         /\ n.resetPosition = d.resetPosition
         /\ n.impliedPosition = d.impliedPosition
         /\ n.frames = Append(d.frames, e)
         /\ n.size = d.size
         /\ n.failed = d.failed
<1> DEFINE fs == Append(d.frames, e)
           end == c.position + frame.len
           m == [d.streamMap EXCEPT ![frame.stream] = end]
           a == [d EXCEPT !.frames = fs]
<1>1. AddFrame(c, frame) = a
  BY Zenon DEF AddFrame, WithSizeOf
<1>2. n = [a EXCEPT !.position = end, !.streamMap[frame.stream] = end]
  BY <1>1, Zenon DEF CacheFrame
<1>3. end \in Nat /\ fs \in Seq(EntrySet)
  BY DEF CacheSet
<1>4. m \in [StreamIds -> Nat]
  BY <1>3 DEF CacheSet
<1> HIDE DEF fs, end
<1>5. n = [d EXCEPT !.frames = fs, !.position = end, !.streamMap = m]
  BY <1>2 DEF CacheSet
<1> HIDE DEF m
<1>6. /\ n \in CacheSet
      /\ n.position = end
      /\ n.resetPosition = d.resetPosition
      /\ n.impliedPosition = d.impliedPosition
      /\ n.frames = fs
      /\ n.size = d.size
      /\ n.failed = d.failed
  BY <1>3, <1>4, <1>5 DEF CacheSet
<1> QED BY <1>6 DEF fs, end

(***************************************************************************)
(* Sending a frame, cached or too large to be, keeps the queue a suffix of *)
(* the log with the frame appended.                                        *)
(***************************************************************************)
LEMMA CacheFrameKeepsLinked ==
  ASSUME NEW c \in CacheSet, NEW log \in Seq(EntrySet),
         Linked(c, log), Increasing(log), NEW frame \in FrameSet,
         c.position < SizeMod, frame.len < SizeMod,
         NEW e, e = [pos |-> c.position, frame |-> frame],
         NEW n, n = CacheFrame(c, frame)
  PROVE  /\ n \in CacheSet
         /\ n.position = c.position + frame.len
         /\ Linked(n, Append(log, e))
<1>1. PICK h : h = Append(log, e)
  BY Zenon
<1>2. /\ e \in EntrySet
      /\ h \in Seq(EntrySet)
      /\ frame.len \in Nat /\ frame.len > 0
      /\ \A i \in 1..Len(h) : h[i].pos < c.position + frame.len
  BY <1>1, AppendLog
<1>3. c.position \in Nat /\ c.size \in 0..SizeMod - 1
  BY DEF CacheSet
<1>4. SizePlus(c.size, frame.len) \in 0..SizeMod - 1
  <2>1. frame.len \in 0..SizeMod - 1
    BY <1>2, CapacityAssumption
  <2> QED BY <1>3, <2>1, SizeRange
<1>5. PICK c1 : c1 = WithSizeOf(c, frame)
  BY Zenon
<1>6. /\ c1 \in CacheSet
      /\ c1.position = c.position
      /\ c1.resetPosition = c.resetPosition
      /\ c1.frames = c.frames
  BY <1>4, <1>5 DEF CacheSet, WithSizeOf
<1>7. Linked(c1, log)
  BY <1>6, Zenon DEF Linked, CachedFrom
<1>8. PICK d : d = EvictUntilFits(c1)
  BY Zenon
<1>9. d \in CacheSet /\ d.position = c.position /\ Linked(d, log)
  BY <1>6, <1>7, <1>8, EvictKeepsLinked
<1>10. /\ n \in CacheSet
       /\ n.position = c.position + frame.len
       /\ n.resetPosition = d.resetPosition
       /\ n.frames = Append(d.frames, e)
  <2>1. e \in EntrySet /\ frame.len \in Nat /\ d \in CacheSet
    BY <1>2, <1>9
  <2> QED BY <2>1, <1>4, <1>5, <1>8, CacheFrameFields
<1>11. Linked(n, h)
  <2>1. PICK f, r : f = d.frames /\ r = d.resetPosition
    BY Zenon
  <2>2. f \in Seq(EntrySet) /\ r \in Nat /\ r <= c.position
    BY <2>1, <1>9 DEF CacheSet, Linked
  <2>3. CachedFrom(r, f, log)
    BY <2>1, <1>9, Zenon DEF Linked
  <2>4. e \in EntrySet /\ e.pos >= r
    BY <2>2, <1>2, <1>3
  <2>5. CachedFrom(r, Snoc(f, e), Snoc(log, e))
    BY <2>2, <2>3, <2>4, SnocCached
  <2>6. CachedFrom(n.resetPosition, n.frames, h)
    BY <2>1, <2>5, <1>1, <1>10, Zenon DEF Snoc
  <2>7. n.resetPosition <= n.position
    BY <2>1, <2>2, <1>2, <1>3, <1>10
  <2>8. \A i \in 1..Len(h) : h[i].pos < n.position
    BY <1>2, <1>10
  <2> QED BY <2>6, <2>7, <2>8 DEF Linked
<1> QED BY <1>1, <1>10, <1>11

(***************************************************************************)
(* When the reset position has reached position_, nothing is cached.       *)
(***************************************************************************)
LEMMA NothingAbovePosition ==
  ASSUME NEW c \in CacheSet, NEW log \in Seq(EntrySet), Linked(c, log),
         c.resetPosition >= c.position
  PROVE  c.frames = << >> /\ c.resetPosition = c.position
<1>1. c.frames \in Seq(EntrySet) /\ c.position \in Nat /\ c.resetPosition \in Nat
  BY DEF CacheSet
<1>2. c.resetPosition = c.position
  BY <1>1 DEF Linked
<1>3. Len(c.frames) = 0
  <2> SUFFICES ASSUME Len(c.frames) # 0 PROVE FALSE
    OBVIOUS
  <2>1. 1 \in 1..Len(c.frames)
    BY <1>1
  <2>2. c.frames[1].pos \in Nat /\ c.frames[1].pos < c.position
    BY <2>1, CachedBelowPosition
  <2>3. c.frames[1].pos >= c.resetPosition
    BY <2>1 DEF Linked, CachedFrom
  <2> QED BY <1>1, <1>2, <2>2, <2>3
<1> QED BY <1>1, <1>2, <1>3, EmptySeq

(***************************************************************************)
(* A log without cached frames may grow by a frame that is not cached.     *)
(***************************************************************************)
LEMMA SkipCached ==
  ASSUME NEW log \in Seq(EntrySet), NEW r \in Nat,
         CachedFrom(r, << >>, log), NEW e \in EntrySet, e.pos <= r
  PROVE  CachedFrom(r, << >>, Snoc(log, e))
<1> DEFINE h == Snoc(log, e)
<1>1. /\ Len(log) \in Nat
      /\ Len(h) = Len(log) + 1
      /\ h[Len(log) + 1] = e
      /\ \A k \in 1..Len(log) : h[k] = log[k]
  BY DEF Snoc
<1> HIDE DEF h
<1>2. \A i \in 1..Len(log) : log[i].pos <= r
  BY DEF CachedFrom
<1>3. \A i \in 1..Len(h) : h[i].pos <= r
  BY <1>1, <1>2
<1>4. CachedFrom(r, << >>, h)
  BY <1>1, <1>3 DEF CachedFrom, IsSuffixOf
<1> QED BY <1>4 DEF h

(***************************************************************************)
(* A frame larger than the capacity empties the cache and is itself        *)
(* unavailable: what is cached is again a suffix, the empty one.           *)
(***************************************************************************)
LEMMA HugeFrameKeepsLinked ==
  ASSUME NEW c \in CacheSet, NEW log \in Seq(EntrySet),
         Linked(c, log), Increasing(log), NEW frame \in FrameSet,
         c.position < SizeMod,
         NEW e, e = [pos |-> c.position, frame |-> frame],
         NEW n, n = TrackHugeFrame(c, frame)
  PROVE  /\ n \in CacheSet
         /\ n.position = c.position + frame.len
         /\ Linked(n, Append(log, e))
<1>1. PICK h : h = Append(log, e)
  BY Zenon
<1>2. /\ e \in EntrySet
      /\ h \in Seq(EntrySet)
      /\ frame.len \in Nat /\ frame.len > 0
      /\ \A i \in 1..Len(h) : h[i].pos < c.position + frame.len
  BY <1>1, AppendLog
<1>3. c.position \in Nat
  BY DEF CacheSet
<1>4. PICK d : d = ResetUpToPosition(c, c.position)
  BY Zenon
<1>5. /\ d \in CacheSet
      /\ d.position = c.position
      /\ Linked(d, log)
      /\ d.resetPosition >= c.position
  BY <1>3, <1>4, ResetKeepsLinked
<1>6. d.frames = << >> /\ d.resetPosition = c.position
  BY <1>5, NothingAbovePosition
<1>7. PICK x : x = (d.failed \/ d.size # 0)
  BY Zenon
<1>8. x \in BOOLEAN
  BY <1>7, Zenon
<1>9. n = [d EXCEPT !.position = d.position + frame.len, !.failed = x]
  BY <1>4, <1>7, Zenon DEF TrackHugeFrame
<1>10. /\ n \in CacheSet
       /\ n.position = c.position + frame.len
       /\ n.resetPosition = c.position
       /\ n.frames = << >>
  <2>1. PICK end : end = d.position + frame.len
    BY Zenon
  <2>2. end \in Nat /\ end = c.position + frame.len
    BY <1>2, <1>3, <1>5, <2>1
  <2>3. n = [d EXCEPT !.position = end, !.failed = x]
    BY <1>9, <2>1, Zenon
  <2>4. /\ n \in CacheSet
        /\ n.position = end
        /\ n.resetPosition = d.resetPosition
        /\ n.frames = d.frames
    BY <1>5, <1>8, <2>2, <2>3 DEF CacheSet
  <2> QED BY <1>6, <2>2, <2>4
<1>11. Linked(n, h)
  <2>1. CachedFrom(c.position, << >>, log)
    BY <1>5, <1>6 DEF Linked
  <2>2. e.pos <= c.position
    BY <1>3
  <2>3. CachedFrom(c.position, << >>, Snoc(log, e))
    BY <1>2, <1>3, <2>1, <2>2, SkipCached
  <2>4. CachedFrom(n.resetPosition, n.frames, h)
    BY <2>3, <1>1, <1>10, Zenon DEF Snoc
  <2>5. n.resetPosition <= n.position
    BY <1>2, <1>3, <1>10
  <2> QED BY <2>4, <2>5, <1>2, <1>10 DEF Linked
<1> QED BY <1>1, <1>10, <1>11

-----------------------------------------------------------------------------
(* The invariant is inductive                                              *)

(***************************************************************************)
(* A new cache satisfies the invariant.                                    *)
(***************************************************************************)
LEMMA InitEstablishes == Init => IInv
<1> SUFFICES ASSUME Init PROVE IInv
  OBVIOUS
<1>1. cache = NewCache /\ sent = << >> /\ acked = 0
  BY DEF Init
<1>2. SizeMod > 0 /\ SizeMod \in Nat /\ MaxPosition \in Nat
  BY CapacityAssumption, PositionAssumption
<1>3. NewCache \in CacheSet
  BY <1>2 DEF NewCache, CacheSet
<1>4. TypeOK
  BY <1>1, <1>3 DEF TypeOK
<1>5. /\ cache.position = 0
      /\ cache.resetPosition = 0
      /\ cache.frames = << >>
  BY <1>1 DEF NewCache
<1>6. Len(sent) = 0 /\ Len(cache.frames) = 0
  BY <1>1, <1>5
<1>7. Increasing(sent)
  BY <1>6 DEF Increasing
<1>8. Linked(cache, sent)
  BY <1>5, <1>6 DEF Linked, CachedFrom, IsSuffixOf
<1> QED BY <1>2, <1>4, <1>5, <1>7, <1>8 DEF IInv

(***************************************************************************)
(* trackSentFrame preserves the invariant: a frame that is not tracked,    *)
(* one that is too large and one that is cached.                           *)
(***************************************************************************)
LEMMA SendFramePreserves ==
  ASSUME IInv, NEW frame \in FrameSet, SendFrame(frame)
  PROVE  IInv'
<1>1. /\ cache \in CacheSet
      /\ sent \in Seq(EntrySet)
      /\ acked \in Nat
      /\ Increasing(sent)
      /\ Linked(cache, sent)
  BY DEF IInv, TypeOK
<1>2. /\ cache.position + frame.len <= MaxPosition
      /\ cache' = TrackSentFrame(cache, frame)
      /\ acked' = acked
  BY DEF SendFrame
<1>3. CASE ~ShouldTrackFrame(frame.type)
  <2>1. cache' = cache /\ sent' = sent
    BY <1>2, <1>3, Zenon DEF SendFrame, TrackSentFrame
  <2> QED BY <1>2, <2>1 DEF IInv, TypeOK, Increasing, Linked, CachedFrom
<1>4. CASE ShouldTrackFrame(frame.type)
  <2>1. PICK e : e = [pos |-> cache.position, frame |-> frame]
    BY Zenon
  <2>2. sent' = Append(sent, e)
    BY <1>4, <2>1, Zenon DEF SendFrame
  <2>3. /\ sent' \in Seq(EntrySet)
        /\ frame.len \in Nat
        /\ Increasing(sent')
    BY <1>1, <2>1, <2>2, AppendLog
  <2>4. /\ cache.position < SizeMod
        /\ frame.len < SizeMod
        /\ cache.position + frame.len <= MaxPosition
    <3>1. cache.position \in Nat
      BY <1>1 DEF CacheSet
    <3> QED BY <1>2, <2>3, <3>1, CapacityAssumption, PositionAssumption
  <2>5. ASSUME frame.len > Capacity
        PROVE  /\ cache' \in CacheSet
               /\ cache'.position = cache.position + frame.len
               /\ Linked(cache', sent')
    <3>1. cache' = TrackHugeFrame(cache, frame)
      BY <1>2, <1>4, <2>5, Zenon DEF TrackSentFrame
    <3> QED BY <1>1, <2>1, <2>2, <2>4, <3>1, HugeFrameKeepsLinked
  <2>6. ASSUME ~(frame.len > Capacity)
        PROVE  /\ cache' \in CacheSet
               /\ cache'.position = cache.position + frame.len
               /\ Linked(cache', sent')
    <3>1. cache' = CacheFrame(cache, frame)
      BY <1>2, <1>4, <2>6, Zenon DEF TrackSentFrame
    <3> QED BY <1>1, <2>1, <2>2, <2>4, <3>1, CacheFrameKeepsLinked
  <2>7. /\ cache' \in CacheSet
        /\ cache'.position = cache.position + frame.len
        /\ Linked(cache', sent')
    BY <2>5, <2>6
  <2>8. acked' \in Nat /\ cache'.position <= MaxPosition
    BY <1>1, <1>2, <2>7
  <2> QED BY <2>3, <2>7, <2>8 DEF IInv, TypeOK
<1> QED BY <1>3, <1>4

(***************************************************************************)
(* trackReceivedFrame preserves the invariant.                             *)
(***************************************************************************)
LEMMA ReceiveFramePreserves ==
  ASSUME IInv, NEW frame \in FrameSet, ReceiveFrame(frame)
  PROVE  IInv'
<1>1. /\ cache \in CacheSet
      /\ sent \in Seq(EntrySet)
      /\ acked \in Nat
      /\ cache.position <= MaxPosition
      /\ Increasing(sent)
      /\ Linked(cache, sent)
  BY DEF IInv, TypeOK
<1>2. sent' = sent /\ acked' = acked
  BY DEF ReceiveFrame
<1>3. /\ cache' \in CacheSet
      /\ cache'.position = cache.position
      /\ cache'.resetPosition = cache.resetPosition
      /\ cache'.frames = cache.frames
  <2>1. CASE ~ShouldTrackFrame(frame.type)
    BY <1>1, <2>1, Zenon DEF ReceiveFrame, TrackReceivedFrame
  <2>2. CASE ShouldTrackFrame(frame.type)
    <3>1. PICK q : q = cache.impliedPosition + frame.len
      BY Zenon
    <3>2. cache' = [cache EXCEPT !.impliedPosition = q]
      BY <2>2, <3>1, Zenon DEF ReceiveFrame, TrackReceivedFrame
    <3>3. frame.len \in Lengths /\ cache.impliedPosition \in Nat
      BY <1>1 DEF FrameSet, CacheSet
    <3>4. q \in Nat
      BY <3>1, <3>3, LengthPositive
    <3> QED BY <1>1, <3>2, <3>4 DEF CacheSet
  <2> QED BY <2>1, <2>2
<1>4. Linked(cache', sent')
  BY <1>1, <1>2, <1>3, Zenon DEF Linked
<1> QED BY <1>1, <1>2, <1>3, <1>4 DEF IInv, TypeOK

(***************************************************************************)
(* resetUpToPosition, for a position the peer acknowledges, preserves the  *)
(* invariant.                                                              *)
(***************************************************************************)
LEMMA ReceiveAckPreserves ==
  ASSUME IInv, NEW position \in Boundaries, ReceiveAck(position)
  PROVE  IInv'
<1>1. /\ cache \in CacheSet
      /\ sent \in Seq(EntrySet)
      /\ acked \in Nat
      /\ cache.position <= MaxPosition
      /\ Increasing(sent)
      /\ Linked(cache, sent)
  BY DEF IInv, TypeOK
<1>2. sent' = sent /\ cache' = ResetUpToPosition(cache, position)
  BY DEF ReceiveAck
<1>3. position \in Nat
  <2>1. cache.position \in Nat
    BY <1>1 DEF CacheSet
  <2>2. ASSUME NEW i \in 1..Len(sent) PROVE sent[i].pos \in Nat
    <3>1. sent[i] \in EntrySet
      BY <1>1
    <3> QED BY <3>1 DEF EntrySet
  <2> QED BY <2>1, <2>2 DEF Boundaries
<1>4. acked' \in Nat
  BY <1>1, <1>3 DEF ReceiveAck
<1>5. cache.position < SizeMod
  <2>1. cache.position \in Nat
    BY <1>1 DEF CacheSet
  <2> QED BY <1>1, <2>1, CapacityAssumption, PositionAssumption
<1>6. /\ cache' \in CacheSet
      /\ cache'.position = cache.position
      /\ Linked(cache', sent')
  BY <1>1, <1>2, <1>3, <1>5, ResetKeepsLinked
<1> QED BY <1>1, <1>2, <1>4, <1>6 DEF IInv, TypeOK

(***************************************************************************)
(* Every step preserves the invariant.                                     *)
(***************************************************************************)
LEMMA NextPreserves == IInv /\ [Next]_vars => IInv'
<1> SUFFICES ASSUME IInv, [Next]_vars PROVE IInv'
  OBVIOUS
<1>1. CASE UNCHANGED vars
  <2>1. cache' = cache /\ sent' = sent /\ acked' = acked
    BY <1>1 DEF vars
  <2> QED BY <2>1 DEF IInv, TypeOK, Increasing, Linked, CachedFrom
<1>2. ASSUME NEW frame \in FrameSet, SendFrame(frame) PROVE IInv'
  BY <1>2, SendFramePreserves
<1>3. ASSUME NEW frame \in FrameSet, ReceiveFrame(frame) PROVE IInv'
  BY <1>3, ReceiveFramePreserves
<1>4. ASSUME NEW position \in Boundaries, ReceiveAck(position) PROVE IInv'
  BY <1>4, ReceiveAckPreserves
<1> QED BY <1>1, <1>2, <1>3, <1>4, Zenon DEF Next

(***************************************************************************)
(* The invariant holds in every state of every behaviour.                  *)
(***************************************************************************)
LEMMA Invariance == Spec => []IInv
<1>1. Init => IInv
  BY InitEstablishes
<1>2. IInv /\ [Next]_vars => IInv'
  BY NextPreserves
<1> QED BY <1>1, <1>2, PTL DEF Spec

(***************************************************************************)
(* Type correctness, size_ staying in the range of size_t included.        *)
(***************************************************************************)
THEOREM TypeCorrect == Spec => []TypeOK
<1>1. IInv => TypeOK
  BY DEF IInv
<1> QED BY <1>1, Invariance, PTL

-----------------------------------------------------------------------------
(* Exact replay                                                            *)

(***************************************************************************)
(* In an increasing log a position belongs to one entry.                   *)
(***************************************************************************)
LEMMA PositionUnique ==
  ASSUME NEW log \in Seq(EntrySet), Increasing(log),
         NEW i \in 1..Len(log), NEW j \in 1..Len(log), log[i].pos = log[j].pos
  PROVE  i = j
<1>1. log[i] \in EntrySet /\ log[j] \in EntrySet
  OBVIOUS
<1>2. log[i].pos \in Nat /\ log[j].pos \in Nat
  BY <1>1 DEF EntrySet
<1>3. ~(i < j) /\ ~(j < i)
  BY <1>2 DEF Increasing
<1> QED BY <1>3

(***************************************************************************)
(* lower_bound finds the frame that starts at p when there is one.         *)
(***************************************************************************)
LEMMA LowerBoundFinds ==
  ASSUME NEW frames \in Seq(EntrySet), Increasing(frames),
         NEW k \in 1..Len(frames), NEW p, p = frames[k].pos
  PROVE  LowerBound(frames, p) = k
<1>1. frames[k] \in EntrySet
  OBVIOUS
<1>2. p \in Nat
  BY <1>1 DEF EntrySet
<1>3. PICK b : b = LowerBound(frames, p)
  BY Zenon
<1>4. /\ b \in 1..Len(frames) + 1
      /\ b = Len(frames) + 1 \/ frames[b].pos >= p
      /\ \A j \in 1..b - 1 : frames[j].pos < p
  BY <1>2, <1>3, LowerBoundSplits
<1>5. ~(k < b)
  <2> SUFFICES ASSUME k < b PROVE FALSE
    OBVIOUS
  <2>1. k \in 1..b - 1
    BY <1>4
  <2>2. frames[k].pos < p
    BY <1>4, <2>1
  <2> QED BY <1>2, <2>2
<1>6. ~(b < k)
  <2> SUFFICES ASSUME b < k PROVE FALSE
    OBVIOUS
  <2>1. b \in 1..Len(frames) /\ frames[b].pos >= p
    BY <1>4
  <2>2. frames[b].pos < frames[k].pos
    BY <2>1 DEF Increasing
  <2>3. frames[b] \in EntrySet
    BY <2>1
  <2>4. frames[b].pos \in Nat
    BY <2>3 DEF EntrySet
  <2> QED BY <1>2, <2>1, <2>2, <2>4
<1> QED BY <1>3, <1>4, <1>5, <1>6

(***************************************************************************)
(* Two logs, one a suffix of the other, agree from matching indices on.    *)
(***************************************************************************)
LEMMA SuffixesAgree ==
  ASSUME NEW log \in Seq(EntrySet), NEW f \in Seq(EntrySet), IsSuffixOf(f, log),
         NEW k \in 1..Len(f), NEW i \in 1..Len(log), i = Len(log) - Len(f) + k
  PROVE  SubSeq(f, k, Len(f)) = SubSeq(log, i, Len(log))
<1>1. Len(log) \in Nat /\ Len(f) \in Nat /\ k \in Nat /\ i \in Nat
  OBVIOUS
<1>2. PICK a, b : a = SubSeq(f, k, Len(f)) /\ b = SubSeq(log, i, Len(log))
  BY Zenon
<1>3. /\ a \in Seq(EntrySet)
      /\ Len(a) = Len(f) - k + 1
      /\ \A j \in 1..Len(f) - k + 1 : a[j] = f[k + j - 1]
  BY <1>1, <1>2, DropProperties
<1>4. /\ b \in Seq(EntrySet)
      /\ Len(b) = Len(log) - i + 1
      /\ \A j \in 1..Len(log) - i + 1 : b[j] = log[i + j - 1]
  BY <1>1, <1>2, DropProperties
<1>5. Len(a) = Len(b)
  BY <1>1, <1>3, <1>4
<1>6. ASSUME NEW j \in 1..Len(a) PROVE a[j] = b[j]
  <2>1. k + j - 1 \in 1..Len(f) /\ j \in 1..Len(f) - k + 1 /\ j \in 1..Len(log) - i + 1
    BY <1>1, <1>3
  <2>2. f[k + j - 1] = log[Len(log) - Len(f) + (k + j - 1)]
    BY <2>1 DEF IsSuffixOf
  <2>3. Len(log) - Len(f) + (k + j - 1) = i + j - 1
    BY <1>1, <2>1
  <2> QED BY <1>3, <1>4, <2>1, <2>2, <2>3
<1>7. a = b
  BY <1>3, <1>4, <1>5, <1>6, SeqEqual
<1> QED BY <1>2, <1>7

(***************************************************************************)
(* In a state that satisfies the invariant, sendFramesFromPosition replays *)
(* exactly the frames sent from an available position on.                  *)
(***************************************************************************)
LEMMA ReplayFromInvariant == IInv => ReplayIsExactSuffix
<1> SUFFICES ASSUME IInv, NEW i \in 1..Len(sent),
                    IsPositionAvailable(cache, sent[i].pos)
             PROVE  SendFramesFromPosition(cache, sent[i].pos)
                        = SubSeq(sent, i, Len(sent))
  BY DEF ReplayIsExactSuffix
<1>1. PICK c, f, log, p : /\ c = cache /\ f = cache.frames
                          /\ log = sent /\ p = sent[i].pos
  BY Zenon
<1>2. /\ f \in Seq(EntrySet) /\ log \in Seq(EntrySet) /\ c.position \in Nat
      /\ Increasing(log) /\ IsSuffixOf(f, log)
  BY <1>1 DEF IInv, TypeOK, CacheSet, Linked, CachedFrom
<1>3. i \in 1..Len(log) /\ p = log[i].pos
  BY <1>1
<1>4. p \in Nat /\ p < c.position
  <2>1. log[i] \in EntrySet
    BY <1>2, <1>3
  <2>2. log[i].pos \in Nat
    BY <2>1 DEF EntrySet
  <2>3. log[i].pos < c.position
    BY <1>1, <1>3 DEF IInv, Linked
  <2> QED BY <1>3, <2>2, <2>3
<1>5. p # c.position
  BY <1>2, <1>4
<1>6. PICK k \in 1..Len(f) : f[k].pos = p
  BY <1>1, <1>5 DEF IsPositionAvailable
<1>7. LowerBound(f, p) = k
  <2>1. Increasing(f)
    BY <1>2, SuffixIncreasing
  <2> QED BY <1>2, <1>6, <2>1, LowerBoundFinds
<1>8. i = Len(log) - Len(f) + k
  <2>1. PICK j : j = Len(log) - Len(f) + k
    BY Zenon
  <2>2. j \in 1..Len(log)
    BY <1>2, <2>1 DEF IsSuffixOf
  <2>3. f[k] = log[j]
    BY <1>2, <2>1 DEF IsSuffixOf
  <2>4. log[j].pos = log[i].pos
    BY <1>3, <1>6, <2>3
  <2>5. i = j
    BY <1>2, <1>3, <2>2, <2>4, PositionUnique
  <2> QED BY <2>1, <2>5
<1>9. SendFramesFromPosition(c, p) = SubSeq(f, k, Len(f))
  BY <1>1, <1>5, <1>7, Zenon DEF SendFramesFromPosition
<1>10. SubSeq(f, k, Len(f)) = SubSeq(log, i, Len(log))
  BY <1>2, <1>3, <1>6, <1>8, SuffixesAgree
<1> QED BY <1>1, <1>9, <1>10

(***************************************************************************)
(* For every capacity and every choice of frame lengths, frames larger     *)
(* than the capacity included: whenever a resume position is accepted, the *)
(* frames sent again are exactly those sent from that position on.         *)
(***************************************************************************)
THEOREM ExactReplay == Spec => []ReplayIsExactSuffix
BY ReplayFromInvariant, Invariance, PTL

-----------------------------------------------------------------------------
(***************************************************************************)
(* What the ResumeCache object accounts for besides the frames it replays: *)
(* streamMap_ names the streams that have a cached frame, and, while every *)
(* frame fits the cache, size_ is the number of bytes cached and eviction  *)
(* takes no more than the capacity forces.  The arguments extend the       *)
(* invariant above: the cached frames follow one another without a gap up  *)
(* to position_.                                                           *)
(***************************************************************************)

End(e) == e.pos + e.frame.len

(***************************************************************************)
(* Each frame of f ends where the next one starts, the last one at q.      *)
(***************************************************************************)
Chained(f, q) ==
    \A i \in 1..Len(f) : End(f[i]) = IF i < Len(f) THEN f[i + 1].pos ELSE q

(***************************************************************************)
(* m has, for each stream with a frame in f, the end of one of them that   *)
(* no other exceeds, and 0 for each stream without one.                    *)
(***************************************************************************)
MapMatches(f, m) ==
    \A s \in StreamIds :
        /\ \A k \in 1..Len(f) : f[k].frame.stream = s => m[s] >= End(f[k])
        /\ m[s] # 0 => \E k \in 1..Len(f) : f[k].frame.stream = s /\ m[s] = End(f[k])

(***************************************************************************)
(* The first of the frames f starts at p; without a frame p is the end q.  *)
(***************************************************************************)
FirstAt(f, q, p) == IF f = << >> THEN p = q ELSE f[1].pos = p

(***************************************************************************)
(* size_ counts the bytes from resetPosition_ to position_, and these are  *)
(* the bytes cached.                                                       *)
(***************************************************************************)
Counted(c) ==
    /\ c.size = c.position - c.resetPosition
    /\ FirstAt(c.frames, c.position, c.resetPosition)

(***************************************************************************)
(* Nothing within the capacity and not acknowledged was evicted.           *)
(***************************************************************************)
Retained(q, r, log, a) ==
    \A i \in 1..Len(log) :
        (log[i].pos >= a /\ q - log[i].pos <= Capacity) => log[i].pos >= r

Fits(c, log, a) ==
    /\ c.failed = FALSE
    /\ Counted(c)
    /\ c.size <= Capacity
    /\ Retained(c.position, c.resetPosition, log, a)

SInv ==
    /\ Chained(cache.frames, cache.position)
    /\ MapMatches(cache.frames, cache.streamMap)
    /\ AllFit => Fits(cache, sent, acked)

-----------------------------------------------------------------------------
(* Frames and their ends                                                   *)

(***************************************************************************)
(* A cached frame has at least one byte.                                   *)
(***************************************************************************)
LEMMA EntryEnd ==
  ASSUME NEW e \in EntrySet
  PROVE  /\ e.pos \in Nat /\ End(e) \in Nat /\ e.pos < End(e)
         /\ e.frame.stream \in StreamIds
<1>1. /\ e.pos \in Nat
      /\ e.frame.len \in Lengths
      /\ e.frame.stream \in StreamIds
  BY DEF EntrySet, FrameSet
<1>2. e.frame.len \in Nat /\ e.frame.len > 0
  BY <1>1, LengthPositive
<1> QED BY <1>1, <1>2 DEF End

(***************************************************************************)
(* In a chain of frames no frame reaches over the start of a later one.    *)
(***************************************************************************)
LEMMA ChainEnds ==
  ASSUME NEW f \in Seq(EntrySet), NEW q \in Nat, Chained(f, q), Increasing(f),
         \A i \in 1..Len(f) : f[i].pos < q
  PROVE  /\ \A i, j \in 1..Len(f) : i < j => End(f[i]) <= f[j].pos
         /\ \A i \in 1..Len(f) : End(f[i]) <= q
<1>1. Len(f) \in Nat
  OBVIOUS
<1>2. \A i \in 1..Len(f) : f[i].pos \in Nat /\ End(f[i]) \in Nat
  BY EntryEnd
<1>3. ASSUME NEW i \in 1..Len(f), i < Len(f)
      PROVE  i + 1 \in 1..Len(f) /\ End(f[i]) = f[i + 1].pos
  BY <1>1, <1>3 DEF Chained
<1>4. ASSUME NEW i \in 1..Len(f), NEW j \in 1..Len(f), i < j
      PROVE  End(f[i]) <= f[j].pos
  <2>1. i < Len(f)
    BY <1>1, <1>4
  <2>2. i + 1 \in 1..Len(f) /\ End(f[i]) = f[i + 1].pos
    BY <1>3, <2>1
  <2>3. CASE i + 1 = j
    BY <1>2, <2>2, <2>3
  <2>4. CASE i + 1 < j
    BY <1>2, <2>2, <2>4 DEF Increasing
  <2> QED BY <1>4, <2>3, <2>4
<1>5. ASSUME NEW i \in 1..Len(f)
      PROVE  End(f[i]) <= q
  <2>1. CASE i < Len(f)
    BY <1>2, <1>3, <2>1
  <2>2. CASE ~(i < Len(f))
    BY <2>2 DEF Chained
  <2> QED BY <2>1, <2>2
<1> QED BY <1>4, <1>5

(***************************************************************************)
(* What is left of a chain when frames are dropped from its front.         *)
(***************************************************************************)
LEMMA DropChain ==
  ASSUME NEW f \in Seq(EntrySet), NEW q \in Nat, Chained(f, q),
         NEW b \in 1..Len(f) + 1, NEW g, g = SubSeq(f, b, Len(f))
  PROVE  /\ g \in Seq(EntrySet)
         /\ Len(g) = Len(f) - b + 1
         /\ \A k \in 1..Len(g) : b + k - 1 \in b..Len(f) /\ g[k] = f[b + k - 1]
         /\ Chained(g, q)
<1>1. Len(f) \in Nat
  OBVIOUS
<1>2. /\ g \in Seq(EntrySet)
      /\ Len(g) = Len(f) - b + 1
      /\ \A k \in 1..Len(f) - b + 1 : g[k] = f[b + k - 1]
  BY DropProperties
<1>3. \A k \in 1..Len(g) : b + k - 1 \in b..Len(f) /\ g[k] = f[b + k - 1]
  BY <1>1, <1>2
<1>4. ASSUME NEW k \in 1..Len(g)
      PROVE  End(g[k]) = IF k < Len(g) THEN g[k + 1].pos ELSE q
  <2>1. PICK i : i = b + k - 1
    BY Zenon
  <2>2. i \in 1..Len(f) /\ g[k] = f[i]
    BY <1>1, <1>3, <2>1
  <2>3. CASE k < Len(g)
    <3>1. k + 1 \in 1..Len(g) /\ b + (k + 1) - 1 = i + 1 /\ i < Len(f)
      BY <1>1, <1>2, <2>1, <2>3
    <3>2. g[k + 1] = f[i + 1]
      BY <1>3, <3>1
    <3> QED BY <2>2, <2>3, <3>1, <3>2 DEF Chained
  <2>4. CASE ~(k < Len(g))
    <3>1. ~(i < Len(f))
      BY <1>1, <1>2, <2>1, <2>4
    <3> QED BY <2>2, <2>4, <3>1 DEF Chained
  <2> QED BY <2>3, <2>4
<1> QED BY <1>2, <1>3, <1>4 DEF Chained

(***************************************************************************)
(* p is where a cached frame starts, or position_.                         *)
(***************************************************************************)
AtFrame(f, q, p) == p = q \/ \E k \in 1..Len(f) : f[k].pos = p

(***************************************************************************)
(* Resetting to a boundary drops the frames below it, and forgets exactly  *)
(* the streams all of whose cached frames were dropped.                    *)
(***************************************************************************)
LEMMA ForgetMatches ==
  ASSUME NEW f \in Seq(EntrySet), NEW q \in Nat, Chained(f, q), Increasing(f),
         \A i \in 1..Len(f) : f[i].pos < q,
         NEW m \in [StreamIds -> Nat], MapMatches(f, m),
         NEW p \in Nat, AtFrame(f, q, p),
         NEW b \in 1..Len(f) + 1, b = LowerBound(f, p),
         NEW g, g = SubSeq(f, b, Len(f))
  PROVE  MapMatches(g, ForgetStreams(m, p))
<1>1. /\ Len(f) \in Nat
      /\ b = Len(f) + 1 \/ f[b].pos >= p
      /\ \A j \in 1..b - 1 : f[j].pos < p
  <2> DEFINE x == LowerBound(f, p)
  <2>1. /\ x \in 1..Len(f) + 1
        /\ x = Len(f) + 1 \/ f[x].pos >= p
        /\ \A j \in 1..x - 1 : f[j].pos < p
    BY LowerBoundSplits, Zenon
  <2>2. x = b
    OBVIOUS
  <2>3. Len(f) \in Nat
    OBVIOUS
  <2> HIDE DEF x
  <2> QED BY <2>1, <2>2, <2>3, Zenon
<1>2. /\ Len(g) = Len(f) - b + 1
      /\ \A k \in 1..Len(g) : b + k - 1 \in b..Len(f) /\ g[k] = f[b + k - 1]
  BY DropChain
<1>3. \A i \in 1..Len(f) : f[i].pos \in Nat /\ End(f[i]) \in Nat /\ f[i].pos < End(f[i])
  BY EntryEnd
<1>4. ASSUME NEW k \in 1..Len(f), k < b
      PROVE  End(f[k]) <= p
  <2>1. f[k].pos < p
    BY <1>1, <1>4
  <2>2. CASE p = q
    BY <2>2, ChainEnds
  <2>3. CASE \E j \in 1..Len(f) : f[j].pos = p
    <3>1. PICK j \in 1..Len(f) : f[j].pos = p
      BY <2>3
    <3>2. k < j
      <4> SUFFICES ASSUME ~(k < j) PROVE FALSE
        OBVIOUS
      <4>1. k = j \/ j < k
        OBVIOUS
      <4> QED BY <4>1, <3>1, <2>1, <1>3 DEF Increasing
    <3> QED BY <3>1, <3>2, ChainEnds
  <2> QED BY <2>2, <2>3 DEF AtFrame
<1>5. ASSUME NEW k \in 1..Len(f), ~(k < b)
      PROVE  f[k].pos >= p
  <2>1. b \in 1..Len(f) /\ f[b].pos >= p
    BY <1>1, <1>5
  <2>2. CASE k = b
    BY <2>1, <2>2
  <2>3. CASE b < k
    BY <1>3, <2>1, <2>3 DEF Increasing
  <2> QED BY <1>5, <2>2, <2>3
<1>6. ASSUME NEW s \in StreamIds
      PROVE  /\ m[s] \in Nat
             /\ ForgetStreams(m, p)[s] = IF m[s] <= p THEN 0 ELSE m[s]
             /\ \A k \in 1..Len(f) : f[k].frame.stream = s => m[s] >= End(f[k])
             /\ m[s] # 0 => \E k \in 1..Len(f) : f[k].frame.stream = s /\ m[s] = End(f[k])
  BY DEF MapMatches, ForgetStreams
<1>7. ASSUME NEW s \in StreamIds, NEW k \in 1..Len(g), g[k].frame.stream = s
      PROVE  ForgetStreams(m, p)[s] >= End(g[k])
  <2>1. PICK i : i = b + k - 1
    BY Zenon
  <2>2. i \in 1..Len(f) /\ g[k] = f[i] /\ ~(i < b)
    BY <1>1, <1>2, <2>1
  <2>3. f[i].pos >= p /\ m[s] >= End(f[i])
    BY <1>5, <1>6, <1>7, <2>2
  <2>4. m[s] > p
    <3>1. f[i].pos \in Nat /\ End(f[i]) \in Nat /\ f[i].pos < End(f[i]) /\ m[s] \in Nat
      BY <1>3, <1>6, <2>2
    <3> QED BY <2>3, <3>1
  <2> QED BY <1>3, <1>6, <2>2, <2>3, <2>4
<1>8. ASSUME NEW s \in StreamIds, ForgetStreams(m, p)[s] # 0
      PROVE  \E k \in 1..Len(g) :
                 /\ g[k].frame.stream = s
                 /\ ForgetStreams(m, p)[s] = End(g[k])
  <2>1. ~(m[s] <= p) /\ ForgetStreams(m, p)[s] = m[s] /\ m[s] # 0
    BY <1>6, <1>8
  <2>2. PICK i \in 1..Len(f) : f[i].frame.stream = s /\ m[s] = End(f[i])
    BY <1>6, <2>1
  <2>3. ~(i < b)
    BY <1>4, <2>1, <2>2
  <2>4. PICK k : k = i - b + 1
    BY Zenon
  <2>5. k \in 1..Len(g) /\ b + k - 1 = i
    BY <1>1, <1>2, <2>3, <2>4
  <2>6. g[k] = f[i]
    BY <1>2, <2>5
  <2> QED BY <2>1, <2>2, <2>5, <2>6
<1> QED BY <1>7, <1>8 DEF MapMatches

(***************************************************************************)
(* trackSentFrame appends a frame at position_ and records its end for its *)
(* stream.                                                                 *)
(***************************************************************************)
LEMMA AppendMatches ==
  ASSUME NEW f \in Seq(EntrySet), NEW q \in Nat, Chained(f, q), Increasing(f),
         \A i \in 1..Len(f) : f[i].pos < q,
         NEW m \in [StreamIds -> Nat], MapMatches(f, m),
         NEW e \in EntrySet, e.pos = q,
         NEW g, g = Append(f, e),
         NEW n, n = [m EXCEPT ![e.frame.stream] = End(e)]
  PROVE  /\ Chained(g, End(e))
         /\ MapMatches(g, n)
<1>1. /\ Len(f) \in Nat
      /\ Len(g) = Len(f) + 1
      /\ g[Len(f) + 1] = e
      /\ \A k \in 1..Len(f) : g[k] = f[k]
  OBVIOUS
<1>2. /\ e.pos \in Nat /\ End(e) \in Nat /\ e.pos < End(e)
      /\ e.frame.stream \in StreamIds
  BY EntryEnd
<1>3. \A i \in 1..Len(f) : End(f[i]) \in Nat /\ End(f[i]) <= q
  BY EntryEnd, ChainEnds
<1>4. ASSUME NEW i \in 1..Len(g)
      PROVE  End(g[i]) = IF i < Len(g) THEN g[i + 1].pos ELSE End(e)
  <2>1. CASE i = Len(f) + 1
    BY <1>1, <2>1
  <2>2. CASE i \in 1..Len(f) /\ i < Len(f)
    <3>1. i + 1 \in 1..Len(f) /\ End(f[i]) = f[i + 1].pos
      BY <1>1, <2>2 DEF Chained
    <3>2. g[i] = f[i] /\ g[i + 1] = f[i + 1] /\ i < Len(g)
      BY <1>1, <2>2, <3>1
    <3> QED BY <3>1, <3>2
  <2>3. CASE i \in 1..Len(f) /\ ~(i < Len(f))
    <3>1. i = Len(f) /\ End(f[i]) = q
      BY <1>1, <2>3 DEF Chained
    <3>2. g[i] = f[i] /\ g[i + 1] = e /\ i < Len(g)
      BY <1>1, <2>3, <3>1
    <3> QED BY <3>1, <3>2
  <2> QED BY <1>1, <2>1, <2>2, <2>3
<1>5. ASSUME NEW s \in StreamIds
      PROVE  /\ \A k \in 1..Len(f) : f[k].frame.stream = s => m[s] >= End(f[k])
             /\ m[s] # 0 => \E k \in 1..Len(f) : f[k].frame.stream = s /\ m[s] = End(f[k])
  BY DEF MapMatches
<1>6. ASSUME NEW s \in StreamIds, s # e.frame.stream
      PROVE  n[s] = m[s]
  BY <1>6
<1>7. n[e.frame.stream] = End(e)
  BY <1>2
<1>8. ASSUME NEW s \in StreamIds, NEW k \in 1..Len(g), g[k].frame.stream = s
      PROVE  n[s] >= End(g[k])
  <2>1. CASE k = Len(f) + 1
    BY <1>1, <1>2, <1>7, <1>8, <2>1
  <2>2. CASE k \in 1..Len(f) /\ s = e.frame.stream
    BY <1>1, <1>2, <1>3, <1>7, <2>2
  <2>3. CASE k \in 1..Len(f) /\ s # e.frame.stream
    BY <1>1, <1>5, <1>6, <1>8, <2>3
  <2> QED BY <1>1, <2>1, <2>2, <2>3
<1>9. ASSUME NEW s \in StreamIds, n[s] # 0
      PROVE  \E k \in 1..Len(g) : g[k].frame.stream = s /\ n[s] = End(g[k])
  <2>1. CASE s = e.frame.stream
    <3>1. Len(f) + 1 \in 1..Len(g)
      BY <1>1
    <3> QED BY <1>1, <1>7, <2>1, <3>1
  <2>2. CASE s # e.frame.stream
    <3>1. PICK k \in 1..Len(f) : f[k].frame.stream = s /\ m[s] = End(f[k])
      BY <1>5, <1>6, <1>9, <2>2
    <3>2. k \in 1..Len(g) /\ g[k] = f[k]
      BY <1>1
    <3> QED BY <1>6, <2>2, <3>1, <3>2
  <2> QED BY <2>1, <2>2
<1> QED BY <1>4, <1>8, <1>9 DEF Chained, MapMatches

(***************************************************************************)
(* What the invariant says of the cached frames themselves.                *)
(***************************************************************************)
LEMMA CachedFacts ==
  ASSUME NEW c \in CacheSet, NEW log \in Seq(EntrySet),
         Linked(c, log), Increasing(log)
  PROVE  /\ c.frames \in Seq(EntrySet) /\ Len(c.frames) \in Nat
         /\ c.position \in Nat /\ c.resetPosition \in Nat
         /\ c.resetPosition <= c.position
         /\ c.streamMap \in [StreamIds -> Nat]
         /\ Increasing(c.frames)
         /\ \A i \in 1..Len(c.frames) :
               c.frames[i].pos \in Nat /\ c.frames[i].pos < c.position
<1>1. /\ c.frames \in Seq(EntrySet)
      /\ c.position \in Nat /\ c.resetPosition \in Nat
      /\ c.streamMap \in [StreamIds -> Nat]
  BY DEF CacheSet
<1>2. c.resetPosition <= c.position /\ IsSuffixOf(c.frames, log)
  BY DEF Linked, CachedFrom
<1>3. Increasing(c.frames)
  BY <1>1, <1>2, SuffixIncreasing
<1>4. \A i \in 1..Len(c.frames) : c.frames[i].pos \in Nat /\ c.frames[i].pos < c.position
  BY CachedBelowPosition
<1>5. Len(c.frames) \in Nat
  BY <1>1
<1> QED BY <1>1, <1>2, <1>3, <1>4, <1>5

(***************************************************************************)
(* The frames resetUpToPosition keeps, and where the first one starts.     *)
(***************************************************************************)
LEMMA KeptAtFrame ==
  ASSUME NEW f \in Seq(EntrySet), NEW q \in Nat, Increasing(f),
         \A i \in 1..Len(f) : f[i].pos \in Nat /\ f[i].pos < q,
         NEW p \in Nat, AtFrame(f, q, p),
         NEW b, b = LowerBound(f, p),
         NEW g, g = SubSeq(f, b, Len(f))
  PROVE  /\ b \in 1..Len(f) + 1
         /\ FirstAt(g, q, p)
         /\ b # Len(f) + 1 => f[b].pos = p
<1>1. Len(f) \in Nat
  OBVIOUS
<1>2. CASE p = q
  <2> DEFINE x == LowerBound(f, p)
  <2>1. /\ x \in 1..Len(f) + 1
        /\ x = Len(f) + 1 \/ f[x].pos >= p
        /\ \A j \in 1..x - 1 : f[j].pos < p
    BY LowerBoundSplits, Zenon
  <2>2. x = b
    OBVIOUS
  <2> HIDE DEF x
  <2>3. b \in 1..Len(f) + 1 /\ (b = Len(f) + 1 \/ f[b].pos >= p)
    BY <2>1, <2>2, Zenon
  <2>4. b = Len(f) + 1
    BY <1>1, <1>2, <2>3
  <2>5. Len(g) = 0 /\ g \in Seq(EntrySet)
    BY <1>1, <2>4, DropProperties
  <2>6. g = << >>
    BY <2>5
  <2> QED BY <1>2, <2>3, <2>4, <2>6 DEF FirstAt
<1>3. CASE \E k \in 1..Len(f) : f[k].pos = p
  <2>1. PICK k \in 1..Len(f) : p = f[k].pos
    BY <1>3
  <2>2. b = k
    BY <2>1, LowerBoundFinds
  <2>3. b \in 1..Len(f) + 1 /\ b <= Len(f)
    BY <1>1, <2>2
  <2>4. /\ Len(g) = Len(f) - b + 1
        /\ \A j \in 1..Len(f) - b + 1 : g[j] = f[b + j - 1]
    BY <2>3, DropProperties
  <2>5. Len(g) # 0 /\ g[1] = f[b]
    BY <1>1, <2>3, <2>4
  <2>6. g # << >>
    BY <2>5
  <2> QED BY <2>1, <2>2, <2>3, <2>5, <2>6 DEF FirstAt
<1> QED BY <1>2, <1>3 DEF AtFrame

(***************************************************************************)
(* resetUpToPosition at a boundary above resetPosition_: the DCHECK on the *)
(* first frame left holds, and size_ loses the bytes in between.           *)
(***************************************************************************)
LEMMA ResetAtFrame ==
  ASSUME NEW c \in CacheSet, NEW log \in Seq(EntrySet),
         Linked(c, log), Increasing(log), c.position < SizeMod,
         NEW p \in Nat, AtFrame(c.frames, c.position, p),
         p > c.resetPosition,
         NEW d, d = ResetUpToPosition(c, p)
  PROVE  /\ p <= c.position
         /\ d \in CacheSet
         /\ d.position = c.position
         /\ d.resetPosition = p
         /\ d.streamMap = ForgetStreams(c.streamMap, p)
         /\ d.frames = KeptFrames(c, p)
         /\ FirstAt(d.frames, c.position, p)
         /\ d.failed = c.failed
         /\ c.frames # << >> => d.size = SizeMinus(c.size, p - c.resetPosition)
<1>1. /\ c.frames \in Seq(EntrySet) /\ Len(c.frames) \in Nat
      /\ c.position \in Nat /\ c.resetPosition \in Nat
      /\ c.resetPosition <= c.position
      /\ Increasing(c.frames)
      /\ \A i \in 1..Len(c.frames) :
            c.frames[i].pos \in Nat /\ c.frames[i].pos < c.position
  BY CachedFacts
<1>2. p <= c.position
  BY <1>1 DEF AtFrame
<1>3. PICK b, g : b = LowerBound(c.frames, p) /\ g = SubSeq(c.frames, b, Len(c.frames))
  BY Zenon
<1>4. /\ FirstAt(g, c.position, p)
      /\ b # Len(c.frames) + 1 => c.frames[b].pos = p
  <2>1. PICK f, q : f = c.frames /\ q = c.position
    BY Zenon
  <2>2. /\ f \in Seq(EntrySet) /\ q \in Nat /\ Increasing(f)
        /\ \A i \in 1..Len(f) : f[i].pos \in Nat /\ f[i].pos < q
        /\ AtFrame(f, q, p)
        /\ b = LowerBound(f, p) /\ g = SubSeq(f, b, Len(f))
    BY <1>1, <1>3, <2>1, Zenon
  <2>3. FirstAt(g, q, p) /\ (b # Len(f) + 1 => f[b].pos = p)
    BY <2>2, KeptAtFrame
  <2> QED BY <2>1, <2>3, Zenon
<1>5. g = KeptFrames(c, p)
  BY <1>3, Zenon DEF KeptFrames
<1>6. c.frames # << >> => KeptSize(c, p) = SizeMinus(c.size, p - c.resetPosition)
  BY <1>3, <1>4, Zenon DEF KeptSize
<1>7. FrontIs(KeptFrames(c, p), p)
  BY <1>4, <1>5, Zenon DEF FirstAt, FrontIs
<1>8. PICK y : y = (c.failed \/ ~FrontIs(KeptFrames(c, p), p))
  BY Zenon
<1>9. y = c.failed
  <2>1. c.failed \in BOOLEAN
    BY DEF CacheSet
  <2> QED BY <1>7, <1>8, <2>1, Zenon
<1>10. p = IF p > c.position THEN c.position ELSE p
  BY <1>1, <1>2
<1>11. /\ KeptFrames(c, p) \in Seq(EntrySet)
       /\ KeptSize(c, p) \in 0..SizeMod - 1
  <2>1. p >= c.resetPosition
    BY <1>1
  <2> QED BY <1>2, <2>1, KeptProperties
<1>12. /\ d \in CacheSet
       /\ d.position = c.position
       /\ d.resetPosition = p
       /\ d.streamMap = ForgetStreams(c.streamMap, p)
       /\ d.frames = KeptFrames(c, p)
       /\ d.size = KeptSize(c, p)
       /\ d.failed = y
  BY <1>1, <1>8, <1>10, <1>11, ResetFields
<1> QED BY <1>2, <1>4, <1>5, <1>6, <1>9, <1>12

(***************************************************************************)
(* resetUpToPosition at a boundary keeps the chain and the stream map.     *)
(***************************************************************************)
LEMMA ResetMatches ==
  ASSUME NEW c \in CacheSet, NEW log \in Seq(EntrySet),
         Linked(c, log), Increasing(log), c.position < SizeMod,
         Chained(c.frames, c.position), MapMatches(c.frames, c.streamMap),
         NEW p \in Nat, AtFrame(c.frames, c.position, p) \/ p <= c.resetPosition,
         NEW d, d = ResetUpToPosition(c, p)
  PROVE  /\ Chained(d.frames, d.position)
         /\ MapMatches(d.frames, d.streamMap)
<1>1. c.resetPosition \in Nat
  BY CachedFacts
<1>2. CASE p <= c.resetPosition
  <2>1. d = c
    BY <1>2, Zenon DEF ResetUpToPosition
  <2> QED BY <2>1
<1>3. CASE ~(p <= c.resetPosition)
  <2>1. p > c.resetPosition /\ AtFrame(c.frames, c.position, p)
    BY <1>1, <1>3
  <2>2. /\ d.position = c.position
        /\ d.streamMap = ForgetStreams(c.streamMap, p)
        /\ d.frames = KeptFrames(c, p)
    BY <2>1, ResetAtFrame
  <2>3. PICK f, q, m : f = c.frames /\ q = c.position /\ m = c.streamMap
    BY Zenon
  <2>4. PICK b, g : b = LowerBound(f, p) /\ g = SubSeq(f, b, Len(f))
    BY Zenon
  <2>5. /\ f \in Seq(EntrySet) /\ q \in Nat /\ Increasing(f)
        /\ \A i \in 1..Len(f) : f[i].pos \in Nat /\ f[i].pos < q
        /\ m \in [StreamIds -> Nat]
    BY <2>3, CachedFacts
  <2>6. AtFrame(f, q, p) /\ Chained(f, q) /\ MapMatches(f, m)
    BY <2>1, <2>3
  <2>7. b \in 1..Len(f) + 1
    BY <2>4, <2>5, <2>6, KeptAtFrame
  <2>8. Chained(g, q)
    BY <2>4, <2>5, <2>6, <2>7, DropChain
  <2>9. MapMatches(g, ForgetStreams(m, p))
    BY <2>4, <2>5, <2>6, <2>7, ForgetMatches
  <2>10. g = d.frames
    BY <2>2, <2>3, <2>4, Zenon DEF KeptFrames
  <2> QED BY <2>2, <2>3, <2>8, <2>9, <2>10, Zenon
<1> QED BY <1>2, <1>3

(***************************************************************************)
(* Every round of eviction resets to a boundary.                           *)
(***************************************************************************)
LEMMA RoundAtFrame ==
  ASSUME NEW c \in CacheSet, NEW k \in 1..Len(c.frames)
  PROVE  AtFrame(c.frames, c.position, RoundPosition(c, k))
<1>1. Len(c.frames) \in Nat
  BY DEF CacheSet
<1>2. CASE k < Len(c.frames)
  <2>1. k + 1 \in 1..Len(c.frames) /\ RoundPosition(c, k) = c.frames[k + 1].pos
    BY <1>1, <1>2 DEF RoundPosition
  <2> QED BY <2>1, Zenon DEF AtFrame
<1>3. CASE ~(k < Len(c.frames))
  BY <1>3, Zenon DEF AtFrame, RoundPosition
<1> QED BY <1>2, <1>3

(***************************************************************************)
(* The eviction loop keeps the chain and the stream map.                   *)
(***************************************************************************)
LEMMA EvictMatches ==
  ASSUME NEW c \in CacheSet, NEW log \in Seq(EntrySet),
         Linked(c, log), Increasing(log), c.position < SizeMod,
         Chained(c.frames, c.position), MapMatches(c.frames, c.streamMap),
         NEW d, d = EvictUntilFits(c)
  PROVE  /\ Chained(d.frames, d.position)
         /\ MapMatches(d.frames, d.streamMap)
<1>1. CASE d = c
  BY <1>1
<1>2. CASE /\ \E k \in 1..Len(c.frames) : FitsAfter(c, k)
           /\ d = ResetUpToPosition(c, RoundPosition(c, Rounds(c)))
  <2>1. Rounds(c) \in 1..Len(c.frames)
    BY <1>2, RoundsLeast
  <2>2. PICK p : p = RoundPosition(c, Rounds(c))
    BY Zenon
  <2>3. p \in Nat
    BY <2>1, <2>2, RoundPositionNat
  <2>4. AtFrame(c.frames, c.position, p)
    BY <2>1, <2>2, RoundAtFrame
  <2>5. d = ResetUpToPosition(c, p)
    BY <1>2, <2>2
  <2> QED BY <2>3, <2>4, <2>5, ResetMatches
<1>3. CASE d = [ResetUpToPosition(c, c.position) EXCEPT !.failed = TRUE]
  <2>1. PICK e, p : p = c.position /\ e = ResetUpToPosition(c, p)
    BY Zenon
  <2>2. p \in Nat /\ AtFrame(c.frames, c.position, p)
    BY <2>1 DEF CacheSet, AtFrame
  <2>3. Chained(e.frames, e.position) /\ MapMatches(e.frames, e.streamMap)
    BY <2>1, <2>2, ResetMatches
  <2>4. e \in CacheSet
    BY <2>1, <2>2, ResetKeepsLinked
  <2>5. d = [e EXCEPT !.failed = TRUE]
    BY <1>3, <2>1
  <2>6. /\ d.frames = e.frames
        /\ d.position = e.position
        /\ d.streamMap = e.streamMap
    BY <2>4, <2>5 DEF CacheSet
  <2> QED BY <2>3, <2>6
<1> QED BY <1>1, <1>2, <1>3, EvictCases

(***************************************************************************)
(* While size_ counts the bytes cached plus those of the frame being added *)
(* and this frame fits, the eviction loop ends with size_ within the       *)
(* capacity, no DCHECK failing, and keeps every position from which the    *)
(* bytes up to the end of the new frame fit.                               *)
(***************************************************************************)
LEMMA EvictFits ==
  ASSUME NEW c \in CacheSet, NEW log \in Seq(EntrySet),
         Linked(c, log), Increasing(log), c.position < SizeMod,
         NEW l \in Nat, l <= Capacity,
         c.size = c.position + l - c.resetPosition,
         FirstAt(c.frames, c.position, c.resetPosition),
         c.failed = FALSE,
         NEW d, d = EvictUntilFits(c)
  PROVE  /\ d.failed = FALSE
         /\ d.size = d.position + l - d.resetPosition
         /\ d.size <= Capacity
         /\ FirstAt(d.frames, d.position, d.resetPosition)
         /\ \A m \in 1..Len(c.frames) :
               c.position + l - c.frames[m].pos <= Capacity
                   => c.frames[m].pos >= d.resetPosition
<1>1. /\ c.frames \in Seq(EntrySet) /\ Len(c.frames) \in Nat
      /\ c.position \in Nat /\ c.resetPosition \in Nat
      /\ c.resetPosition <= c.position
      /\ Increasing(c.frames)
      /\ \A i \in 1..Len(c.frames) :
            c.frames[i].pos \in Nat /\ c.frames[i].pos < c.position
  BY CachedFacts
<1>2. \A m \in 1..Len(c.frames) : c.frames[m].pos >= c.resetPosition
  BY DEF Linked, CachedFrom
<1>3. Capacity \in Nat
  BY CapacityAssumption
<1>4. CASE c.size <= Capacity /\ d = c
  BY <1>1, <1>2, <1>4
<1>5. ASSUME ~(c.size <= Capacity)
      PROVE  /\ c.frames # << >>
             /\ 1 \in 1..Len(c.frames)
             /\ c.frames[1].pos = c.resetPosition
  <2>1. c.frames # << >>
    BY <1>1, <1>3, <1>5 DEF FirstAt
  <2>2. c.frames[1].pos = c.resetPosition
    BY <2>1, Zenon DEF FirstAt
  <2>3. Len(c.frames) # 0
    BY <1>1, <2>1
  <2> QED BY <1>1, <2>1, <2>2, <2>3
<1>6. ASSUME NEW k \in 1..Len(c.frames), ~(c.size <= Capacity)
      PROVE  /\ RoundPosition(c, k) \in Nat
             /\ RoundPosition(c, k) <= c.position
             /\ RoundPosition(c, k) > c.resetPosition
             /\ SizeMinus(c.size, RoundPosition(c, k) - c.resetPosition)
                    = c.position + l - RoundPosition(c, k)
  <2>1. RoundPosition(c, k) \in Nat /\ RoundPosition(c, k) <= c.position
    BY RoundPositionNat
  <2>2. RoundPosition(c, k) > c.resetPosition
    <3>1. 1 \in 1..Len(c.frames) /\ c.frames[1].pos = c.resetPosition
      BY <1>5, <1>6
    <3>2. CASE k < Len(c.frames)
      <4>1. k + 1 \in 1..Len(c.frames) /\ 1 < k + 1
        BY <1>1, <3>2
      <4>2. c.frames[1].pos < c.frames[k + 1].pos
        BY <1>1, <3>1, <4>1 DEF Increasing
      <4>3. RoundPosition(c, k) = c.frames[k + 1].pos
        BY <3>2, Zenon DEF RoundPosition
      <4> QED BY <1>1, <2>1, <3>1, <4>1, <4>2, <4>3
    <3>3. CASE ~(k < Len(c.frames))
      <4>1. RoundPosition(c, k) = c.position
        BY <3>3, Zenon DEF RoundPosition
      <4> QED BY <1>1, <3>1, <4>1
    <3> QED BY <3>2, <3>3
  <2>3. PICK r : r = RoundPosition(c, k)
    BY Zenon
  <2>4. SizeMinus(c.size, r - c.resetPosition) = c.position + l - r
    BY <1>1, <2>1, <2>2, <2>3 DEF SizeMinus
  <2> QED BY <2>1, <2>2, <2>3, <2>4
<1>7. ASSUME NEW k \in 1..Len(c.frames), ~(c.size <= Capacity)
      PROVE  FitsAfter(c, k) <=> c.position + l - RoundPosition(c, k) <= Capacity
  BY <1>6, <1>7 DEF FitsAfter
<1>8. ASSUME ~(c.size <= Capacity)
      PROVE  \E k \in 1..Len(c.frames) : FitsAfter(c, k)
  <2>1. Len(c.frames) \in 1..Len(c.frames)
    BY <1>1, <1>5, <1>8
  <2>2. RoundPosition(c, Len(c.frames)) = c.position
    BY <1>1 DEF RoundPosition
  <2>3. FitsAfter(c, Len(c.frames))
    BY <1>1, <1>7, <1>8, <2>1, <2>2
  <2> QED BY <2>1, <2>3
<1>9. CASE /\ ~(c.size <= Capacity)
           /\ d = ResetUpToPosition(c, RoundPosition(c, Rounds(c)))
  <2>1. PICK k, p : k = Rounds(c) /\ p = RoundPosition(c, k)
    BY Zenon
  <2>2. /\ k \in 1..Len(c.frames)
        /\ FitsAfter(c, k)
        /\ \A j \in 1..k - 1 : ~FitsAfter(c, j)
    <3>1. \E j \in 1..Len(c.frames) : FitsAfter(c, j)
      BY <1>8, <1>9
    <3>2. /\ Rounds(c) \in 1..Len(c.frames)
          /\ FitsAfter(c, Rounds(c))
          /\ \A j \in 1..Rounds(c) - 1 : ~FitsAfter(c, j)
      BY <3>1, RoundsLeast
    <3> QED BY <2>1, <3>2, Zenon
  <2>3. /\ p \in Nat /\ p <= c.position /\ p > c.resetPosition
        /\ SizeMinus(c.size, p - c.resetPosition) = c.position + l - p
        /\ c.position + l - p <= Capacity
    <3>1. ~(c.size <= Capacity)
      BY <1>9
    <3> QED BY <1>6, <1>7, <2>1, <2>2, <3>1
  <2>4. AtFrame(c.frames, c.position, p)
    BY <2>1, <2>2, RoundAtFrame
  <2>5. d = ResetUpToPosition(c, p)
    BY <1>9, <2>1
  <2>6. /\ d.position = c.position
        /\ d.resetPosition = p
        /\ FirstAt(d.frames, c.position, p)
        /\ d.failed = c.failed
        /\ c.frames # << >> => d.size = SizeMinus(c.size, p - c.resetPosition)
    BY <2>3, <2>4, <2>5, ResetAtFrame
  <2>7. d.size = c.position + l - p
    BY <1>5, <1>9, <2>3, <2>6
  <2>8. ASSUME NEW m \in 1..Len(c.frames),
               c.position + l - c.frames[m].pos <= Capacity,
               ~(c.frames[m].pos >= p)
        PROVE  FALSE
    <3>1. m <= k
      <4> SUFFICES ASSUME ~(m <= k) PROVE FALSE
        OBVIOUS
      <4>1. k < Len(c.frames) /\ k + 1 \in 1..Len(c.frames) /\ k + 1 <= m
        BY <1>1, <2>2
      <4>2. p = c.frames[k + 1].pos
        BY <2>1, <4>1, Zenon DEF RoundPosition
      <4>3. CASE m = k + 1
        BY <1>1, <2>3, <2>8, <4>2, <4>3
      <4>4. CASE k + 1 < m
        <5>1. c.frames[k + 1].pos < c.frames[m].pos
          BY <1>1, <4>1, <4>4 DEF Increasing
        <5> QED BY <1>1, <2>3, <2>8, <4>2, <5>1
      <4> QED BY <1>1, <4>1, <4>3, <4>4
    <3>2. CASE m = 1
      BY <1>1, <1>3, <1>5, <1>9, <2>8, <3>2
    <3>3. CASE m # 1
      <4>1. PICK j : j = m - 1
        BY Zenon
      <4>2. j \in 1..k - 1 /\ j \in 1..Len(c.frames) /\ j < Len(c.frames) /\ j + 1 = m
        BY <1>1, <2>2, <3>1, <3>3, <4>1
      <4>3. RoundPosition(c, j) = c.frames[m].pos
        BY <4>2, Zenon DEF RoundPosition
      <4>4. FitsAfter(c, j)
        BY <1>7, <1>9, <2>8, <4>2, <4>3
      <4> QED BY <2>2, <4>2, <4>4
    <3> QED BY <3>2, <3>3
  <2> QED BY <2>3, <2>6, <2>7, <2>8
<1>10. \/ c.size <= Capacity /\ d = c
       \/ ~(c.size <= Capacity) /\ d = ResetUpToPosition(c, RoundPosition(c, Rounds(c)))
  <2>1. \/ c.size <= Capacity /\ d = c
        \/ /\ ~(c.size <= Capacity)
           /\ \E k \in 1..Len(c.frames) : FitsAfter(c, k)
           /\ d = ResetUpToPosition(c, RoundPosition(c, Rounds(c)))
        \/ /\ ~(c.size <= Capacity)
           /\ ~\E k \in 1..Len(c.frames) : FitsAfter(c, k)
           /\ d = [ResetUpToPosition(c, c.position) EXCEPT !.failed = TRUE]
    BY EvictCases
  <2> QED BY <1>8, <2>1, Zenon
<1> QED BY <1>4, <1>9, <1>10

-----------------------------------------------------------------------------
(* The steps                                                               *)

(***************************************************************************)
(* addFrame and the statements after it in trackSentFrame, with the object *)
(* before (c1) and after (d) the eviction loop.                            *)
(***************************************************************************)
AddingParts(c, log, frame, c1, d, e, n) ==
    /\ c1 \in CacheSet /\ Linked(c1, log)
    /\ c1.position = c.position
    /\ c1.resetPosition = c.resetPosition
    /\ c1.frames = c.frames
    /\ c1.streamMap = c.streamMap
    /\ c1.failed = c.failed
    /\ c1.size = SizePlus(c.size, frame.len)
    /\ d \in CacheSet /\ Linked(d, log) /\ d.position = c.position
    /\ e \in EntrySet /\ e.pos = c.position /\ End(e) = c.position + frame.len
    /\ n.position = c.position + frame.len
    /\ n.resetPosition = d.resetPosition
    /\ n.frames = Append(d.frames, e)
    /\ n.streamMap = [d.streamMap EXCEPT ![e.frame.stream] = End(e)]
    /\ n.size = d.size
    /\ n.failed = d.failed

(***************************************************************************)
(* CacheFrame goes through these two objects.                              *)
(***************************************************************************)
LEMMA CacheFrameParts ==
  ASSUME NEW c \in CacheSet, NEW log \in Seq(EntrySet),
         Linked(c, log), Increasing(log), NEW frame \in FrameSet,
         frame.len \in Nat, c.position + frame.len < SizeMod,
         NEW c1, c1 = WithSizeOf(c, frame),
         NEW d, d = EvictUntilFits(c1),
         NEW e, e = [pos |-> c.position, frame |-> frame],
         NEW n, n = CacheFrame(c, frame)
  PROVE  AddingParts(c, log, frame, c1, d, e, n)
<1>1. c.position \in Nat /\ c.size \in 0..SizeMod - 1
  BY DEF CacheSet
<1>2. frame.len \in 0..SizeMod - 1
  BY <1>1, CapacityAssumption
<1>3. SizePlus(c.size, frame.len) \in 0..SizeMod - 1
  BY <1>1, <1>2, SizeRange
<1>4. /\ c1 \in CacheSet
      /\ c1.position = c.position
      /\ c1.resetPosition = c.resetPosition
      /\ c1.frames = c.frames
      /\ c1.streamMap = c.streamMap
      /\ c1.failed = c.failed
      /\ c1.size = SizePlus(c.size, frame.len)
  BY <1>3 DEF CacheSet, WithSizeOf
<1>5. Linked(c1, log)
  BY <1>4, Zenon DEF Linked, CachedFrom
<1>6. d \in CacheSet /\ d.position = c.position /\ Linked(d, log)
  <2>1. c1.position < SizeMod
    BY <1>1, <1>4, CapacityAssumption
  <2> QED BY <1>4, <1>5, <2>1, EvictKeepsLinked
<1>7. e \in EntrySet /\ e.pos = c.position /\ e.frame = frame
  BY <1>1 DEF EntrySet
<1>8. End(e) = c.position + frame.len
  BY <1>7 DEF End
<1>9. /\ n.position = c.position + frame.len
      /\ n.resetPosition = d.resetPosition
      /\ n.frames = Append(d.frames, e)
      /\ n.size = d.size
      /\ n.failed = d.failed
  BY <1>3, <1>6, <1>7, CacheFrameFields
<1>10. n.streamMap = [d.streamMap EXCEPT ![e.frame.stream] = End(e)]
  <2>1. PICK a, end, s : /\ a = [d EXCEPT !.frames = Append(d.frames, e)]
                         /\ end = c.position + frame.len
                         /\ s = frame.stream
    BY Zenon
  <2>2. AddFrame(c, frame) = a
    BY <2>1, Zenon DEF AddFrame, WithSizeOf
  <2>3. n = [a EXCEPT !.position = end, !.streamMap[s] = end]
    BY <2>1, <2>2, Zenon DEF CacheFrame
  <2>4. PICK x : x = Append(d.frames, e)
    BY Zenon
  <2>5. a = [d EXCEPT !.frames = x]
    BY <2>1, <2>4
  <2>6. n.streamMap = [d.streamMap EXCEPT ![s] = end]
    BY <1>6, <2>3, <2>5 DEF CacheSet
  <2> QED BY <1>7, <1>8, <2>1, <2>6, Zenon
<1> QED BY <1>4, <1>5, <1>6, <1>7, <1>8, <1>9, <1>10 DEF AddingParts

(***************************************************************************)
(* Caching a frame keeps the chain and the stream map.                     *)
(***************************************************************************)
LEMMA CacheFrameMatches ==
  ASSUME NEW c \in CacheSet, NEW log \in Seq(EntrySet),
         Linked(c, log), Increasing(log), NEW frame \in FrameSet,
         c.position + frame.len < SizeMod,
         Chained(c.frames, c.position), MapMatches(c.frames, c.streamMap),
         NEW n, n = CacheFrame(c, frame)
  PROVE  Chained(n.frames, n.position) /\ MapMatches(n.frames, n.streamMap)
<1>1. frame.len \in Nat
  BY LengthPositive DEF FrameSet
<1>2. PICK c1, d, e : /\ c1 = WithSizeOf(c, frame)
                      /\ d = EvictUntilFits(c1)
                      /\ e = [pos |-> c.position, frame |-> frame]
  BY Zenon
<1>3. AddingParts(c, log, frame, c1, d, e, n)
  BY <1>1, <1>2, CacheFrameParts
<1>4. /\ c1 \in CacheSet /\ Linked(c1, log)
      /\ c1.position = c.position
      /\ c1.frames = c.frames
      /\ c1.streamMap = c.streamMap
      /\ d \in CacheSet /\ Linked(d, log) /\ d.position = c.position
      /\ e \in EntrySet /\ e.pos = c.position /\ End(e) = c.position + frame.len
      /\ n.position = c.position + frame.len
      /\ n.frames = Append(d.frames, e)
      /\ n.streamMap = [d.streamMap EXCEPT ![e.frame.stream] = End(e)]
  BY <1>3 DEF AddingParts
<1>5. Chained(d.frames, d.position) /\ MapMatches(d.frames, d.streamMap)
  <2>1. c1.position < SizeMod
    <3>1. c.position \in Nat
      BY DEF CacheSet
    <3> QED BY <1>1, <1>4, <3>1, CapacityAssumption
  <2>2. Chained(c1.frames, c1.position) /\ MapMatches(c1.frames, c1.streamMap)
    BY <1>4
  <2> QED BY <1>2, <1>4, <2>1, <2>2, EvictMatches
<1>6. PICK f, q, m : f = d.frames /\ q = d.position /\ m = d.streamMap
  BY Zenon
<1>7. /\ f \in Seq(EntrySet) /\ q \in Nat /\ Increasing(f)
      /\ \A i \in 1..Len(f) : f[i].pos < q
      /\ m \in [StreamIds -> Nat]
  BY <1>4, <1>6, CachedFacts
<1>8. PICK g, o : g = Append(f, e) /\ o = [m EXCEPT ![e.frame.stream] = End(e)]
  BY Zenon
<1>9. Chained(g, End(e)) /\ MapMatches(g, o)
  <2>1. e.pos = q /\ Chained(f, q) /\ MapMatches(f, m)
    BY <1>4, <1>5, <1>6
  <2> QED BY <1>4, <1>7, <1>8, <2>1, AppendMatches
<1>10. n.frames = g /\ n.streamMap = o /\ n.position = End(e)
  BY <1>4, <1>6, <1>8
<1> QED BY <1>9, <1>10

(***************************************************************************)
(* A frame too large to cache leaves no frame and no stream behind.        *)
(***************************************************************************)
LEMMA HugeFrameMatches ==
  ASSUME NEW c \in CacheSet, NEW log \in Seq(EntrySet),
         Linked(c, log), Increasing(log), NEW frame \in FrameSet,
         c.position < SizeMod,
         Chained(c.frames, c.position), MapMatches(c.frames, c.streamMap),
         NEW n, n = TrackHugeFrame(c, frame)
  PROVE  Chained(n.frames, n.position) /\ MapMatches(n.frames, n.streamMap)
<1>1. c.position \in Nat /\ AtFrame(c.frames, c.position, c.position)
  BY DEF CacheSet, AtFrame
<1>2. PICK d, p : p = c.position /\ d = ResetUpToPosition(c, p)
  BY Zenon
<1>3. /\ d \in CacheSet
      /\ d.position = c.position
      /\ Linked(d, log)
      /\ d.resetPosition >= c.position
  BY <1>1, <1>2, ResetKeepsLinked
<1>4. d.frames = << >>
  BY <1>3, NothingAbovePosition
<1>5. MapMatches(d.frames, d.streamMap)
  BY <1>1, <1>2, ResetMatches
<1>6. n.frames = d.frames /\ n.streamMap = d.streamMap
  <2>1. PICK x, end : x = (d.failed \/ d.size # 0) /\ end = d.position + frame.len
    BY Zenon
  <2>2. n = [d EXCEPT !.position = end, !.failed = x]
    BY <1>2, <2>1, Zenon DEF TrackHugeFrame
  <2> QED BY <1>3, <2>2 DEF CacheSet
<1>7. Chained(n.frames, n.position)
  <2>1. Len(n.frames) = 0
    BY <1>4, <1>6
  <2> QED BY <2>1 DEF Chained
<1> QED BY <1>5, <1>6, <1>7

(***************************************************************************)
(* A position of the log at or above resetPosition_ is the start of a      *)
(* cached frame, when what is cached starts at resetPosition_.             *)
(***************************************************************************)
LEMMA CachedFromReset ==
  ASSUME NEW c \in CacheSet, NEW log \in Seq(EntrySet),
         Linked(c, log), Increasing(log),
         FirstAt(c.frames, c.position, c.resetPosition),
         NEW i \in 1..Len(log), log[i].pos >= c.resetPosition
  PROVE  \E m \in 1..Len(c.frames) : c.frames[m].pos = log[i].pos
<1>1. /\ Len(c.frames) \in Nat /\ Len(log) \in Nat
      /\ c.resetPosition \in Nat
      /\ log[i].pos \in Nat /\ log[i].pos < c.position
  <2>1. log[i] \in EntrySet
    OBVIOUS
  <2>2. log[i].pos \in Nat
    BY <2>1, EntryEnd
  <2>3. log[i].pos < c.position
    BY DEF Linked
  <2> QED BY <2>2, <2>3, CachedFacts
<1>2. /\ IsSuffixOf(c.frames, log)
      /\ \A j \in 1..Len(log) - Len(c.frames) : log[j].pos <= c.resetPosition
  BY DEF Linked, CachedFrom
<1>3. CASE i \in 1..Len(log) - Len(c.frames)
  <2>1. log[i].pos = c.resetPosition
    BY <1>1, <1>2, <1>3
  <2>2. c.frames # << >>
    BY <1>1, <2>1 DEF FirstAt
  <2>3. c.frames[1].pos = c.resetPosition
    BY <2>2, Zenon DEF FirstAt
  <2>4. 1 \in 1..Len(c.frames)
    <3>1. c.frames \in Seq(EntrySet)
      BY DEF CacheSet
    <3>2. Len(c.frames) # 0
      BY <2>2, <3>1
    <3> QED BY <1>1, <3>2
  <2> QED BY <2>1, <2>3, <2>4
<1>4. CASE ~(i \in 1..Len(log) - Len(c.frames))
  <2>1. PICK m : m = i - (Len(log) - Len(c.frames))
    BY Zenon
  <2>2. m \in 1..Len(c.frames) /\ Len(log) - Len(c.frames) + m = i
    <3>1. Len(c.frames) <= Len(log) /\ i \in 1..Len(log)
      BY <1>2 DEF IsSuffixOf
    <3>2. PICK x, y : x = Len(log) /\ y = Len(c.frames)
      BY Zenon
    <3>3. x \in Nat /\ y \in Nat /\ y <= x /\ i \in 1..x /\ ~(i \in 1..x - y)
      BY <1>1, <1>4, <3>1, <3>2, Zenon
    <3>4. m = i - (x - y)
      BY <2>1, <3>2, Zenon
    <3>5. m \in 1..y /\ x - y + m = i
      BY <3>3, <3>4
    <3> QED BY <3>2, <3>5, Zenon
  <2>3. c.frames[m] = log[i]
    BY <1>2, <2>2 DEF IsSuffixOf
  <2> QED BY <2>2, <2>3
<1> QED BY <1>3, <1>4

(***************************************************************************)
(* Caching a frame that fits keeps size_ equal to the bytes cached and     *)
(* within the capacity, and evicts nothing that still fits.                *)
(***************************************************************************)
LEMMA CacheFrameFits ==
  ASSUME NEW c \in CacheSet, NEW log \in Seq(EntrySet),
         Linked(c, log), Increasing(log), NEW frame \in FrameSet,
         c.position + frame.len < SizeMod,
         NEW n, n = CacheFrame(c, frame),
         NEW a \in Nat, frame.len <= Capacity, Fits(c, log, a)
  PROVE  Fits(n, Append(log, [pos |-> c.position, frame |-> frame]), a)
<1>1. frame.len \in Nat
  BY LengthPositive DEF FrameSet
<1>2. PICK c1, d, e : /\ c1 = WithSizeOf(c, frame)
                      /\ d = EvictUntilFits(c1)
                      /\ e = [pos |-> c.position, frame |-> frame]
  BY Zenon
<1>3. AddingParts(c, log, frame, c1, d, e, n)
  BY <1>1, <1>2, CacheFrameParts
<1>4. /\ c1 \in CacheSet /\ Linked(c1, log)
      /\ c1.position = c.position
      /\ c1.resetPosition = c.resetPosition
      /\ c1.frames = c.frames
      /\ c1.size = SizePlus(c.size, frame.len)
      /\ d \in CacheSet /\ Linked(d, log) /\ d.position = c.position
      /\ e \in EntrySet /\ e.pos = c.position
      /\ n.position = c.position + frame.len
      /\ n.resetPosition = d.resetPosition
      /\ n.frames = Append(d.frames, e)
      /\ n.size = d.size
  BY <1>3 DEF AddingParts
<1>5. c1.failed = c.failed /\ n.failed = d.failed
  BY <1>3 DEF AddingParts
<1>6. PICK l : l = frame.len
  BY Zenon
<1>7. /\ n.position = c.position + l
      /\ n.resetPosition = d.resetPosition
      /\ n.size = d.size
      /\ d.position = c.position
      /\ l \in Nat /\ l <= Capacity
  BY <1>1, <1>4, <1>6
<1>8. /\ c.position \in Nat /\ c.resetPosition \in Nat
      /\ c.resetPosition <= c.position
      /\ d.resetPosition \in Nat /\ d.resetPosition <= c.position
      /\ d.frames \in Seq(EntrySet)
      /\ Capacity \in Nat /\ SizeMod \in Nat
  <2>1. /\ c.position \in Nat /\ c.resetPosition \in Nat
        /\ c.resetPosition <= c.position
    BY CachedFacts
  <2>2. d.resetPosition \in Nat /\ d.resetPosition <= d.position /\ d.frames \in Seq(EntrySet)
    BY <1>4, CachedFacts
  <2> QED BY <1>4, <2>1, <2>2, CapacityAssumption
<1>9. /\ c.failed = FALSE
      /\ c.size = c.position - c.resetPosition
      /\ FirstAt(c.frames, c.position, c.resetPosition)
      /\ Retained(c.position, c.resetPosition, log, a)
  BY DEF Fits, Counted
<1>10. c1.size = c1.position + l - c1.resetPosition
  <2>1. c.position + l < SizeMod
    BY <1>6
  <2>2. c1.size = SizePlus(c.size, l)
    BY <1>4, <1>6, Zenon
  <2>3. SizePlus(c.size, l) = c.position + l - c.resetPosition
    BY <1>7, <1>8, <1>9, <2>1 DEF SizePlus
  <2> QED BY <1>4, <2>2, <2>3, Zenon
<1>11. /\ d.failed = FALSE
      /\ d.size = d.position + l - d.resetPosition
      /\ d.size <= Capacity
      /\ FirstAt(d.frames, d.position, d.resetPosition)
      /\ \A m \in 1..Len(c1.frames) :
            c1.position + l - c1.frames[m].pos <= Capacity
                => c1.frames[m].pos >= d.resetPosition
  <2>1. c1.position < SizeMod
    BY <1>1, <1>4, <1>8
  <2>2. FirstAt(c1.frames, c1.position, c1.resetPosition)
    BY <1>4, <1>9, Zenon
  <2>3. c1.failed = FALSE
    BY <1>5, <1>9, Zenon
  <2>4. d = EvictUntilFits(c1) /\ c1 \in CacheSet /\ Linked(c1, log)
    BY <1>2, <1>4, Zenon
  <2> QED BY <1>7, <1>10, <2>1, <2>2, <2>3, <2>4, EvictFits
<1>12. Counted(n)
  <2>1. n.size = n.position - n.resetPosition
    BY <1>8, <1>7, <1>11
  <2>2. PICK f, g : f = d.frames /\ g = Append(f, e)
    BY Zenon
  <2>3. f \in Seq(EntrySet) /\ n.frames = g
    BY <1>4, <1>8, <2>2
  <2>4. g # << >> /\ g[1].pos = d.resetPosition
    <3>1. Len(g) = Len(f) + 1 /\ Len(f) \in Nat
      BY <2>2, <2>3
    <3>2. g # << >>
      BY <3>1
    <3>3. CASE f = << >>
      <4>1. d.resetPosition = d.position
        BY <1>11, <2>2, <3>3, Zenon DEF FirstAt
      <4>2. g[1] = e
        BY <2>2, <2>3, <3>3, <1>4
      <4> QED BY <1>4, <3>2, <4>1, <4>2
    <3>4. CASE f # << >>
      <4>1. f[1].pos = d.resetPosition
        BY <1>11, <2>2, <3>4, Zenon DEF FirstAt
      <4>2. Len(f) # 0
        BY <2>3, <3>4
      <4>3. g[1] = f[1]
        BY <2>2, <2>3, <4>2, <1>4
      <4> QED BY <3>2, <4>1, <4>3
    <3> QED BY <3>3, <3>4
  <2>5. FirstAt(n.frames, n.position, n.resetPosition)
    BY <1>4, <2>3, <2>4, Zenon DEF FirstAt
  <2> QED BY <2>1, <2>5 DEF Counted
<1>13. PICK h : h = Append(log, e)
  BY Zenon
<1>14. Retained(n.position, n.resetPosition, h, a)
  <2> SUFFICES ASSUME NEW i \in 1..Len(h), h[i].pos >= a,
                      n.position - h[i].pos <= Capacity
               PROVE  h[i].pos >= n.resetPosition
    BY DEF Retained
  <2>1. /\ Len(log) \in Nat
        /\ Len(h) = Len(log) + 1
        /\ h[Len(log) + 1] = e
        /\ \A j \in 1..Len(log) : h[j] = log[j]
    BY <1>4, <1>13
  <2>2. CASE i = Len(log) + 1
    BY <1>4, <1>8, <2>1, <2>2
  <2>3. CASE i \in 1..Len(log)
    <3>1. h[i] = log[i] /\ log[i] \in EntrySet
      BY <2>1, <2>3
    <3>2. PICK x : x = log[i].pos
      BY Zenon
    <3>3. x \in Nat
      BY <3>1, <3>2, EntryEnd
    <3>4. x >= a /\ c.position + l - x <= Capacity
      <4>1. h[i].pos = x
        BY <3>1, <3>2, Zenon
      <4>2. x >= a /\ n.position - x <= Capacity
        BY <4>1, Zenon
      <4>3. n.position = c.position + l
        BY <1>7
      <4> QED BY <1>7, <1>8, <3>3, <4>2, <4>3
    <3>5. c.position - x <= Capacity
      BY <1>7, <1>8, <3>3, <3>4
    <3>6. x >= c.resetPosition
      BY <1>9, <2>3, <3>2, <3>4, <3>5 DEF Retained
    <3>7. PICK m \in 1..Len(c.frames) : c.frames[m].pos = x
      BY <1>9, <2>3, <3>2, <3>6, CachedFromReset
    <3>8. x >= d.resetPosition
      BY <1>4, <1>11, <3>4, <3>7
    <3> QED BY <1>4, <3>1, <3>2, <3>8
  <2> QED BY <2>1, <2>2, <2>3
<1>15. n.failed = FALSE /\ n.size <= Capacity
  BY <1>5, <1>4, <1>11
<1> QED BY <1>2, <1>12, <1>13, <1>14, <1>15, Zenon DEF Fits

(***************************************************************************)
(* resetUpToPosition at a boundary takes the bytes it drops off size_, and *)
(* drops only what was acknowledged.                                       *)
(***************************************************************************)
LEMMA ResetFits ==
  ASSUME NEW c \in CacheSet, NEW log \in Seq(EntrySet),
         Linked(c, log), Increasing(log), c.position < SizeMod,
         NEW a \in Nat, Fits(c, log, a),
         NEW p \in Nat, AtFrame(c.frames, c.position, p), p > c.resetPosition,
         NEW d, d = ResetUpToPosition(c, p),
         NEW b \in Nat, b >= p
  PROVE  Fits(d, log, b)
<1>1. /\ c.position \in Nat /\ c.resetPosition \in Nat
      /\ c.resetPosition <= c.position
      /\ Capacity \in Nat
  BY CachedFacts, CapacityAssumption
<1>2. /\ p <= c.position
      /\ d.position = c.position
      /\ d.resetPosition = p
      /\ FirstAt(d.frames, c.position, p)
      /\ d.failed = c.failed
      /\ c.frames # << >> => d.size = SizeMinus(c.size, p - c.resetPosition)
  BY ResetAtFrame
<1>3. /\ c.failed = FALSE
      /\ c.size = c.position - c.resetPosition
      /\ c.size <= Capacity
      /\ FirstAt(c.frames, c.position, c.resetPosition)
  BY DEF Fits, Counted
<1>4. c.frames # << >>
  BY <1>1, <1>2, <1>3 DEF FirstAt
<1>5. d.size = c.position - p
  BY <1>1, <1>2, <1>3, <1>4 DEF SizeMinus
<1>6. Counted(d)
  BY <1>2, <1>5 DEF Counted
<1>7. Retained(d.position, d.resetPosition, log, b)
  <2> SUFFICES ASSUME NEW i \in 1..Len(log), log[i].pos >= b
               PROVE  log[i].pos >= p
    BY <1>2 DEF Retained
  <2>1. log[i].pos \in Nat
    BY EntryEnd
  <2> QED BY <2>1
<1> QED BY <1>1, <1>2, <1>3, <1>5, <1>6, <1>7 DEF Fits

-----------------------------------------------------------------------------
(* The invariant is inductive                                              *)

(***************************************************************************)
(* A new cache is empty and counts nothing.                                *)
(***************************************************************************)
LEMMA SizesInit == Init => SInv
<1> SUFFICES ASSUME Init PROVE SInv
  OBVIOUS
<1>1. cache = NewCache /\ sent = << >> /\ acked = 0
  BY DEF Init
<1>2. /\ cache.position = 0
      /\ cache.resetPosition = 0
      /\ cache.frames = << >>
      /\ cache.size = 0
      /\ cache.failed = FALSE
      /\ cache.streamMap = [s \in StreamIds |-> 0]
  BY <1>1 DEF NewCache
<1>3. Len(sent) = 0 /\ Len(cache.frames) = 0
  BY <1>1, <1>2
<1>4. Chained(cache.frames, cache.position)
  BY <1>3 DEF Chained
<1>5. MapMatches(cache.frames, cache.streamMap)
  BY <1>2, <1>3 DEF MapMatches
<1>6. Counted(cache)
  BY <1>2 DEF Counted, FirstAt
<1>7. Retained(cache.position, cache.resetPosition, sent, acked)
  BY <1>3 DEF Retained
<1>8. cache.size <= Capacity
  BY <1>2, CapacityAssumption
<1> QED BY <1>2, <1>4, <1>5, <1>6, <1>7, <1>8 DEF SInv, Fits

(***************************************************************************)
(* trackSentFrame, in its three cases.                                     *)
(***************************************************************************)
LEMMA SendFrameSizes ==
  ASSUME IInv, SInv, NEW frame \in FrameSet, SendFrame(frame)
  PROVE  SInv'
<1>1. /\ cache \in CacheSet
      /\ sent \in Seq(EntrySet)
      /\ acked \in Nat
      /\ Increasing(sent)
      /\ Linked(cache, sent)
  BY DEF IInv, TypeOK
<1>2. /\ cache.position + frame.len <= MaxPosition
      /\ cache' = TrackSentFrame(cache, frame)
      /\ acked' = acked
  BY DEF SendFrame
<1>3. /\ Chained(cache.frames, cache.position)
      /\ MapMatches(cache.frames, cache.streamMap)
  BY DEF SInv
<1>4. CASE ~ShouldTrackFrame(frame.type)
  <2>1. cache' = cache /\ sent' = sent
    BY <1>2, <1>4, Zenon DEF SendFrame, TrackSentFrame
  <2>2. AllFit' = AllFit
    BY <2>1 DEF AllFit
  <2> QED BY <1>2, <2>1, <2>2 DEF SInv
<1>5. CASE ShouldTrackFrame(frame.type)
  <2>1. PICK e : e = [pos |-> cache.position, frame |-> frame]
    BY Zenon
  <2>2. sent' = Append(sent, e)
    BY <1>5, <2>1, Zenon DEF SendFrame
  <2>3. /\ cache.position \in Nat
        /\ frame.len \in Nat
        /\ cache.position + frame.len < SizeMod
        /\ cache.position < SizeMod
    <3>1. cache.position \in Nat
      BY <1>1 DEF CacheSet
    <3>2. frame.len \in Nat
      BY LengthPositive DEF FrameSet
    <3> QED BY <1>2, <3>1, <3>2, CapacityAssumption, PositionAssumption
  <2>4. e \in EntrySet /\ e.frame = frame
    BY <2>1, <2>3 DEF EntrySet
  <2>5. /\ Len(sent) \in Nat
        /\ Len(sent') = Len(sent) + 1
        /\ sent'[Len(sent) + 1] = e
        /\ \A i \in 1..Len(sent) : sent'[i] = sent[i]
    BY <1>1, <2>2, <2>4
  <2>6. ASSUME AllFit'
        PROVE  AllFit /\ frame.len <= Capacity
    <3>1. \A i \in 1..Len(sent') : sent'[i].frame.len <= Capacity
      BY <2>6 DEF AllFit
    <3>2. AllFit
      BY <2>5, <3>1 DEF AllFit
    <3>3. Len(sent) + 1 \in 1..Len(sent')
      BY <2>5
    <3> QED BY <2>4, <2>5, <3>1, <3>2, <3>3
  <2>7. CASE frame.len > Capacity
    <3>1. cache' = TrackHugeFrame(cache, frame)
      BY <1>2, <1>5, <2>7, Zenon DEF TrackSentFrame
    <3>2. /\ Chained(cache'.frames, cache'.position)
          /\ MapMatches(cache'.frames, cache'.streamMap)
      BY <1>1, <1>3, <2>3, <3>1, HugeFrameMatches
    <3>3. ~AllFit'
      BY <2>3, <2>6, <2>7, CapacityAssumption
    <3> QED BY <3>2, <3>3 DEF SInv
  <2>8. CASE ~(frame.len > Capacity)
    <3>1. cache' = CacheFrame(cache, frame)
      BY <1>2, <1>5, <2>8, Zenon DEF TrackSentFrame
    <3>2. /\ Chained(cache'.frames, cache'.position)
          /\ MapMatches(cache'.frames, cache'.streamMap)
      BY <1>1, <1>3, <2>3, <3>1, CacheFrameMatches
    <3>3. ASSUME AllFit' PROVE Fits(cache', sent', acked')
      <4>1. Fits(cache, sent, acked)
        BY <2>6, <3>3 DEF SInv
      <4>2. frame.len <= Capacity
        BY <2>6, <3>3
      <4>3. Fits(cache', Append(sent, [pos |-> cache.position, frame |-> frame]), acked)
        BY <1>1, <2>3, <3>1, <4>1, <4>2, CacheFrameFits
      <4> QED BY <1>2, <2>1, <2>2, <4>3, Zenon
    <3> QED BY <3>2, <3>3 DEF SInv
  <2> QED BY <2>7, <2>8
<1> QED BY <1>4, <1>5

(***************************************************************************)
(* trackReceivedFrame touches none of it.                                  *)
(***************************************************************************)
LEMMA ReceiveFrameSizes ==
  ASSUME IInv, SInv, NEW frame \in FrameSet, ReceiveFrame(frame)
  PROVE  SInv'
<1>1. cache \in CacheSet
  BY DEF IInv, TypeOK
<1>2. sent' = sent /\ acked' = acked
  BY DEF ReceiveFrame
<1>3. /\ cache'.position = cache.position
      /\ cache'.resetPosition = cache.resetPosition
      /\ cache'.frames = cache.frames
      /\ cache'.streamMap = cache.streamMap
      /\ cache'.size = cache.size
      /\ cache'.failed = cache.failed
  <2>1. CASE ~ShouldTrackFrame(frame.type)
    BY <1>1, <2>1, Zenon DEF ReceiveFrame, TrackReceivedFrame
  <2>2. CASE ShouldTrackFrame(frame.type)
    <3>1. PICK q : q = cache.impliedPosition + frame.len
      BY Zenon
    <3>2. cache' = [cache EXCEPT !.impliedPosition = q]
      BY <2>2, <3>1, Zenon DEF ReceiveFrame, TrackReceivedFrame
    <3> QED BY <1>1, <3>2 DEF CacheSet
  <2> QED BY <2>1, <2>2
<1>4. AllFit' = AllFit
  BY <1>2 DEF AllFit
<1>5. ASSUME Fits(cache, sent, acked) PROVE Fits(cache', sent', acked')
  BY <1>2, <1>3, <1>5, Zenon DEF Fits, Counted
<1>6. /\ Chained(cache'.frames, cache'.position)
      /\ MapMatches(cache'.frames, cache'.streamMap)
  BY <1>3, Zenon DEF SInv
<1> QED BY <1>4, <1>5, <1>6, Zenon DEF SInv

(***************************************************************************)
(* A position the peer acknowledges is at or below resetPosition_, the     *)
(* start of a cached frame, or position_.                                  *)
(***************************************************************************)
LEMMA AckAtFrame ==
  ASSUME IInv, NEW p \in Boundaries
  PROVE  p \in Nat /\ (AtFrame(cache.frames, cache.position, p) \/ p <= cache.resetPosition)
<1>1. /\ cache \in CacheSet
      /\ sent \in Seq(EntrySet)
      /\ Increasing(sent)
      /\ Linked(cache, sent)
  BY DEF IInv, TypeOK
<1>2. /\ cache.position \in Nat /\ cache.resetPosition \in Nat
      /\ Len(cache.frames) \in Nat
  BY <1>1, CachedFacts
<1>3. CASE p = 0
  BY <1>2, <1>3
<1>4. CASE p = cache.position
  BY <1>2, <1>4 DEF AtFrame
<1>5. CASE \E i \in 1..Len(sent) : p = sent[i].pos
  <2>1. PICK i \in 1..Len(sent) : p = sent[i].pos
    BY <1>5
  <2>2. p \in Nat /\ Len(sent) \in Nat
    <3>1. sent[i] \in EntrySet
      BY <1>1
    <3> QED BY <1>1, <2>1, <3>1, EntryEnd
  <2>3. /\ IsSuffixOf(cache.frames, sent)
        /\ \A j \in 1..Len(sent) - Len(cache.frames) : sent[j].pos <= cache.resetPosition
    BY <1>1 DEF Linked, CachedFrom
  <2>4. CASE i \in 1..Len(sent) - Len(cache.frames)
    BY <2>1, <2>2, <2>3, <2>4
  <2>5. CASE ~(i \in 1..Len(sent) - Len(cache.frames))
    <3>1. PICK x, y, m : x = Len(sent) /\ y = Len(cache.frames) /\ m = i - (x - y)
      BY Zenon
    <3>2. x \in Nat /\ y \in Nat /\ y <= x /\ i \in 1..x /\ ~(i \in 1..x - y)
      BY <1>2, <2>2, <2>3, <2>5, <3>1, Zenon DEF IsSuffixOf
    <3>3. m \in 1..y /\ x - y + m = i
      <4>1. m = i - (x - y)
        BY <3>1
      <4> QED BY <3>2, <4>1
    <3>4. m \in 1..Len(cache.frames) /\ Len(sent) - Len(cache.frames) + m = i
      BY <3>1, <3>3, Zenon
    <3>5. cache.frames[m] = sent[i]
      BY <2>3, <3>4 DEF IsSuffixOf
    <3> QED BY <2>1, <2>2, <3>4, <3>5, Zenon DEF AtFrame
  <2> QED BY <2>4, <2>5
<1> QED BY <1>3, <1>4, <1>5 DEF Boundaries

(***************************************************************************)
(* resetUpToPosition on a KEEPALIVE of the peer.                           *)
(***************************************************************************)
LEMMA ReceiveAckSizes ==
  ASSUME IInv, SInv, NEW p \in Boundaries, ReceiveAck(p)
  PROVE  SInv'
<1>1. /\ cache \in CacheSet
      /\ sent \in Seq(EntrySet)
      /\ acked \in Nat
      /\ cache.position <= MaxPosition
      /\ Increasing(sent)
      /\ Linked(cache, sent)
  BY DEF IInv, TypeOK
<1>2. /\ cache' = ResetUpToPosition(cache, p)
      /\ acked' = IF p > acked THEN p ELSE acked
      /\ sent' = sent
  BY DEF ReceiveAck
<1>3. /\ p \in Nat
      /\ AtFrame(cache.frames, cache.position, p) \/ p <= cache.resetPosition
  BY AckAtFrame
<1>4. cache.position < SizeMod /\ cache.resetPosition \in Nat
  <2>1. cache.position \in Nat /\ cache.resetPosition \in Nat
    BY <1>1 DEF CacheSet
  <2> QED BY <1>1, <2>1, CapacityAssumption, PositionAssumption
<1>5. /\ Chained(cache.frames, cache.position)
      /\ MapMatches(cache.frames, cache.streamMap)
  BY DEF SInv
<1>6. /\ Chained(cache'.frames, cache'.position)
      /\ MapMatches(cache'.frames, cache'.streamMap)
  BY <1>1, <1>2, <1>3, <1>4, <1>5, ResetMatches
<1>7. acked' \in Nat /\ acked' >= p /\ acked' >= acked
  BY <1>1, <1>2, <1>3
<1>8. ASSUME AllFit' PROVE Fits(cache', sent', acked')
  <2>1. Fits(cache, sent, acked)
    <3>1. AllFit
      BY <1>2, <1>8 DEF AllFit
    <3> QED BY <3>1 DEF SInv
  <2>2. CASE p <= cache.resetPosition
    <3>1. cache' = cache
      BY <1>2, <2>2, Zenon DEF ResetUpToPosition
    <3>2. Retained(cache.position, cache.resetPosition, sent, acked')
      <4>1. Retained(cache.position, cache.resetPosition, sent, acked)
        BY <2>1 DEF Fits
      <4>2. \A i \in 1..Len(sent) : sent[i].pos \in Nat
        BY <1>1, EntryEnd
      <4>3. \A i \in 1..Len(sent) : sent[i].pos >= acked' => sent[i].pos >= acked
        BY <1>1, <1>7, <4>2
      <4> QED BY <4>1, <4>3 DEF Retained
    <3>3. Fits(cache, sent, acked')
      BY <2>1, <3>2, Zenon DEF Fits
    <3> QED BY <1>2, <3>1, <3>3
  <2>3. CASE ~(p <= cache.resetPosition)
    <3>1. p > cache.resetPosition /\ AtFrame(cache.frames, cache.position, p)
      BY <1>3, <1>4, <2>3
    <3>2. Fits(cache', sent, acked')
      BY <1>1, <1>2, <1>3, <1>4, <1>7, <2>1, <3>1, ResetFits
    <3> QED BY <1>2, <3>2
  <2> QED BY <2>2, <2>3
<1> QED BY <1>6, <1>8 DEF SInv

(***************************************************************************)
(* Every step preserves the invariant.                                     *)
(***************************************************************************)
LEMMA SizesNext == IInv /\ SInv /\ [Next]_vars => SInv'
<1> SUFFICES ASSUME IInv, SInv, [Next]_vars PROVE SInv'
  OBVIOUS
<1>1. CASE UNCHANGED vars
  <2>1. cache' = cache /\ sent' = sent /\ acked' = acked
    BY <1>1 DEF vars
  <2> QED BY <2>1 DEF SInv, AllFit
<1>2. ASSUME NEW frame \in FrameSet, SendFrame(frame) PROVE SInv'
  BY <1>2, SendFrameSizes
<1>3. ASSUME NEW frame \in FrameSet, ReceiveFrame(frame) PROVE SInv'
  BY <1>3, ReceiveFrameSizes
<1>4. ASSUME NEW position \in Boundaries, ReceiveAck(position) PROVE SInv'
  BY <1>4, ReceiveAckSizes
<1> QED BY <1>1, <1>2, <1>3, <1>4, Zenon DEF Next

(***************************************************************************)
(* The invariant of the sizes holds in every state of every behaviour.     *)
(***************************************************************************)
LEMMA SizesInvariance == Spec => [](IInv /\ SInv)
<1>1. Init => IInv /\ SInv
  BY InitEstablishes, SizesInit
<1>2. (IInv /\ SInv) /\ [Next]_vars => (IInv /\ SInv)'
  BY NextPreserves, SizesNext
<1> QED BY <1>1, <1>2, PTL DEF Spec

-----------------------------------------------------------------------------
(* The theorems                                                            *)

(***************************************************************************)
(* streamMap_ has exactly the streams with a cached frame, each at the end *)
(* of its last cached frame, whatever was sent, acknowledged, evicted or   *)
(* too large to cache.                                                     *)
(***************************************************************************)
THEOREM StreamMapIsExact == Spec => []StreamMapMatchesCache
<1>1. IInv /\ SInv => StreamMapMatchesCache
  <2> SUFFICES ASSUME IInv, SInv, NEW s \in StreamIds
               PROVE  /\ cache.streamMap[s] # 0 <=> CachedOf(s) # {}
                      /\ \A i \in CachedOf(s) :
                            (\A j \in CachedOf(s) : j <= i) =>
                                cache.streamMap[s] = End(cache.frames[i])
    BY DEF StreamMapMatchesCache, End
  <2>1. PICK f, q, m : f = cache.frames /\ q = cache.position /\ m = cache.streamMap
    BY Zenon
  <2>2. /\ f \in Seq(EntrySet) /\ q \in Nat /\ Increasing(f)
        /\ \A i \in 1..Len(f) : f[i].pos < q
        /\ m \in [StreamIds -> Nat]
    <3>1. /\ cache \in CacheSet
          /\ sent \in Seq(EntrySet)
          /\ Increasing(sent)
          /\ Linked(cache, sent)
      BY DEF IInv, TypeOK
    <3> QED BY <2>1, <3>1, CachedFacts
  <2>3. Chained(f, q) /\ MapMatches(f, m)
    BY <2>1, Zenon DEF SInv
  <2>4. /\ \A k \in 1..Len(f) : f[k].frame.stream = s => m[s] >= End(f[k])
        /\ m[s] # 0 => \E k \in 1..Len(f) : f[k].frame.stream = s /\ m[s] = End(f[k])
    BY <2>3 DEF MapMatches
  <2>5. \A i \in 1..Len(f) : /\ f[i].pos \in Nat /\ End(f[i]) \in Nat
                             /\ f[i].pos < End(f[i])
    BY <2>2, EntryEnd
  <2>6. \A i, j \in 1..Len(f) : i < j => End(f[i]) <= f[j].pos
    BY <2>2, <2>3, ChainEnds
  <2>7. m[s] \in Nat
    BY <2>2
  <2>8. CachedOf(s) = {i \in 1..Len(f) : f[i].frame.stream = s}
    BY <2>1, Zenon DEF CachedOf
  <2>9. m[s] # 0 <=> CachedOf(s) # {}
    BY <2>4, <2>5, <2>7, <2>8
  <2>10. ASSUME NEW i \in CachedOf(s), \A j \in CachedOf(s) : j <= i
         PROVE  m[s] = End(f[i])
    <3>1. i \in 1..Len(f) /\ f[i].frame.stream = s
      BY <2>8
    <3>2. m[s] >= End(f[i]) /\ m[s] # 0
      BY <2>4, <2>5, <2>7, <3>1
    <3>3. PICK k \in 1..Len(f) : f[k].frame.stream = s /\ m[s] = End(f[k])
      BY <2>4, <3>2
    <3>4. k <= i
      BY <2>8, <2>10, <3>3
    <3>5. CASE k = i
      BY <3>3, <3>5
    <3>6. CASE k < i
      <4>1. End(f[k]) <= f[i].pos
        BY <2>6, <3>1, <3>6
      <4> QED BY <2>5, <3>1, <3>2, <3>3, <4>1
    <3> QED BY <3>1, <3>4, <3>5, <3>6
  <2> QED BY <2>1, <2>9, <2>10, Zenon
<1> QED BY <1>1, SizesInvariance, PTL

(***************************************************************************)
(* While no frame was larger than the capacity, size_ is the number of     *)
(* bytes cached, it never exceeds the capacity, every DCHECK of the class  *)
(* holds and the eviction loop always finds a frame to evict.              *)
(***************************************************************************)
THEOREM SizeIsExact == Spec => []SizeIsBytesCached
<1>1. IInv /\ SInv => SizeIsBytesCached
  <2> SUFFICES ASSUME IInv, SInv, AllFit
               PROVE  /\ cache.size = IF cache.frames = << >> THEN 0
                                      ELSE cache.position - cache.frames[1].pos
                      /\ cache.size <= Capacity
                      /\ ~cache.failed
    BY DEF SizeIsBytesCached
  <2>1. Fits(cache, sent, acked)
    BY DEF SInv
  <2>2. /\ cache.failed = FALSE
        /\ cache.size <= Capacity
        /\ cache.size = cache.position - cache.resetPosition
        /\ FirstAt(cache.frames, cache.position, cache.resetPosition)
    BY <2>1 DEF Fits, Counted
  <2>3. cache.position \in Nat /\ cache.resetPosition \in Nat
    BY DEF IInv, TypeOK, CacheSet
  <2>4. CASE cache.frames = << >>
    <3>1. cache.resetPosition = cache.position
      BY <2>2, <2>4, Zenon DEF FirstAt
    <3> QED BY <2>2, <2>3, <2>4, <3>1
  <2>5. CASE cache.frames # << >>
    <3>1. cache.frames[1].pos = cache.resetPosition
      BY <2>2, <2>5, Zenon DEF FirstAt
    <3> QED BY <2>2, <2>3, <2>5, <3>1
  <2> QED BY <2>4, <2>5
<1> QED BY <1>1, SizesInvariance, PTL

(***************************************************************************)
(* While no frame was larger than the capacity, eviction takes no more     *)
(* than it must: a position that is not acknowledged and lies within       *)
(* capacity_ bytes of the end can still be resumed from.                   *)
(***************************************************************************)
THEOREM EvictsOnlyWhatItMust == Spec => []RetainsWhatFits
<1>1. IInv /\ SInv => RetainsWhatFits
  <2> SUFFICES ASSUME IInv, SInv, AllFit, NEW i \in 1..Len(sent),
                      sent[i].pos >= acked,
                      cache.position - sent[i].pos <= Capacity
               PROVE  IsPositionAvailable(cache, sent[i].pos)
    BY DEF RetainsWhatFits
  <2>1. /\ cache \in CacheSet
        /\ sent \in Seq(EntrySet)
        /\ Increasing(sent)
        /\ Linked(cache, sent)
    BY DEF IInv, TypeOK
  <2>2. Fits(cache, sent, acked)
    BY DEF SInv
  <2>3. /\ FirstAt(cache.frames, cache.position, cache.resetPosition)
        /\ Retained(cache.position, cache.resetPosition, sent, acked)
    BY <2>2 DEF Fits, Counted
  <2>4. sent[i].pos >= cache.resetPosition
    BY <2>3 DEF Retained
  <2>5. \E m \in 1..Len(cache.frames) : cache.frames[m].pos = sent[i].pos
    BY <2>1, <2>3, <2>4, CachedFromReset
  <2> QED BY <2>5 DEF IsPositionAvailable
<1> QED BY <1>1, SizesInvariance, PTL

=============================================================================
