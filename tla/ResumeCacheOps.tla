--------------------------- MODULE ResumeCacheOps ---------------------------
(***************************************************************************)
(* The class ResumeCache (src/src/ResumeCache.cpp) as operators on a       *)
(* record that holds its fields.  A frame is a record with at least the    *)
(* fields type, stream (0 for a connection frame) and len (its length in   *)
(* bytes); what it carries is left abstract.  A cached frame is a pair of  *)
(* the position it starts at and the frame itself.  streamMap_ is a        *)
(* function on all streams, with 0 for a stream without an entry (the      *)
(* positions stored in it are ends of frames, hence above 0).              *)
(*                                                                         *)
(* The field failed is not in the code: it becomes TRUE when one of the    *)
(* DCHECKs of the class is evaluated and does not hold, or when the        *)
(* eviction loop can never leave.                                          *)
(***************************************************************************)
EXTENDS Integers, Sequences, FiniteSets

CONSTANTS
    StreamIds,  \* ids of the streams whose frames are cached
    Capacity,   \* capacity_, in bytes
    SizeMod     \* number of values of size_t, the type of size_

ASSUME CapacityAssumption == Capacity \in Nat /\ SizeMod \in Nat

(***************************************************************************)
(* Frames that take part in resumption.                                    *)
(***************************************************************************)
TrackedTypes ==
    {"REQUEST_CHANNEL", "REQUEST_STREAM", "REQUEST_RESPONSE", "REQUEST_FNF",
     "REQUEST_N", "CANCEL", "ERROR", "PAYLOAD"}

ShouldTrackFrame(type) == type \in TrackedTypes

NewCache ==
    [position         |-> 0,
     resetPosition    |-> 0,
     impliedPosition  |-> 0,
     streamMap        |-> [s \in StreamIds |-> 0],
     frames           |-> << >>,
     size             |-> 0,
     failed           |-> FALSE]

(***************************************************************************)
(* size_ is unsigned: both operations wrap.                                *)
(***************************************************************************)
SizePlus(a, b) == IF a + b >= SizeMod THEN a + b - SizeMod ELSE a + b

(* Mutant of SizeMinus: size_ is a signed number.                          *)
SignedSizeMinus(a, b) == a - b

SizeMinus(a, b) == IF b > a THEN a - b + SizeMod ELSE a - b

(***************************************************************************)
(* std::lower_bound on frames_: the first index whose position is not      *)
(* below p, Len + 1 standing for end().                                    *)
(***************************************************************************)
LowerBound(frames, p) ==
    CHOOSE i \in 1..Len(frames) + 1 :
        /\ i = Len(frames) + 1 \/ frames[i].pos >= p
        /\ \A j \in 1..i - 1 : frames[j].pos < p

(* Mutant of ClearFrames: size_ is left alone when no frame remains.       *)
ClearFramesKeepingSize(c, p) ==
    LET end == LowerBound(c.frames, p)
    IN  IF end = Len(c.frames) + 1
        THEN [c EXCEPT !.frames = << >>]
        ELSE [c EXCEPT !.frames = SubSeq(@, end, Len(@)),
                       !.size   = SizeMinus(@, c.frames[end].pos - c.resetPosition)]

(***************************************************************************)
(* clearFrames: drop the frames below p, and take the bytes between        *)
(* resetPosition_ and the first frame left off size_.                      *)
(***************************************************************************)
ClearFrames(c, p) ==
    IF c.frames = << >>
    THEN c
    ELSE LET end == LowerBound(c.frames, p)
             pos == IF end = Len(c.frames) + 1 THEN p ELSE c.frames[end].pos
         IN  [c EXCEPT !.frames = SubSeq(@, end, Len(@)),
                       !.size   = SizeMinus(@, pos - c.resetPosition),
                       !.failed = @ \/ p > c.position \/ p < c.resetPosition]

(* Mutant of ForgetStreams: a stream that ends at p is kept.               *)
ForgetStreamsBelow(streamMap, p) ==
    [s \in StreamIds |-> IF streamMap[s] < p THEN 0 ELSE streamMap[s]]

ForgetStreams(streamMap, p) ==
    [s \in StreamIds |-> IF streamMap[s] <= p THEN 0 ELSE streamMap[s]]

FrontIs(frames, p) == frames = << >> \/ frames[1].pos = p

(***************************************************************************)
(* resetUpToPosition: on a KEEPALIVE from the peer, on eviction and before *)
(* a frame that is too large to cache.                                     *)
(***************************************************************************)
ResetUpToPosition(c, position) ==
    IF position <= c.resetPosition
    THEN c
    ELSE LET p == IF position > c.position THEN c.position ELSE position
             d == ClearFrames([c EXCEPT !.streamMap = ForgetStreams(@, p)], p)
         IN  [d EXCEPT !.resetPosition = p,
                       !.failed = @ \/ ~FrontIs(d.frames, p)]

(* Mutant of RoundPosition: a round evicts everything.                     *)
RoundPositionAll(c, k) == c.position

(***************************************************************************)
(* The loop of addFrame calls evictFrame until size_ fits.  Each round     *)
(* resets to the start of the second frame, or to position_ when there is  *)
(* only one.  k rounds reset to RoundPosition(c, k); resets compose, so    *)
(* the loop is one reset to the first of these after which size_ fits.     *)
(* Without such a round evictFrame meets an empty queue.                   *)
(***************************************************************************)
RoundPosition(c, k) ==
    IF k < Len(c.frames) THEN c.frames[k + 1].pos ELSE c.position

FitsAfter(c, k) ==
    SizeMinus(c.size, RoundPosition(c, k) - c.resetPosition) <= Capacity

EvictUntilFits(c) ==
    IF c.size <= Capacity
    THEN c
    ELSE IF \E k \in 1..Len(c.frames) : FitsAfter(c, k)
    THEN LET rounds == CHOOSE k \in 1..Len(c.frames) :
                          /\ FitsAfter(c, k)
                          /\ \A j \in 1..k - 1 : ~FitsAfter(c, j)
         IN  ResetUpToPosition(c, RoundPosition(c, rounds))
    ELSE [ResetUpToPosition(c, c.position) EXCEPT !.failed = TRUE]

AddFrame(c, frame) ==
    LET d == EvictUntilFits([c EXCEPT !.size = SizePlus(@, frame.len)])
    IN  [d EXCEPT !.frames = Append(@, [pos |-> c.position, frame |-> frame])]

(* Mutant of TrackHugeFrame: the cache is not emptied.                     *)
TrackHugeFrameOnly(c, frame) == [c EXCEPT !.position = @ + frame.len]

(***************************************************************************)
(* trackSentFrame: a frame larger than the whole cache empties the cache   *)
(* and is not kept; any other frame is cached.                             *)
(***************************************************************************)
TrackHugeFrame(c, frame) ==
    LET d == ResetUpToPosition(c, c.position)
    IN  [d EXCEPT !.position = @ + frame.len,
                  !.failed   = @ \/ d.size # 0]

CacheFrame(c, frame) ==
    LET d   == AddFrame(c, frame)
        end == c.position + frame.len
    IN  [d EXCEPT !.position  = end,
                  !.streamMap[frame.stream] = end]

TrackSentFrame(c, frame) ==
    IF ~ShouldTrackFrame(frame.type) THEN c
    ELSE IF frame.len > Capacity THEN TrackHugeFrame(c, frame)
    ELSE CacheFrame(c, frame)

TrackReceivedFrame(c, frame) ==
    IF ShouldTrackFrame(frame.type)
    THEN [c EXCEPT !.impliedPosition = @ + frame.len]
    ELSE c

(***************************************************************************)
(* Queries.  sendFramesFromPosition hands the frames from p on to the      *)
(* transport; it is only called for an available position.                 *)
(***************************************************************************)
IsPositionAvailable(c, p) ==
    p = c.position \/ \E i \in 1..Len(c.frames) : c.frames[i].pos = p

IsStreamPositionAvailable(c, p, stream) ==
    IF c.streamMap[stream] # 0
    THEN c.streamMap[stream] <= p
    ELSE c.resetPosition >= p

CanResumeFrom(c, p) == p <= c.impliedPosition

SendFramesFromPosition(c, p) ==
    IF p = c.position
    THEN << >>
    ELSE SubSeq(c.frames, LowerBound(c.frames, p), Len(c.frames))

=============================================================================
