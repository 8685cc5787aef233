---------------------------- MODULE ResumeCache ----------------------------
(***************************************************************************)
(* One ResumeCache object driven by its owner, ConnectionAutomaton: frames *)
(* are sent and received, and the peer acknowledges positions with         *)
(* KEEPALIVE frames.  A peer only ever acknowledges a position it computed *)
(* by adding up the lengths of the frames it received, so the positions    *)
(* are boundaries of frames that were sent, old and repeated ones          *)
(* included.                                                               *)
(***************************************************************************)
EXTENDS ResumeCacheOps

CONSTANTS
    Types,          \* frame types in use
    Lengths,        \* lengths in bytes a frame may have
    MaxPosition,    \* bound on the bytes sent
    MaxReceived     \* bound on the bytes received

ASSUME LengthsAssumption == Lengths \subseteq Nat \ {0}

(***************************************************************************)
(* A position (int64_t) never leaves the range of size_t.                  *)
(***************************************************************************)
ASSUME PositionAssumption ==
    /\ MaxPosition \in Nat
    /\ MaxReceived \in Nat
    /\ MaxPosition < SizeMod

VARIABLES
    cache,  \* the ResumeCache object
    sent,   \* history: every tracked frame sent, with the position it starts at
    acked   \* history: the largest position the peer acknowledged

vars == <<cache, sent, acked>>

FrameSet == [type : Types, stream : StreamIds, len : Lengths]

Boundaries == {0, cache.position} \cup {sent[i].pos : i \in 1..Len(sent)}

Init ==
    /\ cache = NewCache
    /\ sent = << >>
    /\ acked = 0

SendFrame(frame) ==
    /\ cache.position + frame.len <= MaxPosition
    /\ cache' = TrackSentFrame(cache, frame)
    /\ sent' = IF ShouldTrackFrame(frame.type)
               THEN Append(sent, [pos |-> cache.position, frame |-> frame])
               ELSE sent
    /\ UNCHANGED acked

ReceiveFrame(frame) ==
    /\ cache.impliedPosition + frame.len <= MaxReceived
    /\ cache' = TrackReceivedFrame(cache, frame)
    /\ UNCHANGED <<sent, acked>>

ReceiveAck(position) ==
    /\ cache' = ResetUpToPosition(cache, position)
    /\ acked' = IF position > acked THEN position ELSE acked
    /\ UNCHANGED sent

(***************************************************************************)
(* A DCHECK that does not hold ends the process.                           *)
(***************************************************************************)
Next ==
    /\ ~cache.failed
    /\ \/ \E frame \in FrameSet : SendFrame(frame) \/ ReceiveFrame(frame)
       \/ \E position \in Boundaries : ReceiveAck(position)

Spec == Init /\ [][Next]_vars

-----------------------------------------------------------------------------
(***************************************************************************)
(* Every field has its type.                                               *)
(***************************************************************************)
EntrySet == [pos : Nat, frame : FrameSet]

CacheSet ==
    [position        : Nat,
     resetPosition   : Nat,
     impliedPosition : Nat,
     streamMap       : [StreamIds -> Nat],
     frames          : Seq(EntrySet),
     size            : 0..SizeMod - 1,
     failed          : BOOLEAN]

TypeOK ==
    /\ cache \in CacheSet
    /\ sent \in Seq(EntrySet)
    /\ acked \in Nat

(***************************************************************************)
(* What resumption rests on: for every boundary the peer may ask to resume *)
(* from, when isPositionAvailable accepts it, sendFramesFromPosition sends *)
(* exactly the frames sent from that position on: no frame missing, none   *)
(* twice, in the order they were first sent.  Frames too large to cache    *)
(* and evicted ones must make every earlier position unavailable.          *)
(***************************************************************************)
ReplayIsExactSuffix ==
    \A i \in 1..Len(sent) :
        IsPositionAvailable(cache, sent[i].pos) =>
            SendFramesFromPosition(cache, sent[i].pos)
                = SubSeq(sent, i, Len(sent))

(***************************************************************************)
(* While no frame was too large to cache, eviction never takes more than   *)
(* the capacity forces: a position the peer has not acknowledged a later   *)
(* one of, within capacity_ bytes of the end, is available, so that a      *)
(* connection which lost no more than that can always be resumed.          *)
(***************************************************************************)
AllFit == \A i \in 1..Len(sent) : sent[i].frame.len <= Capacity

RetainsWhatFits ==
    AllFit =>
        \A i \in 1..Len(sent) :
            (/\ sent[i].pos >= acked
             /\ cache.position - sent[i].pos <= Capacity)
                => IsPositionAvailable(cache, sent[i].pos)

(***************************************************************************)
(* streamMap_ has exactly the streams with a cached frame, at the position *)
(* where the last cached frame of the stream ends.                         *)
(***************************************************************************)
CachedOf(stream) ==
    {i \in 1..Len(cache.frames) : cache.frames[i].frame.stream = stream}

StreamMapMatchesCache ==
    \A s \in StreamIds :
        /\ cache.streamMap[s] # 0 <=> CachedOf(s) # {}
        /\ \A i \in CachedOf(s) :
              (\A j \in CachedOf(s) : j <= i) =>
                  cache.streamMap[s] =
                      cache.frames[i].pos + cache.frames[i].frame.len

(***************************************************************************)
(* While no frame was too large to cache, size_ is the number of bytes     *)
(* from the first cached frame to position_, within the capacity, every    *)
(* DCHECK holds and the eviction loop always finds a frame to evict.       *)
(***************************************************************************)
SizeIsBytesCached ==
    AllFit =>
        /\ cache.size = IF cache.frames = << >> THEN 0
                        ELSE cache.position - cache.frames[1].pos
        /\ cache.size <= Capacity
        /\ ~cache.failed

(***************************************************************************)
(* No DCHECK of the class fails and the eviction loop always finds a frame *)
(* to evict, whatever the lengths of the frames.                           *)
(***************************************************************************)
NoDcheckFails == ~cache.failed

=============================================================================
