------------------------------- MODULE Framed -------------------------------
(***************************************************************************)
(* One direction of a connection over TCP: frames are serialized,          *)
(* FramedWriter puts their length in front, the socket delivers the bytes  *)
(* in pieces, FramedReader finds the frames again, and they are            *)
(* deserialized.  A reader that is not told the protocol version detects   *)
(* it from the first bytes.                                                *)
(***************************************************************************)
EXTENDS Allowance, FrameSerializer

CONSTANTS
    Versions,           \* protocol versions of the writer
    FirstFrames(_),     \* frames a connection of a version may begin with
    Frames,             \* frames that may follow
    MaxFrames,          \* bound on frames written
    MaxFrameLength,     \* kMaxFrameLength
    ChunkSizes,         \* how many bytes may arrive at once, besides all
    RequestSizes,       \* arguments of request(n)
    MaxRequests         \* bound on calls of request(n)

ASSUME FramedAssumption ==
    /\ Versions \subseteq {V0_0, V0_1, V1_0}
    /\ {MaxFrames, MaxFrameLength, MaxRequests} \subseteq Nat
    /\ ChunkSizes \subseteq Nat \ {0}
    /\ RequestSizes \subseteq Nat

VARIABLES
    version,    \* protocolVersion_ of the writer
    resumable,  \* whether the connection is resumable
    written,    \* the frames written
    writing,    \* stream_ of the writer is set
    net,        \* bytes on their way
    noise,      \* the peer wrote something that is no frame
    reader      \* FramedReader and what it is connected to

vars == <<version, resumable, written, writing, net, noise, reader>>

(***************************************************************************)
(* The reader: version is its protocolVersion_, buf payloadQueue_, frames  *)
(* whether frames_ is set, socket whether streamSubscription_ is set and   *)
(* the socket open.  serializer is the one the connection uses, received   *)
(* what it read, terminal the terminal signals it got, alarm whether the   *)
(* reader itself raised an error.  The history variable seen is how many   *)
(* bytes there were when the version was detected.                         *)
(***************************************************************************)
NewReader(configured) ==
    [version |-> configured, serializer |-> configured, buf |-> << >>,
     allowance |-> 0, requests |-> 0, frames |-> TRUE, socket |-> TRUE,
     received |-> << >>, terminal |-> << >>, alarm |-> FALSE, seen |-> 0]

Init ==
    /\ version \in Versions
    /\ resumable \in BOOLEAN
    /\ written = << >>
    /\ writing = TRUE
    /\ net = << >>
    /\ noise = FALSE
    /\ reader \in {NewReader(version), NewReader(Unknown)}

-----------------------------------------------------------------------------
(* FramedWriter.                                                           *)

FrameSizeFieldLength(v) == IF Before1_0(v) THEN 4 ELSE 3

PayloadLength(v, length) ==
    IF Before1_0(v) THEN length + FrameSizeFieldLength(v) ELSE length

(* Null for a frame that is too long.                                      *)
AppendSize(v, bytes) ==
    LET length == PayloadLength(v, Len(bytes))
    IN  IF length > MaxFrameLength
        THEN Null
        ELSE <<WriteBE(length, FrameSizeFieldLength(v)) \o bytes>>

MayWrite == IF written = << >> THEN FirstFrames(version) ELSE Frames

(***************************************************************************)
(* onNextImpl and onNextMultiple: a frame that is too long cancels the     *)
(* writer, which closes the socket once what was written has left.  (What  *)
(* is written to a socket that the reader has closed arrives nowhere.)     *)
(***************************************************************************)
WriterOnNext(fs) ==
    LET sized == [i \in DOMAIN fs |->
                     AppendSize(version, SerializeOut(version, fs[i], resumable))]
    IN  /\ writing /\ ~noise /\ reader.socket
        /\ Len(written) + Len(fs) <= MaxFrames
        /\ IF \E i \in DOMAIN fs : sized[i] = Null
           THEN writing' = FALSE /\ UNCHANGED <<written, net>>
           ELSE /\ written' = written \o fs
                /\ net' = net \o FlattenSeq([i \in DOMAIN fs |-> sized[i][1]])
                /\ UNCHANGED writing
        /\ UNCHANGED <<version, resumable, noise, reader>>

(* onCompleteImpl, onErrorImpl and cancelImpl of the writer.               *)
WriterEnds ==
    /\ writing
    /\ writing' = FALSE
    /\ UNCHANGED <<version, resumable, written, net, noise, reader>>

(* The peer writes a length no frame has: one byte, or all ones.           *)
PeerWritesNoise ==
    /\ writing /\ ~noise /\ reader.socket /\ written # << >>
    /\ \E length \in {1, -1} :
          net' = net \o WriteBE(length, FrameSizeFieldLength(version))
    /\ noise' = TRUE
    /\ UNCHANGED <<version, resumable, written, writing, reader>>

-----------------------------------------------------------------------------
(* FramedReader.                                                           *)

FrameMinimalLength(v) == IF Before1_0(v) THEN 8 + FrameSizeFieldLength(v) ELSE 6

FrameSizeWithLengthField(v, size) ==
    IF Before1_0(v) THEN size ELSE size + FrameSizeFieldLength(v)

PayloadSize(v, size) == IF Before1_0(v) THEN size - FrameSizeFieldLength(v) ELSE size

(***************************************************************************)
(* The byte that is shifted is an int: with four bytes a length of 2^31 or *)
(* more is negative and becomes a size_t that no buffer reaches.           *)
(***************************************************************************)
ReadFrameLength(x) ==
    LET n == NumberOf(SubSeq(x.buf, 1, FrameSizeFieldLength(x.version)))
    IN  IF n < 0 THEN Int32Max ELSE n

(***************************************************************************)
(* onCompleteImpl, onErrorImpl and cancelImpl: they differ in the order of *)
(* the calls only.  The subscription is TcpReaderWriter, and closes.       *)
(***************************************************************************)
ReaderEnds(x, signal) ==
    [x EXCEPT !.buf = << >>, !.frames = FALSE, !.socket = FALSE,
              !.terminal = IF x.frames THEN Append(@, signal) ELSE @]


(***************************************************************************)
(* ensureOrAutodetectProtocolVersion: 12 is the larger of the two          *)
(* kMinBytesNeededForAutodetection.                                        *)
(***************************************************************************)
EnsureOrAutodetect(x) ==
    CASE x.version # Unknown                    -> x
      [] x.version = Unknown /\ Len(x.buf) < 12 -> x
      [] OTHER ->
           LET y == [x EXCEPT !.seen = Len(x.buf)]
           IN  CASE DetectV1_0(x.buf, 3) # Unknown -> [y EXCEPT !.version = V1_0]
                 [] DetectV1_0(x.buf, 3) = Unknown /\ DetectV0_1(x.buf, 4) # Unknown
                                                   -> [y EXCEPT !.version = V0_1]
                 [] OTHER -> [ReaderEnds(y, "onError") EXCEPT !.alarm = TRUE]

(***************************************************************************)
(* The subscriber of the reader gets the bytes of a frame and deserializes *)
(* them; the first frame tells it which serializer to use.  In onNext it   *)
(* may request more or cancel.                                             *)
(***************************************************************************)
OnFrame(x, bytes, reaction) ==
    LET serializer == IF x.serializer # Unknown THEN x.serializer
                      ELSE CreateAutodetectedSerializer(bytes)
        read == IF serializer = Unknown THEN Bad(Cursor(bytes))
                ELSE DeserializeFrom(serializer, bytes, resumable)
        y == [x EXCEPT !.serializer = serializer,
                       !.received = Append(@, [ok |-> read.ok, frame |-> read.frame])]
    IN  CASE reaction = "none"    -> y
          [] reaction = "request" -> [y EXCEPT !.allowance = Release(@, 1)]
          [] reaction = "cancel"  -> ReaderEnds(y, "onComplete")

ParseOne(x, reaction) ==
    LET field == FrameSizeFieldLength(x.version)
        size  == PayloadSize(x.version, ReadFrameLength(x))
    IN  OnFrame([x EXCEPT !.buf = SubSeq(@, field + size + 1, Len(@)),
                          !.allowance = AfterAcquire(@)],
                SubSeq(x.buf, field + 1, field + size), reaction)

HasLength(x) == Len(x.buf) >= FrameSizeFieldLength(x.version)

IsWhole(x) == Len(x.buf) >= FrameSizeWithLengthField(x.version, ReadFrameLength(x))

(***************************************************************************)
(* parseFrames.  A request(n) in onNext does not start a second loop:      *)
(* dispatchingFrames_.                                                     *)
(***************************************************************************)
RECURSIVE ParseFrames(_, _)
ParseFrames(x, reaction) ==
    LET y == EnsureOrAutodetect(x)
    IN  CASE ~CanAcquire(x.allowance) \/ ~x.frames -> x
          [] OTHER ->
             CASE y.version = Unknown \/ ~HasLength(y) -> y
               [] OTHER ->
                  CASE ReadFrameLength(y) < FrameMinimalLength(y.version)
                           -> [ReaderEnds(y, "onError") EXCEPT !.alarm = TRUE]
                    [] OTHER -> IF IsWhole(y)
                                THEN ParseFrames(ParseOne(y, reaction), reaction)
                                ELSE y

Reactions == {"none", "request", "cancel"}

ReaderOnNext(x, bytes, reaction) ==
    ParseFrames([x EXCEPT !.buf = @ \o bytes], reaction)

(* Mutant of RequestImpl: what is already there is not parsed.             *)
RequestImplOnly(x, n, reaction) == [x EXCEPT !.allowance = Release(@, n)]

RequestImpl(x, n, reaction) ==
    ParseFrames([x EXCEPT !.allowance = Release(@, n)], reaction)

-----------------------------------------------------------------------------
(***************************************************************************)
(* The reader becomes x, with the bytes left on their way; they are lost   *)
(* with the socket.                                                        *)
(***************************************************************************)
ReaderStep(x, left) ==
    /\ reader' = x
    /\ net' = IF x.socket THEN left ELSE << >>
    /\ UNCHANGED <<version, resumable, written, writing, noise>>

(***************************************************************************)
(* TcpReaderWriter: readDataAvailable, readEOF, readErr and writeErr.      *)
(***************************************************************************)
BytesArrive(n, reaction) ==
    /\ reader.socket /\ net # << >>
    /\ n <= Len(net)
    /\ ReaderStep(ReaderOnNext(reader, SubSeq(net, 1, n), reaction),
                  SubSeq(net, n + 1, Len(net)))

SocketEnds ==
    /\ reader.socket /\ ~writing /\ net = << >>
    /\ ReaderStep(ReaderEnds(reader, "onComplete"), net)

SocketFails ==
    /\ reader.socket
    /\ ReaderStep(ReaderEnds(reader, "onError"), net)

ConsumerRequests(n, reaction) ==
    /\ reader.requests < MaxRequests
    /\ ReaderStep(RequestImpl([reader EXCEPT !.requests = @ + 1], n, reaction), net)

ConsumerCancels ==
    /\ reader.frames
    /\ ReaderStep(ReaderEnds(reader, "onComplete"), net)

Next ==
    \/ \E f \in MayWrite : WriterOnNext(<<f>>)
    \/ \E f \in MayWrite, g \in Frames : WriterOnNext(<<f, g>>)
    \/ WriterEnds
    \/ PeerWritesNoise
    \/ \E reaction \in Reactions :
          \/ \E n \in ChunkSizes \cup {Len(net)} : BytesArrive(n, reaction)
          \/ \E n \in RequestSizes : ConsumerRequests(n, reaction)
    \/ SocketEnds
    \/ SocketFails
    \/ ConsumerCancels

Spec == Init /\ [][Next]_vars

-----------------------------------------------------------------------------
(***************************************************************************)
(* What a frame is after the way through the serializers.  Data of no      *)
(* bytes is null, the token of a SETUP is only sent with RESUME_ENABLE;    *)
(* before 1.0 there is no NEXT, a RESUME has no version and no client      *)
(* position, and a KEEPALIVE has a position only when resumable.           *)
(***************************************************************************)
ArrivesAs(f) ==
    LET Without(g, name, value) == (name :> value) @@ g
        g == IF "data" \in DOMAIN f /\ f.data = <<<< >>>>
             THEN Without(f, "data", Null) ELSE f
        h == IF g.type = "SETUP" /\ RESUME_ENABLE \notin g.flags
             THEN Without(g, "token", << >>) ELSE g
    IN  CASE ~Before1_0(version)  -> h
          [] Before1_0(version) /\ h.type = "PAYLOAD" ->
                 [h EXCEPT !.flags = @ \ {NEXT}]
          [] Before1_0(version) /\ h.type = "KEEPALIVE" /\ ~resumable ->
                 Without(h, "position", <<0, 0>>)
          [] Before1_0(version) /\ h.type = "RESUME" ->
                 [h EXCEPT !.versionMajor = reader.serializer[1],
                           !.versionMinor = reader.serializer[2],
                           !.clientPosition = <<-1, -1>>]
          [] OTHER -> h

(***************************************************************************)
(* However the socket cuts the bytes, in every version, detected or not:   *)
(* the frames that are delivered are the frames that were written, in      *)
(* order, each with all its fields but for what the format leaves out      *)
(* (ArrivesAs).                                                            *)
(***************************************************************************)
FramesArriveIntact ==
    /\ Len(reader.received) <= Len(written)
    /\ \A i \in DOMAIN reader.received :
          reader.received[i] = [ok |-> TRUE, frame |-> ArrivesAs(written[i])]

(***************************************************************************)
(* parseFrames is called wherever bytes or allowance arrive: when the      *)
(* reader may deliver and no bytes are on their way, every frame has been  *)
(* delivered.                                                              *)
(***************************************************************************)
NothingStuck ==
    reader.frames /\ CanAcquire(reader.allowance) /\ net = << >> /\ ~noise
        => Len(reader.received) = Len(written)

(***************************************************************************)
(* kMinBytesNeededForAutodetection does not count the length field: a      *)
(* SETUP of version 0.x is not recognized while 12 to 15 bytes are there,  *)
(* for its version ends at the sixteenth.                                  *)
(***************************************************************************)
TooShortToDetect ==
    /\ reader.seen \in 12..15
    /\ Before1_0(version) /\ written[1].type = "SETUP"


=============================================================================
