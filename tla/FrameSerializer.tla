-------------------------- MODULE FrameSerializer --------------------------
(***************************************************************************)
(* Frames (src/src/Frame.h) and the two serializers of them,               *)
(* src/src/versions/FrameSerializer_v0.cpp (for versions 0.0 and 0.1) and  *)
(* FrameSerializer_v1_0.cpp, down to the bytes.                            *)
(*                                                                         *)
(* A frame is a record of the header's fields and its own.  Flags are sets *)
(* of bits.  A 32 bit word is a number -2^31 .. 2^31-1 whether the code    *)
(* reads it as signed or not, a resume position is a pair of such words,   *)
(* and an IOBuf that may be null is a sequence of at most one sequence of  *)
(* bytes.  What follows the header is given by a layout: the fields in the *)
(* order in which serializeOut writes or deserializeFrom reads them.       *)
(***************************************************************************)
EXTENDS Integers, SequencesExt

Int32Max == 2147483647

Null == << >>

Unknown == <<65535, 65535>>     \* ProtocolVersion::Unknown
V0_0    == <<0, 0>>
V0_1    == <<0, 1>>
V1_0    == <<1, 0>>

Before1_0(version) == version # Unknown /\ version[1] < 1

FrameType ==
    [RESERVED |-> 0, SETUP |-> 1, LEASE |-> 2, KEEPALIVE |-> 3,
     REQUEST_RESPONSE |-> 4, REQUEST_FNF |-> 5, REQUEST_STREAM |-> 6,
     REQUEST_CHANNEL |-> 7, REQUEST_N |-> 8, CANCEL |-> 9, PAYLOAD |-> 10,
     ERROR |-> 11, METADATA_PUSH |-> 12, RESUME |-> 13, RESUME_OK |-> 14,
     EXT |-> 63]

(* FrameFlags; some bits have one meaning per type of frame.               *)
IGNORE            == 512
METADATA          == 256
RESUME_ENABLE     == 128
KEEPALIVE_RESPOND == 128
FOLLOWS           == 128
LEASE             == 64
COMPLETE          == 64
NEXT              == 32

-----------------------------------------------------------------------------
(* The frames, as their constructors make them.                            *)

Payload(data, metadata) == [data |-> data, metadata |-> metadata]

GetFlags(payload) == IF payload.metadata # Null THEN {METADATA} ELSE {}

FrameHeader(type, flags, streamId) ==
    [type |-> type, flags |-> flags, streamId |-> streamId]

Frame_REQUEST_N(streamId, n) ==
    FrameHeader("REQUEST_N", {}, streamId) @@ [requestN |-> n]

(* REQUEST_STREAM and REQUEST_CHANNEL.                                     *)
Frame_REQUEST_Base(type, streamId, flags, n, payload) ==
    FrameHeader(type, flags \cup GetFlags(payload), streamId)
        @@ [requestN |-> n] @@ payload

Frame_REQUEST_RESPONSE(streamId, flags, payload) ==
    FrameHeader("REQUEST_RESPONSE",
                (flags \cap {METADATA, FOLLOWS}) \cup GetFlags(payload), streamId)
        @@ payload

Frame_REQUEST_FNF(streamId, flags, payload) ==
    FrameHeader("REQUEST_FNF",
                (flags \cap {METADATA, FOLLOWS}) \cup GetFlags(payload), streamId)
        @@ payload

Frame_METADATA_PUSH(metadata) ==
    FrameHeader("METADATA_PUSH", {METADATA}, 0) @@ [metadata |-> metadata]

Frame_CANCEL(streamId) == FrameHeader("CANCEL", {}, streamId)

Frame_PAYLOAD(streamId, flags, payload) ==
    FrameHeader("PAYLOAD",
                (flags \cap {METADATA, FOLLOWS, COMPLETE, NEXT}) \cup GetFlags(payload),
                streamId)
        @@ payload

Frame_ERROR(streamId, errorCode, payload) ==
    FrameHeader("ERROR", GetFlags(payload), streamId)
        @@ [errorCode |-> errorCode] @@ payload

Frame_KEEPALIVE(flags, position, data) ==
    FrameHeader("KEEPALIVE", flags \cap {KEEPALIVE_RESPOND}, 0)
        @@ [position |-> position, data |-> data]

Frame_SETUP(flags, version, keepaliveTime, maxLifetime, token, mimes, payload) ==
    FrameHeader("SETUP",
                (flags \cap {METADATA, RESUME_ENABLE, LEASE}) \cup GetFlags(payload), 0)
        @@ [versionMajor |-> version[1], versionMinor |-> version[2],
            keepaliveTime |-> keepaliveTime, maxLifetime |-> maxLifetime,
            token |-> token,
            metadataMimeType |-> mimes[1], dataMimeType |-> mimes[2]]
        @@ payload

Frame_LEASE(ttl, numberOfRequests, metadata) ==
    FrameHeader("LEASE", IF metadata # Null THEN {METADATA} ELSE {}, 0)
        @@ [ttl |-> ttl, numberOfRequests |-> numberOfRequests, metadata |-> metadata]

Frame_RESUME(token, lastReceivedServerPosition, clientPosition, version) ==
    FrameHeader("RESUME", {}, 0)
        @@ [versionMajor |-> version[1], versionMinor |-> version[2], token |-> token,
            lastReceivedServerPosition |-> lastReceivedServerPosition,
            clientPosition |-> clientPosition]

Frame_RESUME_OK(position) ==
    FrameHeader("RESUME_OK", {}, 0) @@ [position |-> position]

-----------------------------------------------------------------------------
(***************************************************************************)
(* folly's QueueAppender and Cursor: big endian numbers, and a cursor that *)
(* throws when there are too few bytes.  A cursor here is what is left to  *)
(* read, the frame read so far, and ok while nothing was thrown.           *)
(***************************************************************************)
WriteBE(n, width) == [i \in 1..width |-> (n \div 256^(width - i)) % 256]

NumberOf(bytes) ==
    LET first == IF Len(bytes) = 4 /\ bytes[1] >= 128 THEN bytes[1] - 256 ELSE bytes[1]
    IN  FoldLeft(LAMBDA n, byte : n * 256 + byte, first, Tail(bytes))

Cursor(bytes) == [in |-> bytes, ok |-> TRUE, frame |-> << >>]

Bad(cur) == [cur EXCEPT !.ok = FALSE]

Skip(cur, n) ==
    IF cur.ok /\ Len(cur.in) >= n
    THEN [cur EXCEPT !.in = SubSeq(@, n + 1, Len(@))]
    ELSE Bad(cur)

ReadBE(cur, width) == NumberOf(SubSeq(cur.in, 1, width))

SetField(cur, name, value) == [cur EXCEPT !.frame = (name :> value) @@ @]

(***************************************************************************)
(* The fields of a layout.  check is what deserializeFrom demands of the   *)
(* number read; when is a flag without which the field is left out.  Const *)
(* is a field that deserializeFrom sets without reading it.                *)
(***************************************************************************)
Field(name, codec) == [name |-> name, codec |-> codec, check |-> "any", when |-> 0]

U16(name) == Field(name, "u16")
U32(name) == Field(name, "u32")
I32(name, check) == [Field(name, "u32") EXCEPT !.check = check]
I64(name, check) == [Field(name, "u64") EXCEPT !.check = check]
If(flag, field)  == [field EXCEPT !.when = flag]
Const(name, value) == [Field(name, "const") EXCEPT !.check = value]

Allowed(check, n) ==
    CASE check = "nonnegative" -> n >= 0
      [] check = "positive"    -> n > 0
      [] OTHER                 -> TRUE

(* std::min of an unsigned number with the largest signed one.             *)
Adjusted(check, n) == IF check = "capped" /\ n < 0 THEN Int32Max ELSE n

(* serializeMetadataInto: before 1.0 the length counts its own 4 bytes.    *)
MetadataOutV0(bytes) == WriteBE(Len(bytes) + 4, 4) \o bytes

MetadataOutV1(bytes) == WriteBE(Len(bytes), 3) \o bytes

MetadataOut(version, metadata) ==
    CASE metadata = Null -> << >>
      [] metadata # Null /\ Before1_0(version) -> MetadataOutV0(metadata[1])
      [] OTHER -> MetadataOutV1(metadata[1])

(* Mutant of MetadataInV0: the length is taken not to count itself.        *)
MetadataInV0Excluding(cur) ==
    LET next   == Skip(cur, 4)
        length == IF next.ok THEN ReadBE(cur, 4) ELSE 0
        after  == Skip(next, length)
    IN  IF next.ok /\ after.ok
        THEN SetField(after, "metadata", <<SubSeq(next.in, 1, length)>>)
        ELSE Bad(cur)

(* deserializeMetadataFrom.                                                *)
MetadataInV0(cur) ==
    LET next   == Skip(cur, 4)
        length == IF next.ok THEN ReadBE(cur, 4) ELSE 0
        after  == Skip(next, length - 4)
    IN  IF next.ok /\ length > 4 /\ length < 16777215 /\ after.ok
        THEN SetField(after, "metadata", <<SubSeq(next.in, 1, length - 4)>>)
        ELSE Bad(cur)

MetadataInV1(cur) ==
    LET next   == Skip(cur, 3)
        length == IF next.ok THEN ReadBE(cur, 3) ELSE 0
        after  == Skip(next, length)
    IN  IF next.ok /\ after.ok
        THEN SetField(after, "metadata", <<SubSeq(next.in, 1, length)>>)
        ELSE Bad(cur)

(* deserializeDataFrom: the rest of the frame, null when nothing is left.  *)
RestIn(cur, name) ==
    SetField([cur EXCEPT !.in = << >>], name,
             IF cur.in = << >> THEN Null ELSE <<cur.in>>)

NumberIn(cur, field, width) ==
    LET next == Skip(cur, width)
        n    == ReadBE(cur, width)
    IN  IF next.ok /\ Allowed(field.check, n)
        THEN SetField(next, field.name, Adjusted(field.check, n))
        ELSE Bad(cur)

PositionIn(cur, field) ==
    LET next == Skip(cur, 8)
        n    == <<ReadBE(cur, 4), ReadBE(Skip(cur, 4), 4)>>
    IN  IF next.ok /\ Allowed(field.check, n[1])
        THEN SetField(next, field.name, n)
        ELSE Bad(cur)

(* Bytes after a length of the given width, or as many as given.           *)
BytesIn(cur, name, width, given) ==
    LET next   == Skip(cur, width)
        length == IF width > 0 /\ next.ok THEN ReadBE(cur, width) ELSE given
        after  == Skip(next, length)
    IN  IF after.ok THEN SetField(after, name, SubSeq(next.in, 1, length)) ELSE Bad(cur)

FieldIn(version, cur, field) ==
    CASE ~cur.ok                   -> cur
      [] cur.ok /\ field.when # 0 /\ field.when \notin cur.frame.flags
                                   -> SetField(cur, field.name, Null)
      [] OTHER ->
           CASE field.codec = "u16"    -> NumberIn(cur, field, 2)
             [] field.codec = "u32"    -> NumberIn(cur, field, 4)
             [] field.codec = "u64"    -> PositionIn(cur, field)
             [] field.codec = "raw16"  -> BytesIn(cur, field.name, 0, 16)
             [] field.codec = "token"  -> BytesIn(cur, field.name, 2, 0)
             [] field.codec = "string" -> BytesIn(cur, field.name, 1, 0)
             [] field.codec = "rest"   -> RestIn(cur, field.name)
             [] field.codec = "metadata" ->
                  IF Before1_0(version) THEN MetadataInV0(cur) ELSE MetadataInV1(cur)
             [] field.codec = "const"  -> SetField(cur, field.name, field.check)

FieldOut(version, frame, field) ==
    LET value == frame[field.name]
    IN  IF field.when # 0 /\ field.when \notin frame.flags THEN << >>
        ELSE CASE field.codec = "u16"      -> WriteBE(value, 2)
               [] field.codec = "u32"      -> WriteBE(value, 4)
               [] field.codec = "u64"      -> WriteBE(value[1], 4) \o WriteBE(value[2], 4)
               [] field.codec = "raw16"    -> value
               [] field.codec = "token"    -> WriteBE(Len(value), 2) \o value
               [] field.codec = "string"   -> WriteBE(Len(value), 1) \o value
               [] field.codec = "rest"     -> IF value = Null THEN << >> ELSE value[1]
               [] field.codec = "metadata" -> MetadataOut(version, value)

(* Layouts used more than once.                                            *)
Metadata    == If(METADATA, Field("metadata", "metadata"))
MetadataPtr == Field("metadata", "metadata")
Data        == Field("data", "rest")
PayloadOut  == <<MetadataPtr, Data>>    \* serializePayloadInto
PayloadIn   == <<Metadata, Data>>       \* deserializePayloadFrom
Token(codec) == Field("token", codec)
Mimes       == <<Field("metadataMimeType", "string"), Field("dataMimeType", "string")>>
Version     == <<U16("versionMajor"), U16("versionMinor")>>

-----------------------------------------------------------------------------
(* FrameSerializerV0.                                                      *)

Shifted == {"REQUEST_CHANNEL", "REQUEST_N", "CANCEL", "PAYLOAD", "ERROR",
            "METADATA_PUSH", "RESUME", "RESUME_OK"}

SerializeFrameTypeV0(type) ==
    CASE type \in Shifted -> FrameType[type] + 1
      [] type = "EXT"     -> 65535
      [] OTHER            -> FrameType[type]

DeserializeFrameTypeV0(n) ==
    CASE n = 65535          -> "EXT"
      [] n # 65535 /\ n > 15 -> "RESERVED"
      [] n = 7              -> "REQUEST_STREAM"     \* REQUEST_SUB
      [] n < 7              -> CHOOSE t \in DOMAIN FrameType : FrameType[t] = n
      [] n \in 8..15        -> CHOOSE t \in Shifted : FrameType[t] = n - 1

(***************************************************************************)
(* The flags that every frame has, and the extra ones that serializeOut    *)
(* and deserializeFrom of some types translate: pairs of the bit in        *)
(* FrameFlags and in FrameFlags_V0.  NEXT has no bit in 0.x.               *)
(***************************************************************************)
CommonFlagsV0  == {<<IGNORE, 32768>>, <<METADATA, 16384>>}
FollowsV0      == <<FOLLOWS, 8192>>
RespondV0      == <<KEEPALIVE_RESPOND, 8192>>
LeaseV0        == <<LEASE, 8192>>
CompleteV0     == <<COMPLETE, 4096>>
ResumeEnableV0 == <<RESUME_ENABLE, 2048>>

SerializeFrameFlagsV0(flags, extra) ==
    SumSet({p[2] : p \in {q \in CommonFlagsV0 \cup extra : q[1] \in flags}})

DeserializeFrameFlagsV0(n, extra) ==
    {p[1] : p \in {q \in CommonFlagsV0 \cup extra : (n \div q[2]) % 2 = 1}}

SerializeHeaderV0(frame, extra) ==
    WriteBE(SerializeFrameTypeV0(frame.type), 2)
        \o WriteBE(SerializeFrameFlagsV0(frame.flags, extra), 2)
        \o WriteBE(frame.streamId, 4)

DeserializeHeaderV0(bytes, extra) ==
    LET cur == Cursor(bytes)
    IN  IF Len(bytes) < 8 THEN Bad(cur)
        ELSE [Skip(cur, 8) EXCEPT
                 !.frame = FrameHeader(DeserializeFrameTypeV0(ReadBE(cur, 2)),
                                       DeserializeFrameFlagsV0(ReadBE(Skip(cur, 2), 2),
                                                               extra),
                                       ReadBE(Skip(cur, 4), 4))]

PeekFrameTypeV0(bytes) ==
    IF Len(bytes) < 2 THEN "RESERVED" ELSE DeserializeFrameTypeV0(ReadBE(Cursor(bytes), 2))

Layout(extra, fields) == [extra |-> extra, fields |-> fields]

(* serializeOut.                                                           *)
RequestBaseOutV0 == Layout({FollowsV0, CompleteV0}, <<U32("requestN")>> \o PayloadOut)

RequestsOutV0 ==
    [REQUEST_STREAM   |-> RequestBaseOutV0,
     REQUEST_CHANNEL  |-> RequestBaseOutV0,
     REQUEST_RESPONSE |-> Layout({FollowsV0}, PayloadOut),
     REQUEST_FNF      |-> Layout({FollowsV0}, PayloadOut),
     REQUEST_N        |-> Layout({}, <<U32("requestN")>>),
     METADATA_PUSH    |-> Layout({}, <<MetadataPtr>>),
     CANCEL           |-> Layout({}, << >>)]

AnswersOutV0(resumable) ==
    [PAYLOAD   |-> Layout({FollowsV0, CompleteV0}, PayloadOut),
     ERROR     |-> Layout({}, <<U32("errorCode")>> \o PayloadOut),
     KEEPALIVE |-> Layout({RespondV0},
                          (IF resumable THEN <<I64("position", "any")>> ELSE << >>)
                              \o <<Data>>)]

ConnectionOutV0 ==
    [SETUP     |-> Layout({ResumeEnableV0, LeaseV0},
                          Version \o <<U32("keepaliveTime"), U32("maxLifetime"),
                                       If(RESUME_ENABLE, Token("raw16"))>>
                                  \o Mimes \o PayloadOut),
     LEASE     |-> Layout({}, <<U32("ttl"), U32("numberOfRequests"), MetadataPtr>>),
     RESUME    |-> Layout({}, <<Token("raw16"),
                                I64("lastReceivedServerPosition", "any")>>),
     RESUME_OK |-> Layout({}, <<I64("position", "any")>>)]

(* deserializeFrom.                                                        *)
RequestBaseInV0 == Layout({FollowsV0, CompleteV0}, <<U32("requestN")>> \o PayloadIn)

RequestsInV0 ==
    [REQUEST_STREAM   |-> RequestBaseInV0,
     REQUEST_CHANNEL  |-> RequestBaseInV0,
     REQUEST_RESPONSE |-> Layout({FollowsV0}, PayloadIn),
     REQUEST_FNF      |-> Layout({FollowsV0}, PayloadIn),
     REQUEST_N        |-> Layout({}, <<U32("requestN")>>),
     METADATA_PUSH    |-> Layout({}, <<Metadata>>),
     CANCEL           |-> Layout({}, << >>)]

AnswersInV0(resumable) ==
    [PAYLOAD   |-> Layout({FollowsV0, CompleteV0}, PayloadIn),
     ERROR     |-> Layout({}, <<U32("errorCode")>> \o PayloadIn),
     KEEPALIVE |-> Layout({RespondV0},
                          <<IF resumable THEN I64("position", "any")
                                         ELSE Const("position", <<0, 0>>), Data>>)]

ConnectionInV0(version) ==
    [SETUP     |-> Layout({ResumeEnableV0, LeaseV0},
                          Version \o <<I32("keepaliveTime", "capped"),
                                       I32("maxLifetime", "capped"),
                                       If(RESUME_ENABLE, Token("raw16"))>>
                                  \o Mimes \o PayloadIn),
     LEASE     |-> Layout({}, <<I32("ttl", "capped"), I32("numberOfRequests", "capped"),
                                Metadata>>),
     RESUME    |-> Layout({}, <<Token("raw16"),
                                Const("versionMajor", version[1]),
                                Const("versionMinor", version[2]),
                                I64("lastReceivedServerPosition", "any"),
                                Const("clientPosition", <<-1, -1>>)>>),
     RESUME_OK |-> Layout({}, <<I64("position", "any")>>)]

-----------------------------------------------------------------------------
(* FrameSerializerV1_0.                                                    *)

DeserializeFrameTypeV1(n) ==
    IF n > 14 /\ n # 63 THEN "RESERVED"
    ELSE CHOOSE t \in DOMAIN FrameType : FrameType[t] = n

SerializeHeaderV1(frame) ==
    LET flags == SumSet(frame.flags)
    IN  WriteBE(frame.streamId, 4)
            \o <<FrameType[frame.type] * 4 + flags \div 256, flags % 256>>

DeserializeHeaderV1(bytes) ==
    LET cur == Cursor(bytes)
        n   == (bytes[5] % 4) * 256 + bytes[6]
    IN  IF Len(bytes) < 6 \/ ReadBE(cur, 4) < 0 THEN Bad(cur)
        ELSE [Skip(cur, 6) EXCEPT
                 !.frame = FrameHeader(DeserializeFrameTypeV1(bytes[5] \div 4),
                                       {2^i : i \in {j \in 0..9 : (n \div 2^j) % 2 = 1}},
                                       ReadBE(cur, 4))]

PeekFrameTypeV1(bytes) ==
    IF Len(bytes) < 5 THEN "RESERVED" ELSE DeserializeFrameTypeV1(bytes[5] \div 4)

RequestBaseOutV1 == Layout({}, <<U32("requestN")>> \o PayloadOut)

RequestsOutV1 ==
    [REQUEST_STREAM   |-> RequestBaseOutV1,
     REQUEST_CHANNEL  |-> RequestBaseOutV1,
     REQUEST_RESPONSE |-> Layout({}, PayloadOut),
     REQUEST_FNF      |-> Layout({}, PayloadOut),
     REQUEST_N        |-> Layout({}, <<U32("requestN")>>),
     METADATA_PUSH    |-> Layout({}, <<Field("metadata", "rest")>>),
     CANCEL           |-> Layout({}, << >>),
     PAYLOAD          |-> Layout({}, PayloadOut),
     ERROR            |-> Layout({}, <<U32("errorCode")>> \o PayloadOut)]

ConnectionOutV1 ==
    [KEEPALIVE |-> Layout({}, <<I64("position", "any"), Data>>),
     SETUP     |-> Layout({}, Version \o <<U32("keepaliveTime"), U32("maxLifetime"),
                                           If(RESUME_ENABLE, Token("token"))>>
                                      \o Mimes \o PayloadOut),
     LEASE     |-> Layout({}, <<U32("ttl"), U32("numberOfRequests"),
                                Field("metadata", "rest")>>),
     RESUME    |-> Layout({}, Version \o <<Token("token"),
                                           I64("lastReceivedServerPosition", "any"),
                                           I64("clientPosition", "any")>>),
     RESUME_OK |-> Layout({}, <<I64("position", "any")>>)]

RequestBaseInV1 == Layout({}, <<I32("requestN", "nonnegative")>> \o PayloadIn)

RequestsInV1 ==
    [REQUEST_STREAM   |-> RequestBaseInV1,
     REQUEST_CHANNEL  |-> RequestBaseInV1,
     REQUEST_RESPONSE |-> Layout({}, PayloadIn),
     REQUEST_FNF      |-> Layout({}, PayloadIn),
     REQUEST_N        |-> Layout({}, <<I32("requestN", "positive")>>),
     METADATA_PUSH    |-> Layout({}, <<Field("metadata", "rest")>>),
     CANCEL           |-> Layout({}, << >>),
     PAYLOAD          |-> Layout({}, PayloadIn),
     ERROR            |-> Layout({}, <<U32("errorCode")>> \o PayloadIn)]

ConnectionInV1 ==
    [KEEPALIVE |-> Layout({}, <<I64("position", "nonnegative"), Data>>),
     SETUP     |-> Layout({}, Version \o <<I32("keepaliveTime", "positive"),
                                           I32("maxLifetime", "positive"),
                                           If(RESUME_ENABLE, Token("token"))>>
                                      \o Mimes \o PayloadIn),
     LEASE     |-> Layout({}, <<I32("ttl", "positive"), I32("numberOfRequests", "positive"),
                                Field("metadata", "rest")>>),
     RESUME    |-> Layout({}, Version \o <<Token("token"),
                                           I64("lastReceivedServerPosition", "nonnegative"),
                                           I64("clientPosition", "nonnegative")>>),
     RESUME_OK |-> Layout({}, <<I64("position", "nonnegative")>>)]

-----------------------------------------------------------------------------
SerializeOut(version, frame, resumable) ==
    LET old    == Before1_0(version)
        out    == IF old THEN RequestsOutV0 @@ AnswersOutV0(resumable) @@ ConnectionOutV0
                         ELSE RequestsOutV1 @@ ConnectionOutV1
        layout == out[frame.type]
    IN  (IF old THEN SerializeHeaderV0(frame, layout.extra) ELSE SerializeHeaderV1(frame))
            \o FlattenSeq([i \in DOMAIN layout.fields |->
                              FieldOut(version, frame, layout.fields[i])])

PeekFrameType(version, bytes) ==
    IF Before1_0(version) THEN PeekFrameTypeV0(bytes) ELSE PeekFrameTypeV1(bytes)

(***************************************************************************)
(* What the connection does with the bytes of a frame: look at the type,   *)
(* and deserialize as that type.  ok is FALSE for a frame that is refused. *)
(* METADATA_PUSH without metadata is refused after it was read.            *)
(***************************************************************************)
DeserializeFrom(version, bytes, resumable) ==
    LET old    == Before1_0(version)
        in     == IF old THEN RequestsInV0 @@ AnswersInV0(resumable) @@ ConnectionInV0(version)
                         ELSE RequestsInV1 @@ ConnectionInV1
        type   == PeekFrameType(version, bytes)
        header == IF old THEN DeserializeHeaderV0(bytes, in[type].extra)
                         ELSE DeserializeHeaderV1(bytes)
        cur    == FoldLeft(LAMBDA c, field : FieldIn(version, c, field),
                           header, in[type].fields)
    IN  IF type \notin DOMAIN in THEN Bad(Cursor(bytes))
        ELSE IF cur.ok /\ type = "METADATA_PUSH" /\ cur.frame.metadata = Null THEN Bad(cur)
        ELSE cur

(***************************************************************************)
(* detectProtocolVersion, of the bytes that begin with the first frame.    *)
(***************************************************************************)
DetectV1_0(bytes, skip) ==
    LET cur == Skip(Cursor(bytes), skip)
    IN  IF /\ Len(bytes) >= skip + 10
           /\ ReadBE(cur, 4) = 0
           /\ cur.in[5] \div 4 \in {1, 13}
           /\ <<ReadBE(Skip(cur, 6), 2), ReadBE(Skip(cur, 8), 2)>> = V1_0
        THEN V1_0 ELSE Unknown

DetectV0_1(bytes, skip) ==
    LET cur     == Skip(Cursor(bytes), skip)
        version == <<ReadBE(Skip(cur, 8), 2), ReadBE(Skip(cur, 10), 2)>>
    IN  CASE Len(bytes) < skip + 8 \/ ReadBE(Skip(cur, 4), 4) # 0 -> Unknown
          [] OTHER ->
               CASE ReadBE(cur, 2) = 1 /\ Len(bytes) >= skip + 12
                    /\ version \in {V0_0, V0_1}  -> version
                 [] ReadBE(cur, 2) = 14          -> V0_1
                 [] OTHER                        -> Unknown

CreateAutodetectedSerializer(bytes) ==
    IF DetectV1_0(bytes, 0) # Unknown THEN DetectV1_0(bytes, 0) ELSE DetectV0_1(bytes, 0)

=============================================================================
