------------------------------ MODULE MCFramed ------------------------------
(***************************************************************************)
(* Frames of every type for Framed, with the values at the edges: no data, *)
(* data of no bytes, metadata, all flags, the largest number, a position   *)
(* beyond 32 bits.                                                         *)
(***************************************************************************)
EXTENDS Framed

Buf == <<<<7, 255>>>>

Tok == [i \in 1..16 |-> i]

MCVersions == {V0_0, V0_1, V1_0}

(* 0.0 and 0.1 have one format: 0.0 is only tried with two of the three.   *)
MCFirstFrames(v) ==
    {Frame_SETUP({}, v, Int32Max, 1, Tok, << <<65>>, << >> >>, Payload(Null, Null)),
     Frame_RESUME(Tok, <<0, 7>>, <<1, -1>>, v)}
    \cup (IF v = V0_0 THEN {} ELSE
          {Frame_SETUP({RESUME_ENABLE, LEASE}, v, 500, 65536, Tok,
                       << <<65, 66>>, <<67>> >>, Payload(Buf, Buf))})

MCFrames ==
    {Frame_REQUEST_Base("REQUEST_STREAM", 1, {}, Int32Max, Payload(Buf, Null)),
     Frame_REQUEST_Base("REQUEST_CHANNEL", 3, {FOLLOWS, COMPLETE}, 0, Payload(Buf, Buf)),
     Frame_REQUEST_RESPONSE(5, {FOLLOWS}, Payload(<<<< >>>>, Buf)),
     Frame_REQUEST_FNF(Int32Max, {NEXT}, Payload(Null, Null)),
     Frame_REQUEST_N(1, 256),
     Frame_METADATA_PUSH(Buf),
     Frame_CANCEL(257),
     Frame_PAYLOAD(1, {NEXT, COMPLETE}, Payload(Buf, Buf)),
     Frame_PAYLOAD(1, {NEXT}, Payload(Null, Null)),
     Frame_ERROR(0, 513, Payload(Buf, Null)),
     Frame_KEEPALIVE({KEEPALIVE_RESPOND}, <<1, -2>>, Buf),
     Frame_LEASE(1, Int32Max, Buf),
     Frame_RESUME_OK(<<0, 3>>),
     \* too long for MaxFrameLength
     Frame_PAYLOAD(1, {NEXT}, Payload(<<[i \in 1..80 |-> 0]>>, Null))}

=============================================================================
