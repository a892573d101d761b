----------------------------- MODULE FrameCodec -----------------------------
(***************************************************************************)
(* The frame format of src/protocol/frame_protocol.h and the stateless     *)
(* codec of src/protocol/frame_codec.cpp: magic, version, type and length, *)
(* then the payload.  Bytes are digits of base Base, so that lengths stay  *)
(* small; the layout of the header is the real one.                        *)
(***************************************************************************)
EXTENDS Naturals, Sequences, SequencesExt

CONSTANTS Base,        \* number of byte values
          Magic,       \* kFrameMagic, most significant byte first
          Version,     \* kFrameVersion
          LengthBytes, \* size of the length field
          MaxPayload   \* kMaxPayloadSize

Byte == 0..(Base - 1)

(* A number shifted right by 0 to LengthBytes bytes, and the number that   *)
(* is put together from the first 0 to LengthBytes of the bytes b.         *)
Shifted(n) ==
  LET s[k \in 0..LengthBytes] == IF k = 0 THEN n ELSE s[k - 1] \div Base
  IN  s
Gathered(b) ==
  LET g[k \in 0..LengthBytes] == IF k = 0 THEN 0 ELSE g[k - 1] * Base + b[k]
  IN  g

(* The length field has room for kMaxPayloadSize.                          *)
ASSUME CodecAssumption ==
  /\ Base \in Nat /\ Base > 1
  /\ Magic \in Seq(Byte) /\ Magic # << >>
  /\ Version \in Byte
  /\ LengthBytes \in Nat \ {0}
  /\ MaxPayload \in Nat /\ Shifted(MaxPayload)[LengthBytes] = 0

HeaderSize == Len(Magic) + 2 + LengthBytes

(* The bytes of a frame [type, payload].                                   *)
BigEndian(n) == [i \in 1..LengthBytes |-> Shifted(n)[LengthBytes - i] % Base]

EncodeHeaderToBuffer(f) ==
  Magic \o <<Version, f.type>> \o BigEndian(Len(f.payload))

Encode(f) == EncodeHeaderToBuffer(f) \o f.payload

(* The fields of a header at the start of b, which holds at least one.     *)
MagicAt(b, i)    == SubSeq(b, i, i + Len(Magic) - 1) = Magic
VersionOf(b)     == b[Len(Magic) + 1]
TypeOf(b)        == b[Len(Magic) + 2]
LengthOf(b) ==
  Gathered(SubSeq(b, HeaderSize - LengthBytes + 1, HeaderSize))[LengthBytes]

(* FrameCodec::TryDecode looks at the start of its buffer only.  It gives  *)
(* up on a header that is not one, and on a frame that is not complete.    *)
Headed(b) ==
  /\ Len(b) >= HeaderSize
  /\ MagicAt(b, 1) /\ VersionOf(b) = Version /\ LengthOf(b) <= MaxPayload

Complete(b) == Headed(b) /\ Len(b) >= HeaderSize + LengthOf(b)

FrameAt(b) == [type    |-> TypeOf(b),
               payload |-> SubSeq(b, HeaderSize + 1, HeaderSize + LengthOf(b))]

NoFrame == [type |-> 0, payload |-> << >>]
TryDecode(b) ==
  IF Complete(b) THEN [frame |-> FrameAt(b), consumed |-> HeaderSize + LengthOf(b)]
                 ELSE [frame |-> NoFrame, consumed |-> 0]
=============================================================================
