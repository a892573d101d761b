------------------------ MODULE StreamingFrameCodec ------------------------
(***************************************************************************)
(* The decoder of src/protocol/streaming_frame_codec.cpp: a state machine  *)
(* that is fed pieces of a byte stream and finds the frames in it, skipping*)
(* what cannot start one.  TryParseFrame is a loop over the three states;  *)
(* each turn of it is one action here.                                     *)
(***************************************************************************)
EXTENDS FrameCodec

VARIABLES
  parseState,  \* state_
  codecBuf,    \* buffer_
  partial,     \* partial_frame_ and payload_length_: [type, length]
  decoded      \* history: the frames TryParseFrame returned

codecVars == <<parseState, codecBuf, partial, decoded>>

NoPartial == [type |-> 0, length |-> 0]

CodecInit ==
  /\ parseState = "magic" /\ codecBuf = << >> /\ partial = NoPartial
  /\ decoded = << >>

AppendData(data) ==
  /\ codecBuf' = codecBuf \o data
  /\ UNCHANGED <<parseState, partial, decoded>>

Without(k) == SubSeq(codecBuf, k + 1, Len(codecBuf))
-----------------------------------------------------------------------------
(* SyncMagic drops everything before the first magic, or all but as many   *)
(* bytes as may be the beginning of one.                                   *)

MagicPlaces == {i \in 1..(Len(codecBuf) - Len(Magic) + 1) : MagicAt(codecBuf, i)}

(* Mutant: one byte too few is kept.                                       *)
KeptShort == Len(Magic) - 2

Kept == Len(Magic) - 1

SyncMagic ==
  /\ parseState = "magic" /\ MagicPlaces # {}
  /\ codecBuf' = Without((CHOOSE i \in MagicPlaces :
                            \A j \in MagicPlaces : i <= j) - 1)
  /\ parseState' = "header"
  /\ UNCHANGED <<partial, decoded>>

(* TryParseFrame returns without a frame.  Only the search for the magic   *)
(* changes the buffer on the way out.                                      *)
SyncMagicFails ==
  /\ parseState = "magic" /\ MagicPlaces = {}
  /\ codecBuf' = IF Len(codecBuf) > Kept THEN Without(Len(codecBuf) - Kept)
                                         ELSE codecBuf
  /\ UNCHANGED <<parseState, partial, decoded>>
-----------------------------------------------------------------------------
(* ParseHeader.                                                            *)

HeaderFits == Len(codecBuf) >= HeaderSize

(* Mutant: a payload of the largest size is refused.                       *)
HeaderValidStrict == VersionOf(codecBuf) = Version /\ LengthOf(codecBuf) < MaxPayload

HeaderValid == VersionOf(codecBuf) = Version /\ LengthOf(codecBuf) <= MaxPayload

ParseHeader ==
  /\ parseState = "header" /\ HeaderFits /\ HeaderValid
  /\ partial' = [type |-> TypeOf(codecBuf), length |-> LengthOf(codecBuf)]
  /\ parseState' = "payload"
  /\ UNCHANGED <<codecBuf, decoded>>

(* A magic that heads nothing valid: its first byte is dropped and the     *)
(* search goes on.                                                         *)
ParseHeaderBad ==
  /\ parseState = "header" /\ HeaderFits /\ ~HeaderValid
  /\ codecBuf' = Without(1)
  /\ parseState' = "magic"
  /\ UNCHANGED <<partial, decoded>>

ParseHeaderWaits ==
  /\ parseState = "header" /\ ~HeaderFits
  /\ UNCHANGED codecVars
-----------------------------------------------------------------------------
(* ParsePayload.                                                           *)

PayloadFits == Len(codecBuf) >= HeaderSize + partial.length

ParsePayload ==
  /\ parseState = "payload" /\ PayloadFits
  /\ decoded' = Append(decoded,
       [type |-> partial.type,
        payload |-> SubSeq(codecBuf, HeaderSize + 1, HeaderSize + partial.length)])
  /\ codecBuf' = Without(HeaderSize + partial.length)
  /\ partial' = NoPartial
  /\ parseState' = "magic"

ParsePayloadWaits ==
  /\ parseState = "payload" /\ ~PayloadFits
  /\ UNCHANGED codecVars
-----------------------------------------------------------------------------
(* One turn of the loop in TryParseFrame, and its return without a frame.  *)
ParseStep == SyncMagic \/ ParseHeader \/ ParseHeaderBad \/ ParsePayload
ParseReturns == SyncMagicFails \/ ParseHeaderWaits \/ ParsePayloadWaits

(* What a whole stream contains, by definition: at each place either a     *)
(* frame starts there or its first byte is skipped.  TryDecode, the        *)
(* stateless decoder of the library, decides which.                        *)
FramesIn[s \in Seq(Byte)] ==
  IF Len(s) < HeaderSize THEN << >>
  ELSE IF ~Headed(s) THEN FramesIn[Tail(s)]
  ELSE LET d == TryDecode(s)
       IN IF d.consumed = 0 THEN << >>
          ELSE <<d.frame>> \o FramesIn[SubSeq(s, d.consumed + 1, Len(s))]
=============================================================================
