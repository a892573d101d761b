--------------------------- MODULE MCFrameStream ---------------------------
(* FrameStream with a header of the real layout over sixteen byte values.  *)
EXTENDS FrameStream

MCMagic == <<13, 14, 10, 15>>

(* An empty payload, one that is itself a frame, one of the largest size   *)
(* that ends like a magic begins, and one that is too long to be decoded.  *)
Inner == Magic \o <<Version, 7>> \o BigEndian(0)
MCFrames ==
  { [type |-> 11, payload |-> << >>],
    [type |-> 1,  payload |-> Inner],
    [type |-> 9,  payload |-> [i \in 1..MaxPayload |-> IF i = MaxPayload THEN 13 ELSE 2]],
    [type |-> 10, payload |-> <<5>> \o Inner \o <<5>>] }

(* Nothing; the beginning of a magic; a magic with another version, with   *)
(* a length beyond the limit, and one that heads a frame of three bytes.   *)
MCNoises ==
  { << >>, <<13, 14, 10>>, <<4>> \o Magic \o <<2, 0>>,
    Magic \o <<Version, 1, 1, 0, 0, 0>>,
    Magic \o <<Version, 1>> \o BigEndian(3) }
=============================================================================
