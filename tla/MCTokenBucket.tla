---------------------------- MODULE MCTokenBucket ----------------------------
(* A slow and a fast setting: a tick brings a third of a token, or more    *)
(* than the smaller of the two bursts holds.                               *)
EXTENDS TokenBucket

MCSettings == {<<1, 2>>, <<4, 1>>}
=============================================================================
