--------------------------- MODULE MCBrokerRouting ---------------------------
(* BrokerRouting with model values for subscriber and group ids.           *)
EXTENDS BrokerRouting, TLC

Symmetry == Permutations(Subscribers)
=============================================================================
