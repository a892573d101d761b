-------------------------- MODULE MCBrokerDelivery --------------------------
(* BrokerDelivery with model values for the ids.  The code compares        *)
(* subscriber and connection ids for equality only, so both are symmetric. *)
EXTENDS BrokerDelivery, TLC

Symmetry == Permutations(Subscribers) \cup Permutations(Conns)
=============================================================================
