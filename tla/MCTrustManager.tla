-------------------------- MODULE MCTrustManager --------------------------
(* Instances of TrustManager for TLC. *)
EXTENDS TrustManager, MCCards

AllCards == {V1, V1b, V1k, V3, Forged}

OneProcess == [a \in Actor |-> "hermes"]
===========================================================================
