-------------------------- MODULE MCServerBridge --------------------------
(* Instances of ServerBridge for TLC. *)
EXTENDS ServerBridge, MCCards

OneProcess == [a \in Actor |-> "hermes"]

\* An attested breaking change that asks for confirmation.
V2a == [V2 EXCEPT !.att = "trusted"]
\* A breaking change that asks for none, and has no attestation.
V1d == [V1 EXCEPT !.tier = "danger"]

\* The same, with an attestation the gate raises on.
V1m == [V1d EXCEPT !.att = "malformed"]

\* The id and the key of V1, and a signature that does not verify.
V1u == [V1 EXCEPT !.signed = FALSE]

\* A first deployment, three breaking changes and a forgery.
BreakingCards == {V1, V1d, V1m, V2a, V1u}
\* One of each kind that makes a command, a call or a sync end elsewhere.
RaisingCards == {V1, V1m, V2a}
TwoCards == {V1, V2}
===========================================================================
