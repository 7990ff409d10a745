--------------------------- MODULE MCAttestation ---------------------------
(* Instances of Attestation for TLC. *)
EXTENDS Attestation, TLC

\* The tool acme/t, a release of it, and another tool whose name starts alike.
Tool == <<"a", "/", "t">>
Identities == {Tool \o <<":", "r">>, Tool \o <<"x">>}
GitHub == <<"g">>
Issuers == {GitHub, <<"o">>}

\* Nothing constrained; an issuer and a tool; any issuer and an organisation.
Allowed ==
  {[issuers |-> {}, identities |-> {}],
   [issuers |-> {GitHub}, identities |-> {Tool}],
   [issuers |-> {}, identities |-> {<<"a", "/">>}]}
=============================================================================
