----------------------------- MODULE Attestation -----------------------------
(***************************************************************************)
(* The attestation gate (attestation.py): the verifiers for the two kinds  *)
(* of attestation, the Sigstore backend, and enforce_policy, applied to    *)
(* the card a server deploys at any moment.                                *)
(*                                                                         *)
(* The publisher's side is external, after scripts/record_sigstore_fixture *)
(* and the card builders of the tests: revise the card, sign the id it has *)
(* with a keyless certificate, attach a bundle, compute the id anew.  The  *)
(* steps come in any order: a bundle can outlive the content it was made   *)
(* for, and an id the attestation it was computed with.                    *)
(*                                                                         *)
(* An id is the value it is a hash of.  A name (issuer or identity) is the *)
(* sequence of its characters.                                             *)
(***************************************************************************)
EXTENDS Cards, Sequences, SequencesExt

CONSTANTS
  Content,     \* what a card says, its attestation aside
  Tier,        \* the risk tiers of the cards
  Issuer,      \* issuers of certificates
  Identity,    \* identities in certificates
  Policies,    \* issuers and identities the owner may allow
  Backend,     \* the keyless backends there can be: none, sigstore
  NoAtt,       \* a card without attestation
  BareAtt,     \* an attestation that is not a mapping: a string, a list
  NoEnvelope,  \* a bundle without a Sigstore envelope
  MaxSign,     \* bound: keyless signatures
  MaxRevise    \* bound: revisions of the card

ASSUME AttestationAssumption ==
  /\ \A p \in Policies : p.issuers \union p.identities \subseteq Seq(STRING) \ {<<>>}
  /\ Issuer \union Identity \subseteq Seq(STRING) \ {<<>>}
  /\ Backend \subseteq {"none", "sigstore"}
  /\ {MaxSign, MaxRevise} \subseteq Nat

VARIABLES
  policy,    \* attestation.issuers and identities of glyph.yaml
  backend,   \* default_backend(): whether the sigstore extra is installed
  card,      \* the card the server deploys
  envelope,  \* external: the publisher's last keyless signature
  signs,     \* number of keyless signatures
  revised    \* number of revisions

vars == <<policy, backend, card, envelope, signs, revised>>

DIGEST_TYPE == "container-digest"
KEYLESS_TYPE == "glyph-keyless-v1"

\* What the payload of an attestation can be: of the form its type asks for,
\* another text, or no text at all (null, a number, a mapping).
Payloads == {"wellFormed", "malformed", "notText"}
SEGMENT_DELIMITERS == {":", "/"}

\* The id of a card covers its attestation, the subject digest of a bundle does
\* not (compute_keyless_subject_digest).
IdOf(c) == [content |-> c.content, tier |-> c.tier, att |-> c.att]
SubjectDigest(c) == [content |-> c.content, tier |-> c.tier]

\* verify_glyph: the id is the card's own, and its signature is over the id.
SignedCard(c) == c.id = IdOf(c)

----------------------------------------------------------------------------
(* Identity policies.                                                      *)

\* Mutant: a bare prefix is enough.
Matches_Prefix(value, entry) == entry # <<>> /\ IsPrefix(entry, value)

Matches(value, entry) ==
  \/ value = entry
  \/ /\ entry # <<>> /\ IsStrictPrefix(entry, value)
     /\ {Last(entry), value[Len(entry) + 1]} \cap SEGMENT_DELIMITERS # {}

matches_any(value, allow) == allow = {} \/ \E entry \in allow : Matches(value, entry)

----------------------------------------------------------------------------
(* The verifiers.  A result is valid or not, and trusted, untrusted, or    *)
(* without a trust dimension ("none"); or the verifier raised.             *)

Invalid == [valid |-> FALSE, trusted |-> "none"]
Raised == [valid |-> FALSE, trusted |-> "raised"]

\* json.loads raises TypeError on a payload that is no text, and that is caught.
DigestVerifier(c) ==
  IF c.att.payload = "wellFormed" THEN [valid |-> TRUE, trusted |-> "none"] ELSE Invalid

\* Mutant: the backend asks for the issuer only.
SigstoreTrusts_IssuerOnly(c) ==
  LET e == c.att.envelope
  IN  e # NoEnvelope /\ e.artifact = c.id /\ e.issuer = c.att.issuer

\* SigstoreBackend.verify_bundle, on a certificate chain and log entry that
\* check: the card's id is the signed artifact, and the certificate carries the
\* issuer and, unless the bundle leaves it blank, the identity the bundle claims.
SigstoreTrusts(c) ==
  LET e == c.att.envelope
  IN  /\ e # NoEnvelope
      /\ e.artifact = c.id
      /\ e.issuer = c.att.issuer
      /\ c.att.identity # <<>> => e.identity = c.att.identity

PolicyOk(c) ==
  /\ matches_any(c.att.issuer, policy.issuers)
  /\ matches_any(c.att.identity, policy.identities)

Keyless(trusted) == [valid |-> TRUE, trusted |-> IF trusted THEN "yes" ELSE "no"]

\* Mutant: the bundle's binding to the card is left to the backend.
KeylessVerifier_NoBinding(c) ==
  CASE c.att.payload = "notText" -> Raised
    [] c.att.payload = "wellFormed" ->
         Keyless(backend = "sigstore" /\ SigstoreTrusts(c) /\ PolicyOk(c))
    [] OTHER -> Invalid

\* Mutant: a trusted signature is enough, whoever made it.
KeylessVerifier_NoPolicy(c) ==
  CASE c.att.payload = "notText" -> Raised
    [] c.att.payload = "wellFormed" /\ c.att.subject = SubjectDigest(c) ->
         Keyless(backend = "sigstore" /\ SigstoreTrusts(c))
    [] OTHER -> Invalid

\* b64decode of a payload that is no text raises TypeError, which is not among
\* the errors that are caught.
KeylessVerifier(c) ==
  CASE c.att.payload = "notText" -> Raised
    [] c.att.payload = "wellFormed" /\ c.att.subject = SubjectDigest(c) ->
         Keyless(backend = "sigstore" /\ SigstoreTrusts(c) /\ PolicyOk(c))
    [] OTHER -> Invalid

\* The registry: a type without a verifier gives no result.
Result(c) ==
  CASE c.att.type = DIGEST_TYPE -> DigestVerifier(c)
    [] c.att.type = KEYLESS_TYPE -> KeylessVerifier(c)
    [] OTHER -> Invalid

\* Mutant: an absent tier counts as danger.
Gated_AbsentToo(c) ==
  \/ AttestationRequire = "all"
  \/ AttestationRequire = "danger" /\ c.tier \in {"danger", "absent"}

Gated(c) ==
  \/ AttestationRequire = "all"
  \/ AttestationRequire = "danger" /\ c.tier = "danger"

\* Mutant: a type without a verifier is not caught.
enforce_policy_NoVerifierUncaught(c) ==
  IF ~Gated(c) THEN ""
  ELSE IF c.att = NoAtt THEN "ATTESTATION_REQUIRED"
  ELSE IF c.att = BareAtt THEN GateRaised
  ELSE IF c.att.type \notin {DIGEST_TYPE, KEYLESS_TYPE} THEN GateRaised
  ELSE IF Result(c) = Raised THEN GateRaised
  ELSE IF Result(c).valid /\ Result(c).trusted # "no" THEN ""
  ELSE "ATTESTATION_UNTRUSTED"

\* A code, or an exception: out of a verifier, or because an attestation that is
\* not a mapping has no `get'.
enforce_policy(c) ==
  IF ~Gated(c) THEN ""
  ELSE IF c.att = NoAtt THEN "ATTESTATION_REQUIRED"
  ELSE IF c.att = BareAtt THEN GateRaised
  ELSE IF Result(c) = Raised THEN GateRaised
  ELSE IF Result(c).valid /\ Result(c).trusted # "no" THEN ""
  ELSE "ATTESTATION_UNTRUSTED"

\* What a sync binds unblocked, the pin aside: the card verifies (trust.evaluate)
\* and the gate lets it through.
Passes(c) == SignedCard(c) /\ enforce_policy(c) = ""

----------------------------------------------------------------------------
(* The publisher, external.                                                *)

Deploy(c) == card' = c /\ UNCHANGED <<policy, backend>>

Revise(content, tier) ==
  /\ revised < MaxRevise
  /\ revised' = revised + 1
  /\ Deploy([card EXCEPT !.content = content, !.tier = tier])
  /\ UNCHANGED <<envelope, signs>>

\* Sign the card's id keyless, with a certificate for this issuer and identity.
SignKeyless(issuer, identity) ==
  /\ signs < MaxSign
  /\ signs' = signs + 1
  /\ envelope' = [artifact |-> card.id, issuer |-> issuer, identity |-> identity]
  /\ UNCHANGED <<policy, backend, card, revised>>

AttachKeyless(issuer, identity) ==
  /\ Deploy([card EXCEPT !.att =
       [type |-> KEYLESS_TYPE, payload |-> "wellFormed", subject |-> SubjectDigest(card),
        issuer |-> issuer, identity |-> identity, envelope |-> envelope]])
  /\ UNCHANGED <<envelope, signs, revised>>

\* An attestation of another type, or one that is not what its type says.
AttachOther(att) ==
  /\ att # [type |-> KEYLESS_TYPE, payload |-> "wellFormed"]
  /\ Deploy([card EXCEPT !.att = att])
  /\ UNCHANGED <<envelope, signs, revised>>

\* The id is computed from the card as it is, and signed.
Seal ==
  /\ Deploy([card EXCEPT !.id = IdOf(card)])
  /\ UNCHANGED <<envelope, signs, revised>>

----------------------------------------------------------------------------
\* A type without a verifier: nobody looks at the payload.
Unregistered == [type |-> "slsa-v1", payload |-> "malformed"]

NewCard(content, tier) ==
  LET c == [content |-> content, tier |-> tier, att |-> NoAtt, id |-> NoAtt]
  IN  [c EXCEPT !.id = IdOf(c)]

Init ==
  /\ policy \in Policies
  /\ backend \in Backend
  /\ \E content \in Content, tier \in Tier : card = NewCard(content, tier)
  /\ envelope = NoEnvelope
  /\ signs = 0 /\ revised = 0

Next ==
  \/ \E content \in Content, tier \in Tier : Revise(content, tier)
  \/ \E issuer \in Issuer, identity \in Identity : SignKeyless(issuer, identity)
  \/ \E issuer \in Issuer \union {<<>>}, identity \in Identity \union {<<>>} :
       AttachKeyless(issuer, identity)
  \/ \E att \in [type : {DIGEST_TYPE, KEYLESS_TYPE}, payload : Payloads]
             \union {Unregistered, BareAtt} : AttachOther(att)
  \/ Seal

Spec == Init /\ [][Next]_vars

----------------------------------------------------------------------------
(* Properties.                                                             *)

\* Every variable holds what the code and the publisher keep there.  The gate
\* answers in its three codes, and raises only where the attestation is not a
\* mapping, or is a keyless one whose payload is no text.
TypeOK ==
  /\ policy \in Policies /\ backend \in Backend
  /\ card.content \in Content /\ card.tier \in Tier
  /\ signs \in 0..MaxSign /\ revised \in 0..MaxRevise
  /\ \/ enforce_policy(card) \in {"", "ATTESTATION_REQUIRED", "ATTESTATION_UNTRUSTED"}
     \/ enforce_policy(card) = GateRaised
        /\ (card.att # BareAtt =>
              card.att.type = KEYLESS_TYPE /\ card.att.payload = "notText")

\* A name split the way the policy means it, into maximal runs of other
\* characters and each delimiter by itself: where a segment begins, and the
\* segments with their places.
Begins(name) ==
  {i \in DOMAIN name :
     i = 1 \/ {name[i - 1], name[i]} \cap SEGMENT_DELIMITERS # {}}

IsSegment(name, i, j) ==
  /\ i \in Begins(name) /\ i <= j
  /\ j = Len(name) \/ j + 1 \in Begins(name)
  /\ \A k \in i + 1..j : k \notin Begins(name)

Within(name, entry) ==
  \A i, j \in DOMAIN entry : IsSegment(entry, i, j) =>
    /\ j \in DOMAIN name /\ IsSegment(name, i, j)
    /\ \A k \in i..j : name[k] = entry[k]

\* A danger card passes the gate as keyless only with a bundle made for its very
\* content, over its id, by a certificate whose own issuer and identity lie, by
\* whole segments, within what the owner allowed ("repo:acme/tools" is not
\* "repo:acme/tools-evil"), and only where the sigstore extra is installed.
TrustedIsAllowed ==
  Gated(card) /\ card.att \notin {NoAtt, BareAtt} =>
    (enforce_policy(card) = "" /\ card.att.type = KEYLESS_TYPE =>
      /\ backend = "sigstore"
      /\ card.att.subject = SubjectDigest(card)
      /\ card.att.envelope.artifact = card.id
      /\ policy.issuers # {} =>
           \E entry \in policy.issuers : Within(card.att.envelope.issuer, entry)
      /\ policy.identities # {} =>
           \E entry \in policy.identities : Within(card.att.envelope.identity, entry))

\* What the rest of the project assumes of the gate (Cards.AttestationCode): what
\* it does depends on the tier and on one verdict about the attestation only,
\* the verdict that makes it raise included.
Verdict(c) ==
  IF c.att = NoAtt THEN "none"
  ELSE IF c.att = BareAtt THEN "malformed"
  ELSE IF Result(c) = Raised THEN "malformed"
  ELSE IF Result(c).valid /\ Result(c).trusted # "no" THEN "trusted"
  ELSE "untrusted"

GateAsAssumed ==
  enforce_policy(card) = AttestationCode([tier |-> card.tier, att |-> Verdict(card)])

\* A card that carries a keyless attestation.
HasKeyless(c) == c.att \notin {NoAtt, BareAtt} /\ c.att.type = KEYLESS_TYPE

\* What the documentation claims: "a default bridge can actually mark keyless
\* attestations trusted" (CHANGELOG).  With the extra installed, a card that
\* verifies and carries a keyless bundle made for its content, whose signature
\* is over an id of that very content, by a certificate the bundle names and the
\* owner allows, passes the gate.
KeylessUsable ==
  LET e == card.att.envelope
  IN  /\ backend = "sigstore"
      /\ SignedCard(card) /\ HasKeyless(card)
      /\ card.att.payload = "wellFormed" /\ card.att.subject = SubjectDigest(card)
      /\ e # NoEnvelope
      /\ SubjectDigest(e.artifact) = SubjectDigest(card)
      /\ e.issuer = card.att.issuer /\ e.identity = card.att.identity
      /\ PolicyOk(card)
      => Passes(card)

\* Why the claim fails: the backend wants the signed artifact to be the card's
\* id, verify_glyph wants the id to cover the attestation, and with it the
\* signature.  No card satisfies both, in whatever order its publisher signs,
\* attaches and seals.
KeylessNeverPasses ==
  Gated(card) /\ HasKeyless(card) => ~Passes(card)
=============================================================================
