------------------------------- MODULE Cards -------------------------------
(***************************************************************************)
(* Glyph cards and the pure decisions taken about them: the port of        *)
(* diffCards (trust.py), the TOFU policy (config.py), the attestation gate *)
(* (attestation.py) and the envelope check (audit.py).                     *)
(*                                                                         *)
(* A card keeps the fields these decisions tell apart; `terms' stands for  *)
(* every other breaking field, `blurb' for every other review field, and   *)
(* `att' and `signed' for the verdicts of the attestation verifiers and of *)
(* the SDK's verify_glyph on the card.                                     *)
(***************************************************************************)
EXTENDS Integers

CONSTANTS
  Glyph,              \* names of the glyphs of one server
  Cards,              \* the card versions in play
  NoCard,             \* "no card here"
  TofuEnabled,        \* tofu.enabled
  TofuMax,            \* tofu.max_risk_tier
  AttestationRequire  \* attestation.require: none, danger or all

RISK_ORDER == [safe |-> 0, caution |-> 1, danger |-> 2]

\* What cost.riskTier can hold: a known tier, some other string, or nothing.
Tiers == DOMAIN RISK_ORDER \union {"other", "absent"}

\* att: no attestation, one no verifier trusts, one that is trusted, one of a
\* form the gate raises on.
Card == [name : Glyph, tier : Tiers, confirm : BOOLEAN, terms : STRING,
         blurb : STRING, key : STRING,
         att : {"none", "untrusted", "trusted", "malformed"}, signed : BOOLEAN]

ASSUME CardsAssumption == Cards \subseteq Card /\ NoCard \notin Card

ASSUME PolicyAssumption ==
  /\ TofuEnabled \in BOOLEAN
  /\ AttestationRequire \in {"none", "danger", "all"}

----------------------------------------------------------------------------
(* Differences between an approved card and the next one.                  *)

FIELD_SEVERITY ==
  [name |-> "review", blurb |-> "review", terms |-> "breaking",
   tier |-> "breaking", confirm |-> "breaking", key |-> "breaking",
   att |-> "breaking"]

Changes(approved, next) ==
  {f \in DOMAIN FIELD_SEVERITY : approved[f] # next[f]}

RequiresApproval(approved, next) ==
  \E f \in Changes(approved, next) : FIELD_SEVERITY[f] = "breaking"

\* The content-addressed id covers everything but the key and the signature.
CardId(c) == [f \in DOMAIN FIELD_SEVERITY \ {"key"} |-> c[f]]

\* Mutant: the publisher's key alone identifies a card.
SameIdAndKey_KeyOnly(c, d) == c.key = d.key

SameIdAndKey(c, d) == CardId(c) = CardId(d) /\ c.key = d.key

\* What a human agreed to when agreeing to c: d is the same tool, and no
\* breaking field tells them apart.
SameContract(c, d) == c.name = d.name /\ ~RequiresApproval(c, d)

----------------------------------------------------------------------------
(* Policies.                                                               *)

RiskRank(tier, unknown) ==
  IF tier \in DOMAIN RISK_ORDER THEN RISK_ORDER[tier] ELSE unknown

\* TofuPolicy.allows, on the tier evaluate passes it: an absent tier counts
\* as danger, an unknown one is above every maximum.
TofuAllows(c) ==
  /\ TofuEnabled
  /\ RiskRank(IF c.tier = "absent" THEN "danger" ELSE c.tier, 99)
       <= RiskRank(TofuMax, -1)

\* In place of a code: an exception.
GateRaised == "raised"

\* enforce_policy: the code a card is blocked with, "" when it passes.  An
\* absent tier is not "danger" here.
AttestationCode(c) ==
  IF \/ AttestationRequire = "none"
     \/ AttestationRequire = "danger" /\ c.tier # "danger"
  THEN ""
  ELSE [none |-> "ATTESTATION_REQUIRED", untrusted |-> "ATTESTATION_UNTRUSTED",
        trusted |-> "", malformed |-> GateRaised][c.att]

----------------------------------------------------------------------------
(* A sealed envelope names the card that executed and its key; `intact'    *)
(* says that signature, output hash and inspection hash all check.         *)

CheckEnvelope(envelope, pinned) ==
  envelope.intact /\ SameIdAndKey(envelope.card, pinned)
============================================================================
