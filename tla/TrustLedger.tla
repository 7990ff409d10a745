---------------------------- MODULE TrustLedger ----------------------------
(***************************************************************************)
(* What the trust engine promises about pins: every change of a pin is one *)
(* atomic step, and one of four.  A glyph without a pin is pinned on first *)
(* use only if TOFU allows its card; a pin follows the server's card only  *)
(* across review changes and only while it is not revoked; anything else   *)
(* takes an operator, and each command of an operator changes one pin,     *)
(* once.                                                                   *)
(***************************************************************************)
EXTENDS Cards

CONSTANTS
  NoPin,            \* "no pin"
  AutoRepinReview   \* auto_repin_review

VARIABLES
  ledger,           \* the pin of each glyph
  operator          \* whether an operator's command has taken effect and
                    \* has not yet returned

Pin == [card : Cards, revoked : BOOLEAN]
PinOf(c) == [card |-> c, revoked |-> FALSE]

LedgerInit == ledger \in [Glyph -> Pin \union {NoPin}] /\ operator = FALSE

FirstUse(c) ==
  /\ ledger[c.name] = NoPin
  /\ c.signed /\ TofuAllows(c)
  /\ ledger' = [ledger EXCEPT ![c.name] = PinOf(c)]
  /\ UNCHANGED operator

FollowReview(c) ==
  /\ AutoRepinReview
  /\ ledger[c.name] # NoPin
  /\ ~ledger[c.name].revoked
  /\ c.signed /\ SameContract(ledger[c.name].card, c)
  /\ ledger' = [ledger EXCEPT ![c.name] = PinOf(c)]
  /\ UNCHANGED operator

ApproveCard(c) ==
  /\ c.signed
  /\ operator = FALSE /\ operator' = TRUE
  /\ ledger' = [ledger EXCEPT ![c.name] = PinOf(c)]

RevokePin(g) ==
  /\ operator = FALSE /\ operator' = TRUE
  /\ ledger[g] # NoPin
  /\ ledger' = [ledger EXCEPT ![g].revoked = TRUE]

CommandEnds ==
  /\ operator = TRUE /\ operator' = FALSE
  /\ UNCHANGED ledger

LedgerNext ==
  \/ \E c \in Cards : FirstUse(c) \/ FollowReview(c) \/ ApproveCard(c)
  \/ \E g \in Glyph : RevokePin(g)
  \/ CommandEnds

LedgerSpec == LedgerInit /\ [][LedgerNext]_<<ledger, operator>>
============================================================================
