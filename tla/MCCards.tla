------------------------------ MODULE MCCards ------------------------------
(* The card versions the runs use, one glyph and its redeployments.        *)

\* First deployment: safe, no confirmation.
V1 == [name |-> "echo", tier |-> "safe", confirm |-> FALSE, terms |-> "t1",
       blurb |-> "b1", key |-> "k1", att |-> "none", signed |-> TRUE]
\* V1 with another intent: a review change.
V1b == [V1 EXCEPT !.blurb = "b2"]
\* A breaking change: wider blast radius, asks for confirmation.
V2 == [V1 EXCEPT !.tier = "danger", !.confirm = TRUE]
\* The content of V1 under another key.
V1k == [V1 EXCEPT !.key = "k2"]
\* A forgery of V1's successor.
Forged == [V1b EXCEPT !.signed = FALSE]
\* A card that declares no risk tier.
V3 == [V1 EXCEPT !.tier = "absent"]
============================================================================
