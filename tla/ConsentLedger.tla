--------------------------- MODULE ConsentLedger ---------------------------
(***************************************************************************)
(* What the confirmation seam and the tool handler promise together: the   *)
(* server executes a call that needs the user's consent against one        *)
(* consent to exactly that tool and input, and the execution uses it up.   *)
(***************************************************************************)
EXTENDS Naturals

CONSTANT Key  \* what a consent is given to: one glyph of one server, one input

VARIABLES
  given,  \* how often the user consented to a key
  used    \* how often a call of this key that needs consent was executed

ledgerVars == <<given, used>>

Init == given = [k \in Key |-> 0] /\ used = [k \in Key |-> 0]

Give(k) == given' = [given EXCEPT ![k] = @ + 1] /\ UNCHANGED used

Use(k) ==
  /\ used[k] < given[k]
  /\ used' = [used EXCEPT ![k] = @ + 1]
  /\ UNCHANGED given

Next == \E k \in Key : Give(k) \/ Use(k)

Spec == Init /\ [][Next]_ledgerVars
=============================================================================
