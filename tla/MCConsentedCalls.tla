-------------------------- MODULE MCConsentedCalls --------------------------
(* Instances of ConsentedCalls for TLC. *)
EXTENDS ConsentedCalls, TLC

CONSTANTS c1, c2, c3, k1, k2

\* Calls and keys are interchangeable.
Symmetry == Permutations(Call) \union Permutations(Key)

\* A Hermes with every approval symbol, in an interactive session: each route
\* of a poorer one is among its routes.  The server has just started to ask for
\* confirmation, and the bridge has not noticed yet.
EveryRoute ==
  /\ ConsentInit
  /\ caps = {"tier1", "tier2", "prompt"} /\ env = {"interactive"}
  /\ deployed /\ ~bound

EveryRouteSpec == EveryRoute /\ [][ConsentNext]_allVars
=============================================================================
