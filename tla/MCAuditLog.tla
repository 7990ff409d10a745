----------------------------- MODULE MCAuditLog -----------------------------
(* Instances of AuditLog for TLC. *)
EXTENDS AuditLog, TLC

CONSTANTS h1, h2, h3

\* Calls are interchangeable.
Symmetry == Permutations(Call)
=============================================================================
