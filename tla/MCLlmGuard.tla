------------------------------ MODULE MCLlmGuard ------------------------------
(* LlmGuard for TLC: the repair previews are interchangeable.               *)
EXTENDS LlmGuard, TLC

Symmetry == Permutations(Repairs)
=============================================================================
