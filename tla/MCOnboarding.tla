---------------------------- MODULE MCOnboarding ----------------------------
(***************************************************************************)
(* Onboarding for TLC: calls are alike, and so are the two roles, which    *)
(* only matter by excluding each other.                                    *)
(***************************************************************************)
EXTENDS Onboarding, TLC

Symmetry == Permutations(Calls) \union Permutations(Roles)
=============================================================================
