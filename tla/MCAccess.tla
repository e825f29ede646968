------------------------------- MODULE MCAccess -------------------------------
(* Instances of AccessReconciler for TLC. *)
EXTENDS AccessReconciler, TLC

CONSTANTS a1, a2, s1, s2, k1, k2, k3

SecretOfOne == [a \in Access |-> s1]
KeySymmetry == Permutations(Key)
==============================================================================
