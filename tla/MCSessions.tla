----------------------------- MODULE MCSessions -----------------------------
(* Symmetry for the model-checking runs of Sessions. *)
EXTENDS Sessions, TLC

Symmetry == Permutations(Users) \cup Permutations(Sids) \cup Permutations(Workers)
=============================================================================
