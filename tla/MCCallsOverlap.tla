--------------------------- MODULE MCCallsOverlap ---------------------------
(* Symmetry, a view and a bound for the model-checking runs of CallsOverlap. *)
EXTENDS CallsOverlap, TLC

Symmetry == Permutations(Users) \cup Permutations(CallIds) \cup Permutations(Workers)

\* No guard, and no part of OneOpenCall, reads the other variables.
OpenCallsView == <<calls, used, member, req, crossed>>

\* Bound: of two calls one is enough for OneOpenCall to hold ever after.
NothingCrossed == crossed = {}
=============================================================================
