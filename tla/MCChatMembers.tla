--------------------------- MODULE MCChatMembers ----------------------------
(* Symmetry and bounds for the model-checking run of ChatOverlap. *)
EXTENDS ChatOverlap, TLC

Symmetry == Permutations(Users) \cup Permutations(Workers)

\* Bound: dates are left to the states with one handler in flight.
Busy == {w \in Workers : ~At(w, "idle")}
OverlapsUndated ==
  Cardinality(Busy) > 1 =>
    /\ \A u \in Users : rows[u].until = "none"
    /\ \A w \in Busy : req[w].patch.until \in {"keep", "none"}
=============================================================================
