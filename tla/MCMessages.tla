----------------------------- MODULE MCMessages -----------------------------
(***************************************************************************)
(* Messages for TLC.  The items of a message are handled apart from each   *)
(* other, so the runs follow two of them at a time, one of them crossed;   *)
(* files only matter to sends, so they are followed while nothing else has *)
(* been done to the messages.                                              *)
(***************************************************************************)
EXTENDS Messages, FiniteSets, TLC

Symmetry == Permutations(Users) \cup Permutations(Workers) \cup Permutations(Msgs)

Begun(m) == Sent(m) \/ \E w \in Workers : req[w].msg = m

Touched(i) ==
  CASE i.field = "text"     -> msgs[i.msg].text > 1
    [] i.field = "deleted"  -> msgs[i.msg].deleted
    [] i.field = "ack"      -> status[i.msg][i.user].set # {}
    [] i.field = "reaction" -> \/ <<i.msg, i.user>> \in reactions
                               \/ i.user \in shown[i.msg].reacted

Worked == {i \in Items : \/ Touched(i)
                         \/ /\ i.field # "text"
                            /\ \E w \in Workers : WorksOn(w, i)}

Bound ==
  /\ Cardinality(crossed) <= 1
  /\ \/ /\ objects = {}
        /\ Cardinality({m \in Msgs : Begun(m)}) <= 1
        /\ Cardinality(Worked) <= 2
     \/ Worked = {}
=============================================================================
