---------------------------- MODULE ChatOverlap -----------------------------
(***************************************************************************)
(* Which handlers of ChatMembers another one overtook, and what all others *)
(* keep.  A commit writes what was decided from rows read before: a call   *)
(* that committed in between may have taken away the right to it, and      *)
(* nothing in the code notices.  Time is not such a call.                  *)
(***************************************************************************)
EXTENDS ChatMembers

VARIABLES
  overtaken,   \* handlers in flight when another call changed the chat
  crossed      \* those whose caller's or target's row it changed

ovars == <<chat, rows, req, overtaken, crossed>>

OverlapInit == HInit /\ overtaken = {} /\ crossed = {}

Overtaking == mvars' # mvars /\ ~\E t \in Users : Clock(t)
Crosses(w) == Overtaking /\ \E u \in Users \cap {req[w].by, req[w].target} :
                              rows'[u] # rows[u]
InFlightNext == {w \in Workers : req'[w].pc # "idle"}

OverlapNext ==
  /\ HNext
  /\ overtaken' = {w \in InFlightNext : w \in overtaken \/ Overtaking}
  /\ crossed' = {w \in InFlightNext : w \in crossed \/ Crosses(w)}

OverlapSpec == OverlapInit /\ [][OverlapNext]_ovars

-----------------------------------------------------------------------------
(***************************************************************************)
(* Refinement and safety                                                   *)
(***************************************************************************)
\* A handler that no other overtook commits what an atomic handler of
\* Membership, called by then, would: however many are in flight, whoever
\* is cancelled, and as dates pass in between.
Atomic ==
  Init /\ [][mvars' # mvars => Next \/ \E w \in overtaken : Commit(w)]_mvars

\* What a does: a handler creates or reopens the chat for him, or commits what he
\* asked for when no other call changed his row or the target's since it read them.
Does(a) == \E w \in Workers : \/ OpenChat(w, a)
                              \/ Commit(w) /\ w \notin crossed /\ req[w].by = a

\* Nobody but an owner takes another owner's role or active status away, by
\* whatever handler.
OwnersUntouched ==
  [][\A a, t \in Users :
       a # t /\ ~Owner(a) /\ Owner(t) /\ ~Owner(t)' => ~Does(a)]_ovars

\* Ownership comes from an owner: nobody else gives the role away, and nobody
\* takes it, except by creating the chat.
OwnershipIsGiven ==
  [][\A a, t \in Users :
       /\ rows[t].role # "owner" /\ rows'[t].role = "owner"
       /\ ~Owner(a)
       /\ ~(chat.kind = "none" /\ a = t)
       => ~Does(a)]_ovars

\* A ban in force is lifted by an active manager other than the banned user,
\* by the clock or with the chat: no other call ends it, however it is made.
BansHold ==
  [][\A a, t \in Users :
       BanInForce(t) /\ ~BanInForce(t)' /\ ~(a # t /\ Manager(a)) =>
         ~Does(a)]_ovars

\* A user who is not an active manager changes no row but his own, except that
\* anyone with a row in a private chat may reopen it for those who left.
OthersLeftAlone ==
  [][\A a, t \in Users :
       /\ rows'[t] # rows[t] /\ a # t /\ ~Manager(a)
       /\ chat.kind # "none"
       /\ ~(chat.kind = "private" /\ rows[t].status = "left" /\ Active(t)')
       => ~Does(a)]_ovars
=============================================================================
