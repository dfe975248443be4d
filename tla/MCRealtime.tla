----------------------------- MODULE MCRealtime -----------------------------
(* A bound for the model-checking runs of Realtime.  The liveness property *)
(* rules out SYMMETRY.                                                     *)
EXTENDS Realtime

FirstConn == CHOOSE c \in Conns : TRUE
FirstUser == CHOOSE u \in Users : TRUE

\* Bound: connections and users are alike, so that FirstConn is the name of the
\* connection that is accepted first, and FirstUser that of its user.
InTurn == (\A c \in Conns : At(c, "free")) \/ conn[FirstConn].user = FirstUser
=============================================================================
