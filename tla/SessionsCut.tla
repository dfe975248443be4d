---------------------------- MODULE SessionsCut ----------------------------
(***************************************************************************)
(* Sessions together with a history: the sessions whose handler was        *)
(* cancelled between HSET and EXPIRE (redis_client.py:47-60).  grpc.aio    *)
(* cancels a handler at an await, and set_session_tokens is two of them.   *)
(***************************************************************************)
EXTENDS Sessions

VARIABLE cut    \* SUBSET Sids: stored, not given a time to live since

\* The sessions whose handler is cancelled in this step before its EXPIRE.
Interrupted == {req[w].tgt : w \in {v \in Workers : /\ At(v, "expire")
                                                     /\ req'[v].pc = "idle"}}

CutNext == /\ Next
           /\ cut' = {s \in (cut \cup Interrupted) \cap Sids :
                        hash'[s].live /\ ~hash'[s].ttl}

CutSpec == Init /\ cut = {} /\ [][CutNext]_<<vars, cut>>

\* Every usable session has a time to live, or the handler that stored it is
\* about to set one; only a session whose handler was cancelled right between
\* the two commands, and that nobody has refreshed since, lives for ever.
UsableSessionsExpire ==
  \A s \in Sids : hash[s].user # NoUser /\ ~hash[s].ttl =>
    \/ \E w \in Workers : At(w, "expire") /\ req[w].tgt = s
    \/ s \in cut
=============================================================================
