------------------------------ MODULE Sessions ------------------------------
(***************************************************************************)
(* Login sessions of the gRPC server (services/auth.py, access_session.py, *)
(* redis_client.py).  A session is a Redis hash, found through a per-user  *)
(* index set.  Every Redis command is one step: a handler awaits between   *)
(* two commands, so any other handler may run there.                       *)
(*                                                                         *)
(* A session id stands for its refresh token as well: Login issues one     *)
(* refresh token and RefreshToken always writes that same one back, so the *)
(* stored refresh token is the session's own or is missing.  Access token  *)
(* n of session s is the n-th one signed for it (jti makes them distinct). *)
(***************************************************************************)
EXTENDS Integers, FiniteSets

CONSTANTS Users, Sids, Workers,
          NoUser, NoSid,
          MaxTokens,     \* bound: access tokens signed for one session
          Cancellable    \* may grpc.aio cancel a handler at an await?

ASSUME NoUserAssumption == NoUser \notin Users
ASSUME NoSidAssumption == NoSid \notin Sids
ASSUME MaxTokensAssumption == MaxTokens \in Nat \ {0}
ASSUME CancellableAssumption == Cancellable \in BOOLEAN

VARIABLES
  hash,    \* [Sids -> Hash]           messenger:auth:session:<sid>
  index,   \* [Users -> SUBSET Sids]   messenger:auth:user_sessions:<user>
  issued,  \* [Sids -> 0..MaxTokens]   access tokens signed so far
  owner,   \* [Sids -> Users or NoUser] the "sub" signed in the tokens of sid
  given,   \* [Sids -> SUBSET (0..MaxTokens)] access tokens clients were sent
  req      \* [Workers -> Request]     handlers in flight

vars == <<hash, index, issued, owner, given, req>>

Ops == {"set", "logout", "logoutCurrent", "revoke", "logoutOthers", "other"}
Pcs == {"idle", "hset", "expire", "sadd", "touch", "check",
        "smembers", "each", "hget", "del", "srem"}

Hash == [live: BOOLEAN, user: Users \cup {NoUser}, access: 0..MaxTokens,
         ttl: BOOLEAN]
NoHash == [live |-> FALSE, user |-> NoUser, access |-> 0, ttl |-> FALSE]

Request == [pc: Pcs, op: Ops, user: Users \cup {NoUser},
            sid: Sids \cup {NoSid},    \* the session the caller is in
            tgt: Sids \cup {NoSid},    \* the session being written or deleted
            tok: 0..MaxTokens,         \* the access token about to be stored
            uid: Users \cup {NoUser},  \* what delete_session read with HGET
            todo: SUBSET Sids]         \* delete_other_sessions' SMEMBERS
Idle == [pc |-> "idle", op |-> "other", user |-> NoUser, sid |-> NoSid,
         tgt |-> NoSid, tok |-> 0, uid |-> NoUser, todo |-> {}]

TypeOK == /\ hash \in [Sids -> Hash]
          /\ index \in [Users -> SUBSET Sids]
          /\ issued \in [Sids -> 0..MaxTokens]
          /\ owner \in [Sids -> Users \cup {NoUser}]
          /\ given \in [Sids -> SUBSET (0..MaxTokens)]
          /\ req \in [Workers -> Request]

Init == /\ hash = [s \in Sids |-> NoHash]
        /\ index = [u \in Users |-> {}]
        /\ issued = [s \in Sids |-> 0]
        /\ owner = [s \in Sids |-> NoUser]
        /\ given = [s \in Sids |-> {}]
        /\ req = [w \in Workers |-> Idle]

At(w, pc) == req[w].pc = pc
Goto(w, pc) == req' = [req EXCEPT ![w].pc = pc]
Done(w) == req' = [req EXCEPT ![w] = Idle]

\* What get_session_tokens(s) gives a caller who presents a token of s.
OwnedHash(s) == owner[s] # NoUser /\ hash[s].user = owner[s]

(***************************************************************************)
(* set_session_tokens: HSET, EXPIRE, SADD.                                 *)
(***************************************************************************)
\* Mutants: the user and the session id swapped; EXPIRE forgotten.
SetHashSwapped(w) ==
  LET r == req[w] IN
  /\ At(w, "hset")
  /\ hash' = [hash EXCEPT ![r.tgt] = [live |-> TRUE, user |-> r.tgt,
                                      access |-> r.tok, ttl |-> @.ttl]]
  /\ Goto(w, "expire")
  /\ UNCHANGED <<index, issued, owner, given>>
SetHashForever(w) ==
  LET r == req[w] IN
  /\ At(w, "hset")
  /\ hash' = [hash EXCEPT ![r.tgt] = [live |-> TRUE, user |-> r.user,
                                      access |-> r.tok, ttl |-> @.ttl]]
  /\ Goto(w, "sadd")
  /\ UNCHANGED <<index, issued, owner, given>>

SetHash(w) ==
  LET r == req[w] IN
  /\ At(w, "hset")
  /\ hash' = [hash EXCEPT ![r.tgt] = [live |-> TRUE, user |-> r.user,
                                      access |-> r.tok, ttl |-> @.ttl]]
  /\ Goto(w, "expire")
  /\ UNCHANGED <<index, issued, owner, given>>

SetExpire(w) ==     \* EXPIRE does nothing to a key that is gone
  /\ At(w, "expire")
  /\ hash' = IF hash[req[w].tgt].live THEN [hash EXCEPT ![req[w].tgt].ttl = TRUE]
             ELSE hash
  /\ Goto(w, "sadd")
  /\ UNCHANGED <<index, issued, owner, given>>

SetIndex(w) ==      \* the last step: the tokens go out in the response
  /\ At(w, "sadd")
  /\ index' = [index EXCEPT ![req[w].user] = @ \cup {req[w].tgt}]
  /\ given' = [given EXCEPT ![req[w].tgt] = @ \cup {req[w].tok}]
  /\ Done(w)
  /\ UNCHANGED <<hash, issued, owner>>

\* Mutant: a session id taken from the device, so that it can be in use.
LoginReusingId(w, u, s) ==
  /\ At(w, "idle")
  /\ owner' = [owner EXCEPT ![s] = u]
  /\ issued' = [issued EXCEPT ![s] = 1]
  /\ req' = [req EXCEPT ![w] = [Idle EXCEPT !.pc = "hset", !.op = "set",
                                !.user = u, !.tgt = s, !.tok = 1]]
  /\ UNCHANGED <<hash, index, given>>

\* The password is right: a fresh uuid4 session id and its first tokens.
Login(w, u, s) ==
  /\ At(w, "idle")
  /\ owner[s] = NoUser
  /\ owner' = [owner EXCEPT ![s] = u]
  /\ issued' = [issued EXCEPT ![s] = 1]
  /\ req' = [req EXCEPT ![w] = [Idle EXCEPT !.pc = "hset", !.op = "set",
                                !.user = u, !.tgt = s, !.tok = 1]]
  /\ UNCHANGED <<hash, index, given>>

\* Mutant: a refresh token is good for as long as its signature is.
RefreshTokenUnchecked(w, s) ==
  /\ At(w, "idle")
  /\ given[s] # {}
  /\ issued[s] < MaxTokens
  /\ issued' = [issued EXCEPT ![s] = @ + 1]
  /\ req' = [req EXCEPT ![w] = [Idle EXCEPT !.pc = "hset", !.op = "set",
                                !.user = owner[s], !.tgt = s,
                                !.tok = issued[s] + 1]]
  /\ UNCHANGED <<hash, index, owner, given>>

\* The checks of RefreshToken, and the access token it signs when they pass.
RefreshToken(w, s) ==
  /\ At(w, "idle")
  /\ given[s] # {}
  /\ OwnedHash(s)
  /\ issued[s] < MaxTokens
  /\ issued' = [issued EXCEPT ![s] = @ + 1]
  /\ req' = [req EXCEPT ![w] = [Idle EXCEPT !.pc = "hset", !.op = "set",
                                !.user = owner[s], !.tgt = s,
                                !.tok = issued[s] + 1]]
  /\ UNCHANGED <<hash, index, owner, given>>

\* Logout by refresh token: nothing happens unless the session still holds it.
Logout(w, s) ==
  /\ At(w, "idle")
  /\ given[s] # {}
  /\ OwnedHash(s)
  /\ req' = [req EXCEPT ![w] = [Idle EXCEPT !.pc = "hget", !.op = "logout",
                                !.user = owner[s], !.tgt = s]]
  /\ UNCHANGED <<hash, index, issued, owner, given>>

\* A refresh or logout with the token of a session that is gone, or was never
\* fully stored, is refused ("Session not found or revoked").
RefuseToken(s) ==
  /\ given[s] # {}
  /\ ~OwnedHash(s)
  /\ UNCHANGED vars

(***************************************************************************)
(* An authenticated call: the checks of resolve_access_session on access   *)
(* token n of session s, then touch_session, then the call itself.         *)
(***************************************************************************)
ResolveAccess(w, s, n, op, t) ==
  /\ At(w, "idle")
  /\ n \in given[s]
  /\ OwnedHash(s)
  /\ hash[s].access = n
  /\ req' = [req EXCEPT ![w] = [Idle EXCEPT !.pc = "touch", !.op = op,
                                !.user = owner[s], !.sid = s, !.tgt = t]]
  /\ UNCHANGED <<hash, index, issued, owner, given>>

AfterTouch(op) ==
  CASE op = "logoutCurrent" -> "hget"
    [] op = "revoke"        -> "check"
    [] op = "logoutOthers"  -> "smembers"
    [] OTHER                -> "idle"

\* Mutant: the touch writes the session's latest token along with the time.
TouchRestores(w) ==
  /\ At(w, "touch")
  /\ hash' = [hash EXCEPT ![req[w].sid].live = TRUE,
                          ![req[w].sid].access = issued[req[w].sid]]
  /\ IF AfterTouch(req[w].op) = "idle" THEN Done(w)
                                       ELSE Goto(w, AfterTouch(req[w].op))
  /\ UNCHANGED <<index, issued, owner, given>>

\* HSET last_seen_at: on a key deleted meanwhile it creates a hash that has
\* neither user_id nor a time to live.
TouchSession(w) ==
  /\ At(w, "touch")
  /\ hash' = [hash EXCEPT ![req[w].sid].live = TRUE]
  /\ IF AfterTouch(req[w].op) = "idle" THEN Done(w)
                                       ELSE Goto(w, AfterTouch(req[w].op))
  /\ UNCHANGED <<index, issued, owner, given>>

\* Mutant: any session may be revoked.
RevokeUnchecked(w) ==
  /\ At(w, "check")
  /\ Goto(w, "hget")
  /\ UNCHANGED <<hash, index, issued, owner, given>>

\* RevokeSession reads the target and refuses a session of someone else.
RevokeCheck(w) ==
  /\ At(w, "check")
  /\ IF hash[req[w].tgt].user = req[w].user THEN Goto(w, "hget") ELSE Done(w)
  /\ UNCHANGED <<hash, index, issued, owner, given>>

(***************************************************************************)
(* delete_other_sessions: SMEMBERS, then delete_session one by one.        *)
(***************************************************************************)
ReadIndex(w) ==
  /\ At(w, "smembers")
  /\ req' = [req EXCEPT ![w].pc = "each",
                        ![w].todo = index[req[w].user] \ {req[w].sid}]
  /\ UNCHANGED <<hash, index, issued, owner, given>>

DeleteNext(w) ==
  /\ At(w, "each")
  /\ \/ /\ req[w].todo = {}
        /\ Done(w)
     \/ \E s \in req[w].todo :
          req' = [req EXCEPT ![w].pc = "hget", ![w].tgt = s,
                             ![w].todo = @ \ {s}]
  /\ UNCHANGED <<hash, index, issued, owner, given>>

(***************************************************************************)
(* delete_session: HGET user_id, DEL, and SREM if a user_id was read.      *)
(***************************************************************************)
DeleteRead(w) ==
  /\ At(w, "hget")
  /\ req' = [req EXCEPT ![w].pc = "del", ![w].uid = hash[req[w].tgt].user]
  /\ UNCHANGED <<hash, index, issued, owner, given>>

AfterDelete(w) == IF req[w].op = "logoutOthers" THEN Goto(w, "each") ELSE Done(w)

DeleteHash(w) ==
  /\ At(w, "del")
  /\ hash' = [hash EXCEPT ![req[w].tgt] = NoHash]
  /\ IF req[w].uid = NoUser THEN AfterDelete(w) ELSE Goto(w, "srem")
  /\ UNCHANGED <<index, issued, owner, given>>

DeleteIndex(w) ==
  /\ At(w, "srem")
  /\ index' = [index EXCEPT ![req[w].uid] = @ \ {req[w].tgt}]
  /\ AfterDelete(w)
  /\ UNCHANGED <<hash, issued, owner, given>>

(***************************************************************************)
(* The environment: a key outlives its time to live; a caller hangs up, or *)
(* its deadline passes, and grpc.aio cancels the handler where it awaits.  *)
(***************************************************************************)
TtlExpires(s) ==
  /\ hash[s].live /\ hash[s].ttl
  /\ hash' = [hash EXCEPT ![s] = NoHash]
  /\ UNCHANGED <<index, issued, owner, given, req>>

Cancel(w) ==
  /\ Cancellable
  /\ ~At(w, "idle")
  /\ Done(w)
  /\ UNCHANGED <<hash, index, issued, owner, given>>

Call(w) == \E s \in Sids, n \in 1..MaxTokens :
             \/ \E op \in {"logoutCurrent", "logoutOthers", "other"} :
                  ResolveAccess(w, s, n, op, s)
             \/ \E t \in Sids : ResolveAccess(w, s, n, "revoke", t)

Begin(w) == \/ \E u \in Users, s \in Sids : Login(w, u, s)
            \/ \E s \in Sids : RefreshToken(w, s) \/ Logout(w, s)
            \/ Call(w)

Continue(w) == \/ SetHash(w) \/ SetExpire(w) \/ SetIndex(w)
               \/ TouchSession(w) \/ RevokeCheck(w)
               \/ ReadIndex(w) \/ DeleteNext(w)
               \/ DeleteRead(w) \/ DeleteHash(w) \/ DeleteIndex(w)

Next == \/ \E w \in Workers : Begin(w) \/ Continue(w) \/ Cancel(w)
        \/ \E s \in Sids : RefuseToken(s) \/ TtlExpires(s)

Spec == Init /\ [][Next]_vars

-----------------------------------------------------------------------------
(***************************************************************************)
(* Safety                                                                  *)
(***************************************************************************)
Writing(w, s) == At(w, "hset") /\ req[w].tgt = s

\* A session is closed when its tokens are signed, its hash has no user and
\* no handler is about to store tokens for it.
Closed(s) == /\ owner[s] # NoUser
             /\ hash[s].user = NoUser
             /\ \A w \in Workers : ~Writing(w, s)

\* A revoked, logged out or expired session never comes back, whatever the
\* late touches, refreshes and deletes do, unless a RefreshToken had already
\* passed its check (auth.py:180-188) when the session was deleted.
ClosedForGood == [][\A s \in Sids : Closed(s) => Closed(s)']_vars

\* Access token n of s is void: signed, not stored, and nobody will store it.
Void(s, n) == /\ n \in 1..issued[s]
              /\ hash[s].access # n
              /\ \A w \in Workers : ~(Writing(w, s) /\ req[w].tok = n)

\* A token replaced by a refresh or deleted with its session is never accepted
\* again, however the HSETs of overlapping refreshes are ordered.
VoidStaysVoid ==
  [][\A s \in Sids, n \in 1..MaxTokens : Void(s, n) => Void(s, n)']_vars

\* Handlers delete, and drop from the index, only sessions of the user they
\* act for; RevokeSession and delete_other_sessions act on ids read earlier.
DeletesOwnOnly ==
  \A w \in Workers : req[w].pc \in {"hget", "del", "srem"} =>
    /\ owner[req[w].tgt] = req[w].user
    /\ req[w].uid \in {NoUser, req[w].user}

\* A stored session names the user its tokens are signed for, and a user's
\* index lists only sessions of that user, so "log out all others" cannot
\* reach into another account.
StoredForOwner == /\ \A s \in Sids : hash[s].user \in {NoUser, owner[s]}
                  /\ \A u \in Users : \A s \in index[u] : owner[s] = u

(***************************************************************************)
(* A statement of the code's messages that it does not keep                *)
(***************************************************************************)
\* "Session not found or revoked" (auth.py:182): a session deleted from Redis
\* and from its user's index gets no tokens again; only Login stores a first.
RevokedStaysRevoked ==
  [][\A s \in Sids :
       /\ owner[s] # NoUser
       /\ hash[s].user = NoUser
       /\ s \notin index[owner[s]]
       /\ hash'[s].user # NoUser
       => hash'[s].access = 1]_vars
=============================================================================
