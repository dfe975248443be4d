--------------------------- MODULE SessionsProofs ---------------------------
(***************************************************************************)
(* Proofs about Sessions for every number of users, sessions, handlers and *)
(* tokens.  The inductive invariant says, for each point a handler can be  *)
(* waiting at, what its request record still knows to be true.             *)
(***************************************************************************)
EXTENDS SessionsCut, TLAPS

\* The signer of a session's tokens is fixed at its first token.
Signed == \A s \in Sids : owner[s] = NoUser => issued[s] = 0

\* A hash with a user is a key that exists.
UserImpliesLive == \A s \in Sids : hash[s].user # NoUser => hash[s].live

Acting(r, s) == s \in Sids /\ r.user \in Users /\ owner[s] = r.user

\* What handler w may rely on at each of its waiting points.
Knows(w) ==
  LET r == req[w] IN
  /\ r.pc \in {"hset", "expire", "sadd"} => Acting(r, r.tgt)
  /\ r.pc = "touch" => /\ Acting(r, r.sid)
                       /\ r.op = "logoutCurrent" => r.tgt = r.sid
                       /\ r.op = "revoke" => r.tgt \in Sids
  /\ r.pc = "check" => r.tgt \in Sids /\ r.user \in Users
  /\ r.pc = "smembers" => r.user \in Users
  /\ r.pc \in {"hget", "del", "srem"} => Acting(r, r.tgt)
  /\ r.pc = "each" => r.user \in Users
  /\ r.pc = "srem" => r.uid # NoUser
  /\ r.uid \in {NoUser, r.user}
  /\ \A s \in r.todo : Acting(r, s)

IInv == /\ TypeOK
        /\ Signed
        /\ StoredForOwner
        /\ \A w \in Workers : Knows(w)

-----------------------------------------------------------------------------
(***************************************************************************)
(* Types                                                                   *)
(***************************************************************************)
LEMMA IdleType == Idle \in Request
  BY MaxTokensAssumption DEF Idle, Request, Pcs, Ops

LEMMA NoHashType == NoHash \in Hash
  BY MaxTokensAssumption DEF NoHash, Hash

LEMMA DoneType ==
  ASSUME TypeOK, NEW w \in Workers, Done(w)
  PROVE  req' \in [Workers -> Request]
  BY IdleType DEF TypeOK, Done

LEMMA GotoType ==
  ASSUME TypeOK, NEW w \in Workers, NEW pc \in Pcs, Goto(w, pc)
  PROVE  req' \in [Workers -> Request]
<1>1. [req[w] EXCEPT !.pc = pc] \in Request
  BY DEF TypeOK, Request
<1>2. QED
  BY <1>1 DEF TypeOK, Goto

LEMMA TypeInit == Init => TypeOK
  BY IdleType, NoHashType, MaxTokensAssumption DEF Init, TypeOK

LEMMA BeginType ==
  ASSUME TypeOK, NEW w \in Workers, Begin(w)
  PROVE  TypeOK'
<1> USE MaxTokensAssumption
<1>1. ASSUME NEW u \in Users, NEW s \in Sids, Login(w, u, s) PROVE TypeOK'
  <2>1. [Idle EXCEPT !.pc = "hset", !.op = "set", !.user = u, !.tgt = s,
                     !.tok = 1] \in Request
    <3>1. 1 \in 0..MaxTokens
      OBVIOUS
    <3>2. QED
      BY <3>1, IdleType DEF Request, Pcs, Ops
  <2>2. 1 \in 0..MaxTokens
    OBVIOUS
  <2>3. QED
    BY <1>1, <2>1, <2>2 DEF Login, TypeOK
<1>2. ASSUME NEW s \in Sids, RefreshToken(w, s) PROVE TypeOK'
  <2>1. issued[s] + 1 \in 0..MaxTokens
    BY <1>2 DEF RefreshToken, TypeOK
  <2>2. [Idle EXCEPT !.pc = "hset", !.op = "set", !.user = owner[s], !.tgt = s,
                     !.tok = issued[s] + 1] \in Request
    BY <2>1, IdleType DEF TypeOK, Request, Pcs, Ops
  <2>3. QED
    BY <1>2, <2>1, <2>2 DEF RefreshToken, TypeOK
<1>3. ASSUME NEW s \in Sids, Logout(w, s) PROVE TypeOK'
  <2>1. [Idle EXCEPT !.pc = "hget", !.op = "logout", !.user = owner[s],
                     !.tgt = s] \in Request
    BY IdleType DEF TypeOK, Request, Pcs, Ops
  <2>2. QED
    BY <1>3, <2>1 DEF Logout, TypeOK
<1>4. ASSUME NEW s \in Sids, NEW n, NEW op \in Ops, NEW t \in Sids,
             ResolveAccess(w, s, n, op, t)
      PROVE  TypeOK'
  <2>1. [Idle EXCEPT !.pc = "touch", !.op = op, !.user = owner[s], !.sid = s,
                     !.tgt = t] \in Request
    BY IdleType DEF TypeOK, Request, Pcs
  <2>2. QED
    BY <1>4, <2>1 DEF ResolveAccess, TypeOK
<1>5. CASE Call(w)
  BY <1>4, <1>5 DEF Call, Ops
<1>6. QED
  BY <1>1, <1>2, <1>3, <1>5 DEF Begin

LEMMA ContinueType ==
  ASSUME TypeOK, NEW w \in Workers, Knows(w), Continue(w)
  PROVE  TypeOK'
<1> DEFINE r == req[w]
<1>r. r \in Request
  BY DEF TypeOK
<1>1. CASE SetHash(w)
  <2>1. hash' \in [Sids -> Hash]
    BY <1>1, <1>r DEF SetHash, TypeOK, Hash, Request
  <2>2. req' \in [Workers -> Request]
    BY <1>1, GotoType DEF SetHash, Pcs
  <2>3. QED
    BY <1>1, <2>1, <2>2 DEF SetHash, TypeOK
<1>2. CASE SetExpire(w)
  <2>1. hash' \in [Sids -> Hash]
    <3>1. r.tgt \in Sids
      BY <1>2 DEF SetExpire, At, Knows, Acting
    <3>2. [hash[r.tgt] EXCEPT !.ttl = TRUE] \in Hash
      <4>1. hash[r.tgt] \in Hash
        BY <3>1 DEF TypeOK
      <4>2. QED
        BY <4>1 DEF Hash
    <3>3. [hash EXCEPT ![r.tgt].ttl = TRUE] \in [Sids -> Hash]
      BY <3>1, <3>2 DEF TypeOK
    <3>4. QED
      BY <1>2, <3>3 DEF SetExpire, TypeOK
  <2>2. req' \in [Workers -> Request]
    BY <1>2, GotoType DEF SetExpire, Pcs
  <2>3. QED
    BY <1>2, <2>1, <2>2 DEF SetExpire, TypeOK
<1>3. CASE SetIndex(w)
  <2>1. r.tgt \in Sids
    BY <1>3 DEF SetIndex, At, Knows, Acting
  <2>2. index' \in [Users -> SUBSET Sids]
    BY <1>3, <2>1 DEF SetIndex, TypeOK
  <2>3. given' \in [Sids -> SUBSET (0..MaxTokens)]
    BY <1>3, <1>r, <2>1 DEF SetIndex, TypeOK, Request
  <2>4. QED
    BY <1>3, <2>2, <2>3, DoneType DEF SetIndex, TypeOK
<1>4. CASE TouchSession(w)
  <2>1. hash' \in [Sids -> Hash]
    BY <1>4 DEF TouchSession, TypeOK, Hash
  <2>2. AfterTouch(r.op) \in Pcs
    BY DEF AfterTouch, Pcs
  <2>3. req' \in [Workers -> Request]
    BY <1>4, <2>2, DoneType, GotoType DEF TouchSession
  <2>4. QED
    BY <1>4, <2>1, <2>3 DEF TouchSession, TypeOK
<1>5. CASE RevokeCheck(w)
  <2>1. req' \in [Workers -> Request]
    BY <1>5, DoneType, GotoType DEF RevokeCheck, Pcs
  <2>2. QED
    BY <1>5, <2>1 DEF RevokeCheck, TypeOK
<1>6. CASE ReadIndex(w)
  <2>1. index[r.user] \ {r.sid} \in SUBSET Sids
    BY <1>6 DEF ReadIndex, At, Knows, TypeOK
  <2>2. [r EXCEPT !.pc = "each", !.todo = index[r.user] \ {r.sid}] \in Request
    BY <1>r, <2>1 DEF Request, Pcs
  <2>3. QED
    BY <1>6, <2>2 DEF ReadIndex, TypeOK
<1>7. CASE DeleteNext(w)
  <2>1. ASSUME NEW s \in r.todo
        PROVE  [r EXCEPT !.pc = "hget", !.tgt = s, !.todo = @ \ {s}] \in Request
    BY <1>r DEF Request, Pcs
  <2>2. req' \in [Workers -> Request]
    BY <1>7, <2>1, DoneType DEF DeleteNext, TypeOK
  <2>3. QED
    BY <1>7, <2>2 DEF DeleteNext, TypeOK
<1>8. CASE DeleteRead(w)
  <2>1. hash[r.tgt].user \in Users \cup {NoUser}
    BY <1>8 DEF DeleteRead, At, Knows, Acting, TypeOK, Hash
  <2>2. [r EXCEPT !.pc = "del", !.uid = hash[r.tgt].user] \in Request
    BY <1>r, <2>1 DEF Request, Pcs
  <2>3. QED
    BY <1>8, <2>2 DEF DeleteRead, TypeOK
<1>9. ASSUME AfterDelete(w) PROVE req' \in [Workers -> Request]
  BY <1>9, DoneType, GotoType DEF AfterDelete, Pcs
<1>10. CASE DeleteHash(w)
  <2>1. req' \in [Workers -> Request]
    BY <1>9, <1>10, GotoType DEF DeleteHash, Pcs
  <2>2. QED
    BY <1>10, <2>1, NoHashType DEF DeleteHash, TypeOK
<1>11. CASE DeleteIndex(w)
  BY <1>9, <1>11 DEF DeleteIndex, TypeOK
<1>12. QED
  BY <1>1, <1>2, <1>3, <1>4, <1>5, <1>6, <1>7, <1>8, <1>10, <1>11 DEF Continue

LEMMA TypeStep == IInv /\ [Next]_vars => TypeOK'
<1> SUFFICES ASSUME IInv, [Next]_vars PROVE TypeOK'
  OBVIOUS
<1>1. ASSUME NEW w \in Workers, Begin(w) \/ Continue(w) PROVE TypeOK'
  BY <1>1, BeginType, ContinueType DEF IInv
<1>2. ASSUME NEW w \in Workers, Cancel(w) PROVE TypeOK'
  BY <1>2, DoneType DEF Cancel, IInv, TypeOK
<1>3. ASSUME NEW s \in Sids, TtlExpires(s) PROVE TypeOK'
  BY <1>3, NoHashType DEF TtlExpires, IInv, TypeOK
<1>4. CASE UNCHANGED vars
  BY <1>4 DEF vars, IInv, TypeOK
<1>5. QED
  BY <1>1, <1>2, <1>3, <1>4 DEF Next, RefuseToken

-----------------------------------------------------------------------------
(***************************************************************************)
(* What handlers know, and whose sessions are where                        *)
(***************************************************************************)
\* The tokens of a session keep their signer: only Login signs for a fresh id.
LEMMA OwnersFixed ==
  IInv /\ [Next]_vars => /\ Signed'
                         /\ \A s \in Sids : owner[s] # NoUser =>
                              owner'[s] = owner[s] /\ issued[s] <= issued'[s]
<1> DEFINE Goal == /\ Signed'
                   /\ \A s \in Sids : owner[s] # NoUser =>
                        owner'[s] = owner[s] /\ issued[s] <= issued'[s]
<1> SUFFICES ASSUME IInv, [Next]_vars PROVE Goal
  OBVIOUS
<1> USE DEF IInv, TypeOK, Signed
<1>1. CASE UNCHANGED <<owner, issued>>
  BY <1>1
<1>2. ASSUME NEW w \in Workers, NEW u \in Users, NEW s \in Sids, Login(w, u, s)
      PROVE  Goal
  BY <1>2, NoUserAssumption DEF Login
<1>3. ASSUME NEW w \in Workers, NEW s \in Sids, RefreshToken(w, s)
      PROVE  Goal
  BY <1>3 DEF RefreshToken, OwnedHash
<1>4. QED
  BY <1>1, <1>2, <1>3
  DEF Next, Begin, Call, Continue, Cancel, TtlExpires, RefuseToken, vars,
      Logout, ResolveAccess, SetHash, SetExpire, SetIndex, TouchSession,
      RevokeCheck, ReadIndex, DeleteNext, DeleteRead, DeleteHash, DeleteIndex

\* A handler that does not move keeps what it knows.
LEMMA KnowsFrame ==
  ASSUME IInv, [Next]_vars, NEW v \in Workers, req'[v] = req[v]
  PROVE  Knows(v)'
BY OwnersFixed, NoUserAssumption DEF IInv, Knows, Acting

LEMMA KnowsBegin ==
  ASSUME IInv, NEW w \in Workers, Begin(w)
  PROVE  Knows(w)'
<1> USE NoUserAssumption DEF IInv, TypeOK, Knows, Acting, Idle
<1>1. ASSUME NEW u \in Users, NEW s \in Sids, Login(w, u, s) PROVE Knows(w)'
  BY <1>1 DEF Login
<1>2. ASSUME NEW s \in Sids, RefreshToken(w, s) PROVE Knows(w)'
  BY <1>2 DEF RefreshToken, OwnedHash
<1>3. ASSUME NEW s \in Sids, Logout(w, s) PROVE Knows(w)'
  BY <1>3 DEF Logout, OwnedHash
<1>4. ASSUME NEW s \in Sids, NEW n, NEW op \in Ops, NEW t \in Sids,
             op = "logoutCurrent" => t = s, ResolveAccess(w, s, n, op, t)
      PROVE  Knows(w)'
  BY <1>4 DEF ResolveAccess, OwnedHash
<1>5. CASE Call(w)
  <2>1. PICK s \in Sids, n \in 1..MaxTokens :
          \/ \E op \in {"logoutCurrent", "logoutOthers", "other"} :
               ResolveAccess(w, s, n, op, s)
          \/ \E t \in Sids : ResolveAccess(w, s, n, "revoke", t)
    BY <1>5 DEF Call
  <2>2. ASSUME NEW op \in {"logoutCurrent", "logoutOthers", "other"},
               ResolveAccess(w, s, n, op, s)
        PROVE  Knows(w)'
    <3>1. op \in Ops
      BY DEF Ops
    <3>2. QED
      BY <1>4, <2>2, <3>1
  <2>3. ASSUME NEW t \in Sids, ResolveAccess(w, s, n, "revoke", t)
        PROVE  Knows(w)'
    <3>1. "revoke" \in Ops
      BY DEF Ops
    <3>2. QED
      BY <1>4, <2>3, <3>1
  <2>4. QED
    BY <2>1, <2>2, <2>3
<1>6. QED
  BY <1>1, <1>2, <1>3, <1>5 DEF Begin

LEMMA KnowsDone ==
  ASSUME TypeOK, NEW w \in Workers, Done(w)
  PROVE  Knows(w)'
BY DEF TypeOK, Done, Idle, Knows, Acting

LEMMA KnowsContinue ==
  ASSUME IInv, NEW w \in Workers, Continue(w)
  PROVE  Knows(w)'
<1> DEFINE r == req[w]
<1>o. owner' = owner
  BY DEF Continue, SetHash, SetExpire, SetIndex, TouchSession,
         RevokeCheck, ReadIndex, DeleteNext, DeleteRead, DeleteHash, DeleteIndex
<1>t. TypeOK /\ Knows(w) /\ r \in Request /\ owner' = owner
  BY <1>o DEF IInv, TypeOK
<1>1. CASE SetHash(w) \/ SetExpire(w)
  BY <1>1, <1>t DEF SetHash, SetExpire, At, Goto, Knows, Acting, TypeOK, Request
<1>2. CASE SetIndex(w)
  <2>1. Done(w)
    BY <1>2 DEF SetIndex
  <2>2. QED
    BY <1>t, <2>1, KnowsDone
<1>3. CASE TouchSession(w)
  <2>1. CASE Done(w)
    BY <1>t, <2>1, KnowsDone
  <2>2. CASE AfterTouch(r.op) # "idle"
    BY <1>3, <1>t, <2>2
    DEF TouchSession, AfterTouch, At, Goto, Knows, Acting, TypeOK, Request
  <2>3. QED
    BY <1>3, <2>1, <2>2 DEF TouchSession
<1>4. CASE RevokeCheck(w)
  <2>1. CASE hash[r.tgt].user = r.user
    <3>1. /\ r.user \in Users /\ r.tgt \in Sids
          /\ \A s \in r.todo : Acting(r, s)
      BY <1>4, <1>t DEF RevokeCheck, At, Knows
    <3>2. owner[r.tgt] = r.user
      BY <1>t, <2>1, <3>1, NoUserAssumption DEF IInv, StoredForOwner
    <3>3. QED
      BY <1>4, <1>t, <2>1, <3>1, <3>2
      DEF RevokeCheck, At, Goto, Knows, Acting, TypeOK, Request
  <2>2. CASE hash[r.tgt].user # r.user
    <3>1. Done(w)
      BY <1>4, <2>2 DEF RevokeCheck
    <3>2. QED
      BY <1>t, <3>1, KnowsDone
  <2>3. QED
    BY <2>1, <2>2
<1>5. CASE ReadIndex(w)
  BY <1>5, <1>t
  DEF ReadIndex, At, Knows, Acting, TypeOK, Request, IInv, StoredForOwner
<1>6. CASE DeleteNext(w)
  <2>1. CASE r.todo = {} /\ Done(w)
    BY <2>1, <1>t, KnowsDone
  <2>2. ASSUME NEW s \in r.todo,
               req' = [req EXCEPT ![w].pc = "hget", ![w].tgt = s,
                                  ![w].todo = @ \ {s}]
        PROVE  Knows(w)'
    BY <2>2, <1>t DEF Knows, Acting, TypeOK, Request
  <2>3. QED
    BY <1>6, <2>1, <2>2 DEF DeleteNext
<1>7. CASE DeleteRead(w)
  BY <1>7, <1>t
  DEF DeleteRead, At, Knows, Acting, TypeOK, Request, IInv, StoredForOwner
<1>8. ASSUME AfterDelete(w), r.pc \in {"del", "srem"} PROVE Knows(w)'
  BY <1>8, <1>t, KnowsDone DEF AfterDelete, Goto, Knows, Acting, TypeOK, Request
<1>9. CASE DeleteHash(w)
  BY <1>8, <1>9, <1>t
  DEF DeleteHash, At, Goto, Knows, Acting, TypeOK, Request
<1>10. CASE DeleteIndex(w)
  BY <1>8, <1>10 DEF DeleteIndex, At
<1>11. QED
  BY <1>1, <1>2, <1>3, <1>4, <1>5, <1>6, <1>7, <1>9, <1>10 DEF Continue

\* A step of one handler leaves the records of the others alone.
LEMMA OnlyMover ==
  ASSUME IInv, NEW w \in Workers, NEW v \in Workers, v # w,
         Begin(w) \/ Continue(w) \/ Cancel(w)
  PROVE  req'[v] = req[v]
BY DEF IInv, TypeOK, Begin, Login, RefreshToken, Logout, Call, ResolveAccess,
       Continue, SetHash, SetExpire, SetIndex, TouchSession, RevokeCheck,
       ReadIndex, DeleteNext, DeleteRead, DeleteHash, DeleteIndex, AfterDelete,
       Cancel, Goto, Done

LEMMA KnowsStep ==
  ASSUME IInv, [Next]_vars, NEW v \in Workers
  PROVE  Knows(v)'
<1>1. CASE req'[v] = req[v]
  BY <1>1, KnowsFrame
<1>2. CASE Begin(v) \/ Continue(v)
  BY <1>2, KnowsBegin, KnowsContinue
<1>3. CASE Cancel(v)
  BY <1>3, KnowsDone DEF Cancel, IInv
<1>4. QED
  BY <1>1, <1>2, <1>3, OnlyMover DEF Next, RefuseToken, TtlExpires, vars

\* What a step can do to the tokens of a session: nothing, delete them, or
\* store those of a handler waiting at its HSET.
LEMMA HashStep ==
  ASSUME IInv, [Next]_vars, NEW s \in Sids
  PROVE  \/ /\ hash'[s].user = hash[s].user
            /\ hash'[s].access = hash[s].access
         \/ hash'[s] = NoHash
         \/ \E w \in Workers : /\ Writing(w, s)
                               /\ owner'[s] = owner[s]
                               /\ hash'[s].user = req[w].user
                               /\ hash'[s].access = req[w].tok
<1> DEFINE Goal == \/ /\ hash'[s].user = hash[s].user
                      /\ hash'[s].access = hash[s].access
                   \/ hash'[s] = NoHash
                   \/ \E w \in Workers : /\ Writing(w, s)
                                         /\ owner'[s] = owner[s]
                                         /\ hash'[s].user = req[w].user
                                         /\ hash'[s].access = req[w].tok
<1> USE DEF IInv, TypeOK, Hash
<1>1. CASE UNCHANGED hash
  BY <1>1
<1>2. ASSUME NEW w \in Workers, SetHash(w) PROVE Goal
  BY <1>2 DEF SetHash, Writing
<1>3. ASSUME NEW w \in Workers, SetExpire(w) PROVE Goal
  BY <1>3 DEF SetExpire
<1>4. ASSUME NEW w \in Workers, TouchSession(w) PROVE Goal
  BY <1>4 DEF TouchSession
<1>5. ASSUME NEW w \in Workers, DeleteHash(w) PROVE Goal
  BY <1>5 DEF DeleteHash
<1>6. ASSUME NEW x \in Sids, TtlExpires(x) PROVE Goal
  BY <1>6 DEF TtlExpires
<1>7. QED
  BY <1>1, <1>2, <1>3, <1>4, <1>5, <1>6
  DEF Next, Begin, Call, Continue, Cancel, RefuseToken, vars, Login,
      RefreshToken, Logout, ResolveAccess, SetIndex, RevokeCheck, ReadIndex,
      DeleteNext, DeleteRead, DeleteIndex

LEMMA StoredStep == IInv /\ [Next]_vars => StoredForOwner'
<1> SUFFICES ASSUME IInv, [Next]_vars PROVE StoredForOwner'
  OBVIOUS
<1>1. ASSUME NEW s \in Sids PROVE hash'[s].user \in {NoUser, owner'[s]}
  <2>1. CASE hash'[s].user = hash[s].user
    BY <2>1, OwnersFixed DEF IInv, StoredForOwner
  <2>2. CASE hash'[s] = NoHash
    BY <2>2 DEF NoHash
  <2>3. ASSUME NEW w \in Workers, Writing(w, s), owner'[s] = owner[s],
               hash'[s].user = req[w].user
        PROVE  hash'[s].user = owner'[s]
    BY <2>3 DEF Writing, IInv, At, Knows, Acting
  <2>4. QED
    BY <2>1, <2>2, <2>3, HashStep
<1>2. ASSUME NEW u \in Users, NEW s \in index'[u] PROVE owner'[s] = u
  <2>1. CASE s \in index[u]
    BY <2>1, OwnersFixed, NoUserAssumption DEF IInv, StoredForOwner, TypeOK
  <2>2. ASSUME NEW w \in Workers, SetIndex(w) PROVE owner'[s] = u
    BY <2>2, <2>1 DEF IInv, SetIndex, At, Knows, Acting, TypeOK
  <2>3. ASSUME NEW w \in Workers, DeleteIndex(w) PROVE s \in index[u]
    BY <2>3 DEF IInv, DeleteIndex, TypeOK
  <2>4. CASE UNCHANGED index
    BY <2>1, <2>4
  <2>5. QED
    BY <2>1, <2>2, <2>3, <2>4
    DEF Next, Begin, Call, Continue, Cancel, TtlExpires, RefuseToken, vars,
        Login, RefreshToken, Logout, ResolveAccess, SetHash, SetExpire,
        TouchSession, RevokeCheck, ReadIndex, DeleteNext, DeleteRead, DeleteHash
<1>3. QED
  BY <1>1, <1>2 DEF StoredForOwner

\* A handler waits to store tokens of s only if it did before or has just
\* signed them.
LEMMA WriterStep ==
  ASSUME IInv, [Next]_vars, NEW v \in Workers, NEW s \in Sids, Writing(v, s)'
  PROVE  \/ Writing(v, s) /\ req'[v].tok = req[v].tok
         \/ owner[s] = NoUser
         \/ OwnedHash(s) /\ req'[v].tok = issued[s] + 1
<1> USE DEF Writing, At
<1>t. DOMAIN req = Workers /\ req[v] \in Request /\ req \in [Workers -> Request]
  BY DEF IInv, TypeOK
<1>1. CASE req'[v] = req[v]
  BY <1>1
<1>2. ASSUME NEW u \in Users, NEW x \in Sids, Login(v, u, x)
      PROVE  owner[s] = NoUser
  BY <1>2, <1>t DEF Login, Idle
<1>3. ASSUME NEW x \in Sids, RefreshToken(v, x)
      PROVE  OwnedHash(s) /\ req'[v].tok = issued[s] + 1
  BY <1>3, <1>t DEF RefreshToken, Idle
<1>4. ASSUME NEW x \in Sids, Logout(v, x) PROVE FALSE
  BY <1>4, <1>t DEF Logout, Idle
<1>5. ASSUME NEW x, NEW n, NEW op, NEW t, ResolveAccess(v, x, n, op, t)
      PROVE  FALSE
  BY <1>5, <1>t DEF ResolveAccess, Idle
<1>6. ASSUME Done(v) PROVE FALSE
  BY <1>6, <1>t DEF Done, Idle
<1>7. ASSUME NEW pc, pc # "hset", Goto(v, pc) PROVE FALSE
  BY <1>7, <1>t DEF Goto, Request
<1>8. ASSUME AfterDelete(v) PROVE FALSE
  BY <1>6, <1>7, <1>8 DEF AfterDelete
<1>9. CASE Continue(v)
  <2>1. ~(SetHash(v) \/ SetExpire(v) \/ SetIndex(v) \/ RevokeCheck(v))
    BY <1>6, <1>7 DEF SetHash, SetExpire, SetIndex, RevokeCheck
  <2>2. ~TouchSession(v)
    <3>1. AfterTouch(req[v].op) # "hset"
      BY DEF AfterTouch
    <3>2. QED
      BY <1>6, <1>7, <3>1 DEF TouchSession
  <2>3. ~(ReadIndex(v) \/ DeleteNext(v) \/ DeleteRead(v))
    <3>1. ~ReadIndex(v)
      BY <1>t DEF ReadIndex, Request
    <3>2. ~DeleteNext(v)
      <4>1. ASSUME NEW x, req' = [req EXCEPT ![v].pc = "hget", ![v].tgt = x,
                                             ![v].todo = @ \ {x}]
            PROVE  FALSE
        BY <4>1, <1>t DEF Request
      <4>2. QED
        BY <4>1, <1>6 DEF DeleteNext
    <3>3. ~DeleteRead(v)
      BY <1>t DEF DeleteRead, Request
    <3>4. QED
      BY <3>1, <3>2, <3>3
  <2>4. ~(DeleteHash(v) \/ DeleteIndex(v))
    BY <1>7, <1>8 DEF DeleteHash, DeleteIndex
  <2>5. QED
    BY <1>9, <2>1, <2>2, <2>3, <2>4 DEF Continue
<1>10. CASE Begin(v)
  BY <1>2, <1>3, <1>4, <1>5, <1>10 DEF Begin, Call
<1>11. CASE Cancel(v)
  BY <1>6, <1>11 DEF Cancel
<1>12. QED
  BY <1>1, <1>9, <1>10, <1>11, OnlyMover
  DEF Next, RefuseToken, TtlExpires, vars

LEMMA InvarianceStep == IInv /\ [Next]_vars => IInv'
  BY TypeStep, OwnersFixed, StoredStep, KnowsStep DEF IInv

\* The inductive invariant holds in every reachable state.
THEOREM Invariance == Spec => []IInv
<1>1. Init => IInv
  BY TypeInit, NoUserAssumption
  DEF Init, IInv, Signed, StoredForOwner, Knows, Idle, NoHash
<1>2. QED
  BY <1>1, InvarianceStep, PTL DEF Spec

-----------------------------------------------------------------------------
(***************************************************************************)
(* The theorems                                                            *)
(***************************************************************************)
\* Redis data, tokens and requests keep their types.
THEOREM TypeCorrect == Spec => []TypeOK
<1>1. IInv => TypeOK
  BY DEF IInv
<1>2. QED
  BY <1>1, Invariance, PTL

\* A stored session and a user's index name the user the tokens are signed for.
THEOREM StoredForOwnerHolds == Spec => []StoredForOwner
<1>1. IInv => StoredForOwner
  BY DEF IInv
<1>2. QED
  BY <1>1, Invariance, PTL

\* Every handler that deletes a session, Logout, LogoutCurrentSession,
\* RevokeSession or LogoutAllOtherSessions, deletes one of its own user's.
THEOREM DeletesOwnOnlyHolds == Spec => []DeletesOwnOnly
<1>1. IInv => DeletesOwnOnly
  BY DEF IInv, DeletesOwnOnly, Knows, Acting
<1>2. QED
  BY <1>1, Invariance, PTL

\* A session deleted while no RefreshToken of it is past its check stays dead.
THEOREM ClosedForGoodHolds == Spec => ClosedForGood
<1>1. ASSUME IInv, [Next]_vars, NEW s \in Sids, Closed(s)
      PROVE  Closed(s)'
  <2>1. owner'[s] # NoUser
    BY <1>1, OwnersFixed DEF Closed
  <2>2. hash'[s].user = NoUser
    BY <1>1, HashStep DEF Closed, NoHash
  <2>3. ASSUME NEW w \in Workers, Writing(w, s)' PROVE FALSE
    BY <1>1, <2>3, WriterStep DEF Closed, OwnedHash
  <2>4. QED
    BY <2>1, <2>2, <2>3 DEF Closed
<1>2. IInv /\ [Next]_vars => [\A s \in Sids : Closed(s) => Closed(s)']_vars
  BY <1>1
<1>3. QED
  BY <1>2, Invariance, PTL DEF Spec, ClosedForGood

\* A token that was replaced or deleted is not accepted again: no overlap of
\* refreshes, touches and deletes puts it back.
THEOREM VoidStaysVoidHolds == Spec => VoidStaysVoid
<1>1. ASSUME IInv, [Next]_vars, NEW s \in Sids, NEW n \in 1..MaxTokens, Void(s, n)
      PROVE  Void(s, n)'
  <2>1. owner[s] # NoUser /\ n # 0 /\ n <= issued[s]
    BY <1>1, MaxTokensAssumption DEF Void, IInv, Signed, TypeOK
  <2>2. n \in 1..issued'[s]
    <3>1. IInv'
      BY <1>1, InvarianceStep
    <3>2. issued'[s] \in Nat
      BY <3>1 DEF IInv, TypeOK
    <3>3. QED
      BY <1>1, <2>1, <3>2, OwnersFixed DEF IInv, TypeOK, Void
  <2>3. hash'[s].access # n
    BY <1>1, <2>1, HashStep DEF Void, NoHash
  <2>4. ASSUME NEW w \in Workers, Writing(w, s)', req'[w].tok = n PROVE FALSE
    BY <1>1, <2>1, <2>4, WriterStep, MaxTokensAssumption DEF Void, IInv, TypeOK
  <2>5. QED
    BY <2>2, <2>3, <2>4 DEF Void
<1>2. IInv /\ [Next]_vars
        => [\A s \in Sids, n \in 1..MaxTokens : Void(s, n) => Void(s, n)']_vars
  BY <1>1
<1>3. QED
  BY <1>2, Invariance, PTL DEF Spec, VoidStaysVoid

\* Steps other than an HSET of tokens or an EXPIRE of s keep its user and its
\* time to live, or delete it.
LEMMA FrameHash ==
  ASSUME IInv, [Next]_vars, NEW s \in Sids, hash'[s].user # NoUser,
         \A w \in Workers : /\ ~(SetExpire(w) /\ req[w].tgt = s)
                            /\ ~(SetHash(w) /\ req[w].tgt = s)
  PROVE  /\ hash[s].user # NoUser
         /\ hash'[s].ttl = hash[s].ttl
         /\ hash[s].live => hash'[s].live
<1> DEFINE Goal == /\ hash[s].user # NoUser
                   /\ hash'[s].ttl = hash[s].ttl
                   /\ hash[s].live => hash'[s].live
<1> SUFFICES Goal
  OBVIOUS
<1>1. ASSUME hash'[s] = hash[s] PROVE Goal
  BY <1>1
<1>2. ASSUME NEW w \in Workers, SetHash(w) \/ SetExpire(w)
      PROVE  hash'[s] = hash[s]
  BY <1>2 DEF SetHash, SetExpire, IInv, TypeOK
<1>3. ASSUME NEW w \in Workers, TouchSession(w) PROVE Goal
  BY <1>3 DEF TouchSession, IInv, TypeOK, Hash
<1>n. hash'[s] # NoHash
  BY DEF NoHash
<1>4. ASSUME NEW w \in Workers, DeleteHash(w) PROVE hash'[s] = hash[s]
  BY <1>4, <1>n DEF DeleteHash, IInv, TypeOK
<1>5. ASSUME NEW x \in Sids, TtlExpires(x) PROVE hash'[s] = hash[s]
  BY <1>5, <1>n DEF TtlExpires, IInv, TypeOK
<1>6. ASSUME NEW w \in Workers, Begin(w) \/ Cancel(w) PROVE Goal
  BY <1>6 DEF Begin, Call, Login, RefreshToken, Logout, ResolveAccess, Cancel
<1>7. ASSUME NEW w \in Workers, Continue(w), hash' # hash
      PROVE  SetHash(w) \/ SetExpire(w) \/ TouchSession(w) \/ DeleteHash(w)
  BY <1>7 DEF Continue, SetIndex, RevokeCheck, ReadIndex, DeleteNext,
              DeleteRead, DeleteIndex
<1>8. ASSUME NEW w \in Workers, Continue(w) PROVE Goal
  BY <1>1, <1>2, <1>3, <1>4, <1>7, <1>8
<1>9. ASSUME UNCHANGED vars PROVE Goal
  BY <1>1, <1>9 DEF vars
<1> HIDE DEF Goal
<1>10. CASE Next
  <2>1. ASSUME NEW w \in Workers, Begin(w) \/ Continue(w) \/ Cancel(w) PROVE Goal
    BY <1>6, <1>8, <2>1
  <2>2. CASE \E x \in Sids : RefuseToken(x) \/ TtlExpires(x)
    BY <1>1, <1>5, <1>9, <2>2 DEF RefuseToken
  <2>3. QED
    BY <1>10, <2>1, <2>2 DEF Next
<1>11. QED
  BY <1>9, <1>10

\* A handler that is about to send EXPIRE sends it, or stays there, or is
\* cancelled, and then its session counts as cut while it lives without a
\* time to live.
LEMMA ExpireStep ==
  ASSUME IInv, CutNext \/ UNCHANGED <<vars, cut>>,
         NEW w \in Workers, NEW s \in Sids, At(w, "expire"), req[w].tgt = s,
         ~SetExpire(w), hash'[s].live, ~hash'[s].ttl
  PROVE  (At(w, "expire")' /\ req'[w].tgt = s) \/ s \in cut'
<1>1. [Next]_vars
  BY DEF CutNext
<1>2. CASE Cancel(w)
  <2>1. req'[w].pc = "idle"
    BY <1>2 DEF Cancel, Done, Idle, IInv, TypeOK
  <2>2. s \in Interrupted
    BY <2>1 DEF Interrupted
  <2>3. vars # vars'
    <3>1. req'[w] # req[w]
      BY <2>1 DEF At
    <3>2. QED
      BY <3>1 DEF vars
  <2>4. CutNext
    BY <2>3
  <2>5. QED
    BY <2>2, <2>4 DEF CutNext
<1>3. CASE ~Cancel(w)
  <2>1. ~Begin(w) /\ ~Continue(w)
    BY DEF Begin, Call, Login, RefreshToken, Logout, ResolveAccess, At,
           Continue, SetHash, SetIndex, TouchSession, RevokeCheck, ReadIndex,
           DeleteNext, DeleteRead, DeleteHash, DeleteIndex
  <2>2. req'[w] = req[w]
    BY <1>1, <1>3, <2>1, OnlyMover DEF Next, RefuseToken, TtlExpires, vars
  <2>3. QED
    BY <2>2 DEF At
<1>4. QED
  BY <1>2, <1>3

\* A session stays cut while it lives without a time to live.
LEMMA CutStep ==
  ASSUME CutNext \/ UNCHANGED <<vars, cut>>, NEW s \in Sids, s \in cut,
         hash'[s].live, ~hash'[s].ttl
  PROVE  s \in cut'
BY DEF CutNext

\* A session that can authenticate has a time to live, or is about to get one,
\* or its handler was cancelled right between HSET and EXPIRE.
THEOREM UsableSessionsExpireHolds == CutSpec => []UsableSessionsExpire
<1> DEFINE Inv == UserImpliesLive /\ UsableSessionsExpire
<1>1. Init => Inv
  BY DEF Init, NoHash, UserImpliesLive, UsableSessionsExpire
<1>2. ASSUME IInv, [CutNext]_<<vars, cut>>, Inv PROVE Inv'
  <2>a. [Next]_vars
    BY <1>2 DEF CutNext
  <2>b. CutNext \/ UNCHANGED <<vars, cut>>
    BY <1>2
  <2>1. ASSUME NEW s \in Sids, hash'[s].user # NoUser PROVE hash'[s].live
    <3>1. ASSUME NEW w \in Workers, SetExpire(w) \/ SetHash(w), req[w].tgt = s
          PROVE  hash'[s].live
      BY <1>2, <2>1, <3>1
      DEF SetExpire, SetHash, IInv, TypeOK, Hash, UserImpliesLive
    <3>2. ASSUME \A w \in Workers : /\ ~(SetExpire(w) /\ req[w].tgt = s)
                                    /\ ~(SetHash(w) /\ req[w].tgt = s)
          PROVE  hash'[s].live
      BY <1>2, <2>a, <2>1, <3>2, FrameHash DEF UserImpliesLive
    <3>3. QED
      BY <3>1, <3>2
  <2>2. ASSUME NEW s \in Sids, hash'[s].user # NoUser, ~hash'[s].ttl
        PROVE  \/ \E w \in Workers : At(w, "expire")' /\ req'[w].tgt = s
               \/ s \in cut'
    <3>0. hash'[s].live
      BY <2>1, <2>2
    <3>1. ASSUME NEW w \in Workers, SetExpire(w), req[w].tgt = s PROVE FALSE
      <4>1. hash[s] \in Hash /\ DOMAIN hash = Sids
        BY <1>2 DEF IInv, TypeOK
      <4>2. CASE hash[s].live
        <5>1. hash' = [hash EXCEPT ![s].ttl = TRUE]
          BY <3>1, <4>2 DEF SetExpire
        <5>2. hash'[s].ttl
          BY <4>1, <5>1 DEF Hash
        <5>3. QED
          BY <2>2, <5>2
      <4>3. CASE ~hash[s].live
        BY <3>0, <3>1, <4>3 DEF SetExpire
      <4>4. QED
        BY <4>2, <4>3
    <3>2. ASSUME NEW w \in Workers, SetHash(w), req[w].tgt = s
          PROVE  At(w, "expire")' /\ req'[w].tgt = s
      <4>1. req[w] \in Request /\ DOMAIN req = Workers
        BY <1>2 DEF IInv, TypeOK
      <4>2. QED
        BY <3>2, <4>1 DEF SetHash, Goto, At, Request
    <3>3. ASSUME \A w \in Workers : ~(SetHash(w) /\ req[w].tgt = s)
          PROVE  \/ \E w \in Workers : At(w, "expire")' /\ req'[w].tgt = s
                 \/ s \in cut'
      <4>1. hash[s].user # NoUser /\ ~hash[s].ttl
        BY <1>2, <2>a, <2>2, <3>1, <3>3, FrameHash
      <4>2. ASSUME NEW w \in Workers, At(w, "expire"), req[w].tgt = s
            PROVE  (At(w, "expire")' /\ req'[w].tgt = s) \/ s \in cut'
        BY <1>2, <2>b, <2>2, <3>0, <3>1, <4>2, ExpireStep
      <4>3. CASE s \in cut
        BY <2>b, <2>2, <3>0, <4>3, CutStep
      <4>4. QED
        BY <1>2, <4>1, <4>2, <4>3 DEF UsableSessionsExpire
    <3>4. QED
      BY <3>2, <3>3
  <2>3. UserImpliesLive'
    BY <2>1 DEF UserImpliesLive
  <2>4. UsableSessionsExpire'
    BY <2>2 DEF UsableSessionsExpire
  <2>5. QED
    BY <2>3, <2>4
<1>3. Inv => UsableSessionsExpire
  OBVIOUS
<1>4. CutSpec => Spec
  <2>1. [CutNext]_<<vars, cut>> => [Next]_vars
    BY DEF CutNext
  <2>2. QED
    BY <2>1, PTL DEF CutSpec, Spec
<1>5. QED
  BY <1>1, <1>2, <1>3, <1>4, Invariance, PTL DEF CutSpec
=============================================================================
