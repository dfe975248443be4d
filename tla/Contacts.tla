------------------------------ MODULE Contacts ------------------------------
(***************************************************************************)
(* The contacts of services/contact.py.  A pair of users has two rows, one *)
(* for what each is to the other, and a handler reads and writes one or    *)
(* both in one transaction.  PostgreSQL runs it READ COMMITTED: a read     *)
(* sees what is committed, a write locks its row until the transaction     *)
(* ends, waits for the lock another has on it and then writes whatever is  *)
(* there; an UPDATE that finds its row gone is SQLAlchemy's                *)
(* StaleDataError, an INSERT that finds one there an IntegrityError, and   *)
(* both roll the transaction back.  The rows a DELETE is about are those   *)
(* that were committed when it began.  Transactions that wait for each     *)
(* other are a deadlock, of which PostgreSQL ends one.                     *)
(*                                                                         *)
(* Requests that are refused, or find what they ask for, change nothing    *)
(* and are left out; that the other account is not deleted is one of the   *)
(* reasons to refuse.                                                      *)
(***************************************************************************)

CONSTANTS Users, Workers,
          NoUser, NoWorker

ASSUME NoValueAssumption == NoUser \notin Users /\ NoWorker \notin Workers

VARIABLES
  contact,  \* [Pairs -> Status]    contacts, as committed
  lock,     \* [Pairs -> Owner]     the handler whose transaction wrote the row
  draft,    \* [Pairs -> Status]    what that handler made of it
  crossed,  \* SUBSET Pairs         pairs of which a Remove and an Accept were
            \*                      in flight at once
  req       \* [Workers -> Request] the handlers in flight

vars == <<contact, lock, draft, crossed, req>>

\* <<u, v>> is the row that says what v is to u.
Pairs == {p \in Users \X Users : p[1] # p[2]}
Mirror(p) == <<p[2], p[1]>>
Both(p) == {p, Mirror(p)}

Status == {"none", "pending", "accepted", "blocked"}
Owner == Workers \cup {NoWorker}

\* own: the row of the caller; seen, write: the status last read and the one to
\* store; todo: the rows a DELETE has not got to yet.
Request ==
  [pc: {"idle", "incoming", "look", "insert", "update", "delete", "commit"},
   op: {"none", "add", "accept", "block", "remove"},
   own: Pairs \cup {<<NoUser, NoUser>>}, seen: Status, write: Status,
   todo: SUBSET Pairs]
Idle == [pc |-> "idle", op |-> "none", own |-> <<NoUser, NoUser>>, seen |-> "none",
         write |-> "none", todo |-> {}]

\* Every variable has its type.
TypeOK == /\ contact \in [Pairs -> Status]
          /\ lock \in [Pairs -> Owner]
          /\ draft \in [Pairs -> Status]
          /\ crossed \in SUBSET Pairs
          /\ req \in [Workers -> Request]

Init == /\ contact = [p \in Pairs |-> "none"]
        /\ lock = [p \in Pairs |-> NoWorker]
        /\ draft = [p \in Pairs |-> "none"]
        /\ crossed = {}
        /\ req = [w \in Workers |-> Idle]

(***************************************************************************)
(* Transactions                                                            *)
(***************************************************************************)
At(w, pc) == req[w].pc = pc
Free(p) == lock[p] = NoWorker
Writes(w) == {p \in Pairs : lock[p] = w}

\* Handler w writes s to p and goes on at pc.
Store(w, p, s, pc) ==
  /\ lock' = [lock EXCEPT ![p] = w]
  /\ draft' = [draft EXCEPT ![p] = s]
  /\ req' = [req EXCEPT ![w].pc = pc, ![w].todo = @ \ {p}]
  /\ UNCHANGED <<contact, crossed>>

Unlocked(w) == [p \in Pairs |-> IF lock[p] = w THEN NoWorker ELSE lock[p]]

Abort(w) ==
  /\ lock' = Unlocked(w)
  /\ req' = [req EXCEPT ![w] = Idle]
  /\ UNCHANGED <<contact, draft, crossed>>

\* A row that is deleted is not one another DELETE still waits for.
Commit(w) ==
  LET gone == {p \in Writes(w) : draft[p] = "none"} IN
  /\ At(w, "commit") \/ (At(w, "delete") /\ req[w].todo = {})
  /\ contact' = [p \in Pairs |-> IF lock[p] = w THEN draft[p] ELSE contact[p]]
  /\ lock' = Unlocked(w)
  /\ req' = [v \in Workers |-> IF v = w THEN Idle
                               ELSE [req[v] EXCEPT !.todo = @ \ gone]]
  /\ UNCHANGED <<draft, crossed>>

\* Mutant: AddContact overwrites the row it finds.
Upsert(w) ==
  LET r == req[w] IN
  /\ At(w, "insert")
  /\ Free(r.own)
  /\ Store(w, r.own, r.write, "commit")

\* Mutant: a conflict is tried again.
InsertAgain(w) ==
  LET r == req[w] IN
  /\ At(w, "insert")
  /\ Free(r.own)
  /\ contact[r.own] = "none"
  /\ Store(w, r.own, r.write, "commit")

Insert(w) ==
  LET r == req[w] IN
  /\ At(w, "insert")
  /\ Free(r.own)
  /\ IF contact[r.own] = "none" THEN Store(w, r.own, r.write, "commit")
                                ELSE Abort(w)

\* The status is in the UPDATE only if it is not the one that was read.
Updated(p, seen, s) == IF seen = s THEN contact[p] ELSE s

Update(w) ==
  LET r == req[w] IN
  /\ At(w, "update")
  /\ Free(r.own)
  /\ IF contact[r.own] = "none" THEN Abort(w)
     ELSE Store(w, r.own, Updated(r.own, r.seen, r.write), "commit")

(***************************************************************************)
(* The handlers                                                            *)
(***************************************************************************)
Ops(p) == {req[w].op : w \in {v \in Workers : req[v].own \in Both(p)}}

Start(w, r) ==
  LET p == r.own IN
  /\ req[w] = Idle
  /\ req' = [req EXCEPT ![w] = r]
  /\ crossed' = IF \/ r.op = "accept" /\ "remove" \in Ops(p)
                   \/ r.op = "remove" /\ "accept" \in Ops(p)
                THEN crossed \cup Both(p) ELSE crossed
  /\ UNCHANGED <<contact, lock, draft>>

\* Mutant: the name of the protocol is stored.
StartAddAsProto(w, p) ==
  /\ contact[p] = "none"
  /\ Start(w, [Idle EXCEPT !.op = "add", !.pc = "insert", !.own = p,
                           !.write = "PENDING"])

StartAdd(w, p) ==
  /\ contact[p] = "none"
  /\ Start(w, [Idle EXCEPT !.op = "add", !.pc = "insert", !.own = p,
                           !.write = "pending"])

\* The row of the other, whatever its status.
StartAccept(w, p) ==
  /\ contact[Mirror(p)] # "none"
  /\ Start(w, [Idle EXCEPT !.op = "accept", !.pc = "incoming", !.own = p,
                           !.seen = contact[Mirror(p)], !.write = "accepted"])

\* Mutant: the incoming row is committed before the own row is looked for.
AcceptIncoming(w) ==
  LET p == Mirror(req[w].own) IN
  /\ At(w, "incoming")
  /\ Free(p)
  /\ IF contact[p] = "none" THEN Abort(w)
     ELSE /\ contact' = [contact EXCEPT ![p] = Updated(p, req[w].seen, "accepted")]
          /\ req' = [req EXCEPT ![w].pc = "look"]
          /\ UNCHANGED <<lock, draft, crossed>>

\* Flushed by the read that follows.
UpdateIncoming(w) ==
  LET p == Mirror(req[w].own) IN
  /\ At(w, "incoming")
  /\ Free(p)
  /\ IF contact[p] = "none" THEN Abort(w)
     ELSE Store(w, p, Updated(p, req[w].seen, "accepted"), "look")

StartBlock(w, p) ==
  Start(w, [Idle EXCEPT !.op = "block", !.pc = "look", !.own = p,
                        !.write = "blocked"])

\* AcceptContact and BlockContact look for the caller's row.
LookOwn(w) ==
  LET found == contact[req[w].own] IN
  /\ At(w, "look")
  /\ req' = [req EXCEPT ![w].pc = IF found = "none" THEN "insert" ELSE "update",
                        ![w].seen = found]
  /\ UNCHANGED <<contact, lock, draft, crossed>>

StartRemove(w, p) ==
  LET rows == {q \in Both(p) : contact[q] # "none"} IN
  /\ rows # {}
  /\ Start(w, [Idle EXCEPT !.op = "remove", !.pc = "delete", !.own = p,
                           !.todo = rows])

DeleteRow(w, p) ==
  /\ At(w, "delete")
  /\ p \in req[w].todo
  /\ Free(p)
  /\ Store(w, p, "none", "delete")

(***************************************************************************)
(* Around the handlers                                                     *)
(***************************************************************************)
\* The rows w may be waiting for.
Wants(w) == CASE At(w, "incoming")            -> {Mirror(req[w].own)}
              [] req[w].pc \in {"insert", "update"} -> {req[w].own}
              [] At(w, "delete")              -> req[w].todo
              [] OTHER                        -> {}

Deadlock(w) ==
  /\ \E v \in Workers \ {w} : /\ Wants(w) \cap Writes(v) # {}
                              /\ Wants(v) \cap Writes(w) # {}
  /\ Abort(w)

\* grpc.aio cancels a handler whose caller is gone.
Cancel(w) == req[w] # Idle /\ Abort(w)

Begin(w) == \E p \in Pairs : \/ StartAdd(w, p) \/ StartAccept(w, p)
                             \/ StartBlock(w, p) \/ StartRemove(w, p)
Continue(w) == \/ Insert(w) \/ Update(w) \/ UpdateIncoming(w) \/ LookOwn(w)
               \/ Commit(w) \/ Deadlock(w)
               \/ \E p \in Pairs : DeleteRow(w, p)

Next == \E w \in Workers : Begin(w) \/ Continue(w) \/ Cancel(w)

Spec == Init /\ [][Next]_vars

\* PostgreSQL answers every statement: those that wait for a row get it in turn,
\* and those that wait for each other do not wait for ever.
FairSpec == Spec /\ \A w \in Workers : SF_vars(Continue(w))

-----------------------------------------------------------------------------
(***************************************************************************)
(* Safety                                                                  *)
(***************************************************************************)
\* Accepting is mutual: whoever is an accepted contact has accepted too, or has
\* blocked since, unless a RemoveContact and an AcceptContact of the two crossed.
\* ("For convenience we create the mirror row", "we delete both rows": two rows,
\* read and written one by one.)
Mutual ==
  \A p \in Pairs \ crossed :
    contact[p] = "accepted" => contact[Mirror(p)] \in {"accepted", "blocked"}

\* A block ends by an AcceptContact or a RemoveContact of one of the two and by
\* nothing else: an AddContact that found no row does not replace one made since.
BlocksEnd ==
  [][\A p \in Pairs : contact[p] = "blocked" /\ contact'[p] # "blocked" =>
       \E w \in Workers : lock[p] = w /\ req[w].op \in {"accept", "remove"}]_vars

\* Every handler returns: nobody waits for ever for a row of another, not even two
\* that accept each other at the same time.
HandlersReturn == \A w \in Workers : []<>(req[w] = Idle)
=============================================================================
