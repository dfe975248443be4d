---------------------------- MODULE ChatMembers -----------------------------
(***************************************************************************)
(* The handlers of Membership as they run: each reads the chat and the     *)
(* rows its guards need, awaits, and commits what it decided from them.    *)
(* Other handlers commit in between: PostgreSQL runs the transactions READ *)
(* COMMITTED, nothing is locked and no row has a version.  SQLAlchemy's    *)
(* UPDATE writes the columns whose value the handler changed and leaves    *)
(* the others as they are in the database by then.                         *)
(*                                                                         *)
(* The few SELECTs of a handler are one step.                              *)
(***************************************************************************)
EXTENDS Membership

CONSTANTS Workers,   \* handlers that may be in flight
          NoUser

ASSUME NoUserAssumption == NoUser \notin Users

VARIABLE req        \* [Workers -> Request]

hvars == <<chat, rows, req>>

\* The columns a handler will write; those it leaves alone are "keep".
Patch == [role: Roles \cup {"keep"}, status: Stored \cup {"none", "keep"},
          until: Dates \cup {"keep"}]
Nothing == [role |-> "keep", status |-> "keep", until |-> "keep"]

Request == [pc: {"idle", "insert", "update", "resize", "delete"},
            by: Users \cup {NoUser},         \* the caller
            target: Users \cup {NoUser}, patch: Patch, max: 0..MaxSize]
Idle == [pc |-> "idle", by |-> NoUser, target |-> NoUser, patch |-> Nothing,
         max |-> 0]
At(w, pc) == req[w].pc = pc

HTypeOK == TypeOK /\ req \in [Workers -> Request]

HInit == Init /\ req = [w \in Workers |-> Idle]

Await(w, pc, a, t, patch, max) ==
  /\ req' = [req EXCEPT ![w] = [pc |-> pc, by |-> a, target |-> t,
                                patch |-> patch, max |-> max]]
  /\ UNCHANGED mvars
Done(w) == req' = [req EXCEPT ![w] = Idle]

(***************************************************************************)
(* What a handler reads and decides                                        *)
(***************************************************************************)
Kept(old, new) == IF new = old THEN "keep" ELSE new
Changes(row, r) == [role |-> Kept(row.role, r.role),
                    status |-> Kept(row.status, r.status),
                    until |-> Kept(row.until, r.until)]

ReadMember(w, a, t, r) ==
  /\ r # rows[t]
  /\ r \in Storable(a, t)
  /\ IF Exists(t) THEN Await(w, "update", a, t, Changes(rows[t], r), 0)
                  ELSE Await(w, "insert", a, t, r, 0)

\* A call that gives a date writes it, even where it and the old one both lie
\* ahead or have both passed.
ReadAndDate(w, a, t, r) ==
  /\ r.until # "none" /\ r.until = rows[t].until
  /\ UpdateChatMember(a, t, r)       \* or a BanMember that stores the same
  /\ Await(w, "update", a, t, [Changes(rows[t], r) EXCEPT !.until = r.until], 0)

\* Mutant: the limit may be set below the number of members.
ReadForUpdateByManager(w, a, max) ==
  /\ Manager(a)
  /\ max # chat.max
  /\ Await(w, "resize", a, NoUser, Nothing, max)

ReadForUpdateChat(w, a, max) ==
  /\ MayResize(a, max)
  /\ max # chat.max
  /\ Await(w, "resize", a, NoUser, Nothing, max)

ReadForDeleteChat(w, a) ==
  /\ Owner(a)
  /\ Await(w, "delete", a, NoUser, Nothing, 0)

\* CreateChat finds and reopens, or inserts, in one statement or transaction.
OpenChat(w, a) ==
  /\ At(w, "idle")
  /\ Open(a)
  /\ UNCHANGED req

(***************************************************************************)
(* What it commits                                                         *)
(***************************************************************************)
\* Mutant: no foreign key to the chat.
CommitInsertAnyway(w) ==
  LET t == req[w].target IN
  /\ At(w, "insert")
  /\ rows' = IF ~Exists(t) THEN [rows EXCEPT ![t] = req[w].patch] ELSE rows
  /\ Done(w)
  /\ UNCHANGED chat

\* A row inserted meanwhile, or a chat deleted meanwhile, is an IntegrityError.
CommitInsert(w) ==
  LET t == req[w].target IN
  /\ At(w, "insert")
  /\ rows' = IF chat.kind # "deleted" /\ ~Exists(t)
             THEN [rows EXCEPT ![t] = req[w].patch] ELSE rows
  /\ Done(w)
  /\ UNCHANGED chat

Column(value, written) == IF written = "keep" THEN value ELSE written
Patched(row, patch) == [role |-> Column(row.role, patch.role),
                        status |-> Column(row.status, patch.status),
                        until |-> Column(row.until, patch.until)]

\* An UPDATE that finds no row is a StaleDataError.
CommitUpdate(w) ==
  LET t == req[w].target IN
  /\ At(w, "update")
  /\ rows' = IF Exists(t) THEN [rows EXCEPT ![t] = Patched(@, req[w].patch)]
             ELSE rows
  /\ Done(w)
  /\ UNCHANGED chat

CommitUpdateChat(w) ==
  /\ At(w, "resize")
  /\ chat' = IF chat.kind # "deleted" THEN [chat EXCEPT !.max = req[w].max]
             ELSE chat
  /\ Done(w)
  /\ UNCHANGED rows

CommitDeleteChat(w) ==
  /\ At(w, "delete")
  /\ chat' = [kind |-> "deleted", max |-> 0]
  /\ rows' = [u \in Users |-> NoRow]
  /\ Done(w)

Clock(t) == DatePasses(t) /\ UNCHANGED req

\* The date a handler is about to write passes before it has.
DateRunsOut(w) ==
  /\ At(w, "update") /\ req[w].patch.until = "future"
  /\ req' = [req EXCEPT ![w].patch.until = "past"]
  /\ UNCHANGED mvars

\* grpc.aio cancels a handler whose caller is gone; nothing is committed.
Cancel(w) ==
  /\ ~At(w, "idle")
  /\ Done(w)
  /\ UNCHANGED mvars

Begin(w) ==
  /\ At(w, "idle")
  /\ \E a \in Users : \/ \E t \in Users, r \in Row : \/ ReadMember(w, a, t, r)
                                                   \/ ReadAndDate(w, a, t, r)
                      \/ \E max \in 1..MaxSize : ReadForUpdateChat(w, a, max)
                      \/ ReadForDeleteChat(w, a)
                      \/ OpenChat(w, a)

Commit(w) == \/ CommitInsert(w) \/ CommitUpdate(w)
             \/ CommitUpdateChat(w) \/ CommitDeleteChat(w)

HNext == \/ \E w \in Workers : Begin(w) \/ Commit(w) \/ Cancel(w)
                                \/ DateRunsOut(w)
         \/ \E t \in Users : Clock(t)

HSpec == HInit /\ [][HNext]_hvars

-----------------------------------------------------------------------------
(***************************************************************************)
(* Safety                                                                  *)
(***************************************************************************)
\* A chat that is deleted stays deleted, its limit and its rows gone, whatever
\* handlers that had read it before commit afterwards.
DeletedForGood ==
  [][chat.kind = "deleted" =>
       UNCHANGED mvars /\ \A u \in Users : ~Exists(u)]_hvars
=============================================================================
