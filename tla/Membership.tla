----------------------------- MODULE Membership -----------------------------
(***************************************************************************)
(* Membership of one chat as services/chat.py decides it, each handler one *)
(* atomic step: what the service promises when its calls do not overlap.   *)
(* ChatMembers splits the handlers where they await.                       *)
(*                                                                         *)
(* A handler that changes one member row is written as a relation between  *)
(* the acting user a, the target t and the row r that it stores for t; the *)
(* guards read the state, the last conjunct fixes r.  left_at is left out: *)
(* nothing reads it.  A ban date counts only by where it lies from now.    *)
(***************************************************************************)
EXTENDS Integers, FiniteSets

CONSTANTS Users,
          MaxSize      \* bound: largest max_members

ASSUME MaxSizeAssumption == MaxSize \in Nat \ {0}

VARIABLES
  chat,    \* the chats row: its type and max_members
  rows     \* [Users -> Row]  the chat_members rows of the chat

mvars == <<chat, rows>>

Roles == {"owner", "admin", "member"}
Stored == {"active", "left", "banned"}
Dates == {"none", "future", "past"}

Row == [role: Roles, status: Stored \cup {"none"}, until: Dates]
NoRow == [role |-> "member", status |-> "none", until |-> "none"]
Chat == [kind: {"none", "private", "group", "deleted"}, max: 0..MaxSize]

Exists(u) == rows[u].status # "none"
Active(u) == rows[u].status = "active"
ActiveUsers == {u \in Users : Active(u)}
Owner(u) == Active(u) /\ rows[u].role = "owner"
Manager(u) == Active(u) /\ rows[u].role \in {"owner", "admin"}
BanInForce(u) == rows[u].status = "banned" /\ rows[u].until # "past"
HasRoom == Cardinality(ActiveUsers) < chat.max

TypeOK == /\ chat \in Chat
          /\ rows \in [Users -> Row]
          /\ \A u \in Users : ~Exists(u) => rows[u] = NoRow

Init == /\ chat = [kind |-> "none", max |-> 0]
        /\ rows = [u \in Users |-> NoRow]

(***************************************************************************)
(* CreateChat                                                              *)
(***************************************************************************)
\* The chat a creates with the members us; only the creator is an owner.  A
\* channel is created, and lets users join, like a group.
Create(a, us, kind, max) ==
  /\ chat.kind = "none"
  /\ a \in us
  /\ Cardinality(us) <= max
  /\ chat' = [kind |-> kind, max |-> max]
  /\ rows' = [u \in Users |-> IF u \notin us THEN NoRow ELSE
                [role |-> IF u = a THEN "owner" ELSE "member",
                 status |-> "active", until |-> "none"]]

CreateGroup(a) == \E us \in SUBSET Users, max \in 1..MaxSize :
                    Create(a, us, "group", max)

CreatePrivate(a, b) ==       \* a = b is the chat with oneself
  /\ Cardinality({a, b}) <= MaxSize
  /\ Create(a, {a, b}, "private", Cardinality({a, b}))

\* A private chat that has rows for everyone asked for is found and reopened
\* instead: those who left are active again, in one UPDATE.  (The search for
\* the chat with oneself, a = b, looks at a's rows only and finds any chat.)
ReopenPrivate(a, b) ==
  /\ chat.kind = "private"
  /\ Exists(a) /\ Exists(b)
  /\ rows' = [u \in Users |-> IF u \in {a, b} /\ rows[u].status = "left"
                              THEN [rows[u] EXCEPT !.status = "active"]
                              ELSE rows[u]]
  /\ UNCHANGED chat

(***************************************************************************)
(* UpdateChat (of max_members) and DeleteChat                              *)
(***************************************************************************)
MayResize(a, max) == Manager(a) /\ Cardinality(ActiveUsers) <= max

UpdateChat(a, max) ==
  /\ MayResize(a, max)
  /\ chat' = [chat EXCEPT !.max = max]
  /\ UNCHANGED rows

DeleteChat(a) ==
  /\ Owner(a)
  /\ chat' = [kind |-> "deleted", max |-> 0]
  /\ rows' = [u \in Users |-> NoRow]

(***************************************************************************)
(* The handlers that store one row                                         *)
(***************************************************************************)
AddChatMember(a, t, r) ==
  /\ Manager(a)
  /\ HasRoom
  /\ ~Active(t) /\ ~BanInForce(t)
  /\ r.role # "owner"
  /\ r.status = "active" /\ r.until = "none"

\* Mutant: managers hand out and take away any role.
UpdateAnyRole(a, t, r) ==
  /\ Manager(a)
  /\ Exists(t)
  /\ r.status \in Stored
  /\ r.status # rows[t].status /\ r.role = "owner" => r.status = "active"
  /\ \/ r.until \in {rows[t].until, "future", "past"}
     \/ r.status = "active"

\* Role, status and date are optional in the request: what is not given keeps
\* its value, and a status of active clears the date.
UpdateChatMember(a, t, r) ==
  /\ Manager(a)
  /\ Exists(t)
  /\ r.role # rows[t].role /\ "owner" \in {r.role, rows[t].role} => Owner(a)
  /\ r.status \in Stored
  /\ r.status # rows[t].status /\ r.role = "owner" => r.status = "active"
  /\ \/ r.until \in {rows[t].until, "future", "past"}
     \/ r.status = "active"

\* Mutant: any member removes any other but an owner.
RemoveByMember(a, t, r) ==
  /\ Active(a)
  /\ a # t => Exists(t) /\ rows[t].role # "owner"
  /\ r = [rows[t] EXCEPT !.status = "left", !.until = "none"]

RemoveChatMember(a, t, r) ==
  /\ Active(a)
  /\ a # t => Manager(a) /\ Exists(t) /\ rows[t].role # "owner"
  /\ r = [rows[t] EXCEPT !.status = "left", !.until = "none"]

\* Mutant: only an active member is turned away.
JoinDespiteBan(a, t, r) ==
  /\ a = t
  /\ chat.kind = "group"
  /\ ~Active(t)
  /\ HasRoom
  /\ r = [rows[t] EXCEPT !.status = "active", !.until = "none"]

JoinChat(a, t, r) ==         \* a row that exists keeps its role
  /\ a = t
  /\ chat.kind = "group"
  /\ ~Active(t) /\ ~BanInForce(t)
  /\ HasRoom
  /\ r = [rows[t] EXCEPT !.status = "active", !.until = "none"]

\* Mutant: only the status of the row is cleared.
LeaveNoStatus(a, t, r) ==
  /\ a = t
  /\ Active(t)
  /\ Owner(t) => \E u \in Users \ {t} : Owner(u)
  /\ r = [rows[t] EXCEPT !.status = "none"]

LeaveChat(a, t, r) ==
  /\ a = t
  /\ Active(t)
  /\ Owner(t) => \E u \in Users \ {t} : Owner(u)
  /\ r = [rows[t] EXCEPT !.status = "left"]

\* Mutant: owners are kicked like anybody else.
KickAnyone(a, t, r) ==
  /\ Manager(a)
  /\ Exists(t)
  /\ r = [rows[t] EXCEPT !.status = "left"]

KickMember(a, t, r) ==
  /\ Manager(a)
  /\ Exists(t) /\ rows[t].role # "owner"
  /\ r = [rows[t] EXCEPT !.status = "left"]

BanMember(a, t, r) ==
  /\ Manager(a)
  /\ Exists(t) /\ rows[t].role # "owner"
  /\ r.until \in {"none", "future"}
  /\ r = [rows[t] EXCEPT !.status = "banned", !.until = r.until]

UnbanMember(a, t, r) ==
  /\ Manager(a)
  /\ rows[t].status = "banned"
  /\ r = [rows[t] EXCEPT !.status = "active", !.until = "none"]

\* Some handler called by a stores row r for t.
Stores(a, t, r) ==
  \/ AddChatMember(a, t, r) \/ UpdateChatMember(a, t, r)
  \/ RemoveChatMember(a, t, r) \/ JoinChat(a, t, r) \/ LeaveChat(a, t, r)
  \/ KickMember(a, t, r) \/ BanMember(a, t, r) \/ UnbanMember(a, t, r)

Storable(a, t) == {r \in Row : Stores(a, t, r)}

Store(t, r) == rows' = [rows EXCEPT ![t] = r] /\ UNCHANGED chat

Open(a) == CreateGroup(a) \/ \E b \in Users : CreatePrivate(a, b)
                                              \/ ReopenPrivate(a, b)

\* A step of user a.
By(a) == \/ Open(a)
         \/ DeleteChat(a)
         \/ \E max \in 1..MaxSize : UpdateChat(a, max)
         \/ \E t \in Users, r \in Row : Store(t, r) /\ Stores(a, t, r)

\* Time passes the date a row holds.
DatePasses(t) ==
  /\ rows[t].until = "future"
  /\ Store(t, [rows[t] EXCEPT !.until = "past"])

Next == \E u \in Users : By(u) \/ DatePasses(u)

Spec == Init /\ [][Next]_mvars

=============================================================================
