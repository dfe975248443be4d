-------------------------- MODULE MembershipProofs --------------------------
(***************************************************************************)
(* Proofs about Membership for every set of users and every bound on the   *)
(* size of a chat.                                                         *)
(***************************************************************************)
EXTENDS Membership, FiniteSetTheorems, TLAPS

-----------------------------------------------------------------------------
(***************************************************************************)
(* Types                                                                   *)
(***************************************************************************)
LEMMA NoRowType == NoRow \in Row
  BY DEF NoRow, Row, Stored, Roles, Dates

\* Whatever a handler stores is a row of the table, and of a status that the
\* table can hold.
LEMMA StoresType ==
  ASSUME TypeOK, NEW a \in Users, NEW t \in Users, NEW r \in Row,
         Stores(a, t, r)
  PROVE  r.status \in Stored
<1>1. rows[t] \in Row
  BY DEF TypeOK
<1>2. QED
  BY <1>1 DEF Stores, AddChatMember, UpdateChatMember, RemoveChatMember,
     JoinChat, LeaveChat, KickMember, BanMember, UnbanMember, Row, Stored, Dates

LEMMA StoreType ==
  ASSUME TypeOK, NEW t \in Users, NEW r \in Row, r.status \in Stored,
         Store(t, r)
  PROVE  TypeOK'
  BY DEF TypeOK, Store, Exists, Row, Stored

LEMMA CreateType ==
  ASSUME TypeOK, NEW a \in Users, NEW us \in SUBSET Users,
         NEW kind \in {"private", "group"}, NEW max \in 1..MaxSize,
         Create(a, us, kind, max)
  PROVE  TypeOK'
<1>1. chat' \in Chat
  BY MaxSizeAssumption DEF Create, Chat
<1>2. rows' \in [Users -> Row] /\ \A u \in Users :
        rows'[u].status = "none" => rows'[u] = NoRow
  BY NoRowType DEF Create, Row, Roles, Stored, Dates
<1>3. QED
  BY <1>1, <1>2 DEF TypeOK, Exists

LEMMA ReopenType ==
  ASSUME TypeOK, NEW a \in Users, NEW b \in Users, ReopenPrivate(a, b)
  PROVE  TypeOK'
<1>1. \A u \in Users : rows'[u] \in Row
  BY DEF ReopenPrivate, TypeOK, Row, Stored
<1>2. \A u \in Users : rows'[u].status = "none" => rows'[u] = NoRow
  BY DEF ReopenPrivate, TypeOK, Exists, Row
<1>3. rows' \in [Users -> Row] /\ chat' = chat
  BY <1>1 DEF ReopenPrivate
<1>4. QED
  BY <1>2, <1>3 DEF TypeOK, Exists

LEMMA TypeStep == TypeOK /\ [Next]_mvars => TypeOK'
<1> SUFFICES ASSUME TypeOK, [Next]_mvars PROVE TypeOK'
  OBVIOUS
<1>1. ASSUME NEW a \in Users, Open(a) PROVE TypeOK'
  <2>1. CASE CreateGroup(a)
    BY <2>1, CreateType DEF CreateGroup
  <2>2. ASSUME NEW b \in Users, CreatePrivate(a, b) PROVE TypeOK'
    <3>1. Cardinality({a, b}) \in 1..MaxSize
      <4>1. IsFiniteSet({a}) /\ Cardinality({a}) = 1
        BY FS_Singleton
      <4>a. {a, b} = {a} \cup {b}
        OBVIOUS
      <4>b. Cardinality({a, b}) \in {1, 2}
        BY <4>1, <4>a, FS_AddElement
      <4>2. QED
        BY <2>2, <4>b, MaxSizeAssumption DEF CreatePrivate
    <3>2. QED
      BY <2>2, <3>1, CreateType DEF CreatePrivate
  <2>3. QED
    BY <1>1, <2>1, <2>2, ReopenType DEF Open
<1>2. ASSUME NEW a \in Users, NEW max \in 1..MaxSize, UpdateChat(a, max)
      PROVE  TypeOK'
  BY <1>2 DEF UpdateChat, TypeOK, Chat, Exists
<1>3. ASSUME NEW a \in Users, DeleteChat(a) PROVE TypeOK'
  BY <1>3, NoRowType, MaxSizeAssumption DEF DeleteChat, TypeOK, Chat, Exists
<1>4. ASSUME NEW a \in Users, NEW t \in Users, NEW r \in Row,
             Stores(a, t, r), Store(t, r)
      PROVE  TypeOK'
  BY <1>4, StoresType, StoreType
<1>5. ASSUME NEW t \in Users, DatePasses(t) PROVE TypeOK'
  <2>1. [rows[t] EXCEPT !.until = "past"] \in Row /\ rows[t].status \in Stored
    BY <1>5 DEF DatePasses, TypeOK, Row, Dates, Exists, NoRow
  <2>2. QED
    BY <1>5, <2>1, StoreType DEF DatePasses, Row
<1>6. CASE UNCHANGED mvars
  BY <1>6 DEF mvars, TypeOK, Exists
<1>7. QED
  BY <1>1, <1>2, <1>3, <1>4, <1>5, <1>6 DEF Next, By

\* The chat and its rows hold what their columns can, and a user without a row
\* has no trace of one.
THEOREM TypeCorrect == Spec => []TypeOK
<1>1. Init => TypeOK
  BY NoRowType, MaxSizeAssumption DEF Init, TypeOK, Chat
<1>2. QED
  BY <1>1, TypeStep, PTL DEF Spec

-----------------------------------------------------------------------------
(***************************************************************************)
(* The invariant: rows belong to a chat                                    *)
(***************************************************************************)
\* Without it a chat could be created over rows that exist.
NoChatNoRows == chat.kind \in {"none", "deleted"} => \A u \in Users : ~Exists(u)

IInv == TypeOK /\ NoChatNoRows

LEMMA NoChatNoRowsStep == IInv /\ [Next]_mvars => NoChatNoRows'
<1> SUFFICES ASSUME IInv, [Next]_mvars PROVE NoChatNoRows'
  OBVIOUS
<1> USE DEF IInv
<1>1. ASSUME NEW a \in Users, NEW us, NEW kind \in {"private", "group"}, NEW max,
             Create(a, us, kind, max)
      PROVE  NoChatNoRows'
  BY <1>1 DEF Create, NoChatNoRows
<1>2. ASSUME NEW a \in Users, NEW b \in Users, ReopenPrivate(a, b)
      PROVE  NoChatNoRows'
  BY <1>2 DEF ReopenPrivate, NoChatNoRows
<1>3. ASSUME NEW a \in Users, DeleteChat(a) PROVE NoChatNoRows'
  BY <1>3 DEF DeleteChat, NoChatNoRows, NoRow, Exists
<1>4. ASSUME NEW a \in Users, NEW max, UpdateChat(a, max) PROVE NoChatNoRows'
  BY <1>4 DEF UpdateChat, NoChatNoRows, TypeOK, Chat, Exists
<1>5. ASSUME NEW a \in Users, NEW t \in Users, NEW r \in Row, Stores(a, t, r),
             Store(t, r)
      PROVE  NoChatNoRows'
  <2>1. chat.kind \notin {"none", "deleted"}
    <3>1. JoinChat(a, t, r) \/ Exists(a) \/ Exists(t)
      BY <1>5 DEF Stores, AddChatMember, UpdateChatMember, RemoveChatMember,
                  LeaveChat, KickMember, BanMember, UnbanMember, Manager,
                  Active, Exists
    <3>2. QED
      BY <3>1 DEF JoinChat, NoChatNoRows
  <2>2. QED
    BY <1>5, <2>1 DEF Store, NoChatNoRows
<1>6. ASSUME NEW t \in Users, DatePasses(t) PROVE NoChatNoRows'
  BY <1>6 DEF DatePasses, Store, NoChatNoRows, TypeOK, Exists, NoRow
<1>7. CASE UNCHANGED mvars
  BY <1>7 DEF mvars, NoChatNoRows, Exists
<1>8. QED
  <2>1. ASSUME NEW a \in Users, Open(a) PROVE NoChatNoRows'
    BY <2>1, <1>1, <1>2 DEF Open, CreateGroup, CreatePrivate
  <2>2. QED
    BY <2>1, <1>3, <1>4, <1>5, <1>6, <1>7 DEF Next, By

THEOREM Invariance == Spec => []IInv
<1>1. Init => IInv
  BY NoRowType, MaxSizeAssumption
  DEF Init, IInv, TypeOK, NoChatNoRows, Chat, Exists, NoRow
<1>2. IInv /\ [Next]_mvars => IInv'
  BY TypeStep, NoChatNoRowsStep DEF IInv
<1>3. QED
  BY <1>1, <1>2, PTL DEF Spec

-----------------------------------------------------------------------------
(***************************************************************************)
(* What a user may do to a row                                             *)
(***************************************************************************)
\* Storing r for t is within the rights of a, by their rows alone.
Rightful(a, t, r) ==
  /\ a # t => Manager(a)
  /\ a # t /\ Owner(t) /\ ~Owner(a) => r.role = "owner" /\ r.status = "active"
  /\ rows[t].role # "owner" /\ r.role = "owner" => Owner(a)
  /\ BanInForce(t) /\ ~(r.status = "banned" /\ r.until # "past") =>
       a # t /\ Manager(a)

\* Every handler stores what its caller has a right to.
LEMMA StoresRightful ==
  ASSUME TypeOK, NEW a \in Users, NEW t \in Users, NEW r \in Row,
         Stores(a, t, r)
  PROVE  Rightful(a, t, r)
<1>t. rows[t] \in Row
  BY DEF TypeOK
<1>1. CASE AddChatMember(a, t, r)
  BY <1>1 DEF AddChatMember, Rightful, Owner, Active, Manager
<1>2. CASE UpdateChatMember(a, t, r)
  <2>1. Owner(t) /\ ~Owner(a) => r.role = "owner" /\ r.status = "active"
    BY <1>2 DEF UpdateChatMember, Owner, Active
  <2>2. rows[t].role # "owner" /\ r.role = "owner" => Owner(a)
    BY <1>2 DEF UpdateChatMember
  <2>3. BanInForce(t) => a # t
    BY <1>2 DEF UpdateChatMember, Manager, Active, BanInForce
  <2>4. QED
    BY <1>2, <2>1, <2>2, <2>3 DEF UpdateChatMember, Rightful
<1>3. CASE RemoveChatMember(a, t, r)
  <2>1. r.role = rows[t].role
    BY <1>t, <1>3 DEF RemoveChatMember, Row
  <2>2. QED
    BY <1>3, <2>1 DEF RemoveChatMember, Rightful, Owner, Active, BanInForce
<1>4. CASE JoinChat(a, t, r)
  <2>1. r.role = rows[t].role
    BY <1>t, <1>4 DEF JoinChat, Row
  <2>2. QED
    BY <1>4, <2>1 DEF JoinChat, Rightful
<1>5. CASE LeaveChat(a, t, r)
  <2>1. r.role = rows[t].role
    BY <1>t, <1>5 DEF LeaveChat, Row
  <2>2. QED
    BY <1>5, <2>1 DEF LeaveChat, Rightful, Active, BanInForce
<1>6. CASE KickMember(a, t, r) \/ BanMember(a, t, r)
  <2>1. r.role = rows[t].role /\ rows[t].role # "owner"
    BY <1>t, <1>6 DEF KickMember, BanMember, Row
  <2>2. QED
    BY <1>6, <2>1 DEF KickMember, BanMember, Rightful, Owner, Active,
                      BanInForce, Manager
<1>7. CASE UnbanMember(a, t, r)
  <2>1. r.role = rows[t].role
    BY <1>t, <1>7 DEF UnbanMember, Row
  <2>2. QED
    BY <1>7, <2>1 DEF UnbanMember, Rightful, Owner, Active, Manager
<1>8. QED
  BY <1>1, <1>2, <1>3, <1>4, <1>5, <1>6, <1>7 DEF Stores

\* What opening the chat does to the row of user t.
LEMMA OpenRow ==
  ASSUME NEW a \in Users, NEW t \in Users, TypeOK, Open(a)
  PROVE  \/ chat.kind = "none" /\ (rows'[t].role = "owner" => a = t)
         \/ /\ chat.kind = "private"
            /\ rows[t].status = "left"
            /\ rows'[t] = [rows[t] EXCEPT !.status = "active"]
         \/ rows'[t] = rows[t]
<1> DEFINE Goal == \/ chat.kind = "none" /\ (rows'[t].role = "owner" => a = t)
                   \/ /\ chat.kind = "private"
                      /\ rows[t].status = "left"
                      /\ rows'[t] = [rows[t] EXCEPT !.status = "active"]
                   \/ rows'[t] = rows[t]
<1>1. ASSUME NEW us \in SUBSET Users, NEW kind, NEW max, Create(a, us, kind, max)
      PROVE  Goal
  BY <1>1 DEF Create, NoRow
<1>2. ASSUME NEW b \in Users, ReopenPrivate(a, b) PROVE Goal
  BY <1>2 DEF ReopenPrivate
<1>3. QED
  BY <1>1, <1>2 DEF Open, CreateGroup, CreatePrivate
=============================================================================
