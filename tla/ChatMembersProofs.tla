------------------------- MODULE ChatMembersProofs --------------------------
(***************************************************************************)
(* Proofs about ChatMembers and ChatOverlap for any number of handlers in  *)
(* flight: a deleted chat stays deleted; a handler that no other overtook  *)
(* commits what the atomic handler of Membership would; one whose caller's *)
(* and target's rows nobody changed keeps the promises of roles and bans.  *)
(***************************************************************************)
EXTENDS ChatOverlap, MembershipProofs

\* What is known of a handler in flight, however many there are.
InFlight(w) ==
  LET r == req[w] IN
  /\ ~At(w, "idle") => chat.kind # "none" /\ r.by \in Users
  /\ At(w, "insert") => /\ r.target \in Users /\ r.patch \in Row
                        /\ r.patch.status \in Stored
  /\ At(w, "update") => r.target \in Users /\ r.patch.status # "none"

\* A deleted chat has no limit left.
NoLimit == chat.kind = "deleted" => chat.max = 0

HInv == /\ HTypeOK
        /\ NoChatNoRows
        /\ NoLimit
        /\ \A w \in Workers : InFlight(w)

LEMMA PatchedType ==
  ASSUME NEW row \in Row, row.status \in Stored, NEW patch \in Patch,
         patch.status # "none"
  PROVE  Patched(row, patch) \in Row /\ Patched(row, patch).status \in Stored
BY DEF Patched, Column, Row, Patch, Stored, Roles, Dates

LEMMA ChangesType ==
  ASSUME NEW row \in Row, NEW r \in Row, r.status \in Stored
  PROVE  Changes(row, r) \in Patch /\ Changes(row, r).status # "none"
BY DEF Changes, Kept, Row, Patch, Stored, Roles, Dates

LEMMA PatchedChanges ==
  ASSUME NEW row \in Row, NEW r \in Row
  PROVE  Patched(row, Changes(row, r)) = r
BY DEF Patched, Changes, Column, Kept, Row, Stored, Roles, Dates

\* A date that a call gives is written even if the row's lies on the same side.
LEMMA DatedType ==
  ASSUME NEW row \in Row, NEW r \in Row, r.status \in Stored, NEW patch,
         patch = [Changes(row, r) EXCEPT !.until = r.until]
  PROVE  /\ patch \in Patch /\ patch.status # "none" /\ patch.until = r.until
         /\ Patched(row, patch) = r
BY DEF Patched, Column, Changes, Kept, Row, Patch, Stored, Roles, Dates

LEMMA IdleType == Idle \in Request
  BY MaxSizeAssumption DEF Idle, Request, Nothing, Patch

LEMMA AwaitType ==
  ASSUME HTypeOK, NEW w \in Workers,
         NEW pc \in {"insert", "update", "resize", "delete"},
         NEW a \in Users, NEW t \in Users \cup {NoUser}, NEW patch \in Patch,
         NEW max \in 0..MaxSize, Await(w, pc, a, t, patch, max)
  PROVE  /\ HTypeOK'
         /\ req'[w] = [pc |-> pc, by |-> a, target |-> t, patch |-> patch,
                       max |-> max]
<1>1. [pc |-> pc, by |-> a, target |-> t, patch |-> patch, max |-> max] \in Request
  BY DEF Request
<1>2. req' \in [Workers -> Request]
  BY <1>1 DEF Await, HTypeOK
<1>3. TypeOK'
  BY DEF Await, HTypeOK, TypeOK, mvars, Exists
<1>4. QED
  BY <1>2, <1>3 DEF HTypeOK, Await

LEMMA DoneType ==
  ASSUME HTypeOK, NEW w \in Workers, Done(w)
  PROVE  req' \in [Workers -> Request] /\ req'[w] = Idle
BY IdleType DEF HTypeOK, Done

\* The other handlers' records are their own.
LEMMA OnlyMover ==
  ASSUME HTypeOK, NEW w \in Workers,
         Begin(w) \/ Commit(w) \/ Cancel(w) \/ DateRunsOut(w)
  PROVE  \A v \in Workers \ {w} : req'[v] = req[v]
BY DEF Begin, Commit, Cancel, DateRunsOut, ReadMember, ReadAndDate, ReadForUpdateChat, ReadForDeleteChat, OpenChat,
       Await, Done, CommitInsert, CommitUpdate, CommitUpdateChat,
       CommitDeleteChat, HTypeOK

\* A chat that exists never goes back to not existing.
LEMMA ChatRemains ==
  ASSUME HInv, [HNext]_hvars, chat.kind # "none"
  PROVE  chat'.kind # "none"
<1>1. ASSUME NEW w \in Workers, Begin(w) PROVE chat' = chat
  BY <1>1 DEF Begin, ReadMember, ReadAndDate, ReadForUpdateChat,
     ReadForDeleteChat, OpenChat, Await, mvars, Open, CreateGroup, CreatePrivate, Create, ReopenPrivate
<1>2. ASSUME NEW w \in Workers, Commit(w) PROVE chat'.kind # "none"
  BY <1>2 DEF Commit, CommitInsert, CommitUpdate, CommitUpdateChat,
     CommitDeleteChat, HInv, HTypeOK, TypeOK, Chat
<1>3. ASSUME NEW t \in Users, Clock(t) PROVE chat' = chat
  BY <1>3 DEF Clock, DatePasses, Store
<1>4. ASSUME NEW w \in Workers, Cancel(w) PROVE chat' = chat
  BY <1>4 DEF Cancel, mvars
<1>5. ASSUME NEW w \in Workers, DateRunsOut(w) PROVE chat' = chat
  BY <1>5 DEF DateRunsOut, mvars
<1>6. QED
  BY <1>1, <1>2, <1>3, <1>4, <1>5 DEF HNext, hvars

-----------------------------------------------------------------------------
(***************************************************************************)
(* The invariant for any number of handlers                                *)
(***************************************************************************)
\* A handler stores only where a chat is.
LEMMA StoresInChat ==
  ASSUME TypeOK, NoChatNoRows, NEW a \in Users, NEW t \in Users, NEW r \in Row,
         Stores(a, t, r)
  PROVE  chat.kind \notin {"none", "deleted"}
<1>1. JoinChat(a, t, r) \/ Exists(a) \/ Exists(t)
  BY DEF Stores, AddChatMember, UpdateChatMember, RemoveChatMember, LeaveChat,
         KickMember, BanMember, UnbanMember, Manager, Active, Exists
<1>2. QED
  BY <1>1 DEF JoinChat, NoChatNoRows

LEMMA BeginStep ==
  ASSUME HInv, NEW w \in Workers, Begin(w)
  PROVE  HTypeOK' /\ [Next]_mvars /\ InFlight(w)'
<1> DEFINE Goal == HTypeOK' /\ [Next]_mvars /\ InFlight(w)'
<1>t. HTypeOK /\ TypeOK /\ NoChatNoRows
  BY DEF HInv, HTypeOK
<1>1. ASSUME NEW a \in Users, NEW t \in Users, NEW r \in Row, Stores(a, t, r)
      PROVE  r.status \in Stored /\ rows[t] \in Row /\ chat.kind # "none"
  BY <1>1, <1>t, StoresType, StoresInChat DEF TypeOK
<1>2. ASSUME NEW a \in Users, NEW t \in Users, NEW patch \in Patch,
             patch.status # "none", chat.kind # "none",
             Await(w, "update", a, t, patch, 0)
      PROVE  Goal
  <2>1. HTypeOK' /\ req'[w] = [pc |-> "update", by |-> a, target |-> t,
                               patch |-> patch, max |-> 0]
    BY <1>t, <1>2, AwaitType, MaxSizeAssumption
  <2>2. UNCHANGED mvars
    BY <1>2 DEF Await
  <2>3. QED
    BY <1>2, <2>1, <2>2 DEF InFlight, At, mvars
<1>3. ASSUME NEW a \in Users, NEW t \in Users, NEW r \in Row, ReadMember(w, a, t, r)
      PROVE  Goal
  <2>1. r.status \in Stored /\ rows[t] \in Row /\ chat.kind # "none"
    BY <1>1, <1>3 DEF ReadMember, Storable
  <2>2. CASE Exists(t)
    <3>1. Changes(rows[t], r) \in Patch /\ Changes(rows[t], r).status # "none"
      BY <2>1, ChangesType
    <3>2. QED
      BY <1>2, <1>3, <2>1, <2>2, <3>1 DEF ReadMember
  <2>3. CASE ~Exists(t)
    <3>1. r \in Patch
      BY DEF Row, Patch, Stored, Roles, Dates
    <3>2. Await(w, "insert", a, t, r, 0)
      BY <1>3, <2>3 DEF ReadMember
    <3>3. HTypeOK' /\ req'[w] = [pc |-> "insert", by |-> a, target |-> t,
                                 patch |-> r, max |-> 0]
      BY <1>t, <3>1, <3>2, AwaitType, MaxSizeAssumption
    <3>4. UNCHANGED mvars
      BY <3>2 DEF Await
    <3>5. QED
      BY <2>1, <3>3, <3>4 DEF InFlight, At, mvars
  <2>4. QED
    BY <2>2, <2>3
<1>4. ASSUME NEW a \in Users, NEW t \in Users, NEW r \in Row, ReadAndDate(w, a, t, r)
      PROVE  Goal
  <2>1. Stores(a, t, r)
    BY <1>4 DEF ReadAndDate, Stores
  <2>2. r.status \in Stored /\ rows[t] \in Row /\ chat.kind # "none"
    BY <1>1, <2>1
  <2>3. PICK patch : patch = [Changes(rows[t], r) EXCEPT !.until = r.until]
    OBVIOUS
  <2>4. patch \in Patch /\ patch.status # "none"
    BY <2>2, <2>3, DatedType
  <2>5. QED
    BY <1>2, <1>4, <2>2, <2>3, <2>4 DEF ReadAndDate
<1>5. Nothing \in Patch
  BY DEF Nothing, Patch
<1>6. ASSUME NEW a \in Users, NEW max \in 1..MaxSize, ReadForUpdateChat(w, a, max)
      PROVE  Goal
  <2>1. Await(w, "resize", a, NoUser, Nothing, max)
    BY <1>6 DEF ReadForUpdateChat
  <2>2. HTypeOK' /\ req'[w] = [pc |-> "resize", by |-> a, target |-> NoUser,
                               patch |-> Nothing, max |-> max]
    BY <1>t, <1>5, <2>1, AwaitType, MaxSizeAssumption
  <2>3. chat.kind # "none" /\ UNCHANGED mvars
    BY <1>6, <1>t, <2>1
    DEF ReadForUpdateChat, Await, MayResize, Manager, Active, NoChatNoRows, Exists
  <2>4. QED
    BY <2>2, <2>3 DEF InFlight, At, mvars
<1>7. ASSUME NEW a \in Users, ReadForDeleteChat(w, a) PROVE Goal
  <2>1. Await(w, "delete", a, NoUser, Nothing, 0)
    BY <1>7 DEF ReadForDeleteChat
  <2>2. HTypeOK' /\ req'[w] = [pc |-> "delete", by |-> a, target |-> NoUser,
                               patch |-> Nothing, max |-> 0]
    BY <1>t, <1>5, <2>1, AwaitType, MaxSizeAssumption
  <2>3. chat.kind # "none" /\ UNCHANGED mvars
    BY <1>7, <1>t, <2>1
    DEF ReadForDeleteChat, Await, Owner, Active, NoChatNoRows, Exists
  <2>4. QED
    BY <2>2, <2>3 DEF InFlight, At, mvars
<1>8. ASSUME NEW a \in Users, OpenChat(w, a) PROVE Goal
  <2>1. Next
    BY <1>8 DEF OpenChat, Next, By
  <2>2. TypeOK' /\ req' = req /\ At(w, "idle")
    BY <1>8, <1>t, <2>1, TypeStep DEF OpenChat
  <2>3. QED
    BY <1>t, <2>1, <2>2 DEF HTypeOK, InFlight, At
<1>9. QED
  BY <1>3, <1>4, <1>6, <1>7, <1>8 DEF Begin

LEMMA CommitStep ==
  ASSUME HInv, NEW w \in Workers, Commit(w)
  PROVE  HTypeOK' /\ NoChatNoRows' /\ req'[w] = Idle
<1> DEFINE r == req[w]
<1>t. HTypeOK /\ TypeOK /\ NoChatNoRows /\ InFlight(w) /\ r \in Request
  BY DEF HInv, HTypeOK
<1>d. Done(w)
  BY DEF Commit, CommitInsert, CommitUpdate, CommitUpdateChat, CommitDeleteChat
<1>r. req' \in [Workers -> Request] /\ req'[w] = Idle
  BY <1>t, <1>d, DoneType
<1>1. CASE CommitInsert(w)
  <2>1. r.target \in Users /\ r.patch \in Row /\ r.patch.status \in Stored
        /\ chat.kind # "none"
    BY <1>1, <1>t DEF CommitInsert, InFlight, At
  <2>2. CASE chat.kind # "deleted" /\ ~Exists(r.target)
    <3>1. Store(r.target, r.patch)
      BY <1>1, <2>2 DEF CommitInsert, Store
    <3>2. TypeOK'
      BY <1>t, <2>1, <3>1, StoreType
    <3>3. NoChatNoRows'
      BY <2>1, <2>2, <3>1 DEF Store, NoChatNoRows
    <3>4. QED
      BY <1>r, <3>2, <3>3 DEF HTypeOK
  <2>3. CASE UNCHANGED mvars
    BY <1>r, <1>t, <2>3 DEF mvars, HTypeOK, TypeOK, NoChatNoRows, Exists
  <2>4. QED
    BY <1>1, <2>2, <2>3 DEF CommitInsert, mvars
<1>2. CASE CommitUpdate(w)
  <2>1. r.target \in Users /\ r.patch \in Patch /\ r.patch.status # "none"
    BY <1>2, <1>t DEF CommitUpdate, InFlight, At, Request
  <2>2. CASE Exists(r.target)
    <3>1. rows[r.target] \in Row /\ rows[r.target].status \in Stored
      BY <1>t, <2>1, <2>2 DEF TypeOK, Exists, Row
    <3>2. Patched(rows[r.target], r.patch) \in Row
          /\ Patched(rows[r.target], r.patch).status \in Stored
      BY <2>1, <3>1, PatchedType
    <3>3. Store(r.target, Patched(rows[r.target], r.patch))
      BY <1>2, <2>2 DEF CommitUpdate, Store
    <3>4. TypeOK'
      BY <1>t, <2>1, <3>2, <3>3, StoreType
    <3>5. NoChatNoRows'
      BY <1>t, <2>1, <2>2, <3>3 DEF Store, NoChatNoRows
    <3>6. QED
      BY <1>r, <3>4, <3>5 DEF HTypeOK
  <2>3. CASE UNCHANGED mvars
    BY <1>r, <1>t, <2>3 DEF mvars, HTypeOK, TypeOK, NoChatNoRows, Exists
  <2>4. QED
    BY <1>2, <2>2, <2>3 DEF CommitUpdate, mvars
<1>3. CASE CommitUpdateChat(w)
  <2>1. chat' \in Chat /\ chat'.kind = chat.kind /\ rows' = rows
    BY <1>3, <1>t DEF CommitUpdateChat, TypeOK, Chat, Request
  <2>2. QED
    BY <1>r, <1>t, <2>1 DEF HTypeOK, TypeOK, NoChatNoRows, Exists
<1>4. CASE CommitDeleteChat(w)
  <2>1. TypeOK' /\ NoChatNoRows'
    BY <1>4, NoRowType, MaxSizeAssumption
    DEF CommitDeleteChat, TypeOK, Chat, NoChatNoRows, Exists, NoRow
  <2>2. QED
    BY <1>r, <2>1 DEF HTypeOK
<1>5. QED
  BY <1>1, <1>2, <1>3, <1>4 DEF Commit

LEMMA ClockStep ==
  ASSUME HInv, NEW t \in Users, Clock(t)
  PROVE  HTypeOK' /\ Next /\ req' = req
<1>1. Next /\ req' = req
  BY DEF Clock, Next
<1>2. QED
  BY <1>1, TypeStep DEF HInv, HTypeOK

LEMMA CancelStep ==
  ASSUME HInv, NEW w \in Workers, Cancel(w)
  PROVE  HTypeOK' /\ NoChatNoRows' /\ req'[w] = Idle /\ UNCHANGED mvars
<1>1. UNCHANGED mvars /\ Done(w) /\ HTypeOK /\ TypeOK /\ NoChatNoRows
  BY DEF Cancel, HInv, HTypeOK
<1>2. req' \in [Workers -> Request] /\ req'[w] = Idle
  BY <1>1, DoneType
<1>3. QED
  BY <1>1, <1>2 DEF mvars, HTypeOK, TypeOK, NoChatNoRows, Exists

LEMMA RunsOutStep ==
  ASSUME HInv, NEW w \in Workers, DateRunsOut(w)
  PROVE  /\ HTypeOK' /\ NoChatNoRows' /\ InFlight(w)' /\ UNCHANGED mvars
         /\ req'[w] = [req[w] EXCEPT !.patch = [@ EXCEPT !.until = "past"]]
         /\ At(w, "update") /\ req[w].patch.until = "future"
<1>1. /\ HTypeOK /\ TypeOK /\ NoChatNoRows /\ InFlight(w) /\ req[w] \in Request
      /\ UNCHANGED mvars /\ At(w, "update") /\ req[w].patch.until = "future"
  BY DEF HInv, HTypeOK, DateRunsOut
<1>2. PICK r : r = [req[w] EXCEPT !.patch = [@ EXCEPT !.until = "past"]]
  OBVIOUS
<1>3. /\ r \in Request /\ r.pc = req[w].pc /\ r.by = req[w].by
      /\ r.target = req[w].target /\ r.patch.status = req[w].patch.status
  BY <1>1, <1>2 DEF Request, Patch, Dates
<1>4. req' = [req EXCEPT ![w] = r]
  BY <1>2 DEF DateRunsOut
<1>5. req' \in [Workers -> Request] /\ req'[w] = r
  BY <1>1, <1>3, <1>4 DEF HTypeOK
<1>6. TypeOK' /\ NoChatNoRows'
  BY <1>1 DEF mvars, TypeOK, NoChatNoRows, Exists
<1>7. InFlight(w)'
  BY <1>1, <1>3, <1>5 DEF InFlight, At, mvars
<1>8. QED
  BY <1>1, <1>2, <1>5, <1>6, <1>7 DEF HTypeOK

\* From a deleted chat every step leaves the chat and its rows as they are.
LEMMA DeletedStep ==
  ASSUME HInv, [HNext]_hvars, chat.kind = "deleted"
  PROVE  UNCHANGED mvars /\ \A u \in Users : ~Exists(u)
<1>t. TypeOK /\ NoChatNoRows /\ chat.max = 0
  BY DEF HInv, HTypeOK, NoLimit
<1>e. \A u \in Users : ~Exists(u) /\ rows[u] = NoRow
  BY <1>t DEF TypeOK, NoChatNoRows
<1>1. ASSUME NEW w \in Workers, Begin(w) PROVE UNCHANGED mvars
  <2>1. ASSUME NEW a \in Users, OpenChat(w, a) PROVE FALSE
    BY <2>1 DEF OpenChat, Open, CreateGroup, CreatePrivate, Create, ReopenPrivate
  <2>2. QED
    BY <1>1, <2>1 DEF Begin, ReadMember, Storable, ReadAndDate, ReadForUpdateChat,
       ReadForDeleteChat, Await
<1>2. ASSUME NEW w \in Workers, CommitInsert(w) PROVE UNCHANGED mvars
  BY <1>2 DEF CommitInsert, mvars
<1>3. ASSUME NEW w \in Workers, CommitUpdate(w) PROVE UNCHANGED mvars
  <2>1. req[w].target \in Users
    BY <1>3 DEF CommitUpdate, At, HInv, InFlight
  <2>2. QED
    BY <1>3, <1>e, <2>1 DEF CommitUpdate, mvars
<1>4. ASSUME NEW w \in Workers, CommitUpdateChat(w) PROVE UNCHANGED mvars
  BY <1>4 DEF CommitUpdateChat, mvars
<1>5. ASSUME NEW w \in Workers, CommitDeleteChat(w) PROVE UNCHANGED mvars
  <2>1. rows' = rows
    BY <1>5, <1>e, <1>t DEF CommitDeleteChat, TypeOK
  <2>2. chat' = chat
    BY <1>5, <1>t DEF CommitDeleteChat, TypeOK, Chat
  <2>3. QED
    BY <2>1, <2>2 DEF mvars
<1>6. ASSUME NEW t \in Users, Clock(t) PROVE FALSE
  BY <1>6, <1>e DEF Clock, DatePasses, NoRow
<1>7. ASSUME NEW w \in Workers, Cancel(w) \/ DateRunsOut(w) PROVE UNCHANGED mvars
  BY <1>7 DEF Cancel, DateRunsOut
<1>8. QED
  BY <1>e, <1>1, <1>2, <1>3, <1>4, <1>5, <1>6, <1>7 DEF HNext, Commit, hvars, mvars

\* Only DeleteChat makes a chat a deleted one.
LEMMA NoLimitStep == HInv /\ [HNext]_hvars => NoLimit'
<1> SUFFICES ASSUME HInv, [HNext]_hvars PROVE NoLimit'
  OBVIOUS
<1>1. CASE chat.kind = "deleted"
  BY <1>1, DeletedStep DEF mvars, NoLimit, HInv
<1>2. CASE chat.kind # "deleted"
  <2>1. ASSUME NEW w \in Workers, Begin(w) PROVE chat'.kind # "deleted"
    <3>1. ASSUME NEW a \in Users, OpenChat(w, a) PROVE chat'.kind # "deleted"
      <4>1. ASSUME NEW us, NEW kind \in {"private", "group"}, NEW max,
                   Create(a, us, kind, max)
            PROVE  chat'.kind # "deleted"
        BY <4>1 DEF Create
      <4>2. ASSUME NEW b, ReopenPrivate(a, b) PROVE chat' = chat
        BY <4>2 DEF ReopenPrivate
      <4>3. QED
        BY <1>2, <3>1, <4>1, <4>2 DEF OpenChat, Open, CreateGroup, CreatePrivate
    <3>2. QED
      BY <1>2, <2>1, <3>1 DEF Begin, ReadMember, ReadAndDate, ReadForUpdateChat,
         ReadForDeleteChat, Await, mvars
  <2>2. ASSUME NEW w \in Workers, Commit(w) PROVE NoLimit'
    BY <1>2, <2>2 DEF Commit, CommitInsert, CommitUpdate, CommitUpdateChat,
       CommitDeleteChat, HInv, HTypeOK, TypeOK, Chat, NoLimit
  <2>3. ASSUME NEW t \in Users, Clock(t) PROVE chat' = chat
    BY <2>3 DEF Clock, DatePasses, Store
  <2>4. ASSUME NEW w \in Workers, Cancel(w) \/ DateRunsOut(w) PROVE chat' = chat
    BY <2>4 DEF Cancel, DateRunsOut, mvars
  <2>5. QED
    BY <1>2, <2>1, <2>2, <2>3, <2>4 DEF HNext, hvars, NoLimit
<1>3. QED
  BY <1>1, <1>2

LEMMA HInvStep == HInv /\ [HNext]_hvars => HInv'
<1> SUFFICES ASSUME HInv, [HNext]_hvars PROVE HInv'
  OBVIOUS
<1>t. IInv /\ HTypeOK
  BY DEF HInv, HTypeOK, IInv
<1>l. NoLimit'
  BY NoLimitStep
\* A handler that does not move keeps what it knows.
<1>1. ASSUME NEW v \in Workers, req'[v] = req[v] PROVE InFlight(v)'
  BY <1>1, ChatRemains DEF HInv, InFlight, At
<1>2. ASSUME NEW w \in Workers, Begin(w) PROVE HInv'
  <2>1. HTypeOK' /\ InFlight(w)' /\ NoChatNoRows'
    BY <1>t, <1>2, BeginStep, NoChatNoRowsStep
  <2>2. \A v \in Workers : InFlight(v)'
    BY <1>1, <1>2, <1>t, <2>1, OnlyMover
  <2>3. QED
    BY <1>l, <2>1, <2>2 DEF HInv
<1>3. ASSUME NEW w \in Workers, Commit(w) \/ Cancel(w) PROVE HInv'
  <2>1. HTypeOK' /\ NoChatNoRows' /\ req'[w] = Idle
    BY <1>3, CommitStep, CancelStep
  <2>2. InFlight(w)'
    BY <2>1 DEF InFlight, At, Idle
  <2>3. \A v \in Workers : InFlight(v)'
    BY <1>1, <1>3, <1>t, <2>2, OnlyMover
  <2>4. QED
    BY <1>l, <2>1, <2>3 DEF HInv
<1>4. ASSUME NEW t \in Users, Clock(t) PROVE HInv'
  <2>1. HTypeOK' /\ NoChatNoRows' /\ req' = req
    BY <1>t, <1>4, ClockStep, NoChatNoRowsStep
  <2>2. \A v \in Workers : InFlight(v)'
    BY <1>1, <2>1
  <2>3. QED
    BY <1>l, <2>1, <2>2 DEF HInv
<1>5. CASE UNCHANGED hvars
  <2>1. HTypeOK' /\ NoChatNoRows'
    BY <1>t, <1>5 DEF hvars, HTypeOK, TypeOK, IInv, NoChatNoRows, Exists
  <2>2. \A v \in Workers : InFlight(v)'
    BY <1>1, <1>5 DEF hvars
  <2>3. QED
    BY <1>l, <2>1, <2>2 DEF HInv
<1>6. ASSUME NEW w \in Workers, DateRunsOut(w) PROVE HInv'
  <2>1. HTypeOK' /\ NoChatNoRows' /\ InFlight(w)'
    BY <1>6, RunsOutStep
  <2>2. \A v \in Workers : InFlight(v)'
    BY <1>1, <1>6, <1>t, <2>1, OnlyMover
  <2>3. QED
    BY <1>l, <2>1, <2>2 DEF HInv
<1>7. QED
  BY <1>2, <1>3, <1>4, <1>5, <1>6 DEF HNext

LEMMA HInvInit == HInit => HInv
<1> SUFFICES ASSUME HInit PROVE HInv
  OBVIOUS
<1>1. TypeOK /\ NoChatNoRows /\ NoLimit
  BY NoRowType, MaxSizeAssumption
  DEF HInit, Init, TypeOK, NoChatNoRows, NoLimit, Chat, Exists, NoRow
<1>2. HTypeOK
  BY <1>1, IdleType DEF HInit, HTypeOK
<1>3. \A w \in Workers : InFlight(w)
  BY DEF HInit, InFlight, At, Idle
<1>4. QED
  BY <1>1, <1>2, <1>3 DEF HInv

LEMMA HandlersInvariance == HSpec => []HInv
  BY HInvInit, HInvStep, PTL DEF HSpec

\* No commit of a handler that had read a chat brings it, its limit or its rows
\* back once it is deleted.
THEOREM DeletedForGoodHolds == HSpec => DeletedForGood
<1>1. HInv /\ [HNext]_hvars =>
        [chat.kind = "deleted" =>
           UNCHANGED mvars /\ \A u \in Users : ~Exists(u)]_hvars
  BY DeletedStep
<1>2. QED
  BY <1>1, HandlersInvariance, PTL DEF HSpec, DeletedForGood

\* Types of the chat, its rows and the handlers in flight.
THEOREM HandlersTypeCorrect == HSpec => []HTypeOK
<1>1. HInv => HTypeOK
  BY DEF HInv
<1>2. QED
  BY <1>1, HandlersInvariance, PTL

-----------------------------------------------------------------------------
(***************************************************************************)
(* What a handler in flight may still do                                   *)
(***************************************************************************)
\* What w is about to commit is what its caller's handler would store now.
Due(w) ==
  LET a == req[w].by
      t == req[w].target
      patch == req[w].patch
  IN
  /\ At(w, "insert") => ~Exists(t) /\ Stores(a, t, patch)
  /\ At(w, "update") =>
       /\ Exists(t)
       /\ Stores(a, t, Patched(rows[t], patch))
       /\ patch.until = "future" => UpdateChatMember(a, t, Patched(rows[t], patch))
  /\ At(w, "resize") => req[w].max \in 1..MaxSize /\ MayResize(a, req[w].max)
  /\ At(w, "delete") => Owner(a)

\* What w is about to commit is within its caller's rights.
Right(w) ==
  LET a == req[w].by
      t == req[w].target
      patch == req[w].patch
  IN
  /\ At(w, "insert") => ~Exists(t) /\ Rightful(a, t, patch)
  /\ At(w, "update") => /\ Rightful(a, t, Patched(rows[t], patch))
                        /\ patch.until = "future" => Manager(a)
  /\ At(w, "delete") => Owner(a)

\* The handlers that no other overtook, and those it did not cross.
OInv == /\ HInv
        /\ \A w \in Workers \ overtaken : Due(w)
        /\ \A w \in Workers \ crossed : Right(w)

\* Time changes a date and nothing else that a guard reads.
LEMMA ClockFrame ==
  ASSUME TypeOK, NEW x \in Users, DatePasses(x)
  PROVE  /\ \A u \in Users : /\ rows'[u].role = rows[u].role
                             /\ rows'[u].status = rows[u].status
                             /\ u # x => rows'[u] = rows[u]
         /\ rows[x].until = "future" /\ rows'[x].until = "past"
         /\ rows[x].status # "none"
         /\ chat' = chat
<1>1. chat' = chat /\ rows[x].until = "future"
      /\ rows' = [rows EXCEPT ![x] = [rows[x] EXCEPT !.until = "past"]]
  BY DEF DatePasses, Store
<1>2. rows[x] \in Row /\ rows[x].status # "none"
  BY <1>1 DEF TypeOK, NoRow, Exists
<1>3. QED
  BY <1>1, <1>2 DEF TypeOK, Row

\* Rights, seats and bans are read off the rows' roles, statuses and dates.
LEMMA ClockGuards ==
  ASSUME TypeOK, NEW x \in Users, DatePasses(x)
  PROVE  /\ HasRoom' = HasRoom
         /\ \A max : \A u \in Users : MayResize(u, max) =>
              /\ rows'[u].status = "active"
              /\ rows'[u].role \in {"owner", "admin"}
              /\ Cardinality(ActiveUsers') <= max
<1>1. ActiveUsers' = ActiveUsers
  BY ClockFrame DEF ActiveUsers, Active
<1>2. QED
  BY <1>1, ClockFrame DEF HasRoom, MayResize, Manager, Active

\* What a handler may store for another row than the one whose date passes, it
\* may store afterwards.
LEMMA ClockStoresOther ==
  ASSUME TypeOK, NEW x \in Users, DatePasses(x), NEW a \in Users,
         NEW t \in Users \ {x}, NEW r, Stores(a, t, r)
  PROVE  Stores(a, t, r)'
<1>f. /\ \A u \in Users : /\ rows'[u].role = rows[u].role
                          /\ rows'[u].status = rows[u].status
      /\ rows'[t] = rows[t] /\ chat' = chat /\ HasRoom' = HasRoom
  BY ClockFrame, ClockGuards
<1>2. CASE AddChatMember(a, t, r)
  <2>1. AddChatMember(a, t, r)'
    BY <1>f, <1>2 DEF AddChatMember, Manager, Active, BanInForce
  <2>2. QED
    BY <2>1 DEF Stores
<1>3. CASE UpdateChatMember(a, t, r)
  <2>1. UpdateChatMember(a, t, r)'
    BY <1>f, <1>3 DEF UpdateChatMember, Manager, Owner, Active, Exists
  <2>2. QED
    BY <2>1 DEF Stores
<1>4. CASE RemoveChatMember(a, t, r)
  <2>1. RemoveChatMember(a, t, r)'
    BY <1>f, <1>4 DEF RemoveChatMember, Manager, Active, Exists
  <2>2. QED
    BY <2>1 DEF Stores
<1>5. CASE JoinChat(a, t, r)
  <2>1. JoinChat(a, t, r)'
    BY <1>f, <1>5 DEF JoinChat, Active, BanInForce
  <2>2. QED
    BY <2>1 DEF Stores
<1>6. CASE LeaveChat(a, t, r)
  <2>1. LeaveChat(a, t, r)'
    BY <1>f, <1>6 DEF LeaveChat, Owner, Active
  <2>2. QED
    BY <2>1 DEF Stores
<1>7. CASE KickMember(a, t, r)
  <2>1. KickMember(a, t, r)'
    BY <1>f, <1>7 DEF KickMember, Manager, Active, Exists
  <2>2. QED
    BY <2>1 DEF Stores
<1>8. CASE BanMember(a, t, r)
  <2>1. BanMember(a, t, r)'
    BY <1>f, <1>8 DEF BanMember, Manager, Active, Exists
  <2>2. QED
    BY <2>1 DEF Stores
<1>9. CASE UnbanMember(a, t, r)
  <2>1. UnbanMember(a, t, r)'
    BY <1>f, <1>9 DEF UnbanMember, Manager, Active
  <2>2. QED
    BY <2>1 DEF Stores
<1>10. QED
  BY <1>2, <1>3, <1>4, <1>5, <1>6, <1>7, <1>8, <1>9 DEF Stores

\* What a handler is about to write over the row whose date passes, it may
\* write afterwards; a ban set for as long as the one that ran out is then
\* what UpdateChatMember may store.
LEMMA ClockStoresSame ==
  ASSUME TypeOK, NEW x \in Users, DatePasses(x), NEW a \in Users,
         NEW r \in Row, NEW s \in Row, Stores(a, x, r),
         s.role = r.role, s.status = r.status,
         s.until = IF r.until = "future" THEN "past" ELSE r.until
  PROVE  Stores(a, x, s)'
<1>f. /\ \A u \in Users : rows'[u].role = rows[u].role
      /\ \A u \in Users : rows'[u].status = rows[u].status
      /\ rows[x].until = "future" /\ rows'[x].until = "past"
      /\ rows[x].status # "none"
      /\ chat' = chat /\ HasRoom' = HasRoom
  BY ClockFrame, ClockGuards
<1>1. rows[x] \in Row /\ rows'[x] \in Row /\ r.status \in Stored
  BY TypeStep, StoresType DEF TypeOK, Next
<1>3. ASSUME AddChatMember(a, x, r) PROVE AddChatMember(a, x, s)'
  BY <1>f, <1>3 DEF AddChatMember, Manager, Active, BanInForce
<1>4. ASSUME UpdateChatMember(a, x, r) PROVE UpdateChatMember(a, x, s)'
  BY <1>f, <1>1, <1>4 DEF UpdateChatMember, Manager, Owner, Active, Exists
<1>5. ASSUME BanMember(a, x, r) PROVE UpdateChatMember(a, x, s)' \/ BanMember(a, x, s)'
  <2>1. CASE r.until = "future"
    <3>1. s.until = "past" /\ s.role = rows'[x].role /\ s.role # "owner"
          /\ s.status = "banned"
      BY <1>f, <1>1, <1>5, <2>1 DEF BanMember, Row
    <3>2. UpdateChatMember(a, x, s)'
      BY <1>f, <1>5, <3>1 DEF BanMember, UpdateChatMember, Manager, Active, Exists, Stored
    <3>3. QED
      BY <3>2
  <2>2. CASE r.until # "future"
    <3>1. s.until = "none" /\ s.role = rows'[x].role /\ s.status = "banned"
      BY <1>f, <1>1, <1>5, <2>2 DEF BanMember, Row
    <3>2. s = [rows'[x] EXCEPT !.status = "banned", !.until = s.until]
      BY <1>1, <3>1 DEF Row
    <3>3. BanMember(a, x, s)'
      BY <1>f, <1>5, <3>1, <3>2 DEF BanMember, Manager, Active, Exists
    <3>4. QED
      BY <3>3
  <2>3. QED
    BY <2>1, <2>2
<1>6. ASSUME r = [rows[x] EXCEPT !.status = r.status]
      PROVE  s = [rows'[x] EXCEPT !.status = s.status]
  <2>1. r.role = rows[x].role /\ r.until = "future"
    BY <1>f, <1>1, <1>6 DEF Row
  <2>2. s.role = rows'[x].role /\ s.until = rows'[x].until
    BY <1>f, <2>1
  <2>3. QED
    BY <1>1, <2>2 DEF Row
<1>7. ASSUME r = [rows[x] EXCEPT !.status = r.status, !.until = "none"]
      PROVE  s = [rows'[x] EXCEPT !.status = s.status, !.until = "none"]
  <2>1. r.role = rows[x].role /\ r.until = "none"
    BY <1>1, <1>7 DEF Row
  <2>2. s.role = rows'[x].role /\ s.until = "none"
    BY <1>f, <2>1
  <2>3. QED
    BY <1>1, <2>2 DEF Row
<1>8. ASSUME RemoveChatMember(a, x, r) PROVE RemoveChatMember(a, x, s)'
  <2>1. r.status = "left" /\ r = [rows[x] EXCEPT !.status = r.status, !.until = "none"]
    BY <1>1, <1>8 DEF RemoveChatMember, Row
  <2>2. QED
    BY <1>f, <1>7, <1>8, <2>1 DEF RemoveChatMember, Manager, Active, Exists
<1>9. ASSUME JoinChat(a, x, r) PROVE JoinChat(a, x, s)'
  <2>1. r.status = "active" /\ r = [rows[x] EXCEPT !.status = r.status, !.until = "none"]
    BY <1>1, <1>9 DEF JoinChat, Row
  <2>2. QED
    BY <1>f, <1>7, <1>9, <2>1 DEF JoinChat, Active, BanInForce
<1>10. ASSUME LeaveChat(a, x, r) PROVE LeaveChat(a, x, s)'
  <2>1. r.status = "left" /\ r = [rows[x] EXCEPT !.status = r.status]
    BY <1>1, <1>10 DEF LeaveChat, Row
  <2>2. QED
    BY <1>f, <1>6, <1>10, <2>1 DEF LeaveChat, Owner, Active
<1>11. ASSUME KickMember(a, x, r) PROVE KickMember(a, x, s)'
  <2>1. r.status = "left" /\ r = [rows[x] EXCEPT !.status = r.status]
    BY <1>1, <1>11 DEF KickMember, Row
  <2>2. QED
    BY <1>f, <1>6, <1>11, <2>1 DEF KickMember, Manager, Active, Exists
<1>12. ASSUME UnbanMember(a, x, r) PROVE UnbanMember(a, x, s)'
  <2>1. r.status = "active" /\ r = [rows[x] EXCEPT !.status = r.status, !.until = "none"]
    BY <1>1, <1>12 DEF UnbanMember, Row
  <2>2. QED
    BY <1>f, <1>7, <1>12, <2>1 DEF UnbanMember, Manager, Active
<1>13. QED
  BY <1>3, <1>4, <1>5, <1>8, <1>9, <1>10, <1>11, <1>12 DEF Stores

\* A date that a call gives, it may still give once it has passed.
LEMMA DatedStores ==
  ASSUME NEW a, NEW t, NEW r \in Row, r.until = "future",
         UpdateChatMember(a, t, r)
  PROVE  UpdateChatMember(a, t, [r EXCEPT !.until = "past"])
BY DEF UpdateChatMember, Row

\* Only UpdateChatMember and BanMember give a date.
LEMMA DatesAreGiven ==
  ASSUME TypeOK, NEW a \in Users, NEW t \in Users, NEW r \in Row,
         Stores(a, t, r), r.until = "future", rows[t].until # "future"
  PROVE  UpdateChatMember(a, t, r)
<1>t. rows[t] \in Row
  BY DEF TypeOK
<1>1. CASE BanMember(a, t, r)
  <2>1. r.role = rows[t].role /\ rows[t].role # "owner" /\ r.status = "banned"
    BY <1>t, <1>1 DEF BanMember, Row
  <2>2. QED
    BY <1>1, <2>1 DEF BanMember, UpdateChatMember, Stored
<1>2. CASE ~BanMember(a, t, r)
  BY <1>t, <1>2
  DEF Stores, AddChatMember, RemoveChatMember, JoinChat, LeaveChat, KickMember,
      UnbanMember, Row
<1>3. QED
  BY <1>1, <1>2

LEMMA StoresSame ==
  ASSUME UNCHANGED mvars, NEW a, NEW t, NEW r, Stores(a, t, r)
  PROVE  Stores(a, t, r)'
BY DEF mvars, Stores, AddChatMember, UpdateChatMember, RemoveChatMember, JoinChat,
   LeaveChat, KickMember, BanMember, UnbanMember, Manager, Owner, Active,
   BanInForce, Exists, HasRoom, ActiveUsers

LEMMA UpdateSame ==
  ASSUME UNCHANGED mvars, NEW a, NEW t, NEW r, UpdateChatMember(a, t, r)
  PROVE  UpdateChatMember(a, t, r)'
BY DEF mvars, UpdateChatMember, Manager, Owner, Active, Exists

LEMMA ResizeSame ==
  ASSUME UNCHANGED mvars, NEW a, NEW max, MayResize(a, max)
  PROVE  MayResize(a, max)'
BY DEF mvars, MayResize, Manager, Active, ActiveUsers

\* What a handler reads it may do.
LEMMA DueBegin ==
  ASSUME HInv, NEW w \in Workers, Begin(w)
  PROVE  Due(w)'
<1>t. HTypeOK /\ TypeOK
  BY DEF HInv, HTypeOK
\* A handler about to write patch over t's row, which makes it r.
<1>u. ASSUME NEW a \in Users, NEW t \in Users, NEW r \in Row, NEW patch,
             Exists(t), Stores(a, t, r), Patched(rows[t], patch) = r,
             patch.until = "future" => UpdateChatMember(a, t, r),
             Await(w, "update", a, t, patch, 0)
      PROVE  Due(w)'
  <2>1. req'[w] = [pc |-> "update", by |-> a, target |-> t, patch |-> patch,
                   max |-> 0]
        /\ UNCHANGED mvars
    BY <1>t, <1>u DEF Await, HTypeOK
  <2>2. Exists(t)' /\ Patched(rows'[t], patch) = r
    BY <1>u, <2>1 DEF Exists, mvars
  <2>3. Stores(a, t, r)' /\ (patch.until = "future" => UpdateChatMember(a, t, r)')
    BY <1>u, <2>1, StoresSame, UpdateSame
  <2>4. QED
    BY <2>1, <2>2, <2>3 DEF Due, At
<1>1. ASSUME NEW a \in Users, NEW t \in Users, NEW r \in Row, ReadMember(w, a, t, r)
      PROVE  Due(w)'
  <2>1. rows[t] \in Row /\ Stores(a, t, r)
    BY <1>1, <1>t DEF ReadMember, Storable, TypeOK
  <2>2. CASE Exists(t)
    <3>1. PICK patch : patch = Changes(rows[t], r)
      OBVIOUS
    <3>2. Patched(rows[t], patch) = r
      BY <2>1, <3>1, PatchedChanges
    <3>3. patch.until = "future" => r.until = "future" /\ rows[t].until # "future"
      BY <3>1 DEF Changes, Kept
    <3>4. patch.until = "future" => UpdateChatMember(a, t, r)
      BY <1>t, <2>1, <3>3, DatesAreGiven
    <3>5. QED
      BY <1>1, <1>u, <2>1, <2>2, <3>1, <3>2, <3>4 DEF ReadMember
  <2>3. CASE ~Exists(t)
    <3>1. req'[w] = [pc |-> "insert", by |-> a, target |-> t, patch |-> r,
                     max |-> 0]
          /\ UNCHANGED mvars
      BY <1>1, <1>t, <2>3 DEF ReadMember, Await, HTypeOK
    <3>2. Stores(a, t, r)' /\ ~Exists(t)'
      BY <2>1, <2>3, <3>1, StoresSame DEF mvars, Exists
    <3>3. QED
      BY <3>1, <3>2 DEF Due, At
  <2>4. QED
    BY <2>2, <2>3
<1>2. ASSUME NEW a \in Users, NEW t \in Users, NEW r \in Row, ReadAndDate(w, a, t, r)
      PROVE  Due(w)'
  <2>1. /\ rows[t] \in Row /\ Stores(a, t, r) /\ UpdateChatMember(a, t, r)
        /\ Exists(t) /\ r.status \in Stored
    BY <1>2, <1>t DEF ReadAndDate, TypeOK, Stores, UpdateChatMember
  <2>2. PICK patch : patch = [Changes(rows[t], r) EXCEPT !.until = r.until]
    OBVIOUS
  <2>3. Patched(rows[t], patch) = r
    BY <2>1, <2>2, DatedType
  <2>4. QED
    BY <1>2, <1>u, <2>1, <2>2, <2>3 DEF ReadAndDate
<1>3. ASSUME NEW a \in Users, NEW max \in 1..MaxSize, ReadForUpdateChat(w, a, max)
      PROVE  Due(w)'
  <2>1. req'[w] = [pc |-> "resize", by |-> a, target |-> NoUser,
                   patch |-> Nothing, max |-> max]
        /\ UNCHANGED mvars
    BY <1>3, <1>t DEF ReadForUpdateChat, Await, HTypeOK
  <2>2. MayResize(a, max)'
    BY <1>3, <2>1, ResizeSame DEF ReadForUpdateChat
  <2>3. QED
    BY <2>1, <2>2 DEF Due, At
<1>4. ASSUME NEW a \in Users, ReadForDeleteChat(w, a) PROVE Due(w)'
  <2>1. req'[w] = [pc |-> "delete", by |-> a, target |-> NoUser,
                   patch |-> Nothing, max |-> 0]
    BY <1>4, <1>t DEF ReadForDeleteChat, Await, HTypeOK
  <2>2. Owner(a)'
    BY <1>4 DEF ReadForDeleteChat, Await, mvars, Owner, Active
  <2>3. QED
    BY <2>1, <2>2 DEF Due, At
<1>5. ASSUME NEW a \in Users, OpenChat(w, a) PROVE Due(w)'
  BY <1>5 DEF OpenChat, Due, At
<1>6. QED
  BY <1>1, <1>2, <1>3, <1>4, <1>5 DEF Begin

\* What its caller's handler would store is within his rights.
LEMMA DueIsRight ==
  ASSUME HInv, NEW w \in Workers, Due(w)
  PROVE  Right(w)
<1>t. TypeOK /\ InFlight(w) /\ req[w] \in Request
  BY DEF HInv, HTypeOK
<1>1. CASE At(w, "insert")
  <2>1. Rightful(req[w].by, req[w].target, req[w].patch)
    BY <1>t, <1>1, StoresRightful DEF Due, InFlight, At
  <2>2. QED
    BY <1>1, <2>1 DEF Due, Right, At
<1>2. CASE At(w, "update")
  <2>1. /\ req[w].by \in Users /\ req[w].target \in Users
        /\ req[w].patch \in Patch /\ req[w].patch.status # "none"
        /\ rows[req[w].target] \in Row /\ rows[req[w].target].status \in Stored
    BY <1>t, <1>2 DEF InFlight, At, Request, Due, Exists, TypeOK, Row
  <2>2. PICK r : r = Patched(rows[req[w].target], req[w].patch)
    OBVIOUS
  <2>3. r \in Row /\ Stores(req[w].by, req[w].target, r)
    BY <1>2, <2>1, <2>2, PatchedType DEF Due
  <2>4. Rightful(req[w].by, req[w].target, r)
    BY <1>t, <2>1, <2>3, StoresRightful
  <2>5. req[w].patch.until = "future" => Manager(req[w].by)
    BY <1>2 DEF Due, UpdateChatMember
  <2>6. QED
    BY <1>2, <2>2, <2>4, <2>5 DEF Right, At
<1>3. CASE At(w, "delete")
  BY <1>3 DEF Due, Right, At
<1>4. QED
  BY <1>1, <1>2, <1>3 DEF Right

LEMMA DueMeansRight == HInv => \A w \in Workers : Due(w) => Right(w)
BY DueIsRight

-----------------------------------------------------------------------------
(***************************************************************************)
(* Time takes nothing from a handler in flight                             *)
(***************************************************************************)
LEMMA ClockUpdates ==
  ASSUME TypeOK, NEW x \in Users, DatePasses(x), NEW a \in Users,
         NEW t \in Users, NEW r, r.until = "future", UpdateChatMember(a, t, r)
  PROVE  UpdateChatMember(a, t, r)'
<1>1. /\ \A u \in Users : /\ rows'[u].role = rows[u].role
                          /\ rows'[u].status = rows[u].status
  BY ClockFrame
<1>2. QED
  BY <1>1 DEF UpdateChatMember, Manager, Owner, Active, Exists

LEMMA DueClock ==
  ASSUME HInv, NEW w \in Workers, Due(w), NEW x \in Users, DatePasses(x),
         req'[w] = req[w]
  PROVE  Due(w)'
<1> DEFINE t == req[w].target
           patch == req[w].patch
<1>t. TypeOK /\ InFlight(w) /\ req[w] \in Request
  BY DEF HInv, HTypeOK
<1>1. CASE At(w, "insert")
  <2>0. PICK a \in Users : a = req[w].by
    BY <1>1, <1>t DEF InFlight, At
  <2>1. t \in Users \ {x} /\ ~Exists(t)
    BY <1>1, <1>t, ClockFrame DEF InFlight, Due, Exists
  <2>2. Stores(a, t, patch)
    BY <1>1, <2>0 DEF Due
  <2>3. Stores(a, t, patch)' /\ rows'[t] = rows[t]
    BY <1>t, <2>1, <2>2, ClockStoresOther, ClockFrame
  <2>4. QED
    BY <1>1, <2>0, <2>1, <2>3 DEF Due, At, Exists
<1>2. CASE At(w, "update")
  <2>0. PICK a \in Users : a = req[w].by
    BY <1>2, <1>t DEF InFlight, At
  <2>1. t \in Users /\ patch \in Patch /\ patch.status # "none"
    BY <1>2, <1>t DEF InFlight, Request
  <2>2. PICK r : r = Patched(rows[t], patch)
    OBVIOUS
  <2>3. PICK s : s = Patched(rows'[t], patch)
    OBVIOUS
  <2>4. Stores(a, t, r) /\ Exists(t)
        /\ (patch.until = "future" => UpdateChatMember(a, t, r))
    BY <1>2, <2>0, <2>2 DEF Due
  <2>5. rows[t] \in Row /\ rows'[t] \in Row /\ rows[t].status \in Stored
    BY <1>t, <2>1, <2>4, TypeStep DEF TypeOK, Next, Row, Exists
  <2>f. /\ rows'[t].role = rows[t].role /\ rows'[t].status = rows[t].status
        /\ t # x => rows'[t] = rows[t]
        /\ rows[x].until = "future" /\ rows'[x].until = "past"
    BY <1>t, <2>1, ClockFrame
  <2>6. r \in Row /\ s \in Row
    BY <2>1, <2>2, <2>3, <2>5, <2>f, PatchedType
  <2>7. Exists(t)'
    BY <2>4, <2>f DEF Exists
  <2>8. Stores(a, t, s)' /\ (patch.until = "future" => UpdateChatMember(a, t, s)')
    <3>1. CASE patch.until = "future"
      <4>1. s = r /\ r.until = "future"
        BY <2>1, <2>2, <2>3, <2>5, <2>f, <3>1 DEF Patched, Column
      <4>2. UpdateChatMember(a, t, s)'
        BY <1>t, <2>1, <2>4, <3>1, <4>1, ClockUpdates
      <4>3. QED
        BY <4>2 DEF Stores
    <3>2. CASE patch.until # "future" /\ t # x
      <4>1. s = r
        BY <2>2, <2>3, <2>f, <3>2
      <4>2. QED
        BY <1>t, <2>1, <2>4, <3>2, <4>1, ClockStoresOther
    <3>3. CASE patch.until # "future" /\ t = x
      <4>1. /\ s.role = r.role /\ s.status = r.status
            /\ s.until = IF r.until = "future" THEN "past" ELSE r.until
        BY <2>1, <2>2, <2>3, <2>5, <2>f, <3>3
        DEF Patched, Column, Row, Patch, Stored, Roles, Dates
      <4>2. QED
        BY <1>t, <2>4, <2>6, <3>3, <4>1, ClockStoresSame
    <3>4. QED
      BY <3>1, <3>2, <3>3
  <2>9. QED
    BY <1>2, <2>0, <2>3, <2>7, <2>8 DEF Due, At
<1>3. CASE At(w, "resize")
  <2>1. MayResize(req[w].by, req[w].max) /\ req[w].by \in Users
    BY <1>3, <1>t DEF Due, InFlight, At
  <2>2. MayResize(req[w].by, req[w].max)'
    BY <1>t, <2>1, ClockGuards DEF MayResize, Manager, Active
  <2>3. QED
    BY <1>3, <2>2 DEF Due, At
<1>4. CASE At(w, "delete")
  <2>1. Owner(req[w].by) /\ req[w].by \in Users
    BY <1>4, <1>t DEF Due, InFlight, At
  <2>2. Owner(req[w].by)'
    BY <1>t, <2>1, ClockFrame DEF Owner, Active
  <2>3. QED
    BY <1>4, <2>2 DEF Due, At
<1>5. CASE At(w, "idle")
  BY <1>5 DEF Due, At
<1>6. QED
  BY <1>1, <1>2, <1>3, <1>4, <1>5, <1>t DEF At, Request

\* Nothing a handler decided changes while nothing changes.
LEMMA DueSame ==
  ASSUME NEW w \in Workers, Due(w), UNCHANGED mvars, req'[w] = req[w]
  PROVE  Due(w)'
<1> DEFINE a == req[w].by
           t == req[w].target
           patch == req[w].patch
<1>s. chat' = chat /\ rows' = rows
  BY DEF mvars
<1>1. CASE At(w, "insert")
  <2>1. Stores(a, t, patch)'
    BY <1>1, StoresSame DEF Due
  <2>2. QED
    BY <1>1, <1>s, <2>1 DEF Due, At, Exists
<1>2. CASE At(w, "update")
  <2>1. PICK r : r = Patched(rows[t], patch)
    OBVIOUS
  <2>2. /\ Stores(a, t, r)'
        /\ patch.until = "future" => UpdateChatMember(a, t, r)'
    BY <1>2, <2>1, StoresSame, UpdateSame DEF Due
  <2>3. r = Patched(rows'[t], patch)
    BY <1>s, <2>1
  <2>4. QED
    BY <1>2, <1>s, <2>2, <2>3 DEF Due, At, Exists
<1>3. CASE At(w, "resize")
  BY <1>3, ResizeSame DEF Due, At
<1>4. CASE At(w, "delete")
  BY <1>4, <1>s DEF Due, At, Owner, Active
<1>5. QED
  BY <1>1, <1>2, <1>3, <1>4 DEF Due, At

\* Nor does it matter that the date it writes passes before it has.
LEMMA DueRunsOut ==
  ASSUME HInv, NEW w \in Workers, Due(w), DateRunsOut(w)
  PROVE  Due(w)'
<1> DEFINE t == req[w].target
           patch == req[w].patch
           late == [patch EXCEPT !.until = "past"]
<1>t. TypeOK /\ InFlight(w) /\ req[w] \in Request
  BY DEF HInv, HTypeOK
<1>1. /\ UNCHANGED mvars /\ At(w, "update") /\ patch.until = "future"
      /\ req'[w] = [req[w] EXCEPT !.patch = late]
  BY RunsOutStep
<1>2. PICK a \in Users : a = req[w].by
  BY <1>1, <1>t DEF InFlight, At
<1>3. /\ t \in Users /\ patch \in Patch /\ patch.status # "none"
      /\ Exists(t) /\ rows[t] \in Row /\ rows[t].status \in Stored
  BY <1>1, <1>t DEF InFlight, Request, Due, Exists, TypeOK, Row
<1>4. PICK r : r = Patched(rows[t], patch)
  OBVIOUS
<1>5. PICK s : s = Patched(rows[t], late)
  OBVIOUS
<1>6. r \in Row /\ r.until = "future" /\ s = [r EXCEPT !.until = "past"]
  BY <1>1, <1>3, <1>4, <1>5 DEF Patched, Column, Patch, Row, Stored, Roles, Dates
<1>7. UpdateChatMember(a, t, s)
  BY <1>1, <1>2, <1>4, <1>6, DatedStores DEF Due
<1>8. Stores(a, t, s)'
  BY <1>1, <1>7, UpdateSame DEF Stores
<1>9. /\ req'[w].pc = "update" /\ req'[w].by = a /\ req'[w].target = t
      /\ req'[w].patch = late /\ late.until = "past"
  BY <1>1, <1>2, <1>3, <1>t DEF Request, At, Patch
<1>10. s = Patched(rows'[t], late) /\ Exists(t)'
  BY <1>1, <1>3, <1>5 DEF mvars, Exists
<1>11. QED
  BY <1>8, <1>9, <1>10 DEF Due, At

-----------------------------------------------------------------------------
(***************************************************************************)
(* Nor do calls that leave the caller's and the target's row               *)
(***************************************************************************)
\* Rights are read off the two rows.
LEMMA RightfulByRows ==
  ASSUME NEW a \in Users, NEW t \in Users, NEW r, Rightful(a, t, r),
         rows'[a] = rows[a], rows'[t] = rows[t]
  PROVE  Rightful(a, t, r)'
BY DEF Rightful, Manager, Owner, Active, BanInForce

LEMMA RightByRows ==
  ASSUME HInv, NEW w \in Workers, Right(w), req'[w] = req[w],
         \A u \in Users \cap {req[w].by, req[w].target} : rows'[u] = rows[u]
  PROVE  Right(w)'
<1> DEFINE t == req[w].target
           patch == req[w].patch
<1>t. InFlight(w) /\ req[w] \in Request
  BY DEF HInv, HTypeOK
<1>1. CASE At(w, "insert")
  <2>1. PICK a \in Users : a = req[w].by
    BY <1>1, <1>t DEF InFlight, At
  <2>2. t \in Users /\ rows'[a] = rows[a] /\ rows'[t] = rows[t]
    BY <1>1, <1>t, <2>1 DEF InFlight
  <2>3. Rightful(a, t, patch)'
    BY <1>1, <2>1, <2>2, RightfulByRows DEF Right
  <2>4. QED
    BY <1>1, <2>1, <2>2, <2>3 DEF Right, At, Exists
<1>2. CASE At(w, "update")
  <2>1. PICK a \in Users : a = req[w].by
    BY <1>2, <1>t DEF InFlight, At
  <2>2. t \in Users /\ rows'[a] = rows[a] /\ rows'[t] = rows[t]
    BY <1>2, <1>t, <2>1 DEF InFlight
  <2>3. PICK r : r = Patched(rows[t], patch)
    OBVIOUS
  <2>4. Rightful(a, t, r)'
    BY <1>2, <2>1, <2>2, <2>3, RightfulByRows DEF Right
  <2>5. r = Patched(rows'[t], patch)
    BY <2>2, <2>3
  <2>6. patch.until = "future" => Manager(a)'
    BY <1>2, <2>1, <2>2 DEF Right, Manager, Active
  <2>7. QED
    BY <1>2, <2>1, <2>4, <2>5, <2>6 DEF Right, At
<1>3. CASE At(w, "delete")
  <2>1. req[w].by \in Users /\ Owner(req[w].by)
    BY <1>3, <1>t DEF InFlight, At, Right
  <2>2. Owner(req[w].by)'
    BY <2>1 DEF Owner, Active
  <2>3. QED
    BY <1>3, <2>2 DEF Right, At
<1>4. QED
  BY <1>1, <1>2, <1>3 DEF Right, At

LEMMA RightClock ==
  ASSUME HInv, NEW w \in Workers, Right(w), NEW x \in Users, DatePasses(x),
         req'[w] = req[w]
  PROVE  Right(w)'
<1> DEFINE t == req[w].target
           patch == req[w].patch
<1>t. TypeOK /\ InFlight(w) /\ req[w] \in Request
  BY DEF HInv, HTypeOK
<1>f. /\ \A u \in Users : /\ rows'[u].role = rows[u].role
                          /\ rows'[u].status = rows[u].status
                          /\ u # x => rows'[u] = rows[u]
      /\ rows[x].until = "future" /\ rows'[x].until = "past"
  BY <1>t, ClockFrame
\* What a may make of u's row he still may, ban in force or not.
<1>r. ASSUME NEW a \in Users, NEW u \in Users, NEW r, NEW s, Rightful(a, u, r),
             s.role = r.role, s.status = r.status, u # x => s.until = r.until
      PROVE  Rightful(a, u, s)'
  <2>1. BanInForce(u)' => u # x /\ BanInForce(u)
    BY <1>f DEF BanInForce
  <2>2. Owner(a)' = Owner(a) /\ Owner(u)' = Owner(u) /\ Manager(a)' = Manager(a)
    BY <1>f DEF Owner, Manager, Active
  <2>3. QED
    BY <1>f, <1>r, <2>1, <2>2 DEF Rightful
<1>1. CASE At(w, "insert")
  <2>1. PICK a \in Users : a = req[w].by
    BY <1>1, <1>t DEF InFlight, At
  <2>2. t \in Users /\ Rightful(a, t, patch) /\ ~Exists(t)
    BY <1>1, <1>t, <2>1 DEF InFlight, Right
  <2>3. Rightful(a, t, patch)' /\ ~Exists(t)'
    BY <1>f, <1>r, <2>2 DEF Exists
  <2>4. QED
    BY <1>1, <2>1, <2>3 DEF Right, At
<1>2. CASE At(w, "update")
  <2>1. PICK a \in Users : a = req[w].by
    BY <1>2, <1>t DEF InFlight, At
  <2>2. t \in Users
    BY <1>2, <1>t DEF InFlight
  <2>3. PICK r : r = Patched(rows[t], patch)
    OBVIOUS
  <2>4. PICK s : s = Patched(rows'[t], patch)
    OBVIOUS
  <2>5. s.role = r.role /\ s.status = r.status /\ (t # x => s.until = r.until)
    BY <1>f, <2>2, <2>3, <2>4 DEF Patched, Column
  <2>6. Rightful(a, t, s)'
    BY <1>2, <1>r, <2>1, <2>2, <2>3, <2>5 DEF Right
  <2>7. patch.until = "future" => Manager(a)'
    BY <1>2, <1>f, <2>1 DEF Right, Manager, Active
  <2>8. QED
    BY <1>2, <2>1, <2>4, <2>6, <2>7 DEF Right, At
<1>3. CASE At(w, "delete")
  <2>1. req[w].by \in Users /\ Owner(req[w].by)
    BY <1>3, <1>t DEF InFlight, At, Right
  <2>2. Owner(req[w].by)'
    BY <1>f, <2>1 DEF Owner, Active
  <2>3. QED
    BY <1>3, <2>2 DEF Right, At
<1>4. QED
  BY <1>1, <1>2, <1>3 DEF Right, At

LEMMA RightRunsOut ==
  ASSUME HInv, NEW w \in Workers, Right(w), DateRunsOut(w)
  PROVE  Right(w)'
<1> DEFINE t == req[w].target
           patch == req[w].patch
           late == [patch EXCEPT !.until = "past"]
<1>t. TypeOK /\ InFlight(w) /\ req[w] \in Request
  BY DEF HInv, HTypeOK
<1>1. /\ UNCHANGED mvars /\ At(w, "update") /\ patch.until = "future"
      /\ req'[w] = [req[w] EXCEPT !.patch = late]
  BY RunsOutStep
<1>2. PICK a \in Users : a = req[w].by
  BY <1>1, <1>t DEF InFlight, At
<1>3. t \in Users /\ patch \in Patch
  BY <1>1, <1>t DEF InFlight, Request
<1>4. PICK r : r = Patched(rows[t], patch)
  OBVIOUS
<1>5. PICK s : s = Patched(rows[t], late)
  OBVIOUS
<1>6. s.role = r.role /\ s.status = r.status
  BY <1>3, <1>4, <1>5 DEF Patched, Column, Patch
<1>7. Manager(a) /\ (BanInForce(t) => a # t)
  BY <1>1, <1>2 DEF Right, Manager, Active, BanInForce
<1>8. Rightful(a, t, s)
  BY <1>1, <1>2, <1>4, <1>6, <1>7 DEF Right, Rightful
<1>9. Rightful(a, t, s)'
  BY <1>1, <1>2, <1>3, <1>8, RightfulByRows DEF mvars
<1>10. /\ req'[w].pc = "update" /\ req'[w].by = a /\ req'[w].target = t
       /\ req'[w].patch = late /\ late.until = "past"
  BY <1>1, <1>2, <1>3, <1>t DEF Request, At, Patch
<1>11. s = Patched(rows'[t], late)
  BY <1>1, <1>5 DEF mvars
<1>12. QED
  BY <1>9, <1>10, <1>11 DEF Right, At

-----------------------------------------------------------------------------
(***************************************************************************)
(* The invariant of ChatOverlap                                            *)
(***************************************************************************)
LEMMA HNextOfOverlap == [OverlapNext]_ovars => [HNext]_hvars
BY DEF OverlapNext, ovars, hvars

\* Whoever moves, a handler that stays where it is and was not overtaken before
\* or by the step sees nothing change but the time.
LEMMA OthersStay ==
  ASSUME OInv, [OverlapNext]_ovars, NEW v \in Workers, req'[v] = req[v]
  PROVE  /\ v \notin overtaken' => Due(v)'
         /\ v \notin crossed' => Right(v)'
<1>h. HInv
  BY DEF OInv
<1>1. CASE At(v, "idle")
  BY <1>1 DEF Due, Right, At
<1>2. CASE ~At(v, "idle") /\ UNCHANGED mvars
  <2>1. v \notin overtaken' => v \notin overtaken
    BY <1>2 DEF OverlapNext, InFlightNext, At, ovars
  <2>2. v \notin crossed' => v \notin crossed
    BY <1>2 DEF OverlapNext, InFlightNext, At, ovars
  <2>3. v \notin overtaken' => Due(v)'
    BY <1>2, <2>1, DueSame DEF OInv
  <2>4. v \notin crossed' => Right(v)'
    BY <1>2, <1>h, <2>2, RightByRows DEF OInv, mvars
  <2>5. QED
    BY <2>3, <2>4
<1>3. ASSUME ~At(v, "idle"), NEW x \in Users, DatePasses(x)
      PROVE  /\ v \notin overtaken' => Due(v)'
             /\ v \notin crossed' => Right(v)'
  <2>1. v \notin overtaken' => v \notin overtaken
    BY <1>3 DEF OverlapNext, InFlightNext, At, ovars
  <2>2. v \notin crossed' => v \notin crossed
    BY <1>3 DEF OverlapNext, InFlightNext, At, ovars
  <2>3. v \notin overtaken' => Due(v)'
    BY <1>3, <1>h, <2>1, DueClock DEF OInv
  <2>4. v \notin crossed' => Right(v)'
    BY <1>3, <1>h, <2>2, RightClock DEF OInv
  <2>5. QED
    BY <2>3, <2>4
<1>4. CASE ~At(v, "idle") /\ Overtaking
  <2>1. v \in overtaken'
    BY <1>4 DEF OverlapNext, InFlightNext, At, Overtaking, ovars, mvars
  <2>2. v \notin crossed' => v \notin crossed /\ ~Crosses(v)
    BY <1>4 DEF OverlapNext, InFlightNext, At, Overtaking, ovars, mvars
  <2>3. v \notin crossed' => Right(v)'
    BY <1>4, <1>h, <2>2, RightByRows DEF OInv, Crosses
  <2>4. QED
    BY <2>1, <2>3
<1>5. QED
  BY <1>1, <1>2, <1>3, <1>4 DEF Overtaking, Clock, mvars

LEMMA OInvStep == OInv /\ [OverlapNext]_ovars => OInv'
<1> SUFFICES ASSUME OInv, [OverlapNext]_ovars PROVE OInv'
  OBVIOUS
<1>h. HInv /\ HTypeOK /\ [HNext]_hvars
  BY HNextOfOverlap DEF OInv, HInv
<1>i. HInv'
  BY <1>h, HInvStep
<1>r. HInv' => \A w \in Workers : (Due(w)' => Right(w)')
  <2>1. (HInv => \A w \in Workers : Due(w) => Right(w))'
    BY DueMeansRight, PTL
  <2>2. QED
    BY <2>1
<1> DEFINE Stays(v) == /\ v \notin overtaken' => Due(v)'
                       /\ v \notin crossed' => Right(v)'
<1>s. ASSUME NEW v \in Workers, req'[v] = req[v] PROVE Stays(v)
  BY <1>s, OthersStay
<1>1. ASSUME NEW w \in Workers, Begin(w) PROVE \A v \in Workers : Stays(v)
  <2>1. Due(w)' /\ Right(w)'
    BY <1>1, <1>h, <1>i, <1>r, DueBegin
  <2>2. QED
    BY <1>1, <1>h, <1>s, <2>1, OnlyMover
<1>2. ASSUME NEW w \in Workers, Commit(w) \/ Cancel(w)
      PROVE  \A v \in Workers : Stays(v)
  <2>1. req'[w] = Idle
    BY <1>2, <1>h, CommitStep, CancelStep
  <2>2. Due(w)' /\ Right(w)'
    BY <2>1 DEF Due, Right, At, Idle
  <2>3. QED
    BY <1>2, <1>h, <1>s, <2>2, OnlyMover
<1>3. ASSUME NEW w \in Workers, DateRunsOut(w) PROVE \A v \in Workers : Stays(v)
  <2>1. UNCHANGED mvars /\ req'[w].pc # "idle"
    BY <1>3, <1>h, <1>i, RunsOutStep DEF At, HInv, HTypeOK, Request
  <2>2. (w \notin overtaken' => w \notin overtaken)
        /\ (w \notin crossed' => w \notin crossed)
    BY <2>1 DEF OverlapNext, InFlightNext, ovars
  <2>3. Stays(w)
    BY <1>3, <1>h, <2>2, DueRunsOut, RightRunsOut DEF OInv
  <2>4. QED
    BY <1>3, <1>h, <1>s, <2>3, OnlyMover
<1>4. ASSUME req' = req PROVE \A v \in Workers : Stays(v)
  BY <1>4, <1>s
<1>5. \A v \in Workers : Stays(v)
  BY <1>h, <1>1, <1>2, <1>3, <1>4 DEF HNext, Clock, hvars
<1>6. QED
  BY <1>i, <1>5 DEF OInv

LEMMA OverlapInvariance == OverlapSpec => []OInv
<1>1. OverlapInit => OInv
  <2> SUFFICES ASSUME OverlapInit PROVE OInv
    OBVIOUS
  <2>1. \A w \in Workers : Due(w) /\ Right(w)
    BY DEF OverlapInit, HInit, Due, Right, At, Idle
  <2>2. QED
    BY <2>1, HInvInit DEF OverlapInit, OInv
<1>2. QED
  BY <1>1, OInvStep, PTL DEF OverlapSpec

-----------------------------------------------------------------------------
(***************************************************************************)
(* Refinement                                                              *)
(***************************************************************************)
\* A handler that decided from what still holds commits a step of Membership.
LEMMA CommitRefines ==
  ASSUME HInv, NEW w \in Workers, Due(w), Commit(w)
  PROVE  [Next]_mvars
<1> DEFINE r == req[w]
<1>t. TypeOK /\ InFlight(w) /\ r \in Request
  BY DEF HInv, HTypeOK
<1>1. CASE CommitInsert(w)
  <2>1. PICK a \in Users : a = r.by /\ Stores(a, r.target, r.patch)
    BY <1>1, <1>t DEF CommitInsert, Due, InFlight, At
  <2>2. r.target \in Users /\ r.patch \in Row
    BY <1>1, <1>t DEF CommitInsert, InFlight, At
  <2>3. CASE UNCHANGED mvars
    BY <2>3
  <2>4. CASE Store(r.target, r.patch)
    BY <2>1, <2>2, <2>4 DEF Next, By
  <2>5. QED
    BY <1>1, <2>3, <2>4 DEF CommitInsert, Store, mvars
<1>2. CASE CommitUpdate(w)
  <2>1. PICK a \in Users :
          a = r.by /\ Stores(a, r.target, Patched(rows[r.target], r.patch))
    BY <1>2, <1>t DEF CommitUpdate, Due, InFlight, At
  <2>2. /\ r.target \in Users /\ Exists(r.target)
        /\ r.patch \in Patch /\ r.patch.status # "none"
    BY <1>2, <1>t DEF CommitUpdate, InFlight, Due, At, Request
  <2>3. Patched(rows[r.target], r.patch) \in Row
    BY <1>t, <2>2, PatchedType DEF TypeOK, Row, Exists
  <2>4. Store(r.target, Patched(rows[r.target], r.patch))
    BY <1>2, <2>2 DEF CommitUpdate, Store
  <2>5. QED
    BY <2>1, <2>2, <2>3, <2>4 DEF Next, By
<1>3. CASE CommitUpdateChat(w)
  <2>1. PICK a \in Users : a = r.by /\ MayResize(a, r.max)
    BY <1>3, <1>t DEF CommitUpdateChat, Due, InFlight, At
  <2>2. chat.kind # "deleted" /\ r.max \in 1..MaxSize
    BY <1>3, <2>1 DEF CommitUpdateChat, Due, HInv, NoChatNoRows, MayResize,
       Manager, Active, Exists
  <2>3. UpdateChat(a, r.max)
    BY <1>3, <2>1, <2>2 DEF CommitUpdateChat, UpdateChat
  <2>4. QED
    BY <2>2, <2>3 DEF Next, By
<1>4. CASE CommitDeleteChat(w)
  <2>1. PICK a \in Users : a = r.by /\ Owner(a)
    BY <1>4, <1>t DEF CommitDeleteChat, Due, InFlight, At
  <2>2. DeleteChat(a)
    BY <1>4, <2>1 DEF CommitDeleteChat, DeleteChat
  <2>3. QED
    BY <2>2 DEF Next, By
<1>5. QED
  BY <1>1, <1>2, <1>3, <1>4 DEF Commit

\* With any number of handlers in flight, each that no other overtook commits a
\* step of Membership: it is as good as if it had read and written in one.
THEOREM Refinement == OverlapSpec => Atomic
<1>1. OverlapInit => Init
  BY DEF OverlapInit, HInit
<1>2. OInv /\ [OverlapNext]_ovars =>
        [mvars' # mvars => Next \/ \E w \in overtaken : Commit(w)]_mvars
  <2> SUFFICES ASSUME OInv, [OverlapNext]_ovars
               PROVE  [Next \/ \E w \in overtaken : Commit(w)]_mvars
    OBVIOUS
  <2>h. HInv /\ [HNext]_hvars
    BY HNextOfOverlap DEF OInv
  <2>1. ASSUME NEW w \in Workers, Begin(w) PROVE [Next]_mvars
    BY <2>1, <2>h, BeginStep
  <2>2. ASSUME NEW w \in Workers, Commit(w), w \notin overtaken PROVE [Next]_mvars
    BY <2>2, <2>h, CommitRefines DEF OInv
  <2>3. ASSUME NEW w \in Workers, Cancel(w) \/ DateRunsOut(w) PROVE UNCHANGED mvars
    BY <2>3 DEF Cancel, DateRunsOut
  <2>4. ASSUME NEW x \in Users, Clock(x) PROVE Next
    BY <2>4 DEF Clock, Next
  <2>5. CASE UNCHANGED hvars
    BY <2>5 DEF hvars, mvars
  <2>6. QED
    BY <2>h, <2>1, <2>2, <2>3, <2>4, <2>5 DEF HNext
<1>3. QED
  BY <1>1, <1>2, OverlapInvariance, PTL DEF OverlapSpec, Atomic

-----------------------------------------------------------------------------
(***************************************************************************)
(* Roles, bans and other people's rows                                     *)
(***************************************************************************)
\* What becomes of t's row when a does something.
Deed(a, t) ==
  \/ chat.kind = "none" /\ (rows'[t].role = "owner" => a = t)
  \/ /\ chat.kind = "private"
     /\ rows[t].status = "left"
     /\ rows'[t] = [rows[t] EXCEPT !.status = "active"]
  \/ Owner(a) /\ rows'[t] = NoRow
  \/ Rightful(a, t, rows'[t])
  \/ rows'[t] = rows[t]

LEMMA CommitDeed ==
  ASSUME HInv, NEW w \in Workers, Right(w), Commit(w),
         NEW a \in Users, a = req[w].by, NEW t \in Users
  PROVE  Deed(a, t)
<1>t. TypeOK /\ InFlight(w)
  BY DEF HInv, HTypeOK
<1>1. CASE CommitInsert(w)
  <2>1. req[w].target \in Users /\ Rightful(a, req[w].target, req[w].patch)
    BY <1>1, <1>t DEF CommitInsert, InFlight, Right, At
  <2>2. \/ rows'[t] = rows[t]
        \/ t = req[w].target /\ rows'[t] = req[w].patch
    BY <1>1, <1>t DEF CommitInsert, TypeOK
  <2>3. QED
    BY <2>1, <2>2 DEF Deed
<1>2. CASE CommitUpdate(w)
  <2>1. PICK r : r = Patched(rows[req[w].target], req[w].patch)
    OBVIOUS
  <2>2. req[w].target \in Users /\ Rightful(a, req[w].target, r)
    BY <1>2, <1>t, <2>1 DEF CommitUpdate, InFlight, Right, At
  <2>3. \/ rows'[t] = rows[t]
        \/ t = req[w].target /\ rows'[t] = r
    BY <1>2, <1>t, <2>1 DEF CommitUpdate, TypeOK
  <2>4. QED
    BY <2>2, <2>3 DEF Deed
<1>3. CASE CommitUpdateChat(w)
  BY <1>3 DEF CommitUpdateChat, Deed
<1>4. CASE CommitDeleteChat(w)
  BY <1>4 DEF CommitDeleteChat, Deed, Right, At
<1>5. QED
  BY <1>1, <1>2, <1>3, <1>4 DEF Commit

LEMMA DoesDeed ==
  ASSUME OInv, NEW a \in Users, Does(a), NEW t \in Users
  PROVE  Deed(a, t)
<1>h. HInv /\ TypeOK
  BY DEF OInv, HInv, HTypeOK
<1>1. PICK w \in Workers : \/ OpenChat(w, a)
                           \/ Commit(w) /\ w \notin crossed /\ req[w].by = a
  BY DEF Does
<1>2. CASE OpenChat(w, a)
  BY <1>2, <1>h, OpenRow DEF OpenChat, Deed
<1>3. CASE Commit(w) /\ w \notin crossed /\ req[w].by = a
  BY <1>3, <1>h, CommitDeed DEF OInv
<1>4. QED
  BY <1>1, <1>2, <1>3

\* The rows a property speaks of are rows, and there are none without a chat.
LEMMA RowFacts ==
  ASSUME OInv, NEW t \in Users
  PROVE  /\ rows[t] \in Row
         /\ chat.kind = "none" => rows[t] = NoRow
BY DEF OInv, HInv, HTypeOK, TypeOK, NoChatNoRows

\* Only an owner takes another owner's role or active status away.
THEOREM OwnersUntouchedHolds == OverlapSpec => OwnersUntouched
<1>1. ASSUME OInv, NEW a \in Users, NEW t \in Users,
             a # t, ~Owner(a), Owner(t), ~Owner(t)', Does(a)
      PROVE  FALSE
  <2>1. Deed(a, t) /\ rows[t] \in Row /\ chat.kind # "none"
    BY <1>1, DoesDeed, RowFacts DEF Owner, Active, NoRow
  <2>2. rows'[t].role # "owner" \/ rows'[t].status # "active"
    BY <1>1 DEF Owner, Active
  <2>3. QED
    BY <1>1, <2>1, <2>2 DEF Deed, Rightful, Owner, Active
<1>2. OInv => \A a, t \in Users : a # t /\ ~Owner(a) /\ Owner(t) /\ ~Owner(t)' =>
                ~Does(a)
  BY <1>1
<1>3. QED
  BY <1>2, OverlapInvariance, PTL DEF OverlapSpec, OwnersUntouched

\* Ownership is given by an owner, or by creating the chat.
THEOREM OwnershipIsGivenHolds == OverlapSpec => OwnershipIsGiven
<1>1. ASSUME OInv, NEW a \in Users, NEW t \in Users,
             rows[t].role # "owner", rows'[t].role = "owner", ~Owner(a),
             ~(chat.kind = "none" /\ a = t), Does(a)
      PROVE  FALSE
  <2>1. Deed(a, t) /\ rows[t] \in Row
    BY <1>1, DoesDeed, RowFacts
  <2>2. QED
    BY <1>1, <2>1 DEF Deed, Rightful, NoRow, Row
<1>2. OInv => \A a, t \in Users :
                /\ rows[t].role # "owner" /\ rows'[t].role = "owner"
                /\ ~Owner(a)
                /\ ~(chat.kind = "none" /\ a = t)
                => ~Does(a)
  BY <1>1
<1>3. QED
  BY <1>2, OverlapInvariance, PTL DEF OverlapSpec, OwnershipIsGiven

\* No call but another manager's lifts a ban in force.
THEOREM BansHoldHolds == OverlapSpec => BansHold
<1>1. ASSUME OInv, NEW a \in Users, NEW t \in Users,
             BanInForce(t), ~BanInForce(t)', ~(a # t /\ Manager(a)), Does(a)
      PROVE  FALSE
  <2>1. Deed(a, t) /\ rows[t] \in Row /\ chat.kind # "none"
    BY <1>1, DoesDeed, RowFacts DEF BanInForce, NoRow
  <2>2. rows'[t] # rows[t] /\ ~Owner(a)
        /\ ~(rows'[t].status = "banned" /\ rows'[t].until # "past")
    BY <1>1 DEF BanInForce, Owner, Manager, Active
  <2>3. QED
    BY <1>1, <2>1, <2>2 DEF Deed, Rightful, BanInForce
<1>2. OInv => \A a, t \in Users :
                BanInForce(t) /\ ~BanInForce(t)' /\ ~(a # t /\ Manager(a)) =>
                ~Does(a)
  BY <1>1
<1>3. QED
  BY <1>2, OverlapInvariance, PTL DEF OverlapSpec, BansHold

\* Whoever is no active manager changes his own row only, or reopens a private
\* chat.
THEOREM OthersLeftAloneHolds == OverlapSpec => OthersLeftAlone
<1>1. ASSUME OInv, NEW a \in Users, NEW t \in Users,
             rows'[t] # rows[t], a # t, ~Manager(a), chat.kind # "none",
             ~(chat.kind = "private" /\ rows[t].status = "left" /\ Active(t)'),
             Does(a)
      PROVE  FALSE
  <2>1. Deed(a, t) /\ rows[t] \in Row /\ ~Owner(a)
    BY <1>1, DoesDeed, RowFacts DEF Owner, Manager
  <2>2. QED
    BY <1>1, <2>1 DEF Deed, Rightful, Active, Row
<1>2. OInv => \A a, t \in Users :
                /\ rows'[t] # rows[t] /\ a # t /\ ~Manager(a)
                /\ chat.kind # "none"
                /\ ~(chat.kind = "private" /\ rows[t].status = "left" /\ Active(t)')
                => ~Does(a)
  BY <1>1
<1>3. QED
  BY <1>2, OverlapInvariance, PTL DEF OverlapSpec, OthersLeftAlone
=============================================================================
