--------------------------- MODULE ContactsProofs ---------------------------
(***************************************************************************)
(* Proofs about Contacts for every set of users and handlers in flight.    *)
(***************************************************************************)
EXTENDS Contacts, TLAPS

Known == {"accepted", "blocked"}
Ops4 == {"add", "accept", "block", "remove"}

\* Where a handler may be, and what it will store.
Fits(w) ==
  LET r == req[w] IN
  /\ r.op = "none" => r = Idle
  /\ r.op # "none" => r.own \in Pairs
  /\ r.op = "add" => r.pc \in {"insert", "commit"} /\ r.write = "pending"
  /\ r.op = "block" => /\ r.pc \in {"look", "insert", "update", "commit"}
                       /\ r.write = "blocked"
  /\ r.op = "accept" => /\ r.pc \in {"incoming", "look", "insert", "update", "commit"}
                        /\ r.write = "accepted"
  /\ r.op = "remove" => r.pc = "delete" /\ r.todo \subseteq Both(r.own)

\* What a handler has written is about its pair, and only that may be committed.
Writing(w) ==
  LET r == req[w] IN
  \A q \in Pairs : lock[q] = w =>
    /\ r.op # "none" /\ q \in Both(r.own)
    /\ r.op = "add" => q = r.own /\ contact[q] = "none" /\ draft[q] = "pending"
    /\ r.op = "block" => q = r.own /\ draft[q] \in {"blocked", contact[q]}
    /\ r.op = "remove" => draft[q] = "none"
    /\ r.op = "accept" /\ r.own \notin crossed => draft[q] \in Known

\* An accept holds the rows it has written, and a row it has seen accepted has been
\* blocked at the most since then.
Accepting(w) ==
  LET r == req[w] IN
  r.op = "accept" =>
    /\ r.pc # "incoming" => lock[Mirror(r.own)] = w
    /\ r.pc = "commit" => lock[r.own] = w
    /\ r.own \notin crossed /\ r.seen = "accepted" =>
         /\ r.pc = "incoming" => contact[Mirror(r.own)] \in Known
         /\ r.pc = "update" => contact[r.own] \in Known

\* The rows a remove leaves behind are not accepted.
Removing(w) ==
  LET r == req[w] IN
  r.op = "remove" /\ r.own \notin crossed =>
    \A q \in Both(r.own) :
      q \notin r.todo /\ lock[q] # w => contact[q] # "accepted"

Crossing ==
  \A v, w \in Workers :
    /\ req[v].op = "accept" /\ req[w].op = "remove"
    /\ req[v].own \in Both(req[w].own)
    => req[v].own \in crossed /\ req[w].own \in crossed
Mirrored == \A p \in Pairs : p \in crossed => Mirror(p) \in crossed

IInv == /\ TypeOK
        /\ Mirrored
        /\ Crossing
        /\ Mutual
        /\ \A w \in Workers :
             Fits(w) /\ Writing(w) /\ Accepting(w) /\ Removing(w)

-----------------------------------------------------------------------------
(***************************************************************************)
(* Pairs and types                                                         *)
(***************************************************************************)
LEMMA MirrorPair ==
  ASSUME NEW p \in Pairs
  PROVE  /\ Mirror(p) \in Pairs /\ Mirror(Mirror(p)) = p
         /\ p \in Both(p) /\ Mirror(p) \in Both(p) /\ Both(p) \subseteq Pairs
         /\ \A q \in Both(p) : Both(q) = Both(p) /\ Mirror(q) \in Both(p)
                               /\ (q = p \/ q = Mirror(p))
<1>1. Mirror(p) \in Pairs /\ Mirror(Mirror(p)) = p
  BY DEF Pairs, Mirror
<1>2. QED
  BY <1>1 DEF Both

LEMMA IdleType == Idle \in Request
BY DEF Idle, Request, Status

\* Every request that a handler takes up, with what it starts from.
LEMMA Begins ==
  ASSUME TypeOK, NEW w \in Workers, Begin(w)
  PROVE  \E r \in Request :
           /\ Start(w, r)
           /\ r.op \in Ops4 /\ r.own \in Pairs
           /\ r.op = "add" => r.pc = "insert" /\ r.write = "pending"
           /\ r.op = "block" => r.pc = "look" /\ r.write = "blocked"
           /\ r.op = "accept" => /\ r.pc = "incoming" /\ r.write = "accepted"
                                 /\ r.seen = contact[Mirror(r.own)]
           /\ r.op = "remove" => /\ r.pc = "delete"
                                 /\ r.todo = {q \in Both(r.own) : contact[q] # "none"}
<1>1. PICK p \in Pairs : \/ StartAdd(w, p) \/ StartAccept(w, p)
                         \/ StartBlock(w, p) \/ StartRemove(w, p)
  BY DEF Begin
<1>m. Mirror(p) \in Pairs /\ Both(p) \subseteq Pairs
  BY MirrorPair
<1>c. \A q \in Pairs : contact[q] \in Status
  BY DEF TypeOK
<1>2. CASE StartAdd(w, p)
  <2>1. [Idle EXCEPT !.op = "add", !.pc = "insert", !.own = p, !.write = "pending"]
          \in Request
    BY DEF Idle, Request, Status
  <2>2. QED
    BY <1>2, <2>1 DEF StartAdd, Idle, Ops4
<1>3. CASE StartAccept(w, p)
  <2>1. [Idle EXCEPT !.op = "accept", !.pc = "incoming", !.own = p,
                     !.seen = contact[Mirror(p)], !.write = "accepted"] \in Request
    BY <1>m, <1>c DEF Idle, Request, Status
  <2>2. QED
    BY <1>3, <2>1 DEF StartAccept, Idle, Ops4
<1>4. CASE StartBlock(w, p)
  <2>1. [Idle EXCEPT !.op = "block", !.pc = "look", !.own = p, !.write = "blocked"]
          \in Request
    BY DEF Idle, Request, Status
  <2>2. QED
    BY <1>4, <2>1 DEF StartBlock, Idle, Ops4
<1>5. CASE StartRemove(w, p)
  <2> DEFINE rows == {q \in Both(p) : contact[q] # "none"}
  <2>1. rows \in SUBSET Pairs
    BY <1>m
  <2>2. [Idle EXCEPT !.op = "remove", !.pc = "delete", !.own = p, !.todo = rows]
          \in Request
    BY <2>1 DEF Idle, Request, Status
  <2>3. QED
    BY <1>5, <2>2 DEF StartRemove, Idle, Ops4
<1>6. QED
  BY <1>1, <1>2, <1>3, <1>4, <1>5

-----------------------------------------------------------------------------
(***************************************************************************)
(* The invariant, one kind of step at a time                               *)
(***************************************************************************)
LEMMA Initially == Init => IInv
<1> SUFFICES ASSUME Init PROVE IInv
  OBVIOUS
<1>1. TypeOK
  BY IdleType DEF Init, TypeOK, Status, Owner
<1>2. Mirrored /\ Crossing /\ Mutual
  BY DEF Init, Mirrored, Crossing, Mutual, Idle
<1>3. ASSUME NEW w \in Workers
      PROVE  Fits(w) /\ Writing(w) /\ Accepting(w) /\ Removing(w)
  BY NoValueAssumption DEF Init, Fits, Writing, Accepting, Removing, Idle
<1>4. QED
  BY <1>1, <1>2, <1>3 DEF IInv

\* The invariants of w are about its request, its rows and what is committed.
LEMMA StartKeeps ==
  ASSUME IInv, NEW w \in Workers, Begin(w)
  PROVE  IInv'
<1>1. PICK r \in Request :
        /\ Start(w, r)
        /\ r.op \in Ops4 /\ r.own \in Pairs
        /\ r.op = "add" => r.pc = "insert" /\ r.write = "pending"
        /\ r.op = "block" => r.pc = "look" /\ r.write = "blocked"
        /\ r.op = "accept" => /\ r.pc = "incoming" /\ r.write = "accepted"
                              /\ r.seen = contact[Mirror(r.own)]
        /\ r.op = "remove" => /\ r.pc = "delete"
                              /\ r.todo = {q \in Both(r.own) : contact[q] # "none"}
  BY Begins DEF IInv
<1>t. TypeOK
  BY DEF IInv
<1>m. /\ Both(r.own) \subseteq Pairs /\ r.own \in Both(r.own)
      /\ Mirror(r.own) \in Pairs /\ Mirror(r.own) \in Both(r.own)
      /\ Mirror(Mirror(r.own)) = r.own
      /\ \A q \in Both(r.own) : Both(q) = Both(r.own) /\ Mirror(q) \in Both(r.own)
  BY <1>1, MirrorPair
<1>r. /\ req' = [req EXCEPT ![w] = r] /\ req[w] = Idle
      /\ req' \in [Workers -> Request] /\ req'[w] = r
      /\ \A v \in Workers \ {w} : req'[v] = req[v]
      /\ UNCHANGED <<contact, lock, draft>>
  BY <1>1, <1>t DEF Start, TypeOK
<1>c. /\ crossed \subseteq crossed' /\ crossed' \subseteq crossed \cup Both(r.own)
      /\ crossed' = crossed \/ crossed' = crossed \cup Both(r.own)
  BY <1>1 DEF Start
<1>i. req[w].op = "none"
  BY <1>r DEF Idle
<1>2. TypeOK'
  BY <1>r, <1>c, <1>m, <1>t DEF TypeOK
<1>3. Mirrored'
  BY <1>c, <1>m DEF IInv, Mirrored
<1>4. Crossing'
  <2> SUFFICES ASSUME NEW v \in Workers, NEW x \in Workers,
                      req'[v].op = "accept", req'[x].op = "remove",
                      req'[v].own \in Both(req'[x].own)
               PROVE  req'[v].own \in crossed' /\ req'[x].own \in crossed'
    BY DEF Crossing
  <2>1. CASE v # w /\ x # w
    BY <2>1, <1>r, <1>c DEF IInv, Crossing
  <2>2. CASE v = w
    <3>1. x # w /\ req'[x] = req[x]
      BY <2>2, <1>r
    <3>f. req[x].own \in Pairs
      BY <3>1 DEF IInv, Fits
    <3>2. req[x].own \in Both(r.own)
      BY <2>2, <3>1, <3>f, <1>r, MirrorPair
    <3>3. "remove" \in Ops(r.own)
      BY <3>1, <3>2 DEF Ops
    <3>4. crossed' = crossed \cup Both(r.own)
      BY <2>2, <3>3, <1>1, <1>r DEF Start
    <3>5. QED
      BY <2>2, <3>1, <3>2, <3>4, <1>m, <1>r
  <2>3. CASE x = w
    <3>1. v # w /\ req'[v] = req[v]
      BY <2>3, <1>r
    <3>2. req[v].own \in Both(r.own)
      BY <2>3, <3>1, <1>r
    <3>3. "accept" \in Ops(r.own)
      BY <3>1, <3>2 DEF Ops
    <3>4. crossed' = crossed \cup Both(r.own)
      BY <2>3, <3>3, <1>1, <1>r DEF Start
    <3>5. QED
      BY <2>3, <3>1, <3>2, <3>4, <1>m, <1>r
  <2>4. QED
    BY <2>1, <2>2, <2>3
<1>5. Mutual'
  BY <1>c, <1>r DEF IInv, Mutual
<1>6. ASSUME NEW v \in Workers
      PROVE  (Fits(v) /\ Writing(v) /\ Accepting(v) /\ Removing(v))'
  <2>0. Fits(v) /\ Writing(v) /\ Accepting(v) /\ Removing(v)
    BY DEF IInv
  <2>1. CASE v # w
    <3>1. req'[v] = req[v]
      BY <2>1, <1>r
    <3>2. Fits(v)' /\ Writing(v)'
      BY <2>0, <3>1, <1>r, <1>c DEF Fits, Writing
    <3>3. Accepting(v)' /\ Removing(v)'
      BY <2>0, <3>1, <1>r, <1>c DEF Accepting, Removing
    <3>4. QED
      BY <3>2, <3>3
  <2>2. CASE v = w
    <3>1. Fits(w)'
      BY <1>r, <1>1 DEF Fits, Ops4
    <3>2. \A q \in Pairs : lock[q] # w
      BY <2>0, <2>2, <1>i DEF Writing
    <3>3. Writing(w)'
      BY <3>2, <1>r DEF Writing
    <3>4. Accepting(w)'
      BY <1>r, <1>1 DEF Accepting, Known
    <3>5. Removing(w)'
      BY <1>r, <1>1, <1>m DEF Removing
    <3>6. QED
      BY <2>2, <3>1, <3>3, <3>4, <3>5
  <2>3. QED
    BY <2>1, <2>2
<1>7. QED
  BY <1>2, <1>3, <1>4, <1>5, <1>6 DEF IInv

\* A step that writes a row or looks at one: it is the handler's own, and nothing
\* is committed.
LEMMA OwnStep ==
  ASSUME IInv, NEW w \in Workers, TypeOK',
         UNCHANGED <<contact, crossed>>,
         req'[w].op = req[w].op, req'[w].own = req[w].own,
         \A v \in Workers \ {w} : req'[v] = req[v],
         \A q \in Pairs : \/ lock'[q] = lock[q] /\ draft'[q] = draft[q]
                          \/ lock[q] = NoWorker /\ lock'[q] = w,
         (Fits(w) /\ Writing(w) /\ Accepting(w) /\ Removing(w))'
  PROVE  IInv'
<1>1. Mirrored' /\ Mutual'
  BY DEF IInv, Mirrored, Mutual
<1>2. \A v \in Workers : req'[v].op = req[v].op /\ req'[v].own = req[v].own
  OBVIOUS
<1>3. Crossing'
  BY <1>2 DEF IInv, Crossing
<1>4. ASSUME NEW v \in Workers \ {w}
      PROVE  (Fits(v) /\ Writing(v) /\ Accepting(v) /\ Removing(v))'
  <2>0. Fits(v) /\ Writing(v) /\ Accepting(v) /\ Removing(v) /\ req'[v] = req[v]
    BY DEF IInv
  <2>1. v # NoWorker
    BY NoValueAssumption
  <2>2. \A q \in Pairs : /\ lock'[q] = v <=> lock[q] = v
                         /\ lock[q] = v => draft'[q] = draft[q]
    BY <2>1
  <2>3. Fits(v)' /\ Writing(v)'
    BY <2>0, <2>2 DEF Fits, Writing
  <2>4. Accepting(v)'
    <3>1. CASE req[v].op = "accept"
      <4>1. req[v].own \in Pairs /\ Mirror(req[v].own) \in Pairs
        BY <2>0, <3>1, MirrorPair DEF Fits
      <4>2. QED
        BY <2>0, <2>2, <4>1 DEF Accepting
    <3>2. CASE req[v].op # "accept"
      BY <2>0, <3>2 DEF Accepting
    <3>3. QED
      BY <3>1, <3>2
  <2>5. Removing(v)'
    <3>1. CASE req[v].op = "remove"
      <4>1. Both(req[v].own) \subseteq Pairs
        BY <2>0, <3>1, MirrorPair DEF Fits
      <4>2. QED
        BY <2>0, <2>2, <4>1 DEF Removing
    <3>2. CASE req[v].op # "remove"
      BY <2>0, <3>2 DEF Removing
    <3>3. QED
      BY <3>1, <3>2
  <2>6. QED
    BY <2>3, <2>4, <2>5
<1>5. QED
  BY <1>1, <1>3, <1>4 DEF IInv

\* A transaction that is rolled back gives its rows back as they were.
LEMMA AbortKeeps ==
  ASSUME IInv, NEW w \in Workers, Abort(w)
  PROVE  IInv'
<1>t. TypeOK
  BY DEF IInv
<1>r. /\ req' \in [Workers -> Request] /\ req'[w] = Idle
      /\ \A v \in Workers \ {w} : req'[v] = req[v]
      /\ UNCHANGED <<contact, draft, crossed>>
  BY <1>t, IdleType DEF Abort, TypeOK
<1>l. /\ lock' \in [Pairs -> Owner]
      /\ \A q \in Pairs : lock'[q] = IF lock[q] = w THEN NoWorker ELSE lock[q]
  BY <1>t DEF Abort, Unlocked, TypeOK, Owner
<1>1. TypeOK'
  BY <1>t, <1>r, <1>l DEF TypeOK
<1>2. Mirrored' /\ Mutual'
  BY <1>r DEF IInv, Mirrored, Mutual
<1>3. Crossing'
  BY <1>r DEF IInv, Crossing, Idle
<1>4. ASSUME NEW v \in Workers
      PROVE  (Fits(v) /\ Writing(v) /\ Accepting(v) /\ Removing(v))'
  <2>0. Fits(v) /\ Writing(v) /\ Accepting(v) /\ Removing(v) /\ v # NoWorker
    BY NoValueAssumption DEF IInv
  <2>1. CASE v = w
    <3>1. \A q \in Pairs : lock'[q] # w
      BY <2>0, <2>1, <1>l
    <3>2. QED
      BY <2>1, <3>1, <1>r DEF Fits, Writing, Accepting, Removing, Idle
  <2>2. CASE v # w
    <3>1. req'[v] = req[v] /\ \A q \in Pairs : lock'[q] = v <=> lock[q] = v
      BY <2>0, <2>2, <1>r, <1>l
    <3>2. Fits(v)' /\ Writing(v)'
      BY <2>0, <3>1, <1>r DEF Fits, Writing
    <3>3. Accepting(v)'
      <4>1. CASE req[v].op = "accept"
        <5>1. req[v].own \in Pairs /\ Mirror(req[v].own) \in Pairs
          BY <2>0, <4>1, MirrorPair DEF Fits
        <5>2. QED
          BY <2>0, <3>1, <5>1, <1>r DEF Accepting
      <4>2. CASE req[v].op # "accept"
        BY <3>1, <4>2 DEF Accepting
      <4>3. QED
        BY <4>1, <4>2
    <3>4. Removing(v)'
      <4>1. CASE req[v].op = "remove"
        <5>1. Both(req[v].own) \subseteq Pairs
          BY <2>0, <4>1, MirrorPair DEF Fits
        <5>2. QED
          BY <2>0, <3>1, <5>1, <1>r DEF Removing
      <4>2. CASE req[v].op # "remove"
        BY <3>1, <4>2 DEF Removing
      <4>3. QED
        BY <4>1, <4>2
    <3>5. QED
      BY <3>2, <3>3, <3>4
  <2>3. QED
    BY <2>1, <2>2
<1>5. QED
  BY <1>1, <1>2, <1>3, <1>4 DEF IInv

\* What Store does to one row and one handler.
LEMMA StoreEffect ==
  ASSUME IInv, NEW w \in Workers, NEW p \in Pairs, NEW s \in Status,
         NEW pc \in {"look", "delete", "commit"}, Free(p), Store(w, p, s, pc)
  PROVE  /\ TypeOK'
         /\ UNCHANGED <<contact, crossed>>
         /\ req'[w] = [req[w] EXCEPT !.pc = pc, !.todo = @ \ {p}]
         /\ \A v \in Workers \ {w} : req'[v] = req[v]
         /\ lock'[p] = w /\ draft'[p] = s
         /\ \A q \in Pairs \ {p} : lock'[q] = lock[q] /\ draft'[q] = draft[q]
         /\ \A q \in Pairs : \/ lock'[q] = lock[q] /\ draft'[q] = draft[q]
                             \/ lock[q] = NoWorker /\ lock'[q] = w
<1>t. TypeOK
  BY DEF IInv
<1>1. [req[w] EXCEPT !.pc = pc, !.todo = @ \ {p}] \in Request
  <2>1. req[w] \in Request
    BY <1>t DEF TypeOK
  <2>2. QED
    BY <2>1 DEF Request
<1>2. req' = [req EXCEPT ![w] = [req[w] EXCEPT !.pc = pc, !.todo = @ \ {p}]]
  BY <1>t DEF Store, TypeOK
<1>3. req' \in [Workers -> Request]
  BY <1>1, <1>2, <1>t DEF TypeOK
<1>4. lock' \in [Pairs -> Owner] /\ draft' \in [Pairs -> Status]
  BY <1>t DEF Store, TypeOK, Owner
<1>5. QED
  BY <1>t, <1>2, <1>3, <1>4 DEF Store, TypeOK, Free

LEMMA InsertKeeps ==
  ASSUME IInv, NEW w \in Workers, Insert(w)
  PROVE  IInv'
<1> DEFINE r == req[w]
<1>t. TypeOK /\ Fits(w) /\ Writing(w) /\ Accepting(w) /\ Removing(w) /\ r \in Request
  BY DEF IInv, TypeOK
<1>g. r.op \in {"add", "accept", "block"} /\ r.own \in Pairs /\ Free(r.own)
      /\ r.pc = "insert"
  BY <1>t DEF Insert, At, Fits, Idle, Request
<1>m. /\ Both(r.own) \subseteq Pairs /\ r.own \in Both(r.own)
      /\ Mirror(r.own) \in Pairs /\ Mirror(r.own) \in Both(r.own)
  BY <1>g, MirrorPair
<1>1. CASE Abort(w)
  BY <1>1, AbortKeeps
<1>2. CASE contact[r.own] = "none" /\ Store(w, r.own, r.write, "commit")
  <2>1. /\ TypeOK'
        /\ UNCHANGED <<contact, crossed>>
        /\ req'[w] = [r EXCEPT !.pc = "commit", !.todo = @ \ {r.own}]
        /\ \A v \in Workers \ {w} : req'[v] = req[v]
        /\ lock'[r.own] = w /\ draft'[r.own] = r.write
        /\ \A q \in Pairs \ {r.own} : lock'[q] = lock[q] /\ draft'[q] = draft[q]
        /\ \A q \in Pairs : \/ lock'[q] = lock[q] /\ draft'[q] = draft[q]
                            \/ lock[q] = NoWorker /\ lock'[q] = w
    <3>1. r.write \in Status
      BY <1>t DEF Request
    <3>2. QED
      BY <1>2, <1>g, <3>1, StoreEffect
  <2>2. /\ req'[w].op = r.op /\ req'[w].own = r.own /\ req'[w].pc = "commit"
        /\ req'[w].write = r.write
    BY <2>1, <1>t DEF Request
  <2>3. Fits(w)'
    BY <2>2, <1>t, <1>g DEF Fits
  <2>4. Writing(w)'
    <3>1. ASSUME NEW q \in Pairs, lock'[q] = w, q # r.own
          PROVE  lock[q] = w /\ draft'[q] = draft[q]
      BY <2>1, <3>1
    <3>2. r.op = "add" => r.write = "pending"
      BY <1>t DEF Fits
    <3>3. r.op = "block" => r.write = "blocked"
      BY <1>t DEF Fits
    <3>4. r.op = "accept" => r.write \in Known
      BY <1>t DEF Fits, Known
    <3>5. QED
      BY <1>2, <1>t, <1>g, <1>m, <2>1, <2>2, <3>1, <3>2, <3>3, <3>4 DEF Writing
  <2>5. Accepting(w)'
    BY <1>t, <1>g, <1>m, <2>1, <2>2 DEF Accepting
  <2>6. Removing(w)'
    BY <1>g, <2>2 DEF Removing
  <2>7. QED
    BY <2>1, <2>2, <2>3, <2>4, <2>5, <2>6, OwnStep
<1>3. QED
  BY <1>1, <1>2 DEF Insert

LEMMA UpdateKeeps ==
  ASSUME IInv, NEW w \in Workers, Update(w)
  PROVE  IInv'
<1> DEFINE r == req[w]
           s == Updated(r.own, r.seen, r.write)
<1>t. TypeOK /\ Fits(w) /\ Writing(w) /\ Accepting(w) /\ Removing(w) /\ r \in Request
  BY DEF IInv, TypeOK
<1>g. r.op \in {"accept", "block"} /\ r.own \in Pairs /\ Free(r.own)
      /\ r.pc = "update"
  BY <1>t DEF Update, At, Fits, Idle, Request
<1>m. /\ Both(r.own) \subseteq Pairs /\ r.own \in Both(r.own)
      /\ Mirror(r.own) \in Pairs /\ Mirror(r.own) \in Both(r.own)
  BY <1>g, MirrorPair
<1> HIDE DEF s
<1>1. CASE Abort(w)
  BY <1>1, AbortKeeps
<1>2. CASE Store(w, r.own, s, "commit")
  <2>1. /\ TypeOK'
        /\ UNCHANGED <<contact, crossed>>
        /\ req'[w] = [r EXCEPT !.pc = "commit", !.todo = @ \ {r.own}]
        /\ \A v \in Workers \ {w} : req'[v] = req[v]
        /\ lock'[r.own] = w /\ draft'[r.own] = s
        /\ \A q \in Pairs \ {r.own} : lock'[q] = lock[q] /\ draft'[q] = draft[q]
        /\ \A q \in Pairs : \/ lock'[q] = lock[q] /\ draft'[q] = draft[q]
                            \/ lock[q] = NoWorker /\ lock'[q] = w
    <3>1. s \in Status
      BY <1>t, <1>g DEF s, Request, Updated, TypeOK
    <3>2. QED
      BY <1>2, <1>g, <3>1, StoreEffect
  <2>2. /\ req'[w].op = r.op /\ req'[w].own = r.own /\ req'[w].pc = "commit"
        /\ req'[w].write = r.write
    BY <2>1, <1>t DEF Request
  <2>3. Fits(w)'
    BY <2>2, <1>t, <1>g DEF Fits
  <2>4. Writing(w)'
    <3>1. ASSUME NEW q \in Pairs, lock'[q] = w, q # r.own
          PROVE  lock[q] = w /\ draft'[q] = draft[q]
      BY <2>1, <3>1
    <3>2. r.op = "block" => s \in {"blocked", contact[r.own]}
      BY <1>t DEF s, Fits, Updated
    <3>3. r.op = "accept" /\ r.own \notin crossed => s \in Known
      BY <1>t, <1>g DEF s, Fits, Updated, Known, Accepting
    <3>4. QED
      BY <1>t, <1>g, <1>m, <2>1, <2>2, <3>1, <3>2, <3>3 DEF Writing
  <2>5. Accepting(w)'
    BY <1>t, <1>g, <1>m, <2>1, <2>2 DEF Accepting
  <2>6. Removing(w)'
    BY <1>g, <2>2 DEF Removing
  <2>7. QED
    BY <2>1, <2>2, <2>3, <2>4, <2>5, <2>6, OwnStep
<1>3. QED
  BY <1>1, <1>2 DEF s, Update

LEMMA UpdateIncomingKeeps ==
  ASSUME IInv, NEW w \in Workers, UpdateIncoming(w)
  PROVE  IInv'
<1> DEFINE r == req[w]
           p == Mirror(r.own)
           s == Updated(p, r.seen, "accepted")
<1>t. TypeOK /\ Fits(w) /\ Writing(w) /\ Accepting(w) /\ Removing(w) /\ r \in Request
  BY DEF IInv, TypeOK
<1>g. r.op = "accept" /\ r.own \in Pairs /\ r.pc = "incoming" /\ Free(p)
  BY <1>t DEF UpdateIncoming, At, Fits, Idle, Request
<1>m. /\ Both(r.own) \subseteq Pairs /\ r.own \in Both(r.own)
      /\ p \in Pairs /\ p \in Both(r.own)
  BY <1>g, MirrorPair
<1>1. CASE Abort(w)
  BY <1>1, AbortKeeps
<1>2. CASE Store(w, p, s, "look")
  <2>1. /\ TypeOK'
        /\ UNCHANGED <<contact, crossed>>
        /\ req'[w] = [r EXCEPT !.pc = "look", !.todo = @ \ {p}]
        /\ \A v \in Workers \ {w} : req'[v] = req[v]
        /\ lock'[p] = w /\ draft'[p] = s
        /\ \A q \in Pairs \ {p} : lock'[q] = lock[q] /\ draft'[q] = draft[q]
        /\ \A q \in Pairs : \/ lock'[q] = lock[q] /\ draft'[q] = draft[q]
                            \/ lock[q] = NoWorker /\ lock'[q] = w
    <3>1. s \in Status
      BY <1>t, <1>m DEF Updated, TypeOK, Status
    <3>2. QED
      BY <1>2, <1>g, <1>m, <3>1, StoreEffect
  <2>2. /\ req'[w].op = r.op /\ req'[w].own = r.own /\ req'[w].pc = "look"
        /\ req'[w].write = r.write
    BY <2>1, <1>t DEF Request
  <2>3. Fits(w)'
    BY <2>2, <1>t, <1>g DEF Fits
  <2>4. Writing(w)'
    <3>1. ASSUME NEW q \in Pairs, lock'[q] = w, q # p
          PROVE  lock[q] = w /\ draft'[q] = draft[q]
      BY <2>1, <3>1
    <3>2. r.own \notin crossed => s \in Known
      BY <1>t, <1>g DEF Updated, Known, Accepting
    <3>3. QED
      BY <1>t, <1>g, <1>m, <2>1, <2>2, <3>1, <3>2 DEF Writing
  <2>5. Accepting(w)'
    BY <1>t, <1>g, <1>m, <2>1, <2>2 DEF Accepting
  <2>6. Removing(w)'
    BY <1>g, <2>2 DEF Removing
  <2>7. QED
    BY <2>1, <2>2, <2>3, <2>4, <2>5, <2>6, OwnStep
<1>3. QED
  BY <1>1, <1>2 DEF UpdateIncoming

LEMMA DeleteRowKeeps ==
  ASSUME IInv, NEW w \in Workers, NEW p \in Pairs, DeleteRow(w, p)
  PROVE  IInv'
<1> DEFINE r == req[w]
<1>t. TypeOK /\ Fits(w) /\ Writing(w) /\ Accepting(w) /\ Removing(w) /\ r \in Request
  BY DEF IInv, TypeOK
<1>g. r.op = "remove" /\ r.own \in Pairs /\ r.pc = "delete" /\ Free(p) /\ p \in r.todo
      /\ p \in Both(r.own)
  BY <1>t DEF DeleteRow, At, Fits, Idle, Request
<1>m. Both(r.own) \subseteq Pairs
  BY <1>g, MirrorPair
<1>1. /\ TypeOK'
      /\ UNCHANGED <<contact, crossed>>
      /\ req'[w] = [r EXCEPT !.pc = "delete", !.todo = @ \ {p}]
      /\ \A v \in Workers \ {w} : req'[v] = req[v]
      /\ lock'[p] = w /\ draft'[p] = "none"
      /\ \A q \in Pairs \ {p} : lock'[q] = lock[q] /\ draft'[q] = draft[q]
      /\ \A q \in Pairs : \/ lock'[q] = lock[q] /\ draft'[q] = draft[q]
                          \/ lock[q] = NoWorker /\ lock'[q] = w
  <2>1. "none" \in Status
    BY DEF Status
  <2>2. Store(w, p, "none", "delete")
    BY DEF DeleteRow
  <2>3. QED
    BY <1>g, <2>1, <2>2, StoreEffect
<1>2. /\ req'[w].op = r.op /\ req'[w].own = r.own /\ req'[w].pc = "delete"
      /\ req'[w].todo = r.todo \ {p}
  BY <1>1, <1>t DEF Request
<1>3. Fits(w)'
  BY <1>2, <1>t, <1>g DEF Fits
<1>4. Writing(w)'
  <2>1. ASSUME NEW q \in Pairs, lock'[q] = w, q # p
        PROVE  lock[q] = w /\ draft'[q] = draft[q]
    BY <1>1, <2>1
  <2>2. QED
    BY <1>t, <1>g, <1>m, <1>1, <1>2, <2>1 DEF Writing
<1>5. Accepting(w)'
  BY <1>g, <1>2 DEF Accepting
<1>6. Removing(w)'
  BY <1>t, <1>g, <1>m, <1>1, <1>2 DEF Removing
<1>7. QED
  BY <1>1, <1>2, <1>3, <1>4, <1>5, <1>6, OwnStep

LEMMA LookOwnKeeps ==
  ASSUME IInv, NEW w \in Workers, LookOwn(w)
  PROVE  IInv'
<1> DEFINE r == req[w]
<1>t. TypeOK /\ Fits(w) /\ Writing(w) /\ Accepting(w) /\ Removing(w) /\ r \in Request
  BY DEF IInv, TypeOK
<1>g. r.op \in {"accept", "block"} /\ r.own \in Pairs /\ r.pc = "look"
  BY <1>t DEF LookOwn, At, Fits, Idle, Request
<1>m. Mirror(r.own) \in Pairs
  BY <1>g, MirrorPair
<1>1. PICK pc \in {"insert", "update"} :
        req' = [req EXCEPT ![w] = [r EXCEPT !.pc = pc, !.seen = contact[r.own]]]
  BY <1>t DEF LookOwn, TypeOK
<1>2. [r EXCEPT !.pc = pc, !.seen = contact[r.own]] \in Request
  BY <1>t, <1>g DEF Request, TypeOK
<1>3. TypeOK'
  <2>1. req' \in [Workers -> Request]
    BY <1>1, <1>2, <1>t DEF TypeOK
  <2>2. QED
    BY <2>1, <1>t DEF LookOwn, TypeOK
<1>4. /\ req'[w].op = r.op /\ req'[w].own = r.own /\ req'[w].pc = pc
      /\ req'[w].seen = contact[r.own] /\ req'[w].write = r.write
      /\ \A v \in Workers \ {w} : req'[v] = req[v]
  BY <1>1, <1>t DEF Request, TypeOK
<1>5. UNCHANGED <<contact, lock, draft, crossed>>
  BY DEF LookOwn
<1>6. Fits(w)' /\ Writing(w)'
  BY <1>t, <1>g, <1>4, <1>5 DEF Fits, Writing
<1>7. Accepting(w)' /\ Removing(w)'
  BY <1>t, <1>g, <1>m, <1>4, <1>5 DEF Accepting, Removing, Known
<1>8. QED
  BY <1>3, <1>4, <1>5, <1>6, <1>7, OwnStep

\* What a commit may make of a row of a pair that was not crossed.
LEMMA Committed ==
  ASSUME IInv, NEW w \in Workers, Commit(w), NEW q \in Pairs, q \notin crossed
  PROVE  /\ contact'[q] = "accepted"
              => contact[q] = "accepted" \/ (req[w].op = "accept" /\ lock[q] = w)
         /\ contact[q] \in Known /\ (req[w].op = "remove" => lock[q] # w)
              => contact'[q] \in Known
<1>t. TypeOK /\ Fits(w) /\ Writing(w)
  BY DEF IInv
<1>c. contact'[q] = IF lock[q] = w THEN draft[q] ELSE contact[q]
  BY DEF Commit
<1>1. CASE lock[q] # w
  BY <1>1, <1>c
<1>2. CASE lock[q] = w
  <2>1. req[w].own \in Pairs /\ q \in Both(req[w].own)
    BY <1>t, <1>2 DEF Fits, Writing
  <2>2. req[w].own \notin crossed
    BY <2>1, MirrorPair DEF IInv, Mirrored
  <2>3. req[w].op \in {"add", "accept", "block", "remove"}
    BY <1>t, <1>2 DEF Writing, TypeOK, Request
  <2>4. QED
    BY <1>t, <1>c, <1>2, <2>2, <2>3 DEF Writing, Known
<1>3. QED
  BY <1>1, <1>2

LEMMA CommitKeeps ==
  ASSUME IInv, NEW w \in Workers, Commit(w)
  PROVE  IInv'
<1> DEFINE gone == {p \in Writes(w) : draft[p] = "none"}
<1>t. TypeOK /\ Fits(w) /\ Writing(w) /\ Accepting(w) /\ Removing(w)
  BY DEF IInv
<1>e. /\ req' = [v \in Workers |-> IF v = w THEN Idle
                                   ELSE [req[v] EXCEPT !.todo = @ \ gone]]
      /\ UNCHANGED <<draft, crossed>>
      /\ At(w, "commit") \/ (At(w, "delete") /\ req[w].todo = {})
  BY DEF Commit
<1>c. /\ contact' \in [Pairs -> Status]
      /\ \A q \in Pairs : contact'[q] = IF lock[q] = w THEN draft[q] ELSE contact[q]
  BY <1>t DEF Commit, TypeOK
<1>l. /\ lock' \in [Pairs -> Owner]
      /\ \A q \in Pairs : lock'[q] = IF lock[q] = w THEN NoWorker ELSE lock[q]
  BY <1>t DEF Commit, Unlocked, TypeOK, Owner
<1>r. /\ req'[w] = Idle
      /\ \A v \in Workers \ {w} : /\ req'[v] = [req[v] EXCEPT !.todo = @ \ gone]
                                  /\ req'[v] \in Request
      /\ req' \in [Workers -> Request]
  <2>1. ASSUME NEW v \in Workers
        PROVE  [req[v] EXCEPT !.todo = @ \ gone] \in Request
    <3>1. req[v] \in Request
      BY <1>t DEF TypeOK
    <3>2. QED
      BY <3>1 DEF Request
  <2>2. QED
    BY <1>e, <2>1, IdleType
<1>f. \A v \in Workers \ {w} :
        /\ req'[v].op = req[v].op /\ req'[v].own = req[v].own
        /\ req'[v].pc = req[v].pc /\ req'[v].seen = req[v].seen
        /\ req'[v].write = req[v].write /\ req'[v].todo = req[v].todo \ gone
  BY <1>r, <1>t DEF TypeOK, Request
<1>1. TypeOK'
  BY <1>t, <1>e, <1>c, <1>l, <1>r DEF TypeOK
<1>2. Mirrored'
  BY <1>e DEF IInv, Mirrored
<1>3. Crossing'
  <2>1. req'[w].op = "none"
    BY <1>r DEF Idle
  <2>2. QED
    BY <1>e, <1>f, <2>1 DEF IInv, Crossing
<1>4. Mutual'
  <2> SUFFICES ASSUME NEW p \in Pairs, p \notin crossed, contact'[p] = "accepted"
               PROVE  contact'[Mirror(p)] \in Known
    BY <1>e DEF Mutual, Known
  <2>m. Mirror(p) \in Pairs /\ Mirror(p) \notin crossed
    BY MirrorPair DEF IInv, Mirrored
  <2>1. CASE contact[p] = "accepted"
    <3>1. contact[Mirror(p)] \in Known
      BY <2>1 DEF IInv, Mutual, Known
    <3>2. req[w].op = "remove" => lock[Mirror(p)] # w
      <4> SUFFICES ASSUME req[w].op = "remove", lock[Mirror(p)] = w PROVE FALSE
        OBVIOUS
      <4>1. req[w].own \in Pairs /\ Mirror(p) \in Both(req[w].own)
        BY <1>t, <2>m DEF Fits, Writing
      <4>2. p \in Both(req[w].own) /\ req[w].own \notin crossed
        BY <4>1, <2>m, MirrorPair DEF IInv, Mirrored
      <4>3. req[w].todo = {}
        BY <1>e, <1>t DEF Fits, At
      <4>4. lock[p] = w
        BY <1>t, <2>1, <4>2, <4>3 DEF Removing
      <4>5. draft[p] = "none"
        BY <1>t, <4>4 DEF Writing
      <4>6. QED
        BY <1>c, <4>4, <4>5
    <3>3. QED
      BY <3>1, <3>2, <2>m, Committed
  <2>2. CASE contact[p] # "accepted"
    <3>1. req[w].op = "accept" /\ lock[p] = w
      BY <2>2, Committed
    <3>2. req[w].own \in Pairs /\ p \in Both(req[w].own)
      BY <1>t, <3>1 DEF Fits, Writing
    <3>3. req[w].pc = "commit"
      BY <1>e, <1>t, <3>1 DEF Fits, At
    <3>4. lock[Mirror(p)] = w
      BY <1>t, <3>1, <3>2, <3>3, MirrorPair DEF Accepting
    <3>5. req[w].own \notin crossed
      BY <3>2, <2>m, MirrorPair DEF IInv, Mirrored
    <3>6. draft[Mirror(p)] \in Known
      BY <1>t, <2>m, <3>1, <3>4, <3>5 DEF Writing
    <3>7. QED
      BY <1>c, <2>m, <3>4, <3>6
  <2>3. QED
    BY <2>1, <2>2
<1>5. ASSUME NEW v \in Workers
      PROVE  (Fits(v) /\ Writing(v) /\ Accepting(v) /\ Removing(v))'
  <2>n. w # NoWorker /\ v # NoWorker
    BY NoValueAssumption
  <2>1. CASE v = w
    <3>1. \A q \in Pairs : lock'[q] # w
      BY <2>n, <1>l
    <3>2. QED
      BY <2>1, <3>1, <1>r DEF Fits, Writing, Accepting, Removing, Idle
  <2>2. CASE v # w
    <3>0. Fits(v) /\ Writing(v) /\ Accepting(v) /\ Removing(v)
      BY DEF IInv
    <3>1. \A q \in Pairs : /\ lock'[q] = v <=> lock[q] = v
                           /\ lock[q] = v => contact'[q] = contact[q]
      BY <2>n, <2>2, <1>l, <1>c
    <3>f. /\ req'[v].op = req[v].op /\ req'[v].own = req[v].own
          /\ req'[v].pc = req[v].pc /\ req'[v].seen = req[v].seen
          /\ req'[v].write = req[v].write /\ req'[v].todo = req[v].todo \ gone
      BY <2>2, <1>f
    <3>2. Fits(v)'
      <4>1. CASE req[v].op = "none"
        <5>1. req[v] = Idle
          BY <3>0, <4>1 DEF Fits
        <5>2. [req[v] EXCEPT !.todo = @ \ gone] = Idle
          BY <5>1 DEF Idle
        <5>3. QED
          BY <2>2, <1>r, <5>2 DEF Fits, Idle
      <4>2. CASE req[v].op # "none"
        BY <3>0, <3>f, <4>2 DEF Fits
      <4>3. QED
        BY <4>1, <4>2
    <3>3. Writing(v)'
      BY <3>0, <3>1, <3>f, <1>e DEF Writing
    <3>4. Accepting(v)'
      <4> SUFFICES ASSUME req[v].op = "accept"
                   PROVE  Accepting(v)'
        BY <3>f DEF Accepting
      <4>1. req[v].own \in Pairs /\ Mirror(req[v].own) \in Pairs
        BY <3>0, MirrorPair DEF Fits
      <4>2. ASSUME NEW q \in Both(req[v].own), req[v].own \notin crossed,
                   contact[q] \in Known
            PROVE  contact'[q] \in Known
        <5>1. q \in Pairs /\ q \notin crossed
          BY <4>1, <4>2, MirrorPair DEF IInv, Mirrored
        <5>2. req[w].op = "remove" => lock[q] # w
          <6> SUFFICES ASSUME req[w].op = "remove", lock[q] = w PROVE FALSE
            OBVIOUS
          <6>1. req[w].own \in Pairs /\ q \in Both(req[w].own)
            BY <1>t, <5>1 DEF Fits, Writing
          <6>2. req[v].own \in Both(req[w].own)
            BY <4>1, <6>1, MirrorPair
          <6>3. QED
            BY <4>2, <6>2 DEF IInv, Crossing
        <5>3. QED
          BY <4>2, <5>1, <5>2, Committed
      <4>3. req[v].own \in Both(req[v].own) /\ Mirror(req[v].own) \in Both(req[v].own)
        BY <4>1, MirrorPair
      <4>4. QED
        BY <3>0, <3>1, <3>f, <4>1, <4>2, <4>3, <1>e DEF Accepting
    <3>5. Removing(v)'
      <4> SUFFICES ASSUME req[v].op = "remove", req[v].own \notin crossed,
                          NEW q \in Both(req[v].own),
                          q \notin req'[v].todo, lock'[q] # v,
                          contact'[q] = "accepted"
                   PROVE  FALSE
        BY <3>f, <1>e DEF Removing
      <4>1. req[v].own \in Pairs /\ q \in Pairs /\ q \notin crossed
        BY <3>0, MirrorPair DEF Fits, IInv, Mirrored
      <4>2. q \notin gone
        BY <1>c, <4>1 DEF Writes
      <4>3. contact[q] # "accepted"
        BY <3>0, <3>1, <3>f, <4>1, <4>2 DEF Removing
      <4>4. req[w].op = "accept" /\ lock[q] = w
        BY <4>1, <4>3, Committed
      <4>5. req[w].own \in Pairs /\ q \in Both(req[w].own)
        BY <1>t, <4>1, <4>4 DEF Fits, Writing
      <4>6. req[w].own \in Both(req[v].own)
        BY <4>1, <4>5, MirrorPair
      <4>7. QED
        BY <4>4, <4>6 DEF IInv, Crossing
    <3>6. QED
      BY <3>2, <3>3, <3>4, <3>5
  <2>3. QED
    BY <2>1, <2>2
<1>6. QED
  BY <1>1, <1>2, <1>3, <1>4, <1>5 DEF IInv

-----------------------------------------------------------------------------
(***************************************************************************)
(* Theorems                                                                *)
(***************************************************************************)
LEMMA Step == IInv /\ [Next]_vars => IInv'
<1> SUFFICES ASSUME IInv, [Next]_vars PROVE IInv'
  OBVIOUS
<1>1. CASE UNCHANGED vars
  BY <1>1 DEF vars, IInv, TypeOK, Mirrored, Crossing, Mutual, Fits, Writing,
              Accepting, Removing
<1>2. CASE Next
  <2>1. PICK w \in Workers : Begin(w) \/ Continue(w) \/ Cancel(w)
    BY <1>2 DEF Next
  <2>2. CASE Begin(w)
    BY <2>2, StartKeeps
  <2>3. CASE Cancel(w)
    BY <2>3, AbortKeeps DEF Cancel
  <2>4. CASE Continue(w)
    BY <2>4, InsertKeeps, UpdateKeeps, UpdateIncomingKeeps, LookOwnKeeps,
       CommitKeeps, AbortKeeps, DeleteRowKeeps DEF Continue, Deadlock
  <2>5. QED
    BY <2>1, <2>2, <2>3, <2>4
<1>3. QED
  BY <1>1, <1>2

THEOREM Invariance == Spec => []IInv
  BY Initially, Step, PTL DEF Spec

\* Every variable keeps its type, whatever transactions wait, conflict or are ended
\* by a deadlock.
THEOREM TypeCorrect == Spec => []TypeOK
<1>1. IInv => TypeOK
  BY DEF IInv
<1>2. QED
  BY <1>1, Invariance, PTL

\* An accepted contact has accepted too, or has blocked since, for all users and
\* handlers, as long as no RemoveContact and AcceptContact of the pair cross.
THEOREM MutualHolds == Spec => []Mutual
<1>1. IInv => Mutual
  BY DEF IInv
<1>2. QED
  BY <1>1, Invariance, PTL

\* A block ends by an AcceptContact or a RemoveContact only.
BlockEnds == \A p \in Pairs : contact[p] = "blocked" /\ contact'[p] # "blocked" =>
               \E w \in Workers : lock[p] = w /\ req[w].op \in {"accept", "remove"}

LEMMA BlockEndsByCommit ==
  ASSUME IInv, NEW w \in Workers, Commit(w)
  PROVE  BlockEnds
<1> SUFFICES ASSUME NEW p \in Pairs, contact[p] = "blocked", contact'[p] # "blocked"
             PROVE  lock[p] = w /\ req[w].op \in {"accept", "remove"}
  BY DEF BlockEnds
<1>1. lock[p] = w /\ contact'[p] = draft[p]
  BY DEF Commit
<1>2. Writing(w) /\ req[w].op \in {"none", "add", "accept", "block", "remove"}
  BY DEF IInv, TypeOK, Request
<1>3. QED
  BY <1>1, <1>2 DEF Writing

\* No handler but AcceptContact and RemoveContact ends a block, whatever it read
\* before the block was made.
THEOREM BlocksEndHolds == Spec => BlocksEnd
<1>1. IInv /\ [Next]_vars => [BlockEnds]_vars
  <2> SUFFICES ASSUME IInv, Next PROVE BlockEnds
    OBVIOUS
  <2>1. PICK w \in Workers : Begin(w) \/ Continue(w) \/ Cancel(w)
    BY DEF Next
  <2>2. CASE Commit(w)
    BY <2>2, BlockEndsByCommit
  <2>3. CASE UNCHANGED contact
    BY <2>3 DEF BlockEnds
  <2>4. Begin(w) \/ Cancel(w) => UNCHANGED contact
    BY DEF Begin, Cancel, Start, StartAdd, StartAccept, StartBlock, StartRemove, Abort
  <2>5. Continue(w) => UNCHANGED contact \/ Commit(w)
    BY DEF Continue, Insert, Update, UpdateIncoming, LookOwn, Deadlock, DeleteRow,
           Store, Abort
  <2>6. QED
    BY <2>1, <2>2, <2>3, <2>4, <2>5
<1>2. QED
  BY <1>1, Invariance, PTL DEF Spec, BlocksEnd, BlockEnds
=============================================================================
