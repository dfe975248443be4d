-------------------------- MODULE MessagesConverge --------------------------
(***************************************************************************)
(* Proof that clients come to show what is stored (Messages), for every    *)
(* set of users, messages, files and handlers in flight.                   *)
(***************************************************************************)
EXTENDS MessagesProofs

\* What the handler of an item that no other handler has worked on can rely on:
\* until it commits clients show what is stored, after that it is about to publish
\* what is stored.
Fresh(w) ==
  LET r == req[w] IN
  /\ r.pc \in {"file", "rights", "look", "commit"} => Stored(ItemOf(r))
  /\ r.pc = "publish" =>
       /\ r.op \in Texts => r.text = msgs[r.msg].text
       /\ r.op = "react" => Reacted(w)
       /\ r.op = "unreact" => ~Reacted(w)
  /\ r.op \in MarkOps /\ r.pc \in {"commit", "publish"} => r.status = status[r.msg][r.user]

\* An item that was not crossed has at most one handler at work.
Solo(i) ==
  i \notin crossed =>
    /\ \A v, w \in Workers : WorksOn(v, i) /\ WorksOn(w, i) => v = w
    /\ \A w \in Workers : WorksOn(w, i) => Fresh(w)
    /\ (\A w \in Workers : ~WorksOn(w, i)) => Stored(i)

SInv == IInv /\ \A i \in Items : Solo(i)

\* What a step leaves alone about item i.
SameAt(i) ==
  /\ i.field = "text" => /\ shown'[i.msg].text = shown[i.msg].text
                         /\ msgs'[i.msg].text = msgs[i.msg].text
  /\ i.field = "deleted" => /\ shown'[i.msg].deleted = shown[i.msg].deleted
                            /\ msgs'[i.msg].deleted = msgs[i.msg].deleted
  /\ i.field = "ack" =>
       /\ shown'[i.msg].acks[i.user] = shown[i.msg].acks[i.user]
       /\ status'[i.msg][i.user].set = status[i.msg][i.user].set
       /\ Sent(i.msg) => status'[i.msg][i.user] = status[i.msg][i.user]
  /\ i.field = "reaction" =>
       /\ (i.user \in shown'[i.msg].reacted) = (i.user \in shown[i.msg].reacted)
       /\ (<<i.msg, i.user>> \in reactions') = (<<i.msg, i.user>> \in reactions)

\* How a handler goes on: with the same item, of which it may change what is stored
\* or shown, and which it leaves as it is stored.
Settles(w) ==
  /\ Others(w) /\ crossed \subseteq crossed'
  /\ req'[w] = Idle \/ (req'[w].op = req[w].op /\ req'[w].msg = req[w].msg
                        /\ req'[w].user = req[w].user)
  /\ \A i \in Items : WorksOn(w, i) \/ SameAt(i)
  /\ \A i \in Items \ crossed' :
       WorksOn(w, i) /\ Fresh(w) => IF req'[w] = Idle THEN Stored(i)' ELSE Fresh(w)'

-----------------------------------------------------------------------------
(***************************************************************************)
(* Items                                                                   *)
(***************************************************************************)
LEMMA ItemFields ==
  ASSUME NEW r
  PROVE  /\ r.op \in Texts => ItemOf(r) = Item("text", r.msg, NoUser)
         /\ r.op = "delete" => ItemOf(r) = Item("deleted", r.msg, NoUser)
         /\ r.op \in ReactOps => ItemOf(r) = Item("reaction", r.msg, r.user)
         /\ r.op \in MarkOps => ItemOf(r) = Item("ack", r.msg, r.user)
  BY DEF ItemOf, Texts, ReactOps, MarkOps

LEMMA SameItem ==
  ASSUME NEW r, NEW s, r.op = s.op, r.msg = s.msg, r.user = s.user
  PROVE  ItemOf(r) = ItemOf(s)
  BY DEF ItemOf

LEMMA StoredAt ==
  ASSUME NEW i
  PROVE  /\ i.field = "text" => (Stored(i) <=> shown[i.msg].text = msgs[i.msg].text)
         /\ i.field = "deleted" =>
              (Stored(i) <=> shown[i.msg].deleted = msgs[i.msg].deleted)
         /\ i.field = "ack" =>
              (Stored(i) <=> shown[i.msg].acks[i.user] = status[i.msg][i.user].set)
         /\ i.field = "reaction" =>
              (Stored(i) <=> (i.user \in shown[i.msg].reacted)
                               = (<<i.msg, i.user>> \in reactions))
  BY DEF Stored

LEMMA ItemKinds ==
  ASSUME NEW i \in Items
  PROVE  /\ i.msg \in Msgs /\ i = Item(i.field, i.msg, i.user)
         /\ \/ i.field \in {"text", "deleted"} /\ i.user = NoUser
            \/ i.field \in {"ack", "reaction"} /\ i.user \in Users
  BY DEF Items, Item

LEMMA WorkItem ==
  ASSUME IInv, NEW w \in Workers, req[w].op \notin {"none", "upload"}
  PROVE  ItemOf(req[w]) \in Items /\ WorksOn(w, ItemOf(req[w]))
<1>1. req[w].op \in Texts \cup {"delete"} \cup ReactOps \cup MarkOps
  BY DEF IInv, TypeOK, Request, Texts, ReactOps, MarkOps
<1>2. req[w].msg \in Msgs /\ req[w].user \in Users
  BY <1>1 DEF IInv, Knows
<1>3. QED
  BY <1>1, <1>2, ItemFields DEF Items, WorksOn

-----------------------------------------------------------------------------
(***************************************************************************)
(* How the invariant is kept                                               *)
(***************************************************************************)
LEMMA StoredFrame ==
  ASSUME NEW i \in Items, SameAt(i)
  PROVE  Stored(i)' <=> Stored(i)
<1>1. i.field \in {"text", "deleted", "ack", "reaction"}
  BY ItemKinds
<1>2. QED
  BY <1>1 DEF Stored, SameAt

\* What a handler relies on is not disturbed by the others.
LEMMA FreshFrame ==
  ASSUME IInv, NEW v \in Workers, NEW i \in Items, WorksOn(v, i), SameAt(i),
         req'[v] = req[v], Fresh(v)
  PROVE  Fresh(v)'
<1> DEFINE r == req[v]
<1>1. /\ r.op \in Texts \cup {"delete"} \cup ReactOps \cup MarkOps /\ i = ItemOf(r)
      /\ r.op \in MarkOps => Sent(r.msg)
  BY DEF IInv, TypeOK, Request, Texts, ReactOps, MarkOps, WorksOn, Knows, Composing
<1>2. Stored(i)' <=> Stored(i)
  BY StoredFrame
<1>3. CASE r.op \in Texts
  BY <1>1, <1>2, <1>3, ItemFields
     DEF Fresh, SameAt, Item, Texts, MarkOps
<1>4. CASE r.op = "delete"
  BY <1>1, <1>2, <1>4 DEF Fresh, Texts, MarkOps
<1>5. CASE r.op \in ReactOps
  BY <1>1, <1>2, <1>5, ItemFields
     DEF Fresh, SameAt, Item, Texts, MarkOps, ReactOps, Reacted
<1>6. CASE r.op \in MarkOps
  BY <1>1, <1>2, <1>6, ItemFields
     DEF Fresh, SameAt, Item, Texts, MarkOps
<1>7. QED
  BY <1>1, <1>3, <1>4, <1>5, <1>6

LEMMA SettlesKeeps ==
  ASSUME SInv, NEW w \in Workers, Settles(w), IInv'
  PROVE  SInv'
<1>1. SUFFICES ASSUME NEW i \in Items, i \notin crossed'
               PROVE  /\ \A v, x \in Workers : WorksOn(v, i)' /\ WorksOn(x, i)' => v = x
                      /\ \A v \in Workers : WorksOn(v, i)' => Fresh(v)'
                      /\ (\A v \in Workers : ~WorksOn(v, i)') => Stored(i)'
  BY DEF SInv, Solo
<1>2. IInv /\ Solo(i) /\ i \notin crossed
  BY <1>1 DEF SInv, Settles
<1>3. WorksOn(w, i)' => WorksOn(w, i) /\ req'[w] # Idle
  <2>1. Idle.op = "none"
    BY DEF Idle
  <2>2. QED
    BY <2>1, SameItem DEF Settles, WorksOn
<1>4. \A v \in Workers \ {w} : WorksOn(v, i)' <=> WorksOn(v, i)
  BY DEF Settles, Others, WorksOn
<1>5. \A v, x \in Workers : WorksOn(v, i)' /\ WorksOn(x, i)' => v = x
  BY <1>2, <1>3, <1>4 DEF Solo
<1>6. CASE WorksOn(w, i)
  <2>1. Fresh(w) /\ \A v \in Workers \ {w} : ~WorksOn(v, i)
    BY <1>2, <1>6 DEF Solo
  <2>2. IF req'[w] = Idle THEN Stored(i)' ELSE Fresh(w)'
    BY <1>1, <1>6, <2>1 DEF Settles
  <2>3. req'[w] # Idle => WorksOn(w, i)'
    BY <1>6, SameItem DEF Settles, WorksOn
  <2>4. QED
    BY <1>3, <1>4, <1>5, <2>1, <2>2, <2>3
<1>7. CASE ~WorksOn(w, i)
  <2>1. SameAt(i) /\ ~WorksOn(w, i)'
    BY <1>3, <1>7 DEF Settles
  <2>2. ASSUME NEW v \in Workers, WorksOn(v, i)' PROVE Fresh(v)'
    <3>1. v # w /\ WorksOn(v, i) /\ Fresh(v) /\ req'[v] = req[v]
      BY <1>2, <1>4, <2>1, <2>2 DEF Solo, Settles, Others
    <3>2. QED
      BY <1>2, <2>1, <3>1, FreshFrame
  <2>3. (\A v \in Workers : ~WorksOn(v, i)') => Stored(i)'
    BY <1>2, <1>4, <1>7, <2>1, StoredFrame DEF Solo
  <2>4. QED
    BY <1>5, <2>2, <2>3
<1>8. QED
  BY <1>6, <1>7

-----------------------------------------------------------------------------
(***************************************************************************)
(* Handlers at work                                                        *)
(***************************************************************************)
LEMMA QuietSame ==
  ASSUME UNCHANGED <<msgs, status, reactions, shown>>, NEW i
  PROVE  SameAt(i)
  BY DEF SameAt

\* A handler that has not committed and ends, or goes on to its commit.
LEMMA QuietSettles ==
  ASSUME IInv, NEW w \in Workers, UNCHANGED <<msgs, status, reactions, shown>>,
         Others(w), crossed \subseteq crossed',
         \/ /\ req'[w] = Idle
            /\ \/ req[w].pc \in {"file", "rights", "look", "commit"}
               \/ \A i \in Items : WorksOn(w, i) => i \in crossed'
         \/ /\ req[w].pc \in {"file", "rights", "look"} /\ req'[w].pc = "commit"
            /\ req'[w].op = req[w].op /\ req'[w].msg = req[w].msg
            /\ req'[w].user = req[w].user
            /\ req[w].op \in MarkOps => req'[w].status = status[req[w].msg][req[w].user]
  PROVE  Settles(w)
<1>1. \A i \in Items : SameAt(i)
  BY QuietSame
<1>2. ASSUME NEW i \in Items \ crossed', WorksOn(w, i), Fresh(w)
      PROVE  IF req'[w] = Idle THEN Stored(i)' ELSE Fresh(w)'
  <2>1. req[w].pc \in {"file", "rights", "look", "commit"}
    BY <1>2
  <2>2. i = ItemOf(req[w]) /\ Stored(i)
    BY <1>2, <2>1 DEF Fresh, WorksOn
  <2>3. Stored(i)'
    BY <2>2, <1>1, StoredFrame
  <2>4. CASE req'[w] # Idle
    <3>1. ItemOf(req'[w]) = i
      BY <2>2, <2>4, SameItem
    <3>2. req'[w].pc = "commit"
      BY <2>4
    <3>3. req'[w].op \in MarkOps => req'[w].status = status'[req'[w].msg][req'[w].user]
      BY <2>4
    <3>4. QED
      BY <2>3, <2>4, <3>1, <3>2, <3>3 DEF Fresh
  <2>5. QED
    BY <2>3, <2>4
<1>3. QED
  BY <1>1, <1>2 DEF Settles

LEMMA LooksSettle ==
  ASSUME IInv, NEW w \in Workers,
         \/ CommitUpload(w) \/ ReadFile(w) \/ CheckRights(w) \/ LookAtReaction(w)
         \/ LookAtStatus(w) \/ Cancel(w)
  PROVE  Settles(w)
<1>t. TypeOK /\ req[w] \in Request
  BY DEF IInv, TypeOK
<1>1. UNCHANGED <<msgs, status, reactions, shown>> /\ crossed \subseteq crossed'
  BY DEF CommitUpload, ReadFile, CheckRights, LookAtReaction, LookAtStatus, Cancel,
         Tables
<1>2. Return(w) => req'[w] = Idle /\ Others(w)
  BY <1>t, ReturnType
<1>3. ASSUME Goto(w, "commit")
      PROVE  /\ Others(w) /\ req'[w].pc = "commit" /\ req'[w].op = req[w].op
             /\ req'[w].msg = req[w].msg /\ req'[w].user = req[w].user
  BY <1>3, GotoFacts DEF Pcs
<1>4. CASE CommitUpload(w)
  BY <1>1, <1>2, <1>4, QuietSettles DEF CommitUpload, At
<1>5. CASE CheckRights(w) \/ LookAtReaction(w)
  <2>1. req[w].pc \in {"rights", "look"} /\ req[w].op \notin MarkOps
        /\ (Goto(w, "commit") \/ Return(w))
    BY <1>5 DEF CheckRights, LookAtReaction, At, MarkOps
  <2>2. QED
    BY <1>1, <1>2, <1>3, <2>1, QuietSettles
<1>6. CASE ReadFile(w)
  <2>1. /\ req[w].pc = "file" /\ req[w].op = "send" /\ req'[w].pc = "commit"
        /\ req'[w].op = req[w].op /\ req'[w].msg = req[w].msg
        /\ req'[w].user = req[w].user /\ Others(w)
    BY <1>6, <1>t DEF ReadFile, At, TypeOK, Request, Others
  <2>2. QED
    BY <1>1, <2>1, QuietSettles DEF MarkOps
<1>7. CASE LookAtStatus(w)
  <2>1. /\ req[w].pc = "look" /\ req'[w].pc = "commit"
        /\ req'[w].op = req[w].op /\ req'[w].msg = req[w].msg
        /\ req'[w].user = req[w].user /\ Others(w)
        /\ req'[w].status = status[req[w].msg][req[w].user]
    BY <1>7, <1>t DEF LookAtStatus, TypeOK, Request, Others
  <2>2. QED
    BY <1>1, <2>1, QuietSettles
<1>8. CASE Cancel(w)
  <2>1. \/ req[w].pc \in {"file", "rights", "look", "commit"}
        \/ \A i \in Items : WorksOn(w, i) => i \in crossed'
    <3>1. req[w].pc \in Pcs /\ (req[w].pc = "idle" => req[w].op = "none")
      BY <1>t DEF IInv, Request, Pcs, Knows, Fits, Texts, ReactOps, MarkOps
    <3>2. CASE req[w].pc \in {"refresh", "publish"}
      BY <1>8, <3>2 DEF Cancel, WorksOn
    <3>3. QED
      BY <3>1, <3>2 DEF Pcs, WorksOn
  <2>2. QED
    BY <1>1, <1>2, <1>8, <2>1, QuietSettles DEF Cancel
<1>9. QED
  BY <1>4, <1>5, <1>6, <1>7, <1>8

LEMMA RefreshSettles ==
  ASSUME IInv, NEW w \in Workers, Refresh(w)
  PROVE  Settles(w)
<1>1. /\ req[w] \in Request /\ Others(w) /\ req'[w].pc = "publish"
      /\ req'[w].op = req[w].op /\ req'[w].msg = req[w].msg
      /\ req'[w].user = req[w].user /\ req'[w].text = msgs[req[w].msg].text
  BY DEF IInv, TypeOK, Refresh, Request, Others
<1>2. UNCHANGED <<msgs, status, reactions, shown, crossed>>
  BY DEF Refresh, Tables
<1>3. req[w].op \in Texts
  BY <1>1 DEF IInv, Knows, Fits, Refresh, Texts, ReactOps, MarkOps, Request, Idle
<1>4. Fresh(w)'
  BY <1>1, <1>2, <1>3 DEF Fresh, Texts, MarkOps
<1>5. QED
  BY <1>1, <1>2, <1>4, QuietSame DEF Settles, Idle

\* A handler that commits text or deletion of its message.
LEMMA WritesSettle ==
  ASSUME IInv, NEW w \in Workers,
         \/ CommitEdit(w) \/ CommitDelete(w)
         \/ \E readers \in SUBSET Users : CommitSend(w, readers)
  PROVE  Settles(w)
<1> DEFINE r == req[w]
<1>1. /\ TypeOK /\ r \in Request /\ r.msg \in Msgs /\ msgs[r.msg] \in Message
      /\ r.op \in Texts \cup {"delete"} /\ r.pc = "commit"
  <2>1. TypeOK /\ Knows(w) /\ r.op \in Texts \cup {"delete"} /\ r.pc = "commit"
    BY DEF IInv, CommitEdit, CommitDelete, CommitSend, At, Texts
  <2>2. QED
    BY <2>1, Ranges DEF Knows, Texts
<1>2. /\ Others(w) /\ req'[w].op = r.op /\ req'[w].msg = r.msg /\ req'[w].user = r.user
      /\ req'[w].pc \in {"refresh", "publish"} /\ (r.op \in Texts => req'[w].pc = "refresh")
  <2>1. Goto(w, "refresh") \/ (Goto(w, "publish") /\ r.op = "delete")
    BY DEF CommitEdit, CommitDelete, CommitSend, At
  <2>2. QED
    BY <2>1, GotoFacts DEF Pcs, Texts
<1>3. UNCHANGED <<reactions, shown, crossed>>
  BY DEF CommitEdit, CommitDelete, CommitSend
<1>4. Fresh(w)'
  BY <1>1, <1>2 DEF Fresh, Texts, MarkOps
<1>5. /\ \A m \in Msgs \ {r.msg} : msgs'[m] = msgs[m] /\ status'[m] = status[m]
      /\ \A u \in Users : /\ status'[r.msg][u].set = status[r.msg][u].set
                          /\ Sent(r.msg) => status'[r.msg][u] = status[r.msg][u]
      /\ r.op \in Texts => msgs'[r.msg].deleted = msgs[r.msg].deleted
      /\ r.op = "delete" => msgs'[r.msg].text = msgs[r.msg].text
  <2>1. CASE CommitEdit(w) \/ CommitDelete(w)
    BY <1>1, <2>1 DEF TypeOK, CommitEdit, CommitDelete, At, Message, Texts
  <2>2. ASSUME NEW readers \in SUBSET Users, CommitSend(w, readers)
        PROVE  /\ \A m \in Msgs \ {r.msg} : msgs'[m] = msgs[m] /\ status'[m] = status[m]
               /\ \A u \in Users : /\ status'[r.msg][u].set = status[r.msg][u].set
                                   /\ Sent(r.msg) => status'[r.msg][u] = status[r.msg][u]
               /\ r.op \in Texts => msgs'[r.msg].deleted = msgs[r.msg].deleted
               /\ r.op = "delete" => msgs'[r.msg].text = msgs[r.msg].text
    <3>1. Composing(w) /\ Knows(w) /\ Records
      BY <2>2 DEF IInv, CommitSend, At, Composing
    <3>2. /\ ~Sent(r.msg) /\ msgs[r.msg].deleted = FALSE
          /\ \A u \in Users : status[r.msg][u].set = {}
      BY <1>1, <3>1 DEF Knows, Composing, Records
    <3>3. QED
      BY <1>1, <2>2, <3>2 DEF TypeOK, CommitSend, At
  <2>3. QED
    BY <2>1, <2>2
<1>6. ASSUME NEW i \in Items, ~WorksOn(w, i) PROVE SameAt(i)
  <2>1. /\ r.op \in Texts => i # Item("text", r.msg, NoUser)
        /\ r.op = "delete" => i # Item("deleted", r.msg, NoUser)
    BY <1>1, <1>6, ItemFields DEF WorksOn, Texts
  <2>2. i.msg \in Msgs /\ (i.field \in {"text", "deleted"} => i.user = NoUser)
        /\ (i.field = "ack" => i.user \in Users)
        /\ i = Item(i.field, i.msg, i.user)
    BY ItemKinds
  <2>3. QED
    BY <1>1, <1>3, <1>5, <2>1, <2>2 DEF SameAt
<1>7. QED
  BY <1>2, <1>3, <1>4, <1>6 DEF Settles, Idle

LEMMA ReactionSettles ==
  ASSUME IInv, NEW w \in Workers, CommitReaction(w) \/ CommitUnreaction(w)
  PROVE  Settles(w)
<1> DEFINE r == req[w]
<1>1. /\ TypeOK /\ r.msg \in Msgs /\ r.user \in Users /\ r.op \in ReactOps /\ r.pc = "commit"
  BY DEF IInv, Knows, CommitReaction, CommitUnreaction, At, ReactOps
<1>2. UNCHANGED <<msgs, status, shown, crossed>>
  BY DEF CommitReaction, CommitUnreaction
<1>3. \/ req'[w] = Idle /\ Others(w) /\ reactions' = reactions
      \/ /\ Others(w) /\ req'[w].op = r.op /\ req'[w].msg = r.msg
         /\ req'[w].user = r.user /\ req'[w].pc = "publish"
         /\ (r.op = "react" <=> <<r.msg, r.user>> \in reactions')
  <2>1. \/ Return(w) /\ reactions' = reactions
        \/ Goto(w, "publish") /\ (r.op = "react" <=> <<r.msg, r.user>> \in reactions')
    BY DEF CommitReaction, CommitUnreaction, At, Reacted
  <2>2. QED
    BY <1>1, <2>1, ReturnType, GotoFacts DEF Pcs
<1>4. ASSUME NEW i \in Items, ~WorksOn(w, i) PROVE SameAt(i)
  <2>1. i # Item("reaction", r.msg, r.user) /\ i = Item(i.field, i.msg, i.user)
    BY <1>1, <1>4, ItemFields, ItemKinds DEF WorksOn, ReactOps
  <2>2. i.field = "reaction" => <<i.msg, i.user>> # <<r.msg, r.user>>
    BY <2>1
  <2>3. i.field = "reaction" => (<<i.msg, i.user>> \in reactions')
                                  = (<<i.msg, i.user>> \in reactions)
    BY <2>2 DEF CommitReaction, CommitUnreaction
  <2>4. QED
    BY <1>2, <2>3 DEF SameAt
<1>5. ASSUME NEW i \in Items, WorksOn(w, i), Fresh(w)
      PROVE  IF req'[w] = Idle THEN Stored(i)' ELSE Fresh(w)'
  <2>1. i = ItemOf(r) /\ Stored(i)
    BY <1>1, <1>5 DEF WorksOn, Fresh
  <2>2. CASE req'[w] = Idle
    <3>1. reactions' = reactions
      BY <1>1, <1>3, <2>2 DEF Idle, ReactOps
    <3>2. QED
      BY <2>1, <2>2, <3>1, <1>2, QuietSame, StoredFrame
  <2>3. CASE req'[w] # Idle
    BY <1>1, <1>3, <2>3 DEF Fresh, Reacted, ReactOps, Texts, MarkOps
  <2>4. QED
    BY <2>2, <2>3
<1>6. QED
  BY <1>2, <1>3, <1>4, <1>5 DEF Settles

LEMMA MarkSettles ==
  ASSUME IInv, NEW w \in Workers, CommitMark(w)
  PROVE  Settles(w)
<1> DEFINE r   == req[w]
           now == status[r.msg][r.user]
           own == r.status.set \cup Marks(r.op)
           new == now.set \cup (own \ r.status.set)
<1>1. /\ TypeOK /\ r \in Request /\ r.msg \in Msgs /\ r.user \in Users
      /\ r.op \in MarkOps /\ r.pc = "commit" /\ now \in Status
  <2>1. TypeOK /\ Knows(w) /\ r.op \in MarkOps /\ r.pc = "commit"
    BY DEF IInv, CommitMark, MarkOps
  <2>2. QED
    BY <2>1, Ranges DEF Knows, MarkOps
<1>2. UNCHANGED <<msgs, reactions, shown, crossed>>
  BY DEF CommitMark
<1>3. CASE Return(w) /\ status' = status
  <2>1. req'[w] = Idle /\ Others(w)
    BY <1>1, <1>3, ReturnType
  <2>2. QED
    BY <1>1, <1>2, <1>3, <2>1, QuietSettles
<1>4. CASE /\ status' = [status EXCEPT ![r.msg][r.user] = [row |-> TRUE, set |-> new]]
           /\ req' = [req EXCEPT ![w].pc = "publish",
                                 ![w].status = [row |-> TRUE, set |-> own]]
  <2>1. r.status = now => own = new
    OBVIOUS
  <2> HIDE DEF own, new
  <2>2. /\ Others(w) /\ req'[w].op = r.op /\ req'[w].msg = r.msg
        /\ req'[w].user = r.user /\ req'[w].pc = "publish"
        /\ req'[w].status = [row |-> TRUE, set |-> own]
    BY <1>1, <1>4 DEF TypeOK, Request, Others
  <2>3. /\ status'[r.msg][r.user] = [row |-> TRUE, set |-> new]
        /\ \A x \in Msgs, u \in Users : x # r.msg \/ u # r.user =>
             status'[x][u] = status[x][u]
    BY <1>1, <1>4 DEF TypeOK
  <2>4. ASSUME NEW i \in Items, ~WorksOn(w, i) PROVE SameAt(i)
    <3>1. i # Item("ack", r.msg, r.user) /\ i = Item(i.field, i.msg, i.user)
          /\ i.msg \in Msgs /\ (i.field = "ack" => i.user \in Users)
      BY <1>1, <2>4, ItemFields, ItemKinds DEF WorksOn, MarkOps
    <3>2. i.field = "ack" => status'[i.msg][i.user] = status[i.msg][i.user]
      BY <2>3, <3>1
    <3>3. QED
      BY <1>2, <3>2 DEF SameAt
  <2>5. Fresh(w) => Fresh(w)'
    BY <1>1, <2>1, <2>2, <2>3 DEF Fresh, MarkOps, Texts
  <2>6. QED
    BY <1>2, <2>2, <2>4, <2>5 DEF Settles, Idle
<1>5. QED
  BY <1>3, <1>4 DEF CommitMark

\* A handler that publishes.
LEMMA PublishSettles ==
  ASSUME IInv, NEW w \in Workers,
         \/ PublishText(w) \/ PublishDelete(w) \/ PublishReaction(w) \/ PublishStatus(w)
  PROVE  Settles(w)
<1> DEFINE r == req[w]
<1>1. /\ TypeOK /\ Knows(w) /\ r.msg \in Msgs /\ r.user \in Users
      /\ r.op \in Texts \cup {"delete"} \cup ReactOps \cup MarkOps /\ r.pc = "publish"
  BY DEF IInv, Knows, PublishText, PublishDelete, PublishReaction, PublishStatus, At,
         Texts, ReactOps, MarkOps
<1>2. req'[w] = Idle /\ Others(w)
  BY <1>1, ReturnType DEF PublishText, PublishDelete, PublishReaction, PublishStatus
<1>3. UNCHANGED <<msgs, status, reactions, crossed>>
  BY DEF PublishText, PublishDelete, PublishReaction, PublishStatus, Tables
<1>s. shown \in [Msgs -> Shown] /\ shown[r.msg] \in Shown
  BY <1>1 DEF TypeOK
<1>4. CASE PublishText(w)
  <2>1. /\ \A m \in Msgs \ {r.msg} : shown'[m] = shown[m]
        /\ shown'[r.msg] = [shown[r.msg] EXCEPT !.text = r.text] /\ r.op \in Texts
    BY <1>4, <1>s, <1>1 DEF PublishText, Texts
  <2>2. /\ shown'[r.msg].deleted = shown[r.msg].deleted
        /\ shown'[r.msg].acks = shown[r.msg].acks
        /\ shown'[r.msg].reacted = shown[r.msg].reacted
        /\ shown'[r.msg].text = r.text
    BY <1>s, <2>1 DEF Shown
  <2>3. ItemOf(r) = Item("text", r.msg, NoUser)
    BY <2>1, ItemFields
  <2>4. ASSUME NEW i \in Items, ~WorksOn(w, i) PROVE SameAt(i)
    <3>1. i # Item("text", r.msg, NoUser) /\ i = Item(i.field, i.msg, i.user)
          /\ i.msg \in Msgs /\ (i.field = "text" => i.user = NoUser)
      BY <1>1, <2>1, <2>3, <2>4, ItemKinds DEF WorksOn, Texts
    <3>2. QED
      BY <1>3, <2>1, <2>2, <3>1 DEF SameAt
  <2>5. ASSUME NEW i \in Items, WorksOn(w, i), Fresh(w) PROVE Stored(i)'
    <3>1. i = Item("text", r.msg, NoUser) /\ r.text = msgs[r.msg].text
      BY <1>1, <2>1, <2>3, <2>5 DEF WorksOn, Fresh
    <3>2. QED
      BY <1>3, <2>2, <3>1 DEF Stored, Item
  <2>6. QED
    BY <1>2, <1>3, <2>4, <2>5 DEF Settles
<1>5. CASE PublishDelete(w)
  <2>1. /\ \A m \in Msgs \ {r.msg} : shown'[m] = shown[m]
        /\ shown'[r.msg] = [shown[r.msg] EXCEPT !.deleted = TRUE] /\ r.op = "delete"
    BY <1>5, <1>s, <1>1 DEF PublishDelete, At
  <2>2. /\ shown'[r.msg].text = shown[r.msg].text
        /\ shown'[r.msg].acks = shown[r.msg].acks
        /\ shown'[r.msg].reacted = shown[r.msg].reacted
        /\ shown'[r.msg].deleted = TRUE
    BY <1>s, <2>1 DEF Shown
  <2>3. ItemOf(r) = Item("deleted", r.msg, NoUser)
    BY <2>1, ItemFields
  <2>4. ASSUME NEW i \in Items, ~WorksOn(w, i) PROVE SameAt(i)
    <3>1. i # Item("deleted", r.msg, NoUser) /\ i = Item(i.field, i.msg, i.user)
          /\ i.msg \in Msgs /\ (i.field = "deleted" => i.user = NoUser)
      BY <1>1, <2>1, <2>3, <2>4, ItemKinds DEF WorksOn
    <3>2. QED
      BY <1>3, <2>1, <2>2, <3>1 DEF SameAt
  <2>5. ASSUME NEW i \in Items, WorksOn(w, i) PROVE Stored(i)'
    <3>1. i = Item("deleted", r.msg, NoUser)
      BY <2>3, <2>5 DEF WorksOn
    <3>2. msgs[r.msg].deleted = TRUE
      BY <1>1, <2>1, Ranges DEF Knows
    <3>3. QED
      BY <1>3, <2>2, <3>1, <3>2 DEF Stored, Item
  <2>6. QED
    BY <1>2, <1>3, <2>4, <2>5 DEF Settles
<1>6. CASE PublishReaction(w)
  <2> DEFINE reacted == IF r.op = "react" THEN shown[r.msg].reacted \cup {r.user}
                                          ELSE shown[r.msg].reacted \ {r.user}
  <2>1. /\ shown' = [shown EXCEPT ![r.msg].reacted = reacted]
        /\ \A u : u # r.user => (u \in reacted <=> u \in shown[r.msg].reacted)
        /\ r.user \in reacted <=> r.op = "react"
    BY <1>6 DEF PublishReaction
  <2> HIDE DEF reacted
  <2>2. /\ \A m \in Msgs \ {r.msg} : shown'[m] = shown[m]
        /\ shown'[r.msg] = [shown[r.msg] EXCEPT !.reacted = reacted] /\ r.op \in ReactOps
    BY <1>6, <1>s, <1>1, <2>1 DEF PublishReaction, ReactOps
  <2>3. /\ shown'[r.msg].text = shown[r.msg].text
        /\ shown'[r.msg].acks = shown[r.msg].acks
        /\ shown'[r.msg].deleted = shown[r.msg].deleted
        /\ shown'[r.msg].reacted = reacted
    BY <1>s, <2>2 DEF Shown
  <2>4. ItemOf(r) = Item("reaction", r.msg, r.user)
    BY <2>2, ItemFields
  <2>5. ASSUME NEW i \in Items, ~WorksOn(w, i) PROVE SameAt(i)
    <3>1. i # Item("reaction", r.msg, r.user) /\ i = Item(i.field, i.msg, i.user)
          /\ i.msg \in Msgs
      BY <1>1, <2>2, <2>4, <2>5, ItemKinds DEF WorksOn, ReactOps
    <3>2. i.field = "reaction" => (i.user \in shown'[i.msg].reacted)
                                    = (i.user \in shown[i.msg].reacted)
      BY <2>1, <2>2, <2>3, <3>1
    <3>3. QED
      BY <1>3, <2>2, <2>3, <3>1, <3>2 DEF SameAt
  <2>6. ASSUME NEW i \in Items, WorksOn(w, i), Fresh(w) PROVE Stored(i)'
    <3>1. /\ i = Item("reaction", r.msg, r.user)
          /\ r.op = "react" <=> <<r.msg, r.user>> \in reactions
      BY <1>1, <2>2, <2>4, <2>6 DEF WorksOn, Fresh, ReactOps, Reacted
    <3>2. (r.user \in shown'[r.msg].reacted) <=> <<r.msg, r.user>> \in reactions'
      BY <1>3, <2>1, <2>3, <3>1
    <3>3. i.field = "reaction" /\ i.msg = r.msg /\ i.user = r.user
      BY <3>1 DEF Item
    <3>4. QED
      BY <3>2, <3>3 DEF Stored
  <2>7. QED
    BY <1>2, <1>3, <2>5, <2>6 DEF Settles
<1>7. CASE PublishStatus(w)
  <2>1. /\ \A m \in Msgs \ {r.msg} : shown'[m] = shown[m]
        /\ shown'[r.msg] = [shown[r.msg] EXCEPT !.acks[r.user] = r.status.set]
        /\ r.op \in MarkOps
    BY <1>7, <1>s, <1>1 DEF PublishStatus, MarkOps
  <2>2. /\ shown'[r.msg].text = shown[r.msg].text
        /\ shown'[r.msg].reacted = shown[r.msg].reacted
        /\ shown'[r.msg].deleted = shown[r.msg].deleted
        /\ shown'[r.msg].acks[r.user] = r.status.set
        /\ \A u \in Users \ {r.user} : shown'[r.msg].acks[u] = shown[r.msg].acks[u]
    BY <1>1, <1>s, <2>1 DEF Shown
  <2>3. ItemOf(r) = Item("ack", r.msg, r.user)
    BY <2>1, ItemFields
  <2>4. ASSUME NEW i \in Items, ~WorksOn(w, i) PROVE SameAt(i)
    <3>1. i # Item("ack", r.msg, r.user) /\ i = Item(i.field, i.msg, i.user)
          /\ i.msg \in Msgs /\ (i.field = "ack" => i.user \in Users)
      BY <1>1, <2>1, <2>3, <2>4, ItemKinds DEF WorksOn, MarkOps
    <3>2. i.field = "ack" => shown'[i.msg].acks[i.user] = shown[i.msg].acks[i.user]
      <4>1. i.field = "ack" => i.msg # r.msg \/ i.user # r.user
        BY <3>1
      <4>2. \A m \in Msgs, u \in Users : m # r.msg \/ u # r.user =>
              shown'[m].acks[u] = shown[m].acks[u]
        BY <2>1, <2>2
      <4>3. QED
        BY <3>1, <4>1, <4>2
    <3>3. /\ shown'[i.msg].text = shown[i.msg].text
          /\ shown'[i.msg].deleted = shown[i.msg].deleted
          /\ shown'[i.msg].reacted = shown[i.msg].reacted
      BY <2>1, <2>2, <3>1
    <3>4. QED
      BY <1>3, <3>2, <3>3 DEF SameAt
  <2>5. ASSUME NEW i \in Items, WorksOn(w, i), Fresh(w) PROVE Stored(i)'
    <3>1. i = Item("ack", r.msg, r.user) /\ r.status = status[r.msg][r.user]
      BY <1>1, <2>1, <2>3, <2>5 DEF WorksOn, Fresh
    <3>2. QED
      BY <1>3, <2>2, <3>1 DEF Stored, Item
  <2>6. QED
    BY <1>2, <1>3, <2>4, <2>5 DEF Settles
<1>8. QED
  BY <1>4, <1>5, <1>6, <1>7

-----------------------------------------------------------------------------
(***************************************************************************)
(* Requests that come in, and the theorem                                  *)
(***************************************************************************)
\* A handler that takes up an item finds it as it is stored, or as one that another
\* handler is at work on.
LEMMA StartSolo ==
  ASSUME SInv, IInv', NEW w \in Workers, NEW r, Start(w, r), Others(w), req'[w] = r,
         UNCHANGED <<Tables, shown>>, r.op \notin {"none", "upload"},
         r.pc \in {"file", "rights", "look", "commit"},
         r.op \in MarkOps => r.pc = "look"
  PROVE  SInv'
<1>1. SUFFICES ASSUME NEW i \in Items PROVE Solo(i)'
  BY DEF SInv
<1>2. /\ SameAt(i) /\ Solo(i) /\ IInv
      /\ \A v \in Workers \ {w} : WorksOn(v, i)' <=> WorksOn(v, i)
      /\ ~WorksOn(w, i)
  BY QuietSame DEF SInv, Others, WorksOn, Start, Idle, Tables
<1>3. ASSUME NEW v \in Workers \ {w}, WorksOn(v, i), Fresh(v) PROVE Fresh(v)'
  BY <1>2, <1>3, FreshFrame DEF Others
<1>4. crossed \subseteq crossed'
  BY DEF Start
<1>5. CASE WorksOn(w, i)'
  <2>1. i = ItemOf(r)
    BY <1>5 DEF WorksOn
  <2>2. i \in crossed' \/ \A v \in Workers : ~WorksOn(v, i)
    BY <2>1 DEF Start
  <2>3. SUFFICES ASSUME i \notin crossed', \A v \in Workers : ~WorksOn(v, i)
                 PROVE  Fresh(w)'
    BY <1>2, <1>5, <2>2 DEF Solo
  <2>4. Stored(i)'
    BY <1>2, <1>4, <2>3, StoredFrame DEF Solo
  <2>5. QED
    BY <2>1, <2>4 DEF Fresh
<1>6. CASE ~WorksOn(w, i)'
  BY <1>2, <1>3, <1>4, <1>6, StoredFrame DEF Solo
<1>7. QED
  BY <1>5, <1>6

LEMMA UploadSolo ==
  ASSUME SInv, IInv', NEW w \in Workers, NEW u \in Users, NEW f \in Files,
         StoreObject(w, u, f)
  PROVE  SInv'
<1>1. /\ Others(w) /\ req'[w].op = "upload" /\ req[w].op = "none"
      /\ UNCHANGED <<msgs, status, reactions, shown, crossed>>
  BY DEF SInv, IInv, TypeOK, StoreObject, Others, Idle
<1>2. SUFFICES ASSUME NEW i \in Items PROVE Solo(i)'
  BY DEF SInv
<1>3. /\ SameAt(i) /\ Solo(i) /\ IInv
      /\ \A v \in Workers : WorksOn(v, i)' <=> WorksOn(v, i)
      /\ \A v \in Workers : WorksOn(v, i) => req'[v] = req[v]
  BY <1>1, QuietSame DEF SInv, Others, WorksOn
<1>4. ASSUME NEW v \in Workers, WorksOn(v, i), Fresh(v) PROVE Fresh(v)'
  BY <1>3, <1>4, FreshFrame
<1>5. QED
  BY <1>1, <1>3, <1>4, StoredFrame DEF Solo

LEMMA BeginSolo ==
  ASSUME SInv, IInv', NEW w \in Workers, Begin(w)
  PROVE  SInv'
<1>t. req \in [Workers -> Request]
  BY DEF SInv, IInv, TypeOK
<1>1. ASSUME NEW r, Start(w, r), UNCHANGED <<Tables, shown>>,
             r.op \notin {"none", "upload"},
             r.pc \in {"file", "rights", "look", "commit"},
             r.op \in MarkOps => r.pc = "look"
      PROVE  SInv'
  <2>1. Others(w) /\ req'[w] = r
    BY <1>t, <1>1 DEF Start, Others
  <2>2. QED
    BY <1>1, <2>1, StartSolo
<1>2. ASSUME NEW m \in Msgs, StartEdit(w, m) PROVE SInv'
  <2> DEFINE r == [Idle EXCEPT !.op = "edit", !.pc = "commit", !.user = msgs[m].by,
                               !.msg = m]
  <2>1. r.op = "edit" /\ r.pc = "commit"
    BY DEF Idle
  <2>2. Start(w, r) /\ UNCHANGED <<Tables, shown>>
    BY <1>2 DEF StartEdit
  <2> HIDE DEF r
  <2>3. QED
    BY <2>1, <2>2, <1>1 DEF MarkOps
<1>3. ASSUME NEW u \in Users, NEW m \in Msgs, NEW f \in Files \cup {NoFile},
             StartSend(w, u, m, f)
      PROVE  SInv'
  <2> DEFINE r == [Idle EXCEPT !.op = "send", !.user = u, !.msg = m, !.file = f,
                               !.pc = IF f = NoFile THEN "commit" ELSE "file"]
  <2>1. r.op = "send" /\ r.pc \in {"file", "commit"}
    BY DEF Idle
  <2>2. Start(w, r) /\ UNCHANGED <<Tables, shown>>
    BY <1>3 DEF StartSend
  <2> HIDE DEF r
  <2>3. QED
    BY <2>1, <2>2, <1>1 DEF MarkOps
<1>4. ASSUME NEW u \in Users, NEW m \in Msgs, StartDelete(w, u, m) PROVE SInv'
  <2> DEFINE r == [Idle EXCEPT !.op = "delete", !.user = u, !.msg = m,
                               !.pc = IF msgs[m].by = u THEN "commit" ELSE "rights"]
  <2>1. r.op = "delete" /\ r.pc \in {"rights", "commit"}
    BY DEF Idle
  <2>2. Start(w, r) /\ UNCHANGED <<Tables, shown>>
    BY <1>4 DEF StartDelete
  <2> HIDE DEF r
  <2>3. QED
    BY <2>1, <2>2, <1>1 DEF MarkOps
<1>5. ASSUME NEW u \in Users, NEW m \in Msgs, NEW op \in ReactOps \cup MarkOps,
             StartReaction(w, op, u, m) \/ StartMark(w, op, u, m)
      PROVE  SInv'
  <2> DEFINE r == [Idle EXCEPT !.op = op, !.pc = "look", !.user = u, !.msg = m]
  <2>1. r.op = op /\ r.pc = "look" /\ op \notin {"none", "upload"}
    BY DEF Idle, ReactOps, MarkOps
  <2>2. Start(w, r) /\ UNCHANGED <<Tables, shown>>
    BY <1>5 DEF StartReaction, StartMark
  <2> HIDE DEF r
  <2>3. QED
    BY <2>1, <2>2, <1>1
<1>6. QED
  BY <1>2, <1>3, <1>4, <1>5, UploadSolo DEF Begin, ReactOps, MarkOps

LEMMA SInvInit == Init => SInv
<1> SUFFICES ASSUME Init PROVE SInv
  OBVIOUS
<1>1. IInv
  BY Initially
<1>2. ASSUME NEW i \in Items PROVE Solo(i)
  <2>1. \A w \in Workers : ~WorksOn(w, i)
    BY DEF Init, WorksOn, Idle
  <2>2. \A m \in Msgs : /\ msgs[m].text = 0 /\ msgs[m].deleted = FALSE
                        /\ \A u \in Users : status[m][u].set = {}
                        /\ shown[m].text = 0 /\ shown[m].deleted = FALSE
                        /\ \A u \in Users : shown[m].acks[u] = {}
                        /\ shown[m].reacted = {}
    BY DEF Init, NoMessage, NoStatus, Blank
  <2>3. Stored(i)
    <3>1. i.msg \in Msgs /\ reactions = {}
          /\ \/ i.field \in {"text", "deleted"}
             \/ i.field \in {"ack", "reaction"} /\ i.user \in Users
      BY ItemKinds DEF Init
    <3>2. CASE i.field \in {"text", "deleted"}
      BY <2>2, <3>1, <3>2, StoredAt
    <3>3. CASE i.field = "ack"
      <4>1. shown[i.msg].acks[i.user] = {} /\ status[i.msg][i.user].set = {}
        BY <2>2, <3>1, <3>3
      <4>2. QED
        BY <3>3, <4>1 DEF Stored
    <3>4. CASE i.field = "reaction"
      <4>1. i.user \notin shown[i.msg].reacted /\ <<i.msg, i.user>> \notin reactions
        BY <2>2, <3>1
      <4>2. QED
        BY <3>4, <4>1 DEF Stored
    <3>5. QED
      BY <3>1, <3>2, <3>3, <3>4
  <2>4. QED
    BY <2>1, <2>3 DEF Solo
<1>3. QED
  BY <1>1, <1>2 DEF SInv

\* Clients that apply the events as they come show what is stored, once the handlers
\* have returned, of every message field that no two handlers worked on at once and
\* none was cut off at.
THEOREM ClientsConvergeHolds == Spec => []ClientsConverge
<1>1. SInv /\ [Next]_vars => SInv'
  <2> SUFFICES ASSUME SInv, [Next]_vars PROVE SInv'
    OBVIOUS
  <2>1. IInv'
    BY Step DEF SInv
  <2>2. CASE UNCHANGED vars
    BY <2>1, <2>2 DEF SInv, vars, Solo, WorksOn, Fresh, Stored, Reacted
  <2>3. ASSUME NEW w \in Workers, Begin(w) PROVE SInv'
    BY <2>1, <2>3, BeginSolo
  <2>4. ASSUME NEW w \in Workers, Continue(w) \/ Cancel(w) PROVE SInv'
    <3>1. Settles(w)
      BY <2>4, LooksSettle, RefreshSettles, WritesSettle, ReactionSettles, MarkSettles,
         PublishSettles DEF Continue, SInv
    <3>2. QED
      BY <2>1, <3>1, SettlesKeeps
  <2>5. QED
    BY <2>2, <2>3, <2>4 DEF Next
<1>2. SInv => ClientsConverge
  BY DEF SInv, Solo, ClientsConverge
<1>3. QED
  BY <1>1, <1>2, SInvInit, PTL DEF Spec
=============================================================================
