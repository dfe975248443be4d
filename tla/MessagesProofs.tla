--------------------------- MODULE MessagesProofs ---------------------------
(***************************************************************************)
(* Proofs about Messages for every set of users, messages, files and       *)
(* handlers in flight, wherever they are cut off.                          *)
(***************************************************************************)
EXTENDS Messages, TLAPS

Texts == {"send", "edit"}
ReactOps == {"react", "unreact"}
MarkOps == {"deliver", "read"}
Pcs == {"idle", "file", "rights", "look", "commit", "refresh", "publish"}

\* The steps of each handler.
Fits(r) ==
  /\ r.op = "none" => r = Idle
  /\ r.op = "upload" => r.pc = "commit"
  /\ r.op = "send" => r.pc \in {"file", "commit", "refresh", "publish"}
  /\ r.op = "edit" => r.pc \in {"commit", "refresh", "publish"}
  /\ r.op = "delete" => r.pc \in {"rights", "commit", "publish"}
  /\ r.op \in ReactOps \cup MarkOps => r.pc \in {"look", "commit", "publish"}

\* A SendMessage that has not committed.
Composing(w) == req[w].op = "send" /\ req[w].pc \in {"file", "commit"}

\* What handler w may rely on at each of its waiting points.
Knows(w) ==
  LET r == req[w] IN
  /\ Fits(r)
  /\ r.op # "none" => r.user \in Users
  /\ r.op = "upload" => r.file \in objects /\ holder[r.file] = "absent"
  /\ r.op \notin {"none", "upload"} => r.msg \in Msgs /\ (Sent(r.msg) <=> ~Composing(w))
  /\ r.pc = "file" => r.file \in Files
  /\ r.op = "send" /\ r.held # "absent" => /\ r.file \in Files
                                           /\ holder[r.file] # "absent"
  /\ r.op \in Texts /\ r.pc = "publish" => r.text <= msgs[r.msg].text
  /\ r.op = "delete" /\ r.pc = "publish" => msgs[r.msg].deleted
  /\ r.op \in MarkOps /\ r.pc \in {"commit", "publish"} =>
       r.status.set \subseteq status[r.msg][r.user].set

\* A message that is being composed is known to its handler alone, and so is a file
\* that is being uploaded.
Alone(w) ==
  \A v \in Workers \ {w} :
    /\ Composing(w) => req[v].msg # req[w].msg
    /\ req[w].op = "upload" /\ req[v].op = "upload" => req[v].file # req[w].file

\* Nothing is on record about a message that was not sent.
Records ==
  \A m \in Msgs : /\ Sent(m) => msgs[m].by \in Users
                  /\ ~Sent(m) => /\ msgs[m].deleted = FALSE
                                 /\ \A u \in Users : status[m][u].set = {}

\* Clients have been told the truth, perhaps an old one.
Truthful ==
  \A m \in Msgs : /\ shown[m].text <= msgs[m].text
                  /\ shown[m].deleted => msgs[m].deleted
                  /\ \A u \in Users : shown[m].acks[u] \subseteq status[m][u].set

IInv == /\ TypeOK
        /\ Records
        /\ Truthful
        /\ FilesAreStored
        /\ \A w \in Workers : Knows(w) /\ Alone(w)

\* What a step of w does to the tables that the others rely on.
Others(w) == \A v \in Workers \ {w} : req'[v] = req[v]
Rising(w) ==
  /\ \A m \in Msgs : /\ msgs[m].text <= msgs'[m].text
                     /\ msgs[m].deleted => msgs'[m].deleted
                     /\ \A u \in Users : status[m][u].set \subseteq status'[m][u].set
                     /\ ~Sent(m) /\ Sent(m)' => Composing(w) /\ req[w].msg = m
  /\ objects \subseteq objects'
  /\ \A f \in Files :
       /\ holder[f] # "absent" => holder'[f] # "absent"
       /\ holder[f] = "absent" /\ holder'[f] # "absent"
            => req[w].op = "upload" /\ req[w].file = f
\* What w takes up is its own or sent, or nobody's.
Takes(w) ==
  LET r == req'[w] IN
  /\ \/ r.msg = req[w].msg \/ r.msg = NoMsg
     \/ NewMessage(r.msg)
     \/ Sent(r.msg) /\ r.op # "send"
  /\ Composing(w)' => NewMessage(r.msg) \/ (Composing(w) /\ r.msg = req[w].msg)
  /\ r.op = "upload" => r.file \notin objects

-----------------------------------------------------------------------------
(***************************************************************************)
(* Types                                                                   *)
(***************************************************************************)
LEMMA Ranges ==
  ASSUME TypeOK
  PROVE  /\ \A m \in Msgs : /\ msgs[m] \in Message /\ msgs[m].text \in Nat
                            /\ msgs[m].deleted \in BOOLEAN
                            /\ msgs[m].text \in 0..MaxText
         /\ \A m \in Msgs, u \in Users : /\ status[m][u] \in Status
                                         /\ status[m][u].set \in Times
                                         /\ status[m][u].row \in BOOLEAN
         /\ \A m \in Msgs : /\ shown[m] \in Shown /\ shown[m].text \in Nat
                            /\ shown[m].acks \in [Users -> Times]
         /\ \A w \in Workers : req[w] \in Request
  BY NoValueAssumption DEF TypeOK, Message, Status, Shown

LEMMA IdleType == Idle \in Request
  BY NoValueAssumption DEF Idle, Request, Status, NoStatus, Times, Holder

LEMMA ReturnType ==
  ASSUME TypeOK, NEW w \in Workers, Return(w)
  PROVE  /\ req' \in [Workers -> Request] /\ req'[w] = Idle /\ Others(w)
  BY IdleType DEF TypeOK, Return, Others

LEMMA GotoType ==
  ASSUME TypeOK, NEW w \in Workers, NEW pc \in Pcs, Goto(w, pc)
  PROVE  /\ req' \in [Workers -> Request] /\ Others(w)
         /\ req'[w] = [req[w] EXCEPT !.pc = pc]
<1>1. [req[w] EXCEPT !.pc = pc] \in Request
  BY Ranges DEF Request, Pcs
<1>2. QED
  BY <1>1 DEF TypeOK, Goto, Others

LEMMA StartType ==
  ASSUME TypeOK, NEW w \in Workers, NEW r \in Request, Start(w, r),
         ItemOf(r) \in Items, UNCHANGED <<Tables, shown>>
  PROVE  TypeOK' /\ Others(w) /\ req[w] = Idle /\ req'[w] = r
<1>1. req' \in [Workers -> Request] /\ Others(w) /\ req'[w] = r /\ req[w] = Idle
  BY DEF TypeOK, Start, Others
<1>2. crossed' \in SUBSET Items
  BY DEF TypeOK, Start
<1>3. QED
  BY <1>1, <1>2 DEF TypeOK, Tables

-----------------------------------------------------------------------------
(***************************************************************************)
(* How the invariant is kept                                               *)
(***************************************************************************)
LEMMA KnowsFrame ==
  ASSUME IInv, NEW w \in Workers, NEW v \in Workers \ {w},
         Others(w), Rising(w), TypeOK'
  PROVE  Knows(v)'
<1> DEFINE r == req[v]
<1>1. Knows(v) /\ Alone(v) /\ Alone(w) /\ Knows(w) /\ TypeOK
  BY DEF IInv
<1>2. req'[v] = r
  BY DEF Others
<1>3. r.msg \in Msgs => (Sent(r.msg) => msgs'[r.msg].text > 0)
  BY Ranges, <1>1 DEF Rising, Sent, TypeOK, Message
<1>4. r.msg \in Msgs /\ ~Sent(r.msg) /\ Composing(v) => ~(msgs'[r.msg].text > 0)
  BY <1>1 DEF Rising, Alone, Sent
<1>5. r.op \notin {"none", "upload"} =>
        r.msg \in Msgs /\ (msgs'[r.msg].text > 0 <=> ~Composing(v))
  BY <1>1, <1>3, <1>4 DEF Knows
<1>6. r.op = "upload" => r.file \in objects' /\ holder'[r.file] = "absent"
  BY <1>1 DEF Knows, Rising, Alone, TypeOK
<1>7. r.op = "send" /\ r.held # "absent" => r.file \in Files /\ holder'[r.file] # "absent"
  BY <1>1 DEF Knows, Rising
<1>8. r.op \in Texts /\ r.pc = "publish" => r.text <= msgs'[r.msg].text
  <2> SUFFICES ASSUME r.op \in Texts, r.pc = "publish"
               PROVE  r.text <= msgs'[r.msg].text
    OBVIOUS
  <2>1. r.msg \in Msgs /\ r.text <= msgs[r.msg].text
    BY <1>1 DEF Knows, Texts
  <2>2. r.text \in Nat /\ msgs[r.msg].text \in Nat /\ msgs'[r.msg].text \in Nat
    BY <2>1, <1>1, NoValueAssumption DEF TypeOK, Request, Message
  <2>3. msgs[r.msg].text <= msgs'[r.msg].text
    BY <2>1 DEF Rising
  <2>4. QED
    BY <2>1, <2>2, <2>3
<1>9. r.op = "delete" /\ r.pc = "publish" => msgs'[r.msg].deleted
  BY <1>1 DEF Knows, Rising
<1>10. r.op \in MarkOps /\ r.pc \in {"commit", "publish"} =>
         r.status.set \subseteq status'[r.msg][r.user].set
  BY <1>1 DEF Knows, Rising, MarkOps
<1>11. QED
  BY <1>1, <1>2, <1>5, <1>6, <1>7, <1>8, <1>9, <1>10 DEF Knows, Composing, Sent

LEMMA Keeps ==
  ASSUME IInv, NEW w \in Workers, TypeOK', Others(w), Rising(w), Takes(w),
         Records', Truthful', FilesAreStored', Knows(w)'
  PROVE  IInv'
<1>0. NoMsg \notin Msgs
  BY NoValueAssumption
<1>1. ASSUME NEW v \in Workers PROVE Knows(v)'
  BY <1>1, KnowsFrame
<1>2. ASSUME NEW v \in Workers PROVE Alone(v)'
  <2> SUFFICES ASSUME NEW x \in Workers \ {v}
               PROVE  /\ Composing(v)' => req'[x].msg # req'[v].msg
                      /\ req'[v].op = "upload" /\ req'[x].op = "upload"
                           => req'[x].file # req'[v].file
    BY DEF Alone
  <2>k. Knows(v) /\ Alone(v) /\ Knows(x) /\ Alone(x)
    BY DEF IInv
  <2>1. CASE v = w
    <3>1. req'[x] = req[x]
      BY <2>1 DEF Others
    <3>2. Composing(w)' => req[x].msg # req'[w].msg
      BY <2>k, <2>1 DEF Takes, NewMessage, Alone
    <3>3. req'[w].op = "upload" /\ req[x].op = "upload" => req[x].file # req'[w].file
      BY <2>k, <2>1 DEF Takes, Knows
    <3>4. QED
      BY <2>1, <3>1, <3>2, <3>3
  <2>2. CASE x = w
    <3>1. req'[v] = req[v] /\ (Composing(v)' <=> Composing(v))
      BY <2>2 DEF Others, Composing
    <3>2. Composing(v) => req[v].msg \in Msgs /\ ~Sent(req[v].msg)
      BY <2>k DEF Knows, Composing
    <3>3. Composing(v) => req'[w].msg # req[v].msg
      BY <2>k, <2>2, <3>2, <1>0 DEF Takes, NewMessage, Alone
    <3>4. req[v].op = "upload" /\ req'[w].op = "upload" => req'[w].file # req[v].file
      BY <2>k DEF Takes, Knows
    <3>5. QED
      BY <2>2, <3>1, <3>3, <3>4
  <2>3. CASE v # w /\ x # w
    BY <2>3, <2>k DEF Others, Alone, Composing
  <2>4. QED
    BY <2>1, <2>2, <2>3
<1>3. QED
  BY <1>1, <1>2 DEF IInv

\* A step that leaves the tables and the clients alone.
LEMMA QuietKeeps ==
  ASSUME IInv, NEW w \in Workers, TypeOK', Others(w), UNCHANGED <<Tables, shown>>,
         Takes(w), Knows(w)'
  PROVE  IInv'
<1>1. TypeOK /\ Records /\ Truthful /\ FilesAreStored
  BY DEF IInv
<1>2. UNCHANGED <<msgs, status, objects, holder, shown>>
  BY DEF Tables
<1>3. Rising(w)
  BY <1>1, <1>2, Ranges DEF Rising, Sent
<1>4. Records' /\ Truthful' /\ FilesAreStored'
  BY <1>1, <1>2 DEF Records, Truthful, FilesAreStored, Sent
<1>5. QED
  BY <1>3, <1>4, Keeps

\* A handler that has returned.
LEMMA IdleKnows ==
  ASSUME NEW w \in Workers, req'[w] = Idle
  PROVE  Knows(w)' /\ Takes(w)
<1>1. Takes(w)
  BY DEF Takes, Idle, Composing
<1>2. Knows(w)'
  <2>1. req'[w].op = "none" /\ req'[w].pc = "idle"
    BY DEF Idle
  <2>2. Fits(req'[w])
    BY <2>1 DEF Fits, ReactOps, MarkOps
  <2>3. QED
    BY <2>1, <2>2 DEF Knows, Texts, MarkOps
<1>3. QED
  BY <1>1, <1>2

-----------------------------------------------------------------------------
(***************************************************************************)
(* Requests that come in and handlers that end                             *)
(***************************************************************************)
LEMMA StartKeeps ==
  ASSUME IInv, NEW w \in Workers, NEW r \in Request, Start(w, r),
         UNCHANGED <<Tables, shown>>,
         r.op \notin {"none", "upload"}, r.user \in Users, r.msg \in Msgs,
         Fits(r), r.pc \in {"file", "rights", "look", "commit"},
         r.op = "send" => NewMessage(r.msg) /\ r.held = "absent",
         r.op # "send" => Sent(r.msg),
         r.pc = "file" => r.op = "send" /\ r.file \in Files,
         r.op \in MarkOps => r.pc = "look"
  PROVE  IInv'
<1>t. TypeOK
  BY DEF IInv
<1>1. ItemOf(r) \in Items
  <2>1. r.op \in Texts \cup {"delete"} \cup ReactOps \cup MarkOps
    BY DEF Request, Texts, ReactOps, MarkOps
  <2>2. QED
    BY <2>1 DEF ItemOf, Items, Texts, ReactOps, MarkOps
<1>2. TypeOK' /\ Others(w) /\ req[w] = Idle /\ req'[w] = r
  BY <1>t, <1>1, StartType
<1>3. msgs' = msgs /\ holder' = holder /\ objects' = objects
  BY DEF Tables
<1>4. Composing(w)' <=> r.op = "send"
  BY <1>2 DEF Composing, Fits
<1>5. Sent(r.msg)' <=> Sent(r.msg)
  BY <1>3 DEF Sent
<1>6. Knows(w)'
  BY <1>2, <1>3, <1>4, <1>5 DEF Knows, NewMessage, Texts, MarkOps, Composing, Sent
<1>7. Takes(w)
  BY <1>2, <1>4 DEF Takes
<1>8. QED
  BY <1>2, <1>6, <1>7, QuietKeeps

LEMMA BeginKeeps ==
  ASSUME IInv, NEW w \in Workers, Begin(w)
  PROVE  IInv'
<1>t. TypeOK /\ Records
  BY DEF IInv
<1>i. NoStatus \in Status /\ 0 \in 0..MaxText
  BY NoValueAssumption DEF NoStatus, Status, Times
<1>1. ASSUME NEW u \in Users, NEW f \in Files, StoreObject(w, u, f)
      PROVE  IInv'
  <2> DEFINE r == [Idle EXCEPT !.op = "upload", !.pc = "commit", !.user = u,
                               !.file = f]
  <2>1. r \in Request
    BY <1>i DEF Idle, Request, Holder
  <2>2. req' \in [Workers -> Request] /\ req'[w] = r /\ Others(w)
    BY <1>1, <1>t, <2>1 DEF StoreObject, TypeOK, Others
  <2>3. objects' \in SUBSET Files
    BY <1>1, <1>t DEF StoreObject, TypeOK
  <2>4. TypeOK'
    BY <1>1, <1>t, <2>2, <2>3 DEF StoreObject, TypeOK
  <2>5. Rising(w)
    BY <1>1, <1>t, Ranges DEF StoreObject, Rising, Sent
  <2>6. r.op = "upload" /\ r.msg = NoMsg /\ r.file = f /\ r.pc = "commit"
        /\ r.user = u /\ r.held = "absent"
    BY DEF Idle
  <2>7. Takes(w)
    BY <1>1, <2>2, <2>6 DEF Takes, StoreObject, Composing
  <2>8. Records' /\ Truthful' /\ FilesAreStored'
    BY <1>1 DEF IInv, StoreObject, Records, Truthful, FilesAreStored, Sent
  <2>9. holder[f] = "absent"
    BY <1>1 DEF IInv, StoreObject, FilesAreStored
  <2>10. Knows(w)'
    BY <1>1, <2>2, <2>6, <2>9 DEF StoreObject, Knows, Fits, Texts, MarkOps,
       ReactOps, Composing
  <2>11. QED
    BY <2>2, <2>4, <2>5, <2>7, <2>8, <2>10, Keeps
<1>2. ASSUME NEW u \in Users, NEW m \in Msgs, NEW f \in Files \cup {NoFile},
             StartSend(w, u, m, f)
      PROVE  IInv'
  <2> DEFINE r == [Idle EXCEPT !.op = "send", !.user = u, !.msg = m, !.file = f,
                               !.pc = IF f = NoFile THEN "commit" ELSE "file"]
  <2>1. r \in Request
    BY <1>i DEF Idle, Request, Holder
  <2>2. /\ r.op = "send" /\ r.user = u /\ r.msg = m /\ r.file = f
        /\ r.pc = (IF f = NoFile THEN "commit" ELSE "file") /\ r.held = "absent"
    BY DEF Idle
  <2>3. Fits(r)
    BY <2>2 DEF Fits, ReactOps, MarkOps
  <2>4. Start(w, r) /\ NewMessage(m) /\ UNCHANGED <<Tables, shown>>
    BY <1>2 DEF StartSend
  <2>5. /\ r.op \notin {"none", "upload"} /\ r.op \notin MarkOps
        /\ r.pc \in {"file", "commit"} /\ (r.pc = "file" => r.file \in Files)
    BY <2>2 DEF MarkOps
  <2> HIDE DEF r
  <2>6. QED
    BY <2>1, <2>2, <2>3, <2>4, <2>5, StartKeeps
<1>3. ASSUME NEW m \in Msgs, StartEdit(w, m)
      PROVE  IInv'
  <2> DEFINE r == [Idle EXCEPT !.op = "edit", !.pc = "commit", !.user = msgs[m].by,
                               !.msg = m]
  <2>1. msgs[m].by \in Users /\ Sent(m)
    BY <1>3, <1>t DEF StartEdit, Visible, Records
  <2>2. r \in Request
    BY <1>i, <2>1 DEF Idle, Request, Holder
  <2>3. r.op = "edit" /\ r.pc = "commit" /\ r.user = msgs[m].by /\ r.msg = m
    BY DEF Idle
  <2>4. Fits(r)
    BY <2>3 DEF Fits, ReactOps, MarkOps
  <2>5. Start(w, r) /\ UNCHANGED <<Tables, shown>>
    BY <1>3 DEF StartEdit
  <2>6. QED
    BY <2>1, <2>2, <2>3, <2>4, <2>5, StartKeeps DEF MarkOps
<1>4. ASSUME NEW u \in Users, NEW m \in Msgs, StartDelete(w, u, m)
      PROVE  IInv'
  <2> DEFINE r == [Idle EXCEPT !.op = "delete", !.user = u, !.msg = m,
                               !.pc = IF msgs[m].by = u THEN "commit" ELSE "rights"]
  <2>1. r \in Request
    BY <1>i DEF Idle, Request, Holder
  <2>2. r.op = "delete" /\ r.pc \in {"commit", "rights"} /\ r.user = u /\ r.msg = m
    BY DEF Idle
  <2>3. Fits(r)
    BY <2>2 DEF Fits, ReactOps, MarkOps
  <2>4. Start(w, r) /\ Sent(m) /\ UNCHANGED <<Tables, shown>>
    BY <1>4 DEF StartDelete, Visible
  <2>5. QED
    BY <2>1, <2>2, <2>3, <2>4, StartKeeps DEF MarkOps
<1>5. ASSUME NEW u \in Users, NEW m \in Msgs, NEW op \in ReactOps \cup MarkOps,
             Sent(m), UNCHANGED <<Tables, shown>>,
             Start(w, [Idle EXCEPT !.op = op, !.pc = "look", !.user = u, !.msg = m])
      PROVE  IInv'
  <2> DEFINE r == [Idle EXCEPT !.op = op, !.pc = "look", !.user = u, !.msg = m]
  <2>1. r \in Request
    BY <1>i DEF Idle, Request, Holder, ReactOps, MarkOps
  <2>2. r.op = op /\ r.pc = "look" /\ r.user = u /\ r.msg = m
    BY DEF Idle
  <2>3. Fits(r)
    BY <2>2 DEF Fits, ReactOps, MarkOps
  <2>4. op \notin {"none", "upload", "send"}
    BY DEF ReactOps, MarkOps
  <2>5. QED
    BY <1>5, <2>1, <2>2, <2>3, <2>4, StartKeeps
<1>6. QED
  BY <1>1, <1>2, <1>3, <1>4, <1>5
     DEF Begin, StartReaction, StartMark, ReactOps, MarkOps

LEMMA CancelKeeps ==
  ASSUME IInv, NEW w \in Workers, Cancel(w)
  PROVE  IInv'
<1>t. TypeOK /\ Knows(w) /\ req[w] \in Request
  BY DEF IInv, TypeOK
<1>1. req' \in [Workers -> Request] /\ req'[w] = Idle /\ Others(w)
  BY <1>t, ReturnType DEF Cancel
<1>2. req[w].op \notin {"none", "upload"} => ItemOf(req[w]) \in Items
  <2>1. req[w].op \in {"none", "upload"} \cup Texts \cup {"delete"} \cup ReactOps
                      \cup MarkOps
    BY <1>t DEF Request, Texts, ReactOps, MarkOps
  <2>2. QED
    BY <1>t, <2>1 DEF ItemOf, Items, Texts, ReactOps, MarkOps, Knows
<1>3. req[w].op # "none"
  BY <1>t DEF Cancel, Knows, Fits
<1>4. crossed' \in SUBSET Items
  BY <1>t, <1>2, <1>3 DEF Cancel, TypeOK
<1>5. TypeOK'
  BY <1>t, <1>1, <1>4 DEF Cancel, TypeOK, Tables
<1>6. QED
  BY <1>1, <1>5, IdleKnows, QuietKeeps DEF Cancel

-----------------------------------------------------------------------------
(***************************************************************************)
(* Handlers that go on                                                     *)
(***************************************************************************)
LEMMA SameRises ==
  ASSUME TypeOK, NEW w \in Workers, UNCHANGED Tables
  PROVE  Rising(w)
  BY Ranges DEF Rising, Sent, Tables

\* w goes on with what it has at another step.
LEMMA GotoFacts ==
  ASSUME IInv, NEW w \in Workers, NEW pc \in Pcs, Goto(w, pc)
  PROVE  /\ req' \in [Workers -> Request] /\ Others(w)
         /\ req'[w].pc = pc /\ req'[w].op = req[w].op /\ req'[w].user = req[w].user
         /\ req'[w].msg = req[w].msg /\ req'[w].file = req[w].file
         /\ req'[w].held = req[w].held /\ req'[w].status = req[w].status
         /\ req'[w].text = req[w].text
<1>1. TypeOK /\ req[w] \in Request
  BY DEF IInv, TypeOK
<1>2. req' \in [Workers -> Request] /\ Others(w) /\ req'[w] = [req[w] EXCEPT !.pc = pc]
  BY <1>1, GotoType
<1>3. QED
  BY <1>1, <1>2 DEF Request

LEMMA UploadKeeps ==
  ASSUME IInv, NEW w \in Workers, CommitUpload(w)
  PROVE  IInv'
<1> DEFINE f == req[w].file
<1>t. TypeOK /\ Knows(w) /\ Truthful /\ Records /\ FilesAreStored
  BY DEF IInv
<1>1. req[w].op = "upload" /\ f \in objects /\ f \in Files /\ holder[f] = "absent"
  BY <1>t DEF CommitUpload, At, Knows, TypeOK
<1>2. req' \in [Workers -> Request] /\ req'[w] = Idle /\ Others(w)
  BY <1>t, ReturnType DEF CommitUpload
<1>3. holder' \in [Files -> Holder] /\ holder' = [holder EXCEPT ![f] = NoMsg]
  BY <1>t DEF CommitUpload, TypeOK, Holder
<1>4. TypeOK'
  BY <1>t, <1>2, <1>3 DEF CommitUpload, TypeOK
<1>5. Rising(w)
  BY <1>t, <1>1, <1>3, Ranges DEF CommitUpload, Rising, Sent, TypeOK
<1>6. Records' /\ Truthful' /\ FilesAreStored'
  BY <1>t, <1>1, <1>3 DEF CommitUpload, Records, Truthful, FilesAreStored, Sent, TypeOK
<1>7. QED
  BY <1>2, <1>4, <1>5, <1>6, IdleKnows, Keeps

LEMMA ReadFileKeeps ==
  ASSUME IInv, NEW w \in Workers, ReadFile(w)
  PROVE  IInv'
<1> DEFINE r == req[w]
           n == [r EXCEPT !.pc = "commit", !.held = holder[r.file]]
<1>t. TypeOK /\ Knows(w) /\ r \in Request
  BY DEF IInv, TypeOK
<1>1. r.op = "send" /\ r.pc = "file" /\ r.file \in Files
  BY <1>t DEF ReadFile, At, Knows
<1>2. n \in Request
  BY <1>t, <1>1 DEF Request, TypeOK
<1>3. req' \in [Workers -> Request] /\ req'[w] = n /\ Others(w)
  BY <1>t, <1>2 DEF ReadFile, TypeOK, Others
<1>4. /\ n.op = "send" /\ n.pc = "commit" /\ n.file = r.file /\ n.held = holder[r.file]
      /\ n.msg = r.msg /\ n.user = r.user
  BY <1>t, <1>1 DEF Request
<1>5. TypeOK'
  BY <1>t, <1>3 DEF ReadFile, TypeOK, Tables
<1>6. Composing(w) /\ Composing(w)'
  BY <1>1, <1>3, <1>4 DEF Composing
<1>7. Takes(w)
  BY <1>3, <1>4, <1>6 DEF Takes
<1>8. UNCHANGED <<msgs, holder>>
  BY DEF ReadFile, Tables
<1>9. Knows(w)'
  BY <1>t, <1>1, <1>3, <1>4, <1>6, <1>8
     DEF Knows, Fits, Texts, MarkOps, ReactOps, Sent
<1>10. QED
  BY <1>3, <1>5, <1>7, <1>9, QuietKeeps DEF ReadFile

LEMMA RefreshKeeps ==
  ASSUME IInv, NEW w \in Workers, Refresh(w)
  PROVE  IInv'
<1> DEFINE r == req[w]
           n == [r EXCEPT !.pc = "publish", !.text = msgs[r.msg].text]
<1>t. TypeOK /\ Knows(w) /\ r \in Request
  BY DEF IInv, TypeOK
<1>1. r.op \in Texts /\ r.pc = "refresh" /\ r.msg \in Msgs
  BY <1>t DEF Refresh, Knows, Fits, Idle, Request, Texts, ReactOps, MarkOps
<1>2. n \in Request /\ msgs[r.msg].text \in Nat
  BY <1>t, <1>1, Ranges DEF Request
<1>3. req' \in [Workers -> Request] /\ req'[w] = n /\ Others(w)
  BY <1>t, <1>2 DEF Refresh, TypeOK, Others
<1>4. /\ n.op = r.op /\ n.pc = "publish" /\ n.file = r.file /\ n.held = r.held
      /\ n.msg = r.msg /\ n.user = r.user /\ n.text = msgs[r.msg].text
  BY <1>t, <1>1 DEF Request
<1>5. TypeOK'
  BY <1>t, <1>3 DEF Refresh, TypeOK, Tables
<1>6. ~Composing(w) /\ ~Composing(w)'
  BY <1>1, <1>3, <1>4 DEF Composing
<1>7. Takes(w)
  BY <1>1, <1>3, <1>4, <1>6 DEF Takes, Texts
<1>8. UNCHANGED <<msgs, holder>>
  BY DEF Refresh, Tables
<1>9. Knows(w)'
  BY <1>t, <1>1, <1>2, <1>3, <1>4, <1>6, <1>8
     DEF Knows, Fits, Texts, MarkOps, ReactOps, Sent
<1>10. QED
  BY <1>3, <1>5, <1>7, <1>9, QuietKeeps DEF Refresh

LEMMA LookAtStatusKeeps ==
  ASSUME IInv, NEW w \in Workers, LookAtStatus(w)
  PROVE  IInv'
<1> DEFINE r == req[w]
           n == [r EXCEPT !.pc = "commit", !.status = status[r.msg][r.user]]
<1>t. TypeOK /\ Knows(w) /\ r \in Request
  BY DEF IInv, TypeOK
<1>1. r.op \in MarkOps /\ r.pc = "look" /\ r.msg \in Msgs /\ r.user \in Users
  BY <1>t DEF LookAtStatus, Knows, MarkOps
<1>2. n \in Request
  BY <1>t, <1>1, Ranges DEF Request
<1>3. req' \in [Workers -> Request] /\ req'[w] = n /\ Others(w)
  BY <1>t, <1>2 DEF LookAtStatus, TypeOK, Others
<1>4. /\ n.op = r.op /\ n.pc = "commit" /\ n.msg = r.msg /\ n.user = r.user
      /\ n.status = status[r.msg][r.user]
  BY <1>t, <1>1 DEF Request
<1>5. TypeOK'
  BY <1>t, <1>3 DEF LookAtStatus, TypeOK, Tables
<1>6. ~Composing(w) /\ ~Composing(w)'
  BY <1>1, <1>3, <1>4 DEF Composing, MarkOps
<1>7. Takes(w)
  BY <1>1, <1>3, <1>4, <1>6 DEF Takes, MarkOps
<1>8. UNCHANGED <<msgs, status, holder>>
  BY DEF LookAtStatus, Tables
<1>9. Knows(w)'
  BY <1>t, <1>1, <1>3, <1>4, <1>6, <1>8
     DEF Knows, Fits, Texts, MarkOps, ReactOps, Sent
<1>10. QED
  BY <1>3, <1>5, <1>7, <1>9, QuietKeeps DEF LookAtStatus

\* A check that ends the handler or sends it on to its commit.
LEMMA CheckKeeps ==
  ASSUME IInv, NEW w \in Workers, UNCHANGED <<Tables, shown, crossed>>,
         req[w].op \in ReactOps \cup {"delete"}, req[w].pc \in {"look", "rights"},
         Goto(w, "commit") \/ Return(w)
  PROVE  IInv'
<1>t. TypeOK /\ Knows(w)
  BY DEF IInv
<1>1. CASE Return(w)
  <2>1. req' \in [Workers -> Request] /\ req'[w] = Idle /\ Others(w)
    BY <1>1, <1>t, ReturnType
  <2>2. TypeOK'
    BY <1>t, <2>1 DEF TypeOK, Tables
  <2>3. QED
    BY <2>1, <2>2, IdleKnows, QuietKeeps
<1>2. CASE Goto(w, "commit")
  <2>1. /\ req' \in [Workers -> Request] /\ Others(w)
        /\ req'[w].pc = "commit" /\ req'[w].op = req[w].op
        /\ req'[w].user = req[w].user /\ req'[w].msg = req[w].msg
    BY <1>2, GotoFacts DEF Pcs
  <2>2. TypeOK'
    BY <1>t, <2>1 DEF TypeOK, Tables
  <2>3. ~Composing(w) /\ ~Composing(w)'
    BY <2>1 DEF Composing, ReactOps
  <2>4. Takes(w)
    BY <2>1, <2>3 DEF Takes, ReactOps
  <2>5. UNCHANGED <<msgs, holder>>
    BY DEF Tables
  <2>6. Knows(w)'
    BY <1>t, <2>1, <2>3, <2>5 DEF Knows, Fits, Texts, MarkOps, ReactOps, Sent
  <2>7. QED
    BY <2>1, <2>2, <2>4, <2>6, QuietKeeps
<1>3. QED
  BY <1>1, <1>2

LEMMA PublishKeeps ==
  ASSUME IInv, NEW w \in Workers, Return(w), UNCHANGED <<Tables, crossed>>,
         shown' \in [Msgs -> Shown], Truthful'
  PROVE  IInv'
<1>t. TypeOK /\ Records /\ FilesAreStored
  BY DEF IInv
<1>1. req' \in [Workers -> Request] /\ req'[w] = Idle /\ Others(w)
  BY <1>t, ReturnType
<1>2. TypeOK'
  BY <1>t, <1>1 DEF TypeOK, Tables
<1>3. Records' /\ FilesAreStored'
  BY <1>t DEF Records, FilesAreStored, Tables, Sent
<1>4. Rising(w)
  BY <1>t, SameRises
<1>5. QED
  BY <1>1, <1>2, <1>3, <1>4, IdleKnows, Keeps

LEMMA PublishingKeeps ==
  ASSUME IInv, NEW w \in Workers,
         PublishText(w) \/ PublishDelete(w) \/ PublishReaction(w) \/ PublishStatus(w)
  PROVE  IInv'
<1> DEFINE r == req[w]
<1>t. TypeOK /\ Truthful /\ Knows(w) /\ r \in Request
  BY DEF IInv, TypeOK
<1>m. r.msg \in Msgs /\ r.user \in Users
  BY <1>t DEF PublishText, PublishDelete, PublishReaction, PublishStatus, At, Knows
<1>s. shown[r.msg] \in Shown
  BY <1>t, <1>m, Ranges
<1>u. UNCHANGED <<Tables, crossed>> /\ Return(w)
  BY DEF PublishText, PublishDelete, PublishReaction, PublishStatus
<1>1. CASE PublishText(w)
  <2>1. r.text \in 0..MaxText /\ r.text <= msgs[r.msg].text
    BY <1>1, <1>t DEF PublishText, Knows, Texts, Request
  <2>2. shown' = [shown EXCEPT ![r.msg] = [shown[r.msg] EXCEPT !.text = r.text]]
    BY <1>1, <1>t DEF PublishText, TypeOK
  <2>3. shown' \in [Msgs -> Shown]
    BY <1>t, <1>m, <1>s, <2>1, <2>2 DEF TypeOK, Shown
  <2>4. Truthful'
    BY <1>t, <1>m, <1>s, <1>u, <2>1, <2>2 DEF Truthful, Tables, TypeOK, Shown
  <2>5. QED
    BY <1>u, <2>3, <2>4, PublishKeeps
<1>2. CASE PublishDelete(w)
  <2>1. msgs[r.msg].deleted
    BY <1>2, <1>t DEF PublishDelete, At, Knows
  <2>2. shown' = [shown EXCEPT ![r.msg] = [shown[r.msg] EXCEPT !.deleted = TRUE]]
    BY <1>2, <1>t DEF PublishDelete, TypeOK
  <2>3. shown' \in [Msgs -> Shown]
    BY <1>t, <1>m, <1>s, <2>2 DEF TypeOK, Shown
  <2>4. Truthful'
    BY <1>t, <1>m, <1>s, <1>u, <2>1, <2>2 DEF Truthful, Tables, TypeOK, Shown
  <2>5. QED
    BY <1>u, <2>3, <2>4, PublishKeeps
<1>3. CASE PublishReaction(w)
  <2>1. PICK who \in SUBSET Users :
          shown' = [shown EXCEPT ![r.msg] = [shown[r.msg] EXCEPT !.reacted = who]]
    <3>1. DEFINE who == IF r.op = "react" THEN shown[r.msg].reacted \cup {r.user}
                                          ELSE shown[r.msg].reacted \ {r.user}
    <3>2. who \in SUBSET Users
      BY <1>m, <1>s DEF Shown
    <3>3. shown' = [shown EXCEPT ![r.msg] = [shown[r.msg] EXCEPT !.reacted = who]]
      BY <1>3, <1>t DEF PublishReaction, TypeOK
    <3>4. QED
      BY <3>2, <3>3
  <2>3. shown' \in [Msgs -> Shown]
    BY <1>t, <1>m, <1>s, <2>1 DEF TypeOK, Shown
  <2>4. Truthful'
    BY <1>t, <1>m, <1>s, <1>u, <2>1 DEF Truthful, Tables, TypeOK, Shown
  <2>5. QED
    BY <1>u, <2>3, <2>4, PublishKeeps
<1>4. CASE PublishStatus(w)
  <2>1. r.status.set \in Times /\ r.status.set \subseteq status[r.msg][r.user].set
    BY <1>4, <1>t DEF PublishStatus, Knows, MarkOps, Request, Status
  <2>2. shown' = [shown EXCEPT ![r.msg] =
                    [shown[r.msg] EXCEPT !.acks =
                       [shown[r.msg].acks EXCEPT ![r.user] = r.status.set]]]
    BY <1>4, <1>t DEF PublishStatus, TypeOK
  <2>a. [shown[r.msg].acks EXCEPT ![r.user] = r.status.set] \in [Users -> Times]
    BY <1>s, <2>1 DEF Shown
  <2>3. shown' \in [Msgs -> Shown]
    BY <1>t, <1>m, <1>s, <2>2, <2>a DEF TypeOK, Shown
  <2>4. Truthful'
    <3> SUFFICES ASSUME NEW m \in Msgs
                 PROVE  /\ shown'[m].text <= msgs[m].text
                        /\ shown'[m].deleted => msgs[m].deleted
                        /\ \A u \in Users : shown'[m].acks[u] \subseteq status[m][u].set
      BY <1>u DEF Truthful, Tables
    <3>1. CASE m # r.msg
      BY <3>1, <2>2, <1>t DEF Truthful, TypeOK
    <3>2. CASE m = r.msg
      <4>1. /\ shown'[m].text = shown[m].text /\ shown'[m].deleted = shown[m].deleted
            /\ shown'[m].acks = [shown[m].acks EXCEPT ![r.user] = r.status.set]
        BY <3>2, <2>2, <1>t, <1>s DEF TypeOK, Shown
      <4>2. \A u \in Users : shown'[m].acks[u] =
                               IF u = r.user THEN r.status.set ELSE shown[m].acks[u]
        BY <4>1, <1>s, <3>2 DEF Shown
      <4>3. QED
        BY <4>1, <4>2, <2>1, <1>t, <3>2 DEF Truthful
    <3>3. QED
      BY <3>1, <3>2
  <2>5. QED
    BY <1>u, <2>3, <2>4, PublishKeeps
<1>5. QED
  BY <1>1, <1>2, <1>3, <1>4

-----------------------------------------------------------------------------
(***************************************************************************)
(* Commits                                                                 *)
(***************************************************************************)
LEMMA SendKeeps ==
  ASSUME IInv, NEW w \in Workers, NEW readers \in SUBSET Users, CommitSend(w, readers)
  PROVE  IInv'
<1> DEFINE r == req[w]
           m == r.msg
           posted == [by |-> r.user, text |-> 1, deleted |-> FALSE]
           rows == [v \in Users |-> [row |-> v \in readers, set |-> {}]]
<1>t. TypeOK /\ Truthful /\ Records /\ FilesAreStored /\ Knows(w) /\ r \in Request
  BY DEF IInv, TypeOK
<1>1. /\ r.op = "send" /\ r.pc = "commit" /\ Composing(w)
      /\ m \in Msgs /\ ~Sent(m) /\ r.user \in Users
  BY <1>t DEF CommitSend, At, Knows, Composing
<1>2. posted \in Message
  BY <1>1, NoValueAssumption DEF Message
<1>3. rows \in [Users -> Status]
  BY DEF Status, Times
<1>4. msgs' = [msgs EXCEPT ![m] = posted] /\ status' = [status EXCEPT ![m] = rows]
  BY DEF CommitSend
<1>5. msgs' \in [Msgs -> Message] /\ status' \in [Msgs -> [Users -> Status]]
  BY <1>2, <1>3, <1>4, <1>t DEF TypeOK
<1>6. holder' \in [Files -> Holder] /\ copies' \in SUBSET (Files \X Msgs)
  <2>1. r.held \in Msgs => r.file \in Files
    BY <1>t, <1>1, NoValueAssumption DEF Knows
  <2>2. m \in Holder
    BY <1>1 DEF Holder
  <2>3. holder' \in [Files -> Holder]
    BY <1>t, <2>2 DEF CommitSend, TypeOK
  <2>4. copies' \in SUBSET (Files \X Msgs)
    <3>1. CASE r.held \in Msgs
      BY <1>t, <1>1, <2>1, <3>1 DEF CommitSend, TypeOK
    <3>2. CASE r.held \notin Msgs
      BY <1>t, <3>2 DEF CommitSend, TypeOK
    <3>3. QED
      BY <3>1, <3>2
  <2>5. QED
    BY <2>3, <2>4
<1>7. /\ req' \in [Workers -> Request] /\ Others(w)
      /\ req'[w].pc = "refresh" /\ req'[w].op = "send" /\ req'[w].user = r.user
      /\ req'[w].msg = m /\ req'[w].file = r.file /\ req'[w].held = r.held
  BY <1>1, GotoFacts DEF CommitSend, Pcs
<1>8. TypeOK'
  BY <1>t, <1>5, <1>6, <1>7 DEF CommitSend, TypeOK
<1>9. /\ msgs'[m] = posted /\ status'[m] = rows
      /\ \A x \in Msgs \ {m} : msgs'[x] = msgs[x] /\ status'[x] = status[x]
  BY <1>1, <1>4, <1>t DEF TypeOK
<1>z. msgs[m].text = 0
  BY <1>1, <1>t, Ranges DEF Sent
<1>10. \A f \in Files : holder'[f] = holder[f]
                        \/ (holder[f] # "absent" /\ holder'[f] # "absent" /\ holder'[f] = m)
  BY <1>t, <1>1, NoValueAssumption DEF CommitSend, Knows, TypeOK
<1>11. Rising(w)
  <2>1. \A x \in Msgs : /\ msgs[x].text <= msgs'[x].text
                        /\ msgs[x].deleted => msgs'[x].deleted
                        /\ \A u \in Users : status[x][u].set \subseteq status'[x][u].set
                        /\ ~Sent(x) /\ Sent(x)' => Composing(w) /\ r.msg = x
    BY <1>t, <1>1, <1>9, <1>z, Ranges DEF Records, Sent
  <2>2. QED
    BY <1>1, <1>10, <2>1 DEF Rising, CommitSend
<1>12. Records'
  BY <1>t, <1>1, <1>9 DEF Records, Sent
<1>13. Truthful'
  <2>1. ASSUME NEW x \in Msgs
        PROVE  /\ shown[x].text <= msgs'[x].text
               /\ shown[x].deleted => msgs'[x].deleted
               /\ \A u \in Users : shown[x].acks[u] \subseteq status'[x][u].set
    <3>1. CASE x = m
      BY <3>1, <1>t, <1>1, <1>9, <1>z, Ranges DEF Truthful, Records
    <3>2. CASE x # m
      BY <3>2, <1>t, <1>9 DEF Truthful
    <3>3. QED
      BY <3>1, <3>2
  <2>2. QED
    BY <2>1 DEF Truthful, CommitSend
<1>14. FilesAreStored'
  BY <1>t, <1>10 DEF FilesAreStored, CommitSend
<1>15. ~Composing(w)' /\ Sent(m)'
  BY <1>7, <1>9 DEF Composing, Sent
<1>16. Takes(w)
  BY <1>7, <1>15 DEF Takes
<1>17. Knows(w)'
  BY <1>t, <1>1, <1>7, <1>10, <1>15 DEF Knows, Fits, Texts, MarkOps, ReactOps, Sent
<1>18. QED
  BY <1>7, <1>8, <1>11, <1>12, <1>13, <1>14, <1>16, <1>17, Keeps

LEMMA EditKeeps ==
  ASSUME IInv, NEW w \in Workers, CommitEdit(w) \/ CommitDelete(w)
  PROVE  IInv'
<1> DEFINE r == req[w]
           m == r.msg
<1>t. TypeOK /\ Truthful /\ Records /\ FilesAreStored /\ Knows(w) /\ r \in Request
  BY DEF IInv, TypeOK
<1>1. /\ r.op \in {"edit", "delete"} /\ r.pc = "commit" /\ ~Composing(w)
      /\ m \in Msgs /\ Sent(m)
  BY <1>t DEF CommitEdit, CommitDelete, At, Knows, Composing
<1>2. PICK text \in 0..MaxText, deleted \in BOOLEAN, pc \in {"refresh", "publish"} :
        /\ msgs[m].text <= text /\ (msgs[m].deleted => deleted)
        /\ msgs' = [msgs EXCEPT ![m] = [msgs[m] EXCEPT !.text = text,
                                                       !.deleted = deleted]]
        /\ Goto(w, pc)
        /\ r.op = "edit" => pc = "refresh"
        /\ r.op = "delete" => deleted = TRUE /\ pc = "publish"
  <2>m. msgs[m] \in Message /\ msgs[m].text \in Nat /\ msgs[m].text \in 0..MaxText
        /\ msgs[m].deleted \in BOOLEAN
    BY <1>t, <1>1, Ranges
  <2>1. CASE CommitEdit(w)
    <3>1. msgs[m].text + 1 \in 0..MaxText /\ msgs[m].text <= msgs[m].text + 1
      BY <2>1, <2>m, NoValueAssumption DEF CommitEdit
    <3>2. msgs' = [msgs EXCEPT ![m] = [msgs[m] EXCEPT !.text = msgs[m].text + 1,
                                                      !.deleted = msgs[m].deleted]]
      BY <2>1, <2>m, <1>t DEF CommitEdit, TypeOK, Message
    <3>3. Goto(w, "refresh") /\ r.op = "edit"
      BY <2>1 DEF CommitEdit, At
    <3>4. QED
      BY <3>1, <3>2, <3>3, <2>m
  <2>2. CASE CommitDelete(w)
    <3>1. msgs' = [msgs EXCEPT ![m] = [msgs[m] EXCEPT !.text = msgs[m].text,
                                                      !.deleted = TRUE]]
      BY <2>2, <2>m, <1>t DEF CommitDelete, TypeOK, Message
    <3>2. Goto(w, "publish") /\ r.op = "delete"
      BY <2>2 DEF CommitDelete, At
    <3>3. msgs[m].text <= msgs[m].text /\ r.op # "edit"
      BY <2>m, <3>2
    <3>4. QED
      BY <3>1, <3>2, <3>3, <2>m
  <2>3. QED
    BY <2>1, <2>2
<1>u. UNCHANGED <<status, reactions, objects, holder, copies, shown, crossed>>
  BY DEF CommitEdit, CommitDelete
<1>3. msgs' \in [Msgs -> Message]
  BY <1>t, <1>1, <1>2 DEF TypeOK, Message
<1>4. /\ req' \in [Workers -> Request] /\ Others(w)
      /\ req'[w].pc = pc /\ req'[w].op = r.op /\ req'[w].user = r.user
      /\ req'[w].msg = m /\ req'[w].file = r.file /\ req'[w].held = r.held
  BY <1>2, GotoFacts DEF Pcs
<1>5. TypeOK'
  BY <1>t, <1>u, <1>3, <1>4 DEF TypeOK
<1>6. /\ msgs'[m].by = msgs[m].by /\ msgs'[m].text = text /\ msgs'[m].deleted = deleted
      /\ \A x \in Msgs \ {m} : msgs'[x] = msgs[x]
  BY <1>t, <1>1, <1>2 DEF TypeOK, Message
<1>7. msgs[m].text \in Nat /\ msgs[m].text > 0 /\ text \in Nat /\ text > 0
  BY <1>t, <1>1, <1>2, Ranges DEF Sent
<1>8. Rising(w)
  BY <1>t, <1>2, <1>6, <1>7, <1>u, Ranges DEF Rising, Sent
<1>9. Records' /\ FilesAreStored'
  BY <1>t, <1>1, <1>6, <1>7, <1>u DEF Records, Sent, FilesAreStored
<1>10. Truthful'
  <2>1. ASSUME NEW x \in Msgs
        PROVE  shown[x].text <= msgs'[x].text /\ (shown[x].deleted => msgs'[x].deleted)
    BY <1>t, <1>2, <1>6, <1>7, Ranges DEF Truthful
  <2>2. QED
    BY <2>1, <1>t, <1>u DEF Truthful
<1>11. ~Composing(w)' /\ Sent(m)'
  BY <1>1, <1>4, <1>6, <1>7 DEF Composing, Sent
<1>12. Takes(w)
  BY <1>1, <1>4, <1>11 DEF Takes
<1>13. Knows(w)'
  BY <1>t, <1>1, <1>2, <1>4, <1>6, <1>11, <1>u
     DEF Knows, Fits, Texts, MarkOps, ReactOps, Sent
<1>14. QED
  BY <1>4, <1>5, <1>8, <1>9, <1>10, <1>12, <1>13, Keeps

LEMMA ReactionKeeps ==
  ASSUME IInv, NEW w \in Workers, CommitReaction(w) \/ CommitUnreaction(w)
  PROVE  IInv'
<1> DEFINE r == req[w]
<1>t. TypeOK /\ Truthful /\ Records /\ FilesAreStored /\ Knows(w) /\ r \in Request
  BY DEF IInv, TypeOK
<1>1. r.op \in ReactOps /\ r.pc = "commit" /\ r.msg \in Msgs /\ r.user \in Users
  BY <1>t DEF CommitReaction, CommitUnreaction, At, Knows, ReactOps
<1>2. reactions' \in SUBSET (Msgs \X Users)
  BY <1>t, <1>1 DEF CommitReaction, CommitUnreaction, TypeOK
<1>u. UNCHANGED <<msgs, status, objects, holder, copies, shown, crossed>>
  BY DEF CommitReaction, CommitUnreaction
<1>3. Rising(w) /\ Records' /\ Truthful' /\ FilesAreStored'
  BY <1>t, <1>u, Ranges DEF Rising, Records, Truthful, FilesAreStored, Sent
<1>4. CASE Return(w)
  <2>1. req' \in [Workers -> Request] /\ req'[w] = Idle /\ Others(w)
    BY <1>4, <1>t, ReturnType
  <2>2. TypeOK'
    BY <1>t, <1>2, <1>u, <2>1 DEF TypeOK
  <2>3. QED
    BY <1>3, <2>1, <2>2, IdleKnows, Keeps
<1>5. CASE Goto(w, "publish")
  <2>1. /\ req' \in [Workers -> Request] /\ Others(w)
        /\ req'[w].pc = "publish" /\ req'[w].op = r.op /\ req'[w].user = r.user
        /\ req'[w].msg = r.msg
    BY <1>5, GotoFacts DEF Pcs
  <2>2. TypeOK'
    BY <1>t, <1>2, <1>u, <2>1 DEF TypeOK
  <2>3. ~Composing(w) /\ ~Composing(w)'
    BY <1>1, <2>1 DEF Composing, ReactOps
  <2>4. Takes(w)
    BY <1>1, <2>1, <2>3 DEF Takes, ReactOps
  <2>5. Knows(w)'
    BY <1>t, <1>1, <1>u, <2>1, <2>3 DEF Knows, Fits, Texts, MarkOps, ReactOps, Sent
  <2>6. QED
    BY <1>3, <2>1, <2>2, <2>4, <2>5, Keeps
<1>6. QED
  BY <1>4, <1>5 DEF CommitReaction, CommitUnreaction

\* The UPDATE adds the times the handler found missing to those set since.
LEMMA MarkedTimes ==
  ASSUME NEW now \in Times, NEW seen \in Times, seen \subseteq now, NEW op \in MarkOps
  PROVE  /\ seen \cup Marks(op) \in Times
         /\ now \cup ((seen \cup Marks(op)) \ seen) \in Times
         /\ seen \cup Marks(op) \subseteq now \cup ((seen \cup Marks(op)) \ seen)
<1>1. Marks(op) \in {{"delivered"}, {"delivered", "read"}}
  BY DEF Marks
<1>2. now \cup ((seen \cup Marks(op)) \ seen) = now \cup Marks(op)
  OBVIOUS
<1>3. \A s \in Times : s \cup Marks(op) \in Times
  BY <1>1 DEF Times
<1>4. QED
  BY <1>2, <1>3

LEMMA MarkKeeps ==
  ASSUME IInv, NEW w \in Workers, CommitMark(w)
  PROVE  IInv'
<1> DEFINE r == req[w]
           now == status[r.msg][r.user]
           own == r.status.set \cup Marks(r.op)
           new == now.set \cup (own \ r.status.set)
<1>t. TypeOK /\ Truthful /\ Records /\ FilesAreStored /\ Knows(w) /\ r \in Request
  BY DEF IInv, TypeOK
<1>1. /\ r.op \in MarkOps /\ r.pc = "commit" /\ r.msg \in Msgs /\ r.user \in Users
      /\ r.status.set \in Times /\ r.status.set \subseteq now.set
      /\ Sent(r.msg) /\ ~Composing(w)
  BY <1>t DEF CommitMark, Knows, MarkOps, Request, Status, Composing
<1>n. now.set \in Times
  BY <1>t, <1>1, Ranges
<1>2. own \in Times /\ new \in Times /\ own \subseteq new
  BY <1>1, <1>n, MarkedTimes
<1> HIDE DEF own, new
<1>u. UNCHANGED <<msgs, reactions, objects, holder, copies, shown, crossed>>
  BY DEF CommitMark
<1>3. CASE Return(w) /\ UNCHANGED status
  <2>1. req' \in [Workers -> Request] /\ req'[w] = Idle /\ Others(w)
    BY <1>3, <1>t, ReturnType
  <2>2. TypeOK'
    BY <1>t, <1>3, <1>u, <2>1 DEF TypeOK
  <2>3. QED
    BY <1>3, <1>u, <2>1, <2>2, IdleKnows, QuietKeeps DEF Tables
<1>4. CASE /\ status' = [status EXCEPT ![r.msg][r.user] = [row |-> TRUE, set |-> new]]
           /\ req' = [req EXCEPT ![w].pc = "publish",
                                 ![w].status = [row |-> TRUE, set |-> own]]
  <2> DEFINE n == [r EXCEPT !.pc = "publish", !.status = [row |-> TRUE, set |-> own]]
             s == [row |-> TRUE, set |-> new]
  <2>1. s \in Status /\ [row |-> TRUE, set |-> own] \in Status
    BY <1>2 DEF Status
  <2>2. n \in Request
    BY <1>t, <2>1 DEF Request
  <2>3. req' \in [Workers -> Request] /\ Others(w) /\ req'[w] = n
    BY <1>4, <1>t, <2>2 DEF TypeOK, Others
  <2>4. /\ n.op = r.op /\ n.pc = "publish" /\ n.msg = r.msg /\ n.user = r.user
        /\ n.status.set = own
    BY <1>t DEF Request
  <2>5. status' \in [Msgs -> [Users -> Status]]
    BY <1>4, <1>t, <2>1 DEF TypeOK
  <2>6. TypeOK'
    BY <1>t, <1>u, <2>3, <2>5 DEF TypeOK
  <2>7. /\ status'[r.msg][r.user].set = new
        /\ \A x \in Msgs, u \in Users : x # r.msg \/ u # r.user =>
             status'[x][u] = status[x][u]
    BY <1>4, <1>t, <1>1 DEF TypeOK
  <2>8. now.set \subseteq new
    BY DEF new
  <2>9. \A x \in Msgs, u \in Users : status[x][u].set \subseteq status'[x][u].set
    BY <2>7, <2>8
  <2>10. Rising(w)
    BY <1>t, <1>u, <2>9, Ranges DEF Rising, Sent
  <2>11. Records' /\ FilesAreStored'
    BY <1>t, <1>1, <1>u, <2>7 DEF Records, Sent, FilesAreStored
  <2>12. Truthful'
    <3>1. \A x \in Msgs, u \in Users : shown[x].acks[u] \subseteq status'[x][u].set
      BY <1>t, <2>9 DEF Truthful
    <3>2. QED
      BY <1>t, <1>u, <3>1 DEF Truthful
  <2>13. ~Composing(w)'
    BY <1>1, <2>3, <2>4 DEF Composing, MarkOps
  <2>14. Takes(w)
    BY <1>1, <2>3, <2>4, <2>13 DEF Takes, MarkOps
  <2>15. Knows(w)'
    BY <1>t, <1>1, <1>2, <1>u, <2>3, <2>4, <2>7, <2>13
       DEF Knows, Fits, Texts, MarkOps, ReactOps, Sent
  <2>16. QED
    BY <2>3, <2>6, <2>10, <2>11, <2>12, <2>14, <2>15, Keeps
<1>5. QED
  BY <1>3, <1>4 DEF CommitMark, own, new

-----------------------------------------------------------------------------
(***************************************************************************)
(* Theorems: types and files                                               *)
(***************************************************************************)
LEMMA Initially == Init => IInv
<1> SUFFICES ASSUME Init PROVE IInv
  OBVIOUS
<1>1. NoMessage \in Message /\ NoStatus \in Status /\ Blank \in Shown
  BY NoValueAssumption DEF NoMessage, Message, NoStatus, Status, Times, Blank, Shown
<1>2. TypeOK
  BY <1>1, IdleType DEF Init, TypeOK, Holder
<1>3. Records /\ Truthful /\ FilesAreStored
  BY DEF Init, Records, Truthful, FilesAreStored, Sent, NoMessage, NoStatus, Blank
<1>4. ASSUME NEW w \in Workers PROVE Knows(w) /\ Alone(w)
  <2>1. req[w] = Idle /\ req[w].op = "none" /\ req[w].pc = "idle"
    BY DEF Init, Idle
  <2>2. Fits(req[w])
    BY <2>1 DEF Fits, ReactOps, MarkOps
  <2>3. QED
    BY <2>1, <2>2 DEF Knows, Alone, Composing, Texts, MarkOps
<1>5. QED
  BY <1>2, <1>3, <1>4 DEF IInv

LEMMA ContinueKeeps ==
  ASSUME IInv, NEW w \in Workers, Continue(w)
  PROVE  IInv'
<1>1. ASSUME CheckRights(w) \/ LookAtReaction(w) PROVE IInv'
  <2>1. Goto(w, "commit") \/ Return(w)
    BY <1>1 DEF CheckRights, LookAtReaction
  <2>2. UNCHANGED <<Tables, shown, crossed>>
    BY <1>1 DEF CheckRights, LookAtReaction
  <2>3. req[w].op \in ReactOps \cup {"delete"} /\ req[w].pc \in {"look", "rights"}
    BY <1>1 DEF CheckRights, LookAtReaction, At, ReactOps
  <2>4. QED
    BY <2>1, <2>2, <2>3, CheckKeeps
<1>2. QED
  BY <1>1, UploadKeeps, ReadFileKeeps, SendKeeps, EditKeeps, RefreshKeeps,
     PublishingKeeps, ReactionKeeps, LookAtStatusKeeps, MarkKeeps DEF Continue

LEMMA Step == IInv /\ [Next]_vars => IInv'
<1> SUFFICES ASSUME IInv, [Next]_vars PROVE IInv'
  OBVIOUS
<1>1. CASE UNCHANGED vars
  BY <1>1 DEF vars, IInv, TypeOK, Records, Truthful, FilesAreStored, Knows, Alone,
              Sent, Composing
<1>2. CASE Next
  BY <1>2, BeginKeeps, ContinueKeeps, CancelKeeps DEF Next
<1>3. QED
  BY <1>1, <1>2

THEOREM Invariance == Spec => []IInv
  BY Initially, Step, PTL DEF Spec

\* Every variable keeps its type for any number of users, messages and handlers: in
\* particular no overlap of MarkAsDelivered and MarkAsRead leaves a row that says when
\* the message was read and not when it was delivered.
THEOREM TypeCorrect == Spec => []TypeOK
<1>1. IInv => TypeOK
  BY DEF IInv
<1>2. QED
  BY <1>1, Invariance, PTL

\* Whatever UploadAttachment is cut off by, an attachment row names a stored object.
THEOREM FilesAreStoredHolds == Spec => []FilesAreStored
<1>1. IInv => FilesAreStored
  BY DEF IInv
<1>2. QED
  BY <1>1, Invariance, PTL

FileStays == \A f \in Files : holder[f] \in Msgs /\ (\A w \in Workers : ~MayTake(f, w))
                                => holder'[f] = holder[f]

\* A file stays with its message once no SendMessage is left that saw it free.
THEOREM FilesStayHolds == Spec => FilesStay
<1>1. IInv /\ [Next]_vars => [FileStays]_vars
  <2> SUFFICES ASSUME IInv, Next PROVE FileStays
    OBVIOUS
  <2>1. PICK w \in Workers : Begin(w) \/ Continue(w) \/ Cancel(w)
    BY DEF Next
  <2>2. CASE UNCHANGED holder
    BY <2>2 DEF FileStays
  <2>3. CASE CommitUpload(w)
    <3>1. req[w].op = "upload" /\ holder[req[w].file] = "absent" /\ holder \in [Files -> Holder]
      BY <2>3 DEF IInv, TypeOK, CommitUpload, At, Knows
    <3>2. "absent" \notin Msgs
      BY NoValueAssumption
    <3>3. QED
      BY <2>3, <3>1, <3>2 DEF FileStays, CommitUpload
  <2>4. ASSUME NEW readers \in SUBSET Users, CommitSend(w, readers)
        PROVE  FileStays
    <3>1. holder \in [Files -> Holder] /\ req[w].op = "send"
      BY <2>4 DEF IInv, TypeOK, CommitSend, At
    <3>2. QED
      BY <2>4, <3>1 DEF FileStays, CommitSend, MayTake
  <2>5. Begin(w) \/ Cancel(w) => UNCHANGED holder
    BY DEF Begin, Cancel, StoreObject, StartEdit, StartSend, StartDelete,
           StartReaction, StartMark, Tables
  <2>6. Continue(w) => \/ UNCHANGED holder \/ CommitUpload(w)
                       \/ \E readers \in SUBSET Users : CommitSend(w, readers)
    BY DEF Continue, ReadFile, CommitEdit, Refresh, PublishText, CheckRights,
           CommitDelete, PublishDelete, LookAtReaction, CommitReaction,
           CommitUnreaction, PublishReaction, LookAtStatus, CommitMark,
           PublishStatus, Tables
  <2>7. QED
    BY <2>1, <2>2, <2>3, <2>4, <2>5, <2>6
<1>2. QED
  BY <1>1, Invariance, PTL DEF Spec, FilesStay, FileStays

-----------------------------------------------------------------------------
(***************************************************************************)
(* Theorem: a deleted message comes to rest                                *)
(***************************************************************************)
Resting(m) ==
  msgs[m].deleted => /\ Changers(m)' \subseteq Changers(m)
                     /\ Changers(m) = {} => /\ msgs'[m] = msgs[m]
                                            /\ ReactedTo(m)' \subseteq ReactedTo(m)
Quiet == \A m \in Msgs : Resting(m)

\* A request that comes in on a deleted message is no edit, and a reaction has yet to
\* look at it.
LEMMA BeginRests ==
  ASSUME IInv, NEW w \in Workers, Begin(w) \/ Cancel(w), NEW m \in Msgs
  PROVE  Resting(m)
<1>t. req \in [Workers -> Request]
  BY DEF IInv, TypeOK
<1>1. UNCHANGED <<msgs, reactions>>
  BY DEF Begin, Cancel, StoreObject, StartEdit, StartSend, StartDelete,
         StartReaction, StartMark, Tables
<1>2. \A v \in Workers \ {w} : req'[v] = req[v]
  BY <1>t DEF Begin, Cancel, StoreObject, StartEdit, StartSend, StartDelete,
         StartReaction, StartMark, Start, Return
<1>3. ASSUME msgs[m].deleted, MayChange(m, w)' PROVE FALSE
  <2>i. Idle.op = "none"
    BY DEF Idle
  <2>1. CASE Cancel(w)
    BY <1>t, <1>3, <2>1, <2>i DEF Cancel, Return, MayChange
  <2>2. ASSUME NEW u \in Users, NEW f \in Files, StoreObject(w, u, f) PROVE FALSE
    BY <1>t, <1>3, <2>2 DEF StoreObject, MayChange, Idle
  <2>3. ASSUME NEW x \in Msgs, StartEdit(w, x) PROVE FALSE
    BY <1>t, <1>3, <2>3 DEF StartEdit, Start, MayChange, Idle, Visible
  <2>4. ASSUME NEW u \in Users, NEW x \in Msgs, NEW f \in Files \cup {NoFile},
               StartSend(w, u, x, f)
        PROVE  FALSE
    BY <1>t, <1>3, <2>4 DEF StartSend, Start, MayChange, Idle
  <2>5. ASSUME NEW u \in Users, NEW x \in Msgs, StartDelete(w, u, x) PROVE FALSE
    BY <1>t, <1>3, <2>5 DEF StartDelete, Start, MayChange, Idle
  <2>6. ASSUME NEW op, NEW u \in Users, NEW x \in Msgs,
               StartReaction(w, op, u, x) \/ StartMark(w, op, u, x)
        PROVE  FALSE
    <3> DEFINE r == [Idle EXCEPT !.op = op, !.pc = "look", !.user = u, !.msg = x]
    <3>1. req'[w] = r
      BY <1>t, <2>6 DEF StartReaction, StartMark, Start
    <3>2. r.pc = "look"
      BY DEF Idle
    <3>3. QED
      BY <1>3, <3>1, <3>2 DEF MayChange
  <2>7. QED
    BY <2>1, <2>2, <2>3, <2>4, <2>5, <2>6 DEF Begin
<1>4. QED
  BY <1>1, <1>2, <1>3 DEF Resting, Changers, MayChange, ReactedTo

LEMMA ContinueRests ==
  ASSUME IInv, NEW w \in Workers, Continue(w), NEW m \in Msgs
  PROVE  Resting(m)
<1> SUFFICES ASSUME msgs[m].deleted PROVE Resting(m)
  BY DEF Resting
<1>t. /\ req \in [Workers -> Request] /\ msgs \in [Msgs -> Message]
      /\ reactions \in SUBSET (Msgs \X Users) /\ Sent(m) /\ Knows(w)
  BY DEF IInv, TypeOK, Records
<1>1. \A v \in Workers \ {w} : req'[v] = req[v]
  BY <1>t DEF Continue, CommitUpload, ReadFile, CommitSend, CommitEdit, Refresh,
         PublishText, CheckRights, CommitDelete, PublishDelete, LookAtReaction,
         CommitReaction, CommitUnreaction, PublishReaction, LookAtStatus, CommitMark,
         PublishStatus, Goto, Return
<1>2. ~MayChange(m, w)'
  <2>r. Return(w) => req'[w].op = "none"
    BY <1>t DEF Return, Idle
  <2>g. \A pc \in Pcs : Goto(w, pc) => /\ req'[w].pc = pc /\ req'[w].op = req[w].op
                                       /\ req'[w].msg = req[w].msg
    BY GotoFacts
  <2>1. CASE LookAtReaction(w)
    BY <2>1, <2>r, <2>g DEF LookAtReaction, Visible, MayChange, Pcs
  <2>2. CASE ReadFile(w) \/ Refresh(w) \/ LookAtStatus(w) \/ CommitMark(w)
    <3>1. \/ req'[w].op = "none" \/ req'[w].pc = "publish"
          \/ req'[w].op \in {"send", "deliver", "read"}
      BY <1>t, <2>2, <2>r, Ranges DEF IInv, ReadFile, Refresh, LookAtStatus, CommitMark,
                                      At, Request
    <3>2. QED
      BY <3>1 DEF MayChange
  <2>3. CASE CheckRights(w)
    BY <2>3, <2>r, <2>g DEF CheckRights, At, MayChange, Pcs
  <2>4. CASE \/ CommitUpload(w) \/ CommitEdit(w) \/ CommitDelete(w)
             \/ CommitReaction(w) \/ CommitUnreaction(w)
             \/ \E readers \in SUBSET Users : CommitSend(w, readers)
    <3>1. Return(w) \/ Goto(w, "refresh") \/ Goto(w, "publish")
      BY <2>4 DEF CommitUpload, CommitSend, CommitEdit, CommitDelete, CommitReaction,
                  CommitUnreaction
    <3>2. QED
      BY <3>1, <2>r, <2>g DEF MayChange, Pcs
  <2>5. CASE PublishText(w) \/ PublishDelete(w) \/ PublishReaction(w) \/ PublishStatus(w)
    BY <2>5, <2>r DEF PublishText, PublishDelete, PublishReaction, PublishStatus, MayChange
  <2>6. QED
    BY <2>1, <2>2, <2>3, <2>4, <2>5 DEF Continue
<1>3. ASSUME ~MayChange(m, w)
      PROVE  msgs'[m] = msgs[m] /\ ReactedTo(m)' \subseteq ReactedTo(m)
  <2>1. CASE \E readers \in SUBSET Users : CommitSend(w, readers)
    <3>1. Composing(w)
      BY <2>1 DEF CommitSend, At, Composing
    <3>2. req[w].msg # m /\ req[w].msg \in Msgs
      BY <1>t, <3>1 DEF Knows, Composing
    <3>3. QED
      BY <1>t, <2>1, <3>2 DEF CommitSend, ReactedTo
  <2>2. CASE CommitEdit(w)
    BY <1>t, <1>3, <2>2 DEF CommitEdit, At, MayChange, ReactedTo
  <2>3. CASE CommitDelete(w)
    <3>1. msgs' = [msgs EXCEPT ![req[w].msg].deleted = TRUE] /\ UNCHANGED reactions
      BY <2>3 DEF CommitDelete
    <3>2. [msgs[m] EXCEPT !.deleted = TRUE] = msgs[m]
      BY <1>t DEF Message
    <3>3. QED
      BY <1>t, <3>1, <3>2 DEF ReactedTo
  <2>4. CASE CommitReaction(w)
    BY <1>t, <1>3, <2>4 DEF CommitReaction, At, MayChange, ReactedTo
  <2>5. CASE CommitUnreaction(w)
    BY <1>t, <2>5 DEF CommitUnreaction, ReactedTo
  <2>6. QED
    BY <2>1, <2>2, <2>3, <2>4, <2>5
       DEF Continue, CommitUpload, ReadFile, Refresh, PublishText, CheckRights,
         PublishDelete, LookAtReaction, PublishReaction, LookAtStatus, CommitMark,
         PublishStatus, Tables, ReactedTo
<1>4. QED
  BY <1>1, <1>2, <1>3 DEF Resting, Changers, MayChange

\* No handler that had not reached its commit when a message was deleted changes
\* its text or adds a reaction to it.
THEOREM DeletedIsQuietHolds == Spec => DeletedIsQuiet
<1>1. IInv /\ [Next]_vars => [Quiet]_vars
  BY BeginRests, ContinueRests DEF Next, Quiet
<1>2. QED
  BY <1>1, Invariance, PTL DEF Spec, DeletedIsQuiet, Quiet, Resting

-----------------------------------------------------------------------------
(***************************************************************************)
(* Theorem: the handlers implement the board                               *)
(***************************************************************************)
LEMMA InitRefines == Init => Board!BoardInit
<1> SUFFICES ASSUME Init PROVE Board!BoardInit
  OBVIOUS
<1>1. \A m \in Msgs : /\ msgs[m].text = 0 /\ msgs[m].deleted = FALSE
                      /\ \A u \in Users : status[m][u].set = {}
                      /\ shown[m] = Blank
  BY DEF Init, NoMessage, NoStatus
<1>2. /\ [m \in Msgs |-> msgs[m].text] = [m \in Msgs |-> 0]
      /\ {m \in Msgs : msgs[m].deleted} = {}
  BY <1>1
<1>3. [m \in Msgs |-> [u \in Users |-> status[m][u].set]]
        = [m \in Msgs |-> [u \in Users |-> {}]]
  BY <1>1
<1>b. Blank.text = 0 /\ Blank.deleted = FALSE /\ Blank.acks = [u \in Users |-> {}]
  BY DEF Blank
<1>4. \A m \in Msgs : [text |-> shown[m].text, deleted |-> shown[m].deleted,
                      acks |-> shown[m].acks] = Board!Blank
  BY <1>1, <1>b DEF Board!Blank
<1>5. [m \in Msgs |-> [text |-> shown[m].text, deleted |-> shown[m].deleted,
                      acks |-> shown[m].acks]] = [m \in Msgs |-> Board!Blank]
  BY <1>4, Zenon
<1>6. QED
  BY <1>2, <1>3, <1>5 DEF Board!BoardInit

\* A step that leaves the messages, the times and the clients alone.
LEMMA StutterRefines ==
  ASSUME UNCHANGED <<msgs, status, shown>>
  PROVE  UNCHANGED Board!bvars
  BY DEF Board!bvars

LEMMA BoardSteps ==
  ASSUME NEW m \in Msgs
  PROVE  /\ Board!Post(m) \/ Board!Edit(m) \/ Board!Delete(m) \/ Board!Show(m)
              => Board!BoardNext
         /\ \A u \in Users, a \in Times : Board!Acknowledge(m, u, a) => Board!BoardNext
  BY DEF Board!BoardNext, Board!Acks, Times

LEMMA SendRefines ==
  ASSUME IInv, NEW w \in Workers, NEW readers \in SUBSET Users, CommitSend(w, readers)
  PROVE  Board!BoardNext
<1>1. PICK m \in Msgs :
        /\ m = req[w].msg /\ ~Sent(m) /\ msgs[m].text = 0 /\ msgs[m].deleted = FALSE
        /\ \A u \in Users : status[m][u].set = {}
  <2>1. Composing(w) /\ Knows(w) /\ TypeOK /\ Records
    BY DEF IInv, CommitSend, At, Composing
  <2>2. req[w].msg \in Msgs /\ ~Sent(req[w].msg)
    BY <2>1 DEF Knows, Composing
  <2>3. QED
    BY <2>1, <2>2, Ranges DEF Records, Sent
<1>2. TypeOK /\ UNCHANGED shown
  BY DEF IInv, CommitSend
<1>3. /\ msgs'[m].text = 1 /\ msgs'[m].deleted = FALSE
      /\ \A x \in Msgs \ {m} : msgs'[x] = msgs[x]
  BY <1>1, <1>2 DEF CommitSend, TypeOK
<1>4. \A x \in Msgs, u \in Users : status'[x][u].set = status[x][u].set
  BY <1>1, <1>2 DEF CommitSend, TypeOK
<1>5. Board!Post(m)
  BY <1>1, <1>2, <1>3, <1>4 DEF Board!Post
<1>6. QED
  BY <1>1, <1>5, BoardSteps

LEMMA EditRefines ==
  ASSUME IInv, NEW w \in Workers, CommitEdit(w) \/ CommitDelete(w)
  PROVE  Board!BoardNext
<1>1. PICK m \in Msgs : m = req[w].msg /\ Sent(m) /\ TypeOK /\ msgs[m] \in Message
  <2>1. Knows(w) /\ TypeOK /\ ~Composing(w) /\ req[w].op \in {"edit", "delete"}
    BY DEF IInv, CommitEdit, CommitDelete, At, Composing
  <2>2. QED
    BY <2>1, Ranges DEF Knows
<1>2. UNCHANGED <<status, shown>>
  BY DEF CommitEdit, CommitDelete
<1>3. CASE CommitEdit(w)
  <2>1. msgs' = [msgs EXCEPT ![m].text = @ + 1]
    BY <1>1, <1>3 DEF CommitEdit
  <2>2. /\ msgs'[m].text = msgs[m].text + 1 /\ msgs'[m].deleted = msgs[m].deleted
        /\ \A x \in Msgs \ {m} : msgs'[x] = msgs[x]
    BY <1>1, <2>1 DEF TypeOK, Message
  <2>3. Board!Edit(m)
    BY <1>1, <1>2, <2>2 DEF Board!Edit, Sent
  <2>4. QED
    BY <1>1, <2>3, BoardSteps
<1>4. CASE CommitDelete(w)
  <2>1. msgs' = [msgs EXCEPT ![m].deleted = TRUE]
    BY <1>1, <1>4 DEF CommitDelete
  <2>2. /\ msgs'[m].text = msgs[m].text /\ msgs'[m].deleted
        /\ \A x \in Msgs \ {m} : msgs'[x] = msgs[x]
    BY <1>1, <2>1 DEF TypeOK, Message
  <2>3. Board!Delete(m)
    BY <1>1, <1>2, <2>2 DEF Board!Delete, Sent
  <2>4. QED
    BY <1>1, <2>3, BoardSteps
<1>5. QED
  BY <1>3, <1>4

\* What is committed contains what was there: the times that were set stay set.
LEMMA MarkRefines ==
  ASSUME IInv, IInv', NEW w \in Workers, CommitMark(w)
  PROVE  Board!BoardNext \/ UNCHANGED Board!bvars
<1> DEFINE r == req[w]
           new == status[r.msg][r.user].set \cup ((r.status.set \cup Marks(r.op))
                                                    \ r.status.set)
<1>1. r.msg \in Msgs /\ r.user \in Users /\ Sent(r.msg) /\ TypeOK /\ TypeOK'
  <2>1. Knows(w) /\ TypeOK /\ TypeOK' /\ ~Composing(w) /\ r.op \in MarkOps
    BY DEF IInv, CommitMark, At, Composing, MarkOps
  <2>2. QED
    BY <2>1 DEF Knows, MarkOps
<1>2. UNCHANGED <<msgs, shown>>
  BY DEF CommitMark
<1>3. CASE status' = status
  BY <1>2, <1>3, StutterRefines
<1>4. CASE status' = [status EXCEPT ![r.msg][r.user] = [row |-> TRUE, set |-> new]]
  <2>1. status[r.msg][r.user].set \subseteq new
    OBVIOUS
  <2> HIDE DEF new
  <2>2. PICK m \in Msgs, u \in Users : m = r.msg /\ u = r.user
    BY <1>1
  <2>3. /\ status'[m][u].set = new
        /\ \A x \in Msgs, v \in Users : x # m \/ v # u => status'[x][v] = status[x][v]
    BY <1>1, <1>4, <2>2 DEF TypeOK
  <2>4. PICK a \in Times : a = new
    BY <1>1, <2>3 DEF TypeOK, Status
  <2>5. /\ \A x \in Msgs, v \in Users :
             status'[x][v].set = (IF x = m /\ v = u THEN a ELSE status[x][v].set)
        /\ status[m][u].set \subseteq a /\ Sent(m)
    BY <1>1, <2>1, <2>2, <2>3, <2>4
  <2>6. [x \in Msgs |-> [v \in Users |-> status'[x][v].set]]
          = [[x \in Msgs |-> [v \in Users |-> status[x][v].set]] EXCEPT ![m][u] = a]
    <3> DEFINE Row(x) == [v \in Users |-> status[x][v].set]
               New(x) == [v \in Users |-> status'[x][v].set]
    <3>1. New(m) = [Row(m) EXCEPT ![u] = a]
      BY <2>5
    <3>2. \A x \in Msgs \ {m} : New(x) = Row(x)
      BY <2>5
    <3> HIDE DEF Row, New
    <3>3. [x \in Msgs |-> New(x)] = [[x \in Msgs |-> Row(x)] EXCEPT ![m][u] = a]
      BY <3>1, <3>2
    <3>4. QED
      BY <3>3 DEF Row, New
  <2>7. Board!Acknowledge(m, u, a)
    BY <1>2, <2>5, <2>6 DEF Board!Acknowledge, Sent
  <2>8. QED
    BY <2>7, BoardSteps
<1>5. QED
  BY <1>3, <1>4 DEF CommitMark

\* An event changes what is shown of its message, and what is shown is true.
LEMMA ShowRefines ==
  ASSUME IInv, IInv', NEW w \in Workers,
         \/ PublishText(w) \/ PublishDelete(w) \/ PublishReaction(w) \/ PublishStatus(w)
  PROVE  Board!BoardNext
<1>1. PICK m \in Msgs : m = req[w].msg /\ TypeOK /\ TypeOK' /\ Truthful'
  BY DEF IInv, PublishText, PublishDelete, PublishReaction, PublishStatus, Knows, At
<1> DEFINE s == [text |-> shown'[m].text, deleted |-> shown'[m].deleted,
                 acks |-> shown'[m].acks]
<1>2. UNCHANGED <<msgs, status>>
  BY DEF PublishText, PublishDelete, PublishReaction, PublishStatus, Tables
<1>3. \A x \in Msgs \ {m} : shown'[x] = shown[x]
  BY <1>1 DEF TypeOK, PublishText, PublishDelete, PublishReaction, PublishStatus
<1>4. /\ shown'[m].text \in 0..msgs[m].text /\ shown'[m].deleted \in BOOLEAN
      /\ shown'[m].acks \in [Users -> Times]
      /\ shown'[m].deleted => msgs[m].deleted
      /\ \A u \in Users : shown'[m].acks[u] \subseteq status[m][u].set
  <2>1. shown'[m] \in Shown /\ msgs[m].text \in Nat
    BY <1>1, Ranges DEF TypeOK
  <2>2. QED
    BY <1>1, <1>2, <2>1 DEF Truthful, Shown
<1>5. s \in Board!Truth(m)
  BY <1>1, <1>4 DEF Board!Truth, Board!Acks, Times
<1>6. [x \in Msgs |-> [text |-> shown'[x].text, deleted |-> shown'[x].deleted,
                       acks |-> shown'[x].acks]]
        = [[x \in Msgs |-> [text |-> shown[x].text, deleted |-> shown[x].deleted,
                            acks |-> shown[x].acks]] EXCEPT ![m] = s]
  BY <1>1, <1>3
<1>7. Board!Show(m)
  BY <1>2, <1>5, <1>6 DEF Board!Show
<1>8. QED
  BY <1>1, <1>7, BoardSteps

\* Every step is one of the board's, or none.
LEMMA StepRefines ==
  ASSUME IInv, IInv', [Next]_vars
  PROVE  [Board!BoardNext]_(Board!bvars)
<1> SUFFICES Board!BoardNext \/ UNCHANGED Board!bvars
  OBVIOUS
<1>1. CASE UNCHANGED vars
  BY <1>1, StutterRefines DEF vars
<1>2. ASSUME NEW w \in Workers, Begin(w) \/ Cancel(w)
      PROVE  UNCHANGED Board!bvars
  <2>1. UNCHANGED <<msgs, status, shown>>
    BY <1>2 DEF Begin, Cancel, StoreObject, StartEdit, StartSend, StartDelete,
                StartReaction, StartMark, Tables
  <2>2. QED
    BY <2>1, StutterRefines
<1>3. ASSUME NEW w \in Workers, Continue(w)
      PROVE  Board!BoardNext \/ UNCHANGED Board!bvars
  <2>1. CASE \/ CommitUpload(w) \/ ReadFile(w) \/ Refresh(w) \/ CheckRights(w)
             \/ LookAtReaction(w) \/ CommitReaction(w) \/ CommitUnreaction(w)
             \/ LookAtStatus(w)
    <3>1. UNCHANGED <<msgs, status, shown>>
      BY <2>1 DEF CommitUpload, ReadFile, Refresh, CheckRights, LookAtReaction,
                  CommitReaction, CommitUnreaction, LookAtStatus, Tables
    <3>2. QED
      BY <3>1, StutterRefines
  <2>2. QED
    BY <1>3, <2>1, SendRefines, EditRefines, MarkRefines, ShowRefines DEF Continue
<1>4. QED
  BY <1>1, <1>2, <1>3 DEF Next

\* The handlers, however they interleave and wherever they are cut off, implement
\* the board.
THEOREM Refinement == Spec => ImplementsBoard
<1>1. IInv /\ IInv' /\ [Next]_vars => [Board!BoardNext]_(Board!bvars)
  BY StepRefines
<1>2. QED
  BY <1>1, InitRefines, Invariance, PTL DEF Spec, ImplementsBoard, Board!BoardSpec

\* No event that reached the clients has ever shown a text, a deletion or an
\* acknowledgement that was not in the tables: what they show may only be old.
THEOREM TruthfulHolds == Spec => []Truthful
<1>1. IInv => Truthful
  BY DEF IInv
<1>2. QED
  BY <1>1, Invariance, PTL

\* A step of the board, seen on the tables.
Advance ==
  \A m \in Msgs : /\ msgs[m].text <= msgs'[m].text
                  /\ msgs[m].deleted => msgs'[m].deleted
                  /\ \A u \in Users : status[m][u].set \subseteq status'[m][u].set

LEMMA AdvanceStep ==
  ASSUME IInv, IInv', [Next]_vars
  PROVE  Advance
<1> DEFINE text == [m \in Msgs |-> msgs[m].text]
           dead == {m \in Msgs : msgs[m].deleted}
           acks == [m \in Msgs |-> [u \in Users |-> status[m][u].set]]
<1>1. Board!BoardNext \/ UNCHANGED Board!bvars
  BY StepRefines
<1>2. text \in [Msgs -> Nat]
  BY Ranges DEF IInv
<1> DEFINE Goal == /\ \A m \in Msgs : text[m] <= text'[m]
                   /\ dead \subseteq dead'
                   /\ \A m \in Msgs, u \in Users : acks[m][u] \subseteq acks'[m][u]
<1>3. Goal
  <2>1. CASE UNCHANGED Board!bvars
    BY <1>2, <2>1 DEF Board!bvars
  <2>2. ASSUME NEW m \in Msgs, Board!Post(m) \/ Board!Edit(m) PROVE Goal
    <3>1. /\ text[m] \in Nat
          /\ \/ text' = [text EXCEPT ![m] = 1] /\ text[m] = 0
             \/ text' = [text EXCEPT ![m] = @ + 1]
          /\ dead' = dead /\ acks' = acks
      BY <1>2, <2>2 DEF Board!Post, Board!Edit
    <3>2. \A x \in Msgs : text[x] <= text'[x]
      <4> HIDE DEF text
      <4>1. \A x \in Msgs : text[x] \in Nat /\ text[x] <= text[x]
        BY <1>2
      <4>2. \A x \in Msgs \ {m} : text'[x] = text[x]
        BY <1>2, <3>1
      <4>3. text[m] <= text'[m]
        BY <1>2, <3>1
      <4> QED
        BY <4>1, <4>2, <4>3
    <3>3. QED
      BY <3>1, <3>2
  <2>3. ASSUME NEW m \in Msgs, Board!Delete(m) PROVE Goal
    BY <1>2, <2>3 DEF Board!Delete
  <2>4. ASSUME NEW m \in Msgs, Board!Show(m) PROVE Goal
    BY <1>2, <2>4 DEF Board!Show
  <2>5. ASSUME NEW m \in Msgs, NEW u \in Users, NEW a, Board!Acknowledge(m, u, a)
        PROVE  Goal
    <3>1. /\ text' = text /\ dead' = dead
          /\ acks[m][u] \subseteq a
          /\ acks' = [acks EXCEPT ![m][u] = a]
      BY <2>5 DEF Board!Acknowledge
    <3>2. \A x \in Msgs, v \in Users : acks[x][v] \subseteq acks'[x][v]
      <4> HIDE DEF acks
      <4>1. DOMAIN acks = Msgs /\ \A x \in Msgs : DOMAIN acks[x] = Users
        <5> USE DEF acks
        <5> QED
          OBVIOUS
      <4>2. \A x \in Msgs, v \in Users :
              acks'[x][v] = IF x = m /\ v = u THEN a ELSE acks[x][v]
        BY <3>1, <4>1
      <4>3. QED
        BY <3>1, <4>2
    <3>3. QED
      BY <1>2, <3>1, <3>2
  <2>6. QED
    BY <1>1, <2>1, <2>2, <2>3, <2>4, <2>5 DEF Board!BoardNext
<1>4. QED
  BY <1>3 DEF Advance

\* What is stored of a message only advances: a later text is not replaced by an
\* earlier one, a deletion is final, and no mark of a reader is taken back
\* (UpdateMessage, DeleteMessage, MarkAsDelivered, MarkAsRead), although every handler
\* writes from what it read some awaits before.
THEOREM OnlyAdvances == Spec => [][Advance]_vars
<1>1. IInv /\ IInv' /\ [Next]_vars => Advance
  BY AdvanceStep
<1>2. QED
  BY <1>1, Invariance, PTL DEF Spec
=============================================================================
