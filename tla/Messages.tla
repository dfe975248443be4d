------------------------------ MODULE Messages ------------------------------
(***************************************************************************)
(* The messages of one chat: services/message.py and the upload of         *)
(* services/attachment.py.  A handler reads, decides, commits and then     *)
(* publishes an event; each await between these is a step, and the other   *)
(* handlers run in between.  PostgreSQL runs the transactions READ         *)
(* COMMITTED, and SQLAlchemy's UPDATE writes only the columns the handler  *)
(* changed; a second row for a key is an IntegrityError, which ends the    *)
(* handler without an event.                                               *)
(*                                                                         *)
(* A text is the number of commits that wrote it.  A message carries at    *)
(* most one file and there is one kind of reaction.  Who is a member is    *)
(* the business of chat.py (module ChatMembers) and may change between any *)
(* two reads: a read of it answers anything.  Where a handler reads twice  *)
(* in a row and the second read could only end it sooner, the two are one  *)
(* step.  A request that is refused changes nothing and is left out.       *)
(***************************************************************************)
EXTENDS Naturals

CONSTANTS Users, Msgs, Files, Workers,
          NoUser, NoMsg, NoFile,
          MaxText         \* bound: texts of a message

ASSUME NoValueAssumption ==
  /\ NoUser \notin Users /\ NoMsg \notin Msgs /\ NoFile \notin Files
  /\ "absent" \notin Msgs \cup {NoMsg}
  /\ MaxText \in Nat \ {0}

VARIABLES
  msgs,      \* [Msgs -> Message]              messages
  status,    \* [Msgs -> [Users -> Status]]    message_statuses
  reactions, \* SUBSET (Msgs \X Users)         reactions
  objects,   \* SUBSET Files                   objects in MinIO
  holder,    \* [Files -> Holder]              attachments.message_id
  copies,    \* SUBSET (Files \X Msgs)         attachments copied to a message
  shown,     \* [Msgs -> Shown]                what clients show that applied
             \*                                the events as they came
  crossed,   \* SUBSET Items                   items two handlers worked on at
             \*                                once, or whose handler was cut off
  req        \* [Workers -> Request]           the handlers in flight

vars == <<msgs, status, reactions, objects, holder, copies, shown,
          crossed, req>>

Message == [by: Users \cup {NoUser}, text: 0..MaxText, deleted: BOOLEAN]
NoMessage == [by |-> NoUser, text |-> 0, deleted |-> FALSE]
Sent(m) == msgs[m].text > 0

\* A status row and those of its two times that are set; what is read has been
\* delivered.
Times == {{}, {"delivered"}, {"delivered", "read"}}
Status == [row: BOOLEAN, set: Times]
NoStatus == [row |-> FALSE, set |-> {}]

Holder == Msgs \cup {NoMsg, "absent"}

Shown == [text: 0..MaxText, deleted: BOOLEAN, acks: [Users -> Times],
          reacted: SUBSET Users]
Blank == [text |-> 0, deleted |-> FALSE, acks |-> [u \in Users |-> {}],
          reacted |-> {}]

\* What an event is about: one field of what clients show.
Item(field, m, u) == [field |-> field, msg |-> m, user |-> u]
Items == {Item(f, m, NoUser) : f \in {"text", "deleted"}, m \in Msgs} \cup
         {Item(f, m, u) : f \in {"ack", "reaction"}, m \in Msgs, u \in Users}

Request ==
  [pc: {"idle", "file", "rights", "look", "commit", "refresh", "publish"},
   op: {"none", "upload", "send", "edit", "delete", "react", "unreact",
        "deliver", "read"},
   user: Users \cup {NoUser}, msg: Msgs \cup {NoMsg}, file: Files \cup {NoFile},
   held: Holder, status: Status, text: 0..MaxText]
Idle == [pc |-> "idle", op |-> "none", user |-> NoUser, msg |-> NoMsg,
         file |-> NoFile, held |-> "absent", status |-> NoStatus, text |-> 0]

\* Every variable has its type, in particular a status row that says when the
\* message was read says when it was delivered, although the two times may be
\* written by two handlers, each of which left out what it had found set.
TypeOK == /\ msgs \in [Msgs -> Message]
          /\ status \in [Msgs -> [Users -> Status]]
          /\ reactions \in SUBSET (Msgs \X Users)
          /\ objects \in SUBSET Files
          /\ holder \in [Files -> Holder]
          /\ copies \in SUBSET (Files \X Msgs)
          /\ shown \in [Msgs -> Shown]
          /\ crossed \in SUBSET Items
          /\ req \in [Workers -> Request]

Init == /\ msgs = [m \in Msgs |-> NoMessage]
        /\ status = [m \in Msgs |-> [u \in Users |-> NoStatus]]
        /\ reactions = {}
        /\ objects = {}
        /\ holder = [f \in Files |-> "absent"]
        /\ copies = {}
        /\ shown = [m \in Msgs |-> Blank]
        /\ crossed = {}
        /\ req = [w \in Workers |-> Idle]

(***************************************************************************)
(* Handlers in flight                                                      *)
(***************************************************************************)
At(w, op, pc) == req[w].op = op /\ req[w].pc = pc
Goto(w, pc) == req' = [req EXCEPT ![w].pc = pc]
Return(w) == req' = [req EXCEPT ![w] = Idle]

ItemOf(r) ==
  CASE r.op \in {"send", "edit"} -> Item("text", r.msg, NoUser)
    [] r.op = "delete" -> Item("deleted", r.msg, NoUser)
    [] r.op \in {"react", "unreact"} -> Item("reaction", r.msg, r.user)
    [] r.op \in {"deliver", "read"} -> Item("ack", r.msg, r.user)
WorksOn(w, i) == req[w].op \notin {"none", "upload"} /\ ItemOf(req[w]) = i

\* A free handler takes up request r.
Start(w, r) ==
  /\ req[w] = Idle
  /\ req' = [req EXCEPT ![w] = r]
  /\ crossed' = crossed \cup {i \in {ItemOf(r)} : \E v \in Workers : WorksOn(v, i)}

Tables == <<msgs, status, reactions, objects, holder, copies>>
Visible(m) == Sent(m) /\ ~msgs[m].deleted         \* _get_message

(***************************************************************************)
(* UploadAttachment: put_object, then the row                              *)
(***************************************************************************)
\* Mutant: an error of put_object is swallowed.
StoreNothing(w, u, f) ==
  /\ req[w] = Idle
  /\ f \notin objects
  /\ holder[f] = "absent"
  /\ req' = [req EXCEPT ![w] = [Idle EXCEPT !.op = "upload", !.pc = "commit",
                                            !.user = u, !.file = f]]
  /\ UNCHANGED <<Tables, shown, crossed>>

StoreObject(w, u, f) ==
  /\ req[w] = Idle
  /\ f \notin objects
  /\ objects' = objects \cup {f}
  /\ req' = [req EXCEPT ![w] = [Idle EXCEPT !.op = "upload", !.pc = "commit",
                                            !.user = u, !.file = f]]
  /\ UNCHANGED <<msgs, status, reactions, holder, copies, shown, crossed>>

CommitUpload(w) ==
  /\ At(w, "upload", "commit")
  /\ holder' = [holder EXCEPT ![req[w].file] = NoMsg]
  /\ Return(w)
  /\ UNCHANGED <<msgs, status, reactions, objects, copies, shown, crossed>>

(***************************************************************************)
(* SendMessage                                                             *)
(***************************************************************************)
NewMessage(m) == ~Sent(m) /\ \A w \in Workers : req[w].msg # m

StartSend(w, u, m, f) ==
  /\ NewMessage(m)
  /\ Start(w, [Idle EXCEPT !.op = "send", !.user = u, !.msg = m, !.file = f,
                           !.pc = IF f = NoFile THEN "commit" ELSE "file"])
  /\ UNCHANGED <<Tables, shown>>

\* An attachment without a row is skipped.
ReadFile(w) ==
  /\ At(w, "send", "file")
  /\ req' = [req EXCEPT ![w].pc = "commit", ![w].held = holder[req[w].file]]
  /\ UNCHANGED <<Tables, shown, crossed>>

\* Mutant: a file that another message has is bound to this one.
RebindFile(w, readers) ==
  LET r == req[w] IN
  /\ At(w, "send", "commit")
  /\ r.user \notin readers
  /\ msgs' = [msgs EXCEPT ![r.msg] = [by |-> r.user, text |-> 1, deleted |-> FALSE]]
  /\ status' = [status EXCEPT ![r.msg] =
                  [v \in Users |-> [row |-> v \in readers, set |-> {}]]]
  /\ holder' = IF r.held # "absent" THEN [holder EXCEPT ![r.file] = r.msg] ELSE holder
  /\ Goto(w, "refresh")
  /\ UNCHANGED <<reactions, objects, copies, shown, crossed>>

\* One transaction: the message, a status row for each reader, and the file, that
\* of the request if it was free when it was read and a copy otherwise.
CommitSend(w, readers) ==
  LET r == req[w] IN
  /\ At(w, "send", "commit")
  /\ r.user \notin readers
  /\ msgs' = [msgs EXCEPT ![r.msg] = [by |-> r.user, text |-> 1, deleted |-> FALSE]]
  /\ status' = [status EXCEPT ![r.msg] =
                  [v \in Users |-> [row |-> v \in readers, set |-> {}]]]
  /\ holder' = IF r.held = NoMsg THEN [holder EXCEPT ![r.file] = r.msg] ELSE holder
  /\ copies' = IF r.held \in Msgs THEN copies \cup {<<r.file, r.msg>>} ELSE copies
  /\ Goto(w, "refresh")
  /\ UNCHANGED <<reactions, objects, shown, crossed>>

(***************************************************************************)
(* UpdateMessage.  Its sender need not be a member any more.               *)
(***************************************************************************)
StartEdit(w, m) ==
  /\ Visible(m)
  /\ msgs[m].text < MaxText
  /\ Start(w, [Idle EXCEPT !.op = "edit", !.pc = "commit", !.user = msgs[m].by,
                           !.msg = m])
  /\ UNCHANGED <<Tables, shown>>

CommitEdit(w) ==
  /\ At(w, "edit", "commit")
  /\ msgs[req[w].msg].text < MaxText
  /\ msgs' = [msgs EXCEPT ![req[w].msg].text = @ + 1]
  /\ Goto(w, "refresh")
  /\ UNCHANGED <<status, reactions, objects, holder, copies, shown, crossed>>

\* session.refresh: the text is read again before it is published.
Refresh(w) ==
  /\ req[w].pc = "refresh"
  /\ req' = [req EXCEPT ![w].pc = "publish", ![w].text = msgs[req[w].msg].text]
  /\ UNCHANGED <<Tables, shown, crossed>>

PublishText(w) ==         \* message.new, message.update
  /\ req[w].op \in {"send", "edit"} /\ req[w].pc = "publish"
  /\ shown' = [shown EXCEPT ![req[w].msg].text = req[w].text]
  /\ Return(w)
  /\ UNCHANGED <<Tables, crossed>>

(***************************************************************************)
(* DeleteMessage, by the sender or by an admin                             *)
(***************************************************************************)
StartDelete(w, u, m) ==
  /\ Visible(m)
  /\ Start(w, [Idle EXCEPT !.op = "delete", !.user = u, !.msg = m,
                           !.pc = IF msgs[m].by = u THEN "commit" ELSE "rights"])
  /\ UNCHANGED <<Tables, shown>>

CheckRights(w) ==
  /\ At(w, "delete", "rights")
  /\ Goto(w, "commit") \/ Return(w)
  /\ UNCHANGED <<Tables, shown, crossed>>

CommitDelete(w) ==
  /\ At(w, "delete", "commit")
  /\ msgs' = [msgs EXCEPT ![req[w].msg].deleted = TRUE]
  /\ Goto(w, "publish")
  /\ UNCHANGED <<status, reactions, objects, holder, copies, shown, crossed>>

PublishDelete(w) ==
  /\ At(w, "delete", "publish")
  /\ shown' = [shown EXCEPT ![req[w].msg].deleted = TRUE]
  /\ Return(w)
  /\ UNCHANGED <<Tables, crossed>>

(***************************************************************************)
(* AddReaction, RemoveReaction                                             *)
(***************************************************************************)
Reacted(w) == <<req[w].msg, req[w].user>> \in reactions

StartReaction(w, op, u, m) ==
  /\ Sent(m)
  /\ Start(w, [Idle EXCEPT !.op = op, !.pc = "look", !.user = u, !.msg = m])
  /\ UNCHANGED <<Tables, shown>>

\* Mutant: a reaction to a deleted message is let through.
LookPastDeletion(w) ==
  /\ req[w].op \in {"react", "unreact"} /\ req[w].pc = "look"
  /\ IF (req[w].op = "unreact") = Reacted(w) THEN Goto(w, "commit") ELSE Return(w)
  /\ UNCHANGED <<Tables, shown, crossed>>

LookAtReaction(w) ==
  /\ req[w].op \in {"react", "unreact"} /\ req[w].pc = "look"
  /\ IF \/ req[w].op = "react" /\ Visible(req[w].msg) /\ ~Reacted(w)
        \/ req[w].op = "unreact" /\ Reacted(w)
     THEN Goto(w, "commit") ELSE Return(w)
  /\ UNCHANGED <<Tables, shown, crossed>>

CommitReaction(w) ==
  /\ At(w, "react", "commit")
  /\ IF Reacted(w) THEN Return(w) ELSE Goto(w, "publish")
  /\ reactions' = reactions \cup {<<req[w].msg, req[w].user>>}
  /\ UNCHANGED <<msgs, status, objects, holder, copies, shown, crossed>>

\* Mutant: a removed reaction is not announced.
UnreactSilently(w) ==
  /\ At(w, "unreact", "commit")
  /\ reactions' = reactions \ {<<req[w].msg, req[w].user>>}
  /\ Return(w)
  /\ UNCHANGED <<msgs, status, objects, holder, copies, shown, crossed>>

\* A DELETE that finds no row is only a warning.
CommitUnreaction(w) ==
  /\ At(w, "unreact", "commit")
  /\ reactions' = reactions \ {<<req[w].msg, req[w].user>>}
  /\ Goto(w, "publish")
  /\ UNCHANGED <<msgs, status, objects, holder, copies, shown, crossed>>

PublishReaction(w) ==
  /\ req[w].op \in {"react", "unreact"} /\ req[w].pc = "publish"
  /\ shown' = [shown EXCEPT ![req[w].msg].reacted =
                 IF req[w].op = "react" THEN @ \cup {req[w].user}
                                        ELSE @ \ {req[w].user}]
  /\ Return(w)
  /\ UNCHANGED <<Tables, crossed>>

(***************************************************************************)
(* MarkAsDelivered, MarkAsRead                                             *)
(***************************************************************************)
StartMark(w, op, u, m) ==
  /\ Sent(m)
  /\ Start(w, [Idle EXCEPT !.op = op, !.pc = "look", !.user = u, !.msg = m])
  /\ UNCHANGED <<Tables, shown>>

LookAtStatus(w) ==
  /\ req[w].op \in {"deliver", "read"} /\ req[w].pc = "look"
  /\ req' = [req EXCEPT ![w].pc = "commit",
                        ![w].status = status[req[w].msg][req[w].user]]
  /\ UNCHANGED <<Tables, shown, crossed>>

\* Mutant: MarkAsRead leaves delivered_at alone.
MarksOne(op) == IF op = "read" THEN {"read"} ELSE {"delivered"}

Marks(op) == IF op = "read" THEN {"delivered", "read"} ELSE {"delivered"}

\* Mutant: the UPDATE writes the row as the handler has it.
WriteWholeRow(w) ==
  LET r   == req[w]
      now == status[r.msg][r.user]
      own == r.status.set \cup Marks(r.op)
  IN
  /\ req[w].op \in {"deliver", "read"} /\ req[w].pc = "commit"
  /\ IF now.row = r.status.row
     THEN /\ status' = [status EXCEPT ![r.msg][r.user] = [row |-> TRUE, set |-> own]]
          /\ req' = [req EXCEPT ![w].pc = "publish",
                                ![w].status = [row |-> TRUE, set |-> own]]
     ELSE /\ Return(w)
          /\ UNCHANGED status
  /\ UNCHANGED <<msgs, reactions, objects, holder, copies, shown, crossed>>

\* An INSERT if no row was found, an UPDATE of the times that were not set if one
\* was.  The handler keeps its own copy of the row, which is what it publishes.
CommitMark(w) ==
  LET r   == req[w]
      now == status[r.msg][r.user]
      own == r.status.set \cup Marks(r.op)
  IN
  /\ req[w].op \in {"deliver", "read"} /\ req[w].pc = "commit"
  /\ IF now.row = r.status.row
     THEN /\ status' = [status EXCEPT ![r.msg][r.user] =
                          [row |-> TRUE, set |-> now.set \cup (own \ r.status.set)]]
          /\ req' = [req EXCEPT ![w].pc = "publish",
                                ![w].status = [row |-> TRUE, set |-> own]]
     ELSE /\ Return(w)
          /\ UNCHANGED status
  /\ UNCHANGED <<msgs, reactions, objects, holder, copies, shown, crossed>>

PublishStatus(w) ==
  /\ req[w].op \in {"deliver", "read"} /\ req[w].pc = "publish"
  /\ shown' = [shown EXCEPT ![req[w].msg].acks[req[w].user] = req[w].status.set]
  /\ Return(w)
  /\ UNCHANGED <<Tables, crossed>>

(***************************************************************************)
(* Around the handlers                                                     *)
(***************************************************************************)
\* A handler is cancelled when its caller is gone.  What it has committed stays,
\* what it has not published is not.
Cancel(w) ==
  /\ req[w] # Idle
  /\ crossed' = IF req[w].op # "upload" /\ req[w].pc \in {"refresh", "publish"}
                THEN crossed \cup {ItemOf(req[w])} ELSE crossed
  /\ Return(w)
  /\ UNCHANGED <<Tables, shown>>

Begin(w) ==
  \/ \E u \in Users, f \in Files : StoreObject(w, u, f)
  \/ \E m \in Msgs : StartEdit(w, m)
  \/ \E u \in Users, m \in Msgs :
       \/ \E f \in Files \cup {NoFile} : StartSend(w, u, m, f)
       \/ StartDelete(w, u, m)
       \/ \E op \in {"react", "unreact"} : StartReaction(w, op, u, m)
       \/ \E op \in {"deliver", "read"} : StartMark(w, op, u, m)

Continue(w) ==
  \/ CommitUpload(w)
  \/ ReadFile(w) \/ \E readers \in SUBSET Users : CommitSend(w, readers)
  \/ CommitEdit(w) \/ Refresh(w) \/ PublishText(w)
  \/ CheckRights(w) \/ CommitDelete(w) \/ PublishDelete(w)
  \/ LookAtReaction(w) \/ CommitReaction(w) \/ CommitUnreaction(w)
  \/ PublishReaction(w)
  \/ LookAtStatus(w) \/ CommitMark(w) \/ PublishStatus(w)

Next == \E w \in Workers : Begin(w) \/ Continue(w) \/ Cancel(w)

Spec == Init /\ [][Next]_vars

-----------------------------------------------------------------------------
(***************************************************************************)
(* Refinement and safety                                                   *)
(***************************************************************************)
\* The handlers, however they interleave and wherever they are cut off, implement
\* the board: texts and acknowledgements only advance, a deletion is final, and no
\* event shows what was not stored (message.update, message.delete,
\* status.update).
Board == INSTANCE MessageBoard WITH
  text    <- [m \in Msgs |-> msgs[m].text],
  deleted <- {m \in Msgs : msgs[m].deleted},
  acks    <- [m \in Msgs |-> [u \in Users |-> status[m][u].set]],
  shown   <- [m \in Msgs |-> [text    |-> shown[m].text,
                              deleted |-> shown[m].deleted,
                              acks    |-> shown[m].acks]]
ImplementsBoard == Board!BoardSpec

\* Once the handlers of an item have returned, clients show what is stored,
\* unless two of them were in flight at once or one was cut off.
Stored(i) ==
  CASE i.field = "text"     -> shown[i.msg].text = msgs[i.msg].text
    [] i.field = "deleted"  -> shown[i.msg].deleted = msgs[i.msg].deleted
    [] i.field = "ack"      -> shown[i.msg].acks[i.user] = status[i.msg][i.user].set
    [] i.field = "reaction" -> (i.user \in shown[i.msg].reacted)
                                 = (<<i.msg, i.user>> \in reactions)
ClientsConverge ==
  \A i \in Items : i \in crossed \/ (\E w \in Workers : WorksOn(w, i)) \/ Stored(i)

\* A deleted message comes to rest: no handler gets as far as changing its text or
\* adding a reaction any more, and only those that had got there before the
\* deletion was committed still do (UpdateMessage, AddReaction).
MayChange(m, w) == req[w].msg = m /\ req[w].op \in {"edit", "react"}
                   /\ req[w].pc = "commit"
Changers(m) == {w \in Workers : MayChange(m, w)}
ReactedTo(m) == {u \in Users : <<m, u>> \in reactions}
DeletedIsQuiet ==
  [][\A m \in Msgs : msgs[m].deleted =>
       /\ Changers(m)' \subseteq Changers(m)
       /\ Changers(m) = {} => /\ msgs'[m] = msgs[m]
                              /\ ReactedTo(m)' \subseteq ReactedTo(m)]_vars

\* A file stays with the message it was sent with once no handler is left that
\* read it while it was free: sending it again makes a copy (SendMessage).
MayTake(f, w) == req[w].op = "send" /\ req[w].file = f /\ req[w].held = NoMsg
FilesStay ==
  [][\A f \in Files : holder[f] \in Msgs /\ (\A w \in Workers : ~MayTake(f, w)) =>
       holder'[f] = holder[f]]_vars

\* An attachment that can be sent names an object that is in the store
\* (UploadAttachment stores it before it writes the row).
FilesAreStored == \A f \in Files : holder[f] # "absent" => f \in objects
=============================================================================
