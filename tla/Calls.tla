------------------------------- MODULE Calls --------------------------------
(***************************************************************************)
(* Voice and video calls of one chat (services/call.py).  Every handler    *)
(* reads the call and what its guards need, awaits, and writes later from  *)
(* what it read; there is no row lock and no version column, so a write    *)
(* may land on a call that has changed meanwhile.  The few SELECTs that a  *)
(* handler starts with are one step.                                       *)
(*                                                                         *)
(* A call id also names the LiveKit room created for it.  An event is      *)
(* published once for every active member, and not at all when there is    *)
(* none; each copy reaches all members, so it counts as shown to those the *)
(* handler found.  The fan-out itself belongs to the WebSocket service.    *)
(***************************************************************************)
EXTENDS Integers, FiniteSets

CONSTANTS Users, CallIds, Workers,
          NoUser, NoCall,
          Cancellable    \* may grpc.aio cancel a handler at an await?

ASSUME NoUserAssumption == NoUser \notin Users
ASSUME NoCallAssumption == NoCall \notin CallIds
ASSUME CancellableAssumption == Cancellable \in BOOLEAN

VARIABLES
  calls,       \* [CallIds -> Row]       rows of calls and call_participants
  rooms,       \* SUBSET CallIds         LiveKit rooms that exist
  used,        \* SUBSET CallIds         room names already drawn (uuid4)
  shown,       \* [CallIds -> [Users -> Events]] last event of a call shown to a user
  member,      \* SUBSET Users           active members of the chat
  everMember,  \* SUBSET Users           history: users that were members
  req          \* [Workers -> Request]   handlers in flight

vars == <<calls, rooms, used, shown, member, everMember, req>>

Open == {"pending", "active"}
Closed == {"declined", "missed", "completed"}
Statuses == {"none"} \cup Open \cup Closed
Events == {"none", "incoming", "updated", "declined", "ended"}
Pcs == {"idle", "room", "insert", "join", "activate", "decline", "end",
        "token", "notify", "delete"}

Row == [status: Statuses, initiator: Users \cup {NoUser}, ended: BOOLEAN,
        participants: SUBSET Users]
NoRow == [status |-> "none", initiator |-> NoUser, ended |-> FALSE,
          participants |-> {}]

Request == [pc: Pcs, user: Users \cup {NoUser}, call: CallIds \cup {NoCall},
            seen: Statuses,     \* the status the handler read
            event: Events]      \* the event it is about to publish
Idle == [pc |-> "idle", user |-> NoUser, call |-> NoCall, seen |-> "none",
         event |-> "none"]

TypeOK == /\ calls \in [CallIds -> Row]
          /\ rooms \in SUBSET CallIds
          /\ used \in SUBSET CallIds
          /\ shown \in [CallIds -> [Users -> Events]]
          /\ member \in SUBSET Users
          /\ everMember \in SUBSET Users
          /\ req \in [Workers -> Request]

Init == /\ calls = [c \in CallIds |-> NoRow]
        /\ rooms = {}
        /\ used = {}
        /\ shown = [c \in CallIds |-> [u \in Users |-> "none"]]
        /\ member \in SUBSET Users
        /\ everMember = member
        /\ req = [w \in Workers |-> Idle]

At(w, pc) == req[w].pc = pc
Status(c) == calls[c].status
OpenCalls == {c \in CallIds : Status(c) \in Open}

Done(w) == req' = [req EXCEPT ![w] = Idle]
Goto(w, pc) == req' = [req EXCEPT ![w].pc = pc]
\* A handler that has read the call and passed its checks.
Start(w, pc, u, c, event) ==
  /\ At(w, "idle")
  /\ req' = [req EXCEPT ![w] = [pc |-> pc, user |-> u, call |-> c,
                                seen |-> Status(c), event |-> event]]
  /\ UNCHANGED <<calls, rooms, shown, member, everMember>>
\* A handler that goes on to its next await after writing the call row.
Wrote(w, pc) ==
  /\ Goto(w, pc)
  /\ UNCHANGED <<rooms, used, shown, member, everMember>>

(***************************************************************************)
(* StartCall                                                               *)
(***************************************************************************)
\* Mutant: the chat is not searched for an open call.
StartCallAgain(w, u, c) ==
  /\ u \in member
  /\ c \notin used
  /\ used' = used \cup {c}
  /\ Start(w, "room", u, c, "incoming")

StartCall(w, u, c) ==
  /\ u \in member
  /\ OpenCalls = {}
  /\ c \notin used
  /\ used' = used \cup {c}
  /\ Start(w, "room", u, c, "incoming")

\* Mutant: an error of LiveKit is logged and the call goes on.
CreateRoomOrNot(w) ==
  /\ At(w, "room")
  /\ rooms' \in {rooms \cup {req[w].call}, rooms}
  /\ Goto(w, "insert")
  /\ UNCHANGED <<calls, used, shown, member, everMember>>

CreateRoom(w) ==     \* awaits LiveKit; an error aborts the call
  /\ At(w, "room")
  /\ \/ rooms' = rooms \cup {req[w].call} /\ Goto(w, "insert")
     \/ rooms' = rooms /\ Done(w)
  /\ UNCHANGED <<calls, used, shown, member, everMember>>

InsertCall(w) ==
  /\ At(w, "insert")
  /\ calls' = [calls EXCEPT ![req[w].call] =
                 [status |-> "pending", initiator |-> req[w].user,
                  ended |-> FALSE, participants |-> {req[w].user}]]
  /\ Wrote(w, "notify")

(***************************************************************************)
(* AcceptCall: the participant is committed first, the status afterwards.  *)
(***************************************************************************)
\* Mutant: membership is not checked.
AcceptCallByAnyone(w, u, c) ==
  /\ Status(c) = "pending"
  /\ Start(w, IF u \in calls[c].participants THEN "activate" ELSE "join",
           u, c, "updated")
  /\ UNCHANGED used

AcceptCall(w, u, c) ==
  /\ Status(c) = "pending"
  /\ u \in member
  /\ Start(w, IF u \in calls[c].participants THEN "activate" ELSE "join",
           u, c, "updated")
  /\ UNCHANGED used

\* Inserting a row that another device of u inserted meanwhile is an
\* IntegrityError, rolled back: the set of participants is the same.
JoinCall(w) ==
  /\ At(w, "join")
  /\ calls' = [calls EXCEPT ![req[w].call].participants = @ \cup {req[w].user}]
  /\ Wrote(w, "activate")

ActivateCall(w) ==
  /\ At(w, "activate")
  /\ calls' = [calls EXCEPT ![req[w].call].status = "active"]
  /\ Wrote(w, "notify")

(***************************************************************************)
(* RejectCall by anyone but the initiator; EndCall by anyone.              *)
(***************************************************************************)
RejectCall(w, u, c) ==
  /\ Status(c) = "pending"
  /\ calls[c].initiator # u
  /\ Start(w, "decline", u, c, "declined")
  /\ UNCHANGED used

DeclineCall(w) ==
  /\ At(w, "decline")
  /\ calls' = [calls EXCEPT ![req[w].call].status = "declined",
                            ![req[w].call].ended = TRUE]
  /\ Wrote(w, "notify")

\* Mutant: a call may be ended again.
EndCallAgain(w, u, c) ==
  /\ Status(c) # "none"
  /\ Start(w, "end", u, c, "ended")
  /\ UNCHANGED used

EndCall(w, u, c) ==
  /\ Status(c) \in Open
  /\ Start(w, "end", u, c, "ended")
  /\ UNCHANGED used

\* Mutants: the event's name stored as the status; ended_at left empty.
FinishCallAsEvent(w) ==
  /\ At(w, "end")
  /\ calls' = [calls EXCEPT ![req[w].call].status = req[w].event,
                            ![req[w].call].ended = TRUE]
  /\ Wrote(w, "notify")
FinishCallUndated(w) ==
  /\ At(w, "end")
  /\ calls' = [calls EXCEPT
       ![req[w].call].status = IF req[w].seen = "active" THEN "completed"
                                                         ELSE "missed"]
  /\ Wrote(w, "notify")

FinishCall(w) ==
  /\ At(w, "end")
  /\ calls' = [calls EXCEPT
       ![req[w].call].status = IF req[w].seen = "active" THEN "completed"
                                                         ELSE "missed",
       ![req[w].call].ended = TRUE]
  /\ Wrote(w, "notify")

(***************************************************************************)
(* GetLiveKitToken registers the caller, whatever the status of the call.  *)
(***************************************************************************)
GetLiveKitToken(w, u, c) ==
  /\ Status(c) # "none"
  /\ u \in member
  /\ u \notin calls[c].participants
  /\ Start(w, "token", u, c, "none")
  /\ UNCHANGED used

RegisterParticipant(w) ==
  /\ At(w, "token")
  /\ calls' = [calls EXCEPT ![req[w].call].participants = @ \cup {req[w].user}]
  /\ Done(w)
  /\ UNCHANGED <<rooms, used, shown, member, everMember>>

(***************************************************************************)
(* _notify_call_update, then, after EndCall only, _delete_room.            *)
(***************************************************************************)
\* RejectCall's payload has no chat_id, and the WebSocket service drops an
\* event that names no chat.
NamesChat(event) == event # "declined"

\* Mutant: only the users that take part in the call are told.
NotifyParticipants(w) ==
  LET r == req[w] IN
  /\ At(w, "notify")
  /\ shown' = [shown EXCEPT ![r.call] =
                 [u \in Users |-> IF u \in calls[r.call].participants
                                   /\ NamesChat(r.event)
                                 THEN r.event ELSE shown[r.call][u]]]
  /\ IF r.event = "ended" THEN Goto(w, "delete") ELSE Done(w)
  /\ UNCHANGED <<calls, rooms, used, member, everMember>>

Notify(w) ==
  LET r == req[w] IN
  /\ At(w, "notify")
  /\ shown' = [shown EXCEPT ![r.call] =
                 [u \in Users |-> IF u \in member /\ NamesChat(r.event)
                                 THEN r.event ELSE shown[r.call][u]]]
  /\ IF r.event = "ended" THEN Goto(w, "delete") ELSE Done(w)
  /\ UNCHANGED <<calls, rooms, used, member, everMember>>

DeleteRoom(w) ==     \* a failure is printed, or ends the handler
  /\ At(w, "delete")
  /\ rooms' \in {rooms \ {req[w].call}, rooms}
  /\ Done(w)
  /\ UNCHANGED <<calls, used, shown, member, everMember>>

\* The checks of a handler fail: it returns or aborts before any write.
RefuseCall(u, c) ==
  /\ Status(c) \in Closed \/ u \notin member
  /\ UNCHANGED vars

(***************************************************************************)
(* The environment: users join and leave the chat; callers hang up.        *)
(***************************************************************************)
JoinChat(u) ==
  /\ member' = member \cup {u}
  /\ everMember' = everMember \cup {u}
  /\ UNCHANGED <<calls, rooms, used, shown, req>>

LeaveChat(u) ==
  /\ member' = member \ {u}
  /\ UNCHANGED <<calls, rooms, used, shown, everMember, req>>

Cancel(w) ==
  /\ Cancellable
  /\ ~At(w, "idle")
  /\ Done(w)
  /\ UNCHANGED <<calls, rooms, used, shown, member, everMember>>

Begin(w) == \E u \in Users, c \in CallIds :
              \/ StartCall(w, u, c) \/ AcceptCall(w, u, c)
              \/ RejectCall(w, u, c) \/ EndCall(w, u, c)
              \/ GetLiveKitToken(w, u, c)

Continue(w) == \/ CreateRoom(w) \/ InsertCall(w) \/ JoinCall(w)
               \/ ActivateCall(w) \/ DeclineCall(w) \/ FinishCall(w)
               \/ RegisterParticipant(w) \/ Notify(w) \/ DeleteRoom(w)

Environment == \/ \E w \in Workers : Cancel(w)
               \/ \E u \in Users : JoinChat(u) \/ LeaveChat(u)
               \/ \E u \in Users, c \in CallIds : RefuseCall(u, c)

Next == (\E w \in Workers : Begin(w) \/ Continue(w)) \/ Environment

Spec == Init /\ [][Next]_vars

-----------------------------------------------------------------------------
(***************************************************************************)
(* Safety, for any number of handlers in flight                            *)
(***************************************************************************)
Writing(w, c) == /\ req[w].call = c
                 /\ req[w].pc \in {"insert", "join", "activate", "decline", "end"}

\* A call is settled when it is closed and no handler that read it earlier is
\* still to write its status.
Settled(c) == Status(c) \in Closed /\ \A w \in Workers : ~Writing(w, c)

\* A settled call keeps its outcome for ever: late answers, rejections, ends
\* and token requests are refused or do not touch it.
SettledForGood ==
  [][\A c \in CallIds : Settled(c) => Settled(c)' /\ Status(c)' = Status(c)]_vars

\* Nobody takes part in a call of a chat he was never a member of, although
\* membership is checked some steps before the participant is stored and may
\* have ended by then.
ParticipantsWereMembers ==
  \A c \in CallIds : calls[c].participants \subseteq everMember

\* A LiveKit room is taken down only when the call's end is on record, so
\* nobody is cut off from a call that no EndCall has closed.
RoomOutlivesCall ==
  [][\A c \in CallIds : c \in rooms /\ c \notin rooms' => calls[c].ended]_vars

(***************************************************************************)
(* A statement of the code's messages that it does not keep                *)
(***************************************************************************)
\* "Call already accepted or ended" (call.py:184): a call that has ended is
\* not accepted.
EndedNotAccepted ==
  [][\A c \in CallIds : Status(c) \in Closed => Status(c)' # "active"]_vars
=============================================================================
