----------------------------- MODULE CallsProofs -----------------------------
(***************************************************************************)
(* Proofs about Calls for every set of users, calls and handlers in        *)
(* flight, cancelled or not.                                               *)
(***************************************************************************)
EXTENDS CallsOverlap, TLAPS

\* What handler w may rely on at each of its waiting points.
Knows(w) ==
  LET r == req[w] IN
  /\ r.pc # "idle" => r.user \in Users /\ r.call \in CallIds /\ r.call \in used
  /\ r.pc \in Making => Status(r.call) = "none"
  /\ r.pc \notin Making \cup {"idle"} => Status(r.call) # "none"
  /\ r.pc \in Making \cup {"join", "token"} => r.user \in everMember
  /\ r.pc \in Making \cup {"join", "activate", "decline"} => r.event # "ended"
  /\ r.pc = "delete" \/ (r.pc = "notify" /\ r.event = "ended")
       => calls[r.call].ended

\* A call is made by one handler, from an id drawn for it.
OneMaker == \A w, v \in Workers :
              /\ req[w].pc \in Making /\ req[v].pc \in Making
              /\ req[w].call = req[v].call
              => w = v
Drawn == \A c \in CallIds : /\ Status(c) = "none" => calls[c] = NoRow
                            /\ Status(c) # "none" => c \in used

IInv == /\ TypeOK
        /\ member \subseteq everMember
        /\ Drawn
        /\ OneMaker
        /\ ParticipantsWereMembers
        /\ \A w \in Workers : Knows(w)

-----------------------------------------------------------------------------
(***************************************************************************)
(* Types                                                                   *)
(***************************************************************************)
LEMMA IdleType == Idle \in Request
  BY DEF Idle, Request, Pcs, Statuses, Events

LEMMA DoneType ==
  ASSUME TypeOK, NEW w \in Workers, Done(w)
  PROVE  req' \in [Workers -> Request]
BY IdleType DEF TypeOK, Done

LEMMA GotoType ==
  ASSUME TypeOK, NEW w \in Workers, NEW pc \in Pcs, Goto(w, pc)
  PROVE  req' \in [Workers -> Request]
<1>1. req[w] \in Request
  BY DEF TypeOK
<1>2. [req[w] EXCEPT !.pc = pc] \in Request
  BY <1>1 DEF Request
<1>3. QED
  BY <1>2 DEF TypeOK, Goto

LEMMA StartType ==
  ASSUME TypeOK, NEW w \in Workers, NEW pc \in Pcs, NEW u \in Users,
         NEW c \in CallIds, NEW event \in Events, Start(w, pc, u, c, event),
         used' \in SUBSET CallIds
  PROVE  TypeOK'
<1>1. calls[c] \in Row
  BY DEF TypeOK
<1>2. [pc |-> pc, user |-> u, call |-> c, seen |-> Status(c), event |-> event]
        \in Request
  BY <1>1 DEF Request, Row, Status
<1>3. req' \in [Workers -> Request]
  BY <1>2 DEF Start, TypeOK
<1>4. QED
  BY <1>3 DEF Start, TypeOK

LEMMA BeginType ==
  ASSUME TypeOK, NEW w \in Workers, Begin(w)
  PROVE  TypeOK'
<1>1. PICK u \in Users, c \in CallIds :
        \/ StartCall(w, u, c) \/ AcceptCall(w, u, c)
        \/ RejectCall(w, u, c) \/ EndCall(w, u, c)
        \/ GetLiveKitToken(w, u, c)
  BY DEF Begin
<1>e. {"none", "incoming", "updated", "declined", "ended"} \subseteq Events
  BY DEF Events
<1>p. {"room", "join", "activate", "decline", "end", "token"} \subseteq Pcs
  BY DEF Pcs
<1>u. used \cup {c} \in SUBSET CallIds /\ used \in SUBSET CallIds
  BY DEF TypeOK
<1>2. CASE StartCall(w, u, c)
  BY <1>2, <1>e, <1>p, <1>u, StartType DEF StartCall
<1>3. CASE AcceptCall(w, u, c)
  <2>1. PICK pc \in {"join", "activate"} : Start(w, pc, u, c, "updated")
    BY <1>3 DEF AcceptCall
  <2>2. QED
    BY <1>3, <2>1, <1>e, <1>p, <1>u, StartType DEF AcceptCall
<1>4. CASE RejectCall(w, u, c)
  BY <1>4, <1>e, <1>p, <1>u, StartType DEF RejectCall
<1>5. CASE EndCall(w, u, c)
  BY <1>5, <1>e, <1>p, <1>u, StartType DEF EndCall
<1>6. CASE GetLiveKitToken(w, u, c)
  BY <1>6, <1>e, <1>p, <1>u, StartType DEF GetLiveKitToken
<1>7. QED
  BY <1>1, <1>2, <1>3, <1>4, <1>5, <1>6

\* The steps that write the calls row, and what they leave alone.
LEMMA WriterType ==
  ASSUME TypeOK, NEW w \in Workers, NEW pc \in Pcs, Wrote(w, pc),
         calls' \in [CallIds -> Row]
  PROVE  TypeOK'
BY GotoType DEF Wrote, TypeOK

LEMMA ContinueType ==
  ASSUME IInv, NEW w \in Workers, Continue(w)
  PROVE  TypeOK'
<1> DEFINE r == req[w]
<1>t. TypeOK /\ Knows(w)
  BY DEF IInv
<1>c. ~At(w, "idle") => r.user \in Users /\ r.call \in CallIds /\ calls[r.call] \in Row
  BY <1>t DEF Knows, At, TypeOK
<1>p. {"insert", "activate", "notify", "delete"} \subseteq Pcs
  BY DEF Pcs
<1>1. CASE CreateRoom(w)
  <2>1. req' \in [Workers -> Request]
    BY <1>1, <1>t, <1>p, DoneType, GotoType DEF CreateRoom
  <2>2. rooms' \in SUBSET CallIds
    BY <1>1, <1>c, <1>t DEF CreateRoom, At, TypeOK
  <2>3. QED
    BY <1>1, <1>t, <2>1, <2>2 DEF CreateRoom, TypeOK
<1>2. CASE InsertCall(w)
  <2>1. calls' \in [CallIds -> Row]
    BY <1>2, <1>c, <1>t DEF InsertCall, At, TypeOK, Row, Statuses, Open
  <2>2. QED
    BY <1>2, <1>t, <1>p, <2>1, WriterType DEF InsertCall
<1>3. CASE JoinCall(w)
  <2>1. calls' \in [CallIds -> Row]
    BY <1>3, <1>c, <1>t DEF JoinCall, At, TypeOK, Row
  <2>2. QED
    BY <1>3, <1>t, <1>p, <2>1, WriterType DEF JoinCall
<1>4. CASE ActivateCall(w)
  <2>1. calls' \in [CallIds -> Row]
    BY <1>4, <1>c, <1>t DEF ActivateCall, At, TypeOK, Row, Statuses, Open
  <2>2. QED
    BY <1>4, <1>t, <1>p, <2>1, WriterType DEF ActivateCall
<1>5. CASE DeclineCall(w)
  <2>1. calls' \in [CallIds -> Row]
    BY <1>5, <1>c, <1>t DEF DeclineCall, At, TypeOK, Row, Statuses, Closed
  <2>2. QED
    BY <1>5, <1>t, <1>p, <2>1, WriterType DEF DeclineCall
<1>6. CASE FinishCall(w)
  <2>1. calls' \in [CallIds -> Row]
    BY <1>6, <1>c, <1>t DEF FinishCall, At, TypeOK, Row, Statuses, Closed
  <2>2. QED
    BY <1>6, <1>t, <1>p, <2>1, WriterType DEF FinishCall
<1>7. CASE RegisterParticipant(w)
  <2>1. calls' \in [CallIds -> Row]
    BY <1>7, <1>c, <1>t DEF RegisterParticipant, At, TypeOK, Row
  <2>2. QED
    BY <1>7, <1>t, <2>1, DoneType DEF RegisterParticipant, TypeOK
<1>8. CASE Notify(w)
  <2>1. req' \in [Workers -> Request]
    BY <1>8, <1>t, <1>p, DoneType, GotoType DEF Notify
  <2>2. r \in Request
    BY <1>t DEF TypeOK
  <2>3. shown' \in [CallIds -> [Users -> Events]]
    <3>1. r.event \in Events /\ r.call \in CallIds
      BY <1>8, <1>c, <2>2 DEF Notify, At, Request
    <3>2. [u \in Users |-> IF u \in member /\ NamesChat(r.event)
                          THEN r.event ELSE shown[r.call][u]] \in [Users -> Events]
      BY <1>t, <3>1 DEF TypeOK
    <3>3. QED
      BY <1>8, <1>t, <3>1, <3>2 DEF Notify, TypeOK
  <2>4. QED
    BY <1>8, <1>t, <2>1, <2>3 DEF Notify, TypeOK
<1>9. CASE DeleteRoom(w)
  BY <1>9, <1>t, DoneType DEF DeleteRoom, TypeOK
<1>10. QED
  BY <1>1, <1>2, <1>3, <1>4, <1>5, <1>6, <1>7, <1>8, <1>9 DEF Continue

LEMMA TypeStep == IInv /\ [Next]_vars => TypeOK'
<1> SUFFICES ASSUME IInv, [Next]_vars PROVE TypeOK'
  OBVIOUS
<1>t. TypeOK
  BY DEF IInv
<1>1. ASSUME NEW w \in Workers, Begin(w) \/ Continue(w) PROVE TypeOK'
  BY <1>1, <1>t, BeginType, ContinueType
<1>2. CASE Environment
  <2>1. ASSUME NEW w \in Workers, Cancel(w) PROVE TypeOK'
    BY <1>t, <2>1, DoneType DEF Cancel, TypeOK
  <2>2. ASSUME NEW u \in Users, JoinChat(u) \/ LeaveChat(u) PROVE TypeOK'
    BY <1>t, <2>2 DEF JoinChat, LeaveChat, TypeOK
  <2>3. CASE UNCHANGED vars
    BY <1>t, <2>3 DEF vars, TypeOK
  <2>4. QED
    BY <1>2, <2>1, <2>2, <2>3 DEF Environment, RefuseCall
<1>3. CASE UNCHANGED vars
  BY <1>t, <1>3 DEF vars, TypeOK
<1>4. QED
  BY <1>1, <1>2, <1>3 DEF Next

-----------------------------------------------------------------------------
(***************************************************************************)
(* What a step does to a call, and to the handlers                         *)
(***************************************************************************)
Made(w, c) ==
  /\ At(w, "insert") /\ req[w].call = c /\ req'[w].pc = "notify"
  /\ calls'[c] = [status |-> "pending", initiator |-> req[w].user,
                  ended |-> FALSE, participants |-> {req[w].user}]
Joined(w, c) ==
  /\ req[w].pc \in {"join", "token"} /\ req[w].call = c
  /\ calls'[c] = [calls[c] EXCEPT !.participants = @ \cup {req[w].user}]
Written(w, c) ==
  /\ req[w].pc \in {"activate", "decline", "end"} /\ req[w].call = c
  /\ calls'[c].status \in Open \cup Closed
  /\ calls'[c].participants = calls[c].participants
  /\ calls[c].ended => calls'[c].ended
  /\ calls'[c].status \in Open => req[w].pc = "activate"

\* A row is inserted once, gets participants, and has its status written by
\* the handlers that said they would.
LEMMA CallStep ==
  ASSUME IInv, [Next]_vars, NEW c \in CallIds
  PROVE  \/ calls'[c] = calls[c]
         \/ \E w \in Workers : Made(w, c) \/ Joined(w, c) \/ Written(w, c)
<1> DEFINE Goal == \/ calls'[c] = calls[c]
                   \/ \E w \in Workers : Made(w, c) \/ Joined(w, c) \/ Written(w, c)
<1>t. /\ calls \in [CallIds -> Row] /\ calls[c] \in Row
      /\ req \in [Workers -> Request] /\ \A w \in Workers : req[w] \in Request
  BY DEF IInv, TypeOK
<1>1. CASE UNCHANGED calls
  BY <1>1
<1>2. ASSUME NEW w \in Workers, Continue(w) PROVE Goal
  <2>1. CASE InsertCall(w)
    BY <2>1, <1>t DEF InsertCall, Made, Wrote, Goto, Request
  <2>2. CASE JoinCall(w)
    BY <2>2, <1>t DEF JoinCall, Joined, At
  <2>3. CASE RegisterParticipant(w)
    BY <2>3, <1>t DEF RegisterParticipant, Joined, At
  <2>4. CASE ActivateCall(w)
    BY <2>4, <1>t DEF ActivateCall, Written, At, Row, Open
  <2>5. CASE DeclineCall(w)
    BY <2>5, <1>t DEF DeclineCall, Written, At, Row, Open, Closed
  <2>6. CASE FinishCall(w)
    BY <2>6, <1>t DEF FinishCall, Written, At, Row, Open, Closed
  <2>7. QED
    BY <1>2, <1>1, <2>1, <2>2, <2>3, <2>4, <2>5, <2>6
    DEF Continue, CreateRoom, Notify, DeleteRoom
<1>3. ASSUME NEW w \in Workers, Begin(w) PROVE UNCHANGED calls
  BY <1>3 DEF Begin, StartCall, AcceptCall, RejectCall, EndCall,
              GetLiveKitToken, Start
<1>4. QED
  BY <1>1, <1>2, <1>3
  DEF Next, Environment, Cancel, JoinChat, LeaveChat, RefuseCall, vars

LEMMA HistoryStep ==
  IInv /\ [Next]_vars => /\ used \subseteq used'
                         /\ everMember \subseteq everMember'
                         /\ (member \subseteq everMember)'
<1> SUFFICES ASSUME IInv, [Next]_vars
             PROVE  /\ used \subseteq used' /\ everMember \subseteq everMember'
                    /\ member' \subseteq everMember'
  OBVIOUS
<1>1. member \subseteq everMember
  BY DEF IInv
<1>2. ASSUME NEW w \in Workers, Begin(w)
      PROVE  used \subseteq used' /\ UNCHANGED <<member, everMember>>
  BY <1>2 DEF Begin, StartCall, AcceptCall, RejectCall, EndCall,
              GetLiveKitToken, Start
<1>3. ASSUME NEW w \in Workers, Continue(w)
      PROVE  UNCHANGED <<used, member, everMember>>
  BY <1>3 DEF Continue, CreateRoom, InsertCall, JoinCall, ActivateCall,
              DeclineCall, FinishCall, RegisterParticipant, Notify, DeleteRoom,
              Wrote
<1>4. QED
  BY <1>1, <1>2, <1>3
  DEF Next, Environment, Cancel, JoinChat, LeaveChat, RefuseCall, vars

\* A handler that does not move keeps what it knows.
LEMMA KnowsFrame ==
  ASSUME IInv, [Next]_vars, NEW v \in Workers, req'[v] = req[v]
  PROVE  Knows(v)'
<1> DEFINE r == req[v]
<1>1. Knows(v) /\ OneMaker /\ Drawn /\ calls \in [CallIds -> Row]
  BY DEF IInv, TypeOK
<1>2. used \subseteq used' /\ everMember \subseteq everMember'
  BY HistoryStep
<1>3. CASE r.pc = "idle"
  BY <1>3 DEF Knows, Making
<1>4. CASE r.pc # "idle"
  <2>1. r.call \in CallIds
    BY <1>1, <1>4 DEF Knows
  <2>2. CASE calls'[r.call] = calls[r.call]
    BY <1>1, <1>2, <2>2 DEF Knows, Status
  <2>3. ASSUME NEW w \in Workers, Made(w, r.call) PROVE Knows(v)'
    <3>0. Knows(w)
      BY DEF IInv
    <3>1. calls[r.call] = NoRow /\ calls'[r.call].status = "pending"
      BY <1>1, <2>1, <2>3, <3>0 DEF Made, Knows, Making, At, Drawn
    <3>2. r.pc \notin Making \/ v = w
      BY <1>1, <2>3 DEF Made, At, Making, OneMaker
    <3>3. v # w
      BY <2>3 DEF Made, At
    <3>4. QED
      BY <1>1, <1>2, <3>1, <3>2, <3>3 DEF Knows, Status, NoRow
  <2>4. ASSUME NEW w \in Workers, Joined(w, r.call) PROVE Knows(v)'
    <3>1. calls'[r.call].status = calls[r.call].status
          /\ calls'[r.call].ended = calls[r.call].ended
      BY <1>1, <2>1, <2>4 DEF Joined, Row
    <3>2. QED
      BY <1>1, <1>2, <3>1 DEF Knows, Status
  <2>5. ASSUME NEW w \in Workers, Written(w, r.call) PROVE Knows(v)'
    <3>1. calls'[r.call].status # "none" /\ calls[r.call].status # "none"
          /\ (calls[r.call].ended => calls'[r.call].ended)
      BY <1>1, <2>1, <2>5 DEF Written, Open, Closed, IInv, Knows, Making, Status
    <3>2. QED
      BY <1>1, <1>2, <3>1 DEF Knows, Status
  <2>6. QED
    BY <2>1, <2>2, <2>3, <2>4, <2>5, CallStep
<1>5. QED
  BY <1>3, <1>4

\* One handler moves at a time.
LEMMA OnlyMover ==
  ASSUME TypeOK, NEW w \in Workers, Begin(w) \/ Continue(w) \/ Cancel(w),
         NEW v \in Workers, v # w
  PROVE  req'[v] = req[v]
BY DEF TypeOK, Begin, StartCall, AcceptCall, RejectCall, EndCall,
       GetLiveKitToken, Start, Continue, CreateRoom, InsertCall, JoinCall,
       ActivateCall, DeclineCall, FinishCall, RegisterParticipant, Notify,
       DeleteRoom, Wrote, Goto, Done, Cancel

LEMMA KnowsDone ==
  ASSUME TypeOK, NEW w \in Workers, Done(w)
  PROVE  Knows(w)'
BY DEF TypeOK, Done, Idle, Knows, Making

LEMMA KnowsBegin ==
  ASSUME IInv, NEW w \in Workers, Begin(w)
  PROVE  Knows(w)'
<1>1. PICK u \in Users, c \in CallIds :
        \/ StartCall(w, u, c) \/ AcceptCall(w, u, c)
        \/ RejectCall(w, u, c) \/ EndCall(w, u, c)
        \/ GetLiveKitToken(w, u, c)
  BY DEF Begin
<1>t. /\ req \in [Workers -> Request] /\ member \subseteq everMember
      /\ Status(c) # "none" => c \in used
      /\ Status(c) = "none" \/ c \in used
  BY DEF IInv, TypeOK, Drawn
<1>2. CASE StartCall(w, u, c)
  <2>1. Status(c) = "none"
    BY <1>t, <1>2 DEF StartCall
  <2>2. QED
    BY <1>2, <1>t, <2>1 DEF StartCall, Start, Knows, Making, Status
<1>3. CASE AcceptCall(w, u, c)
  BY <1>3, <1>t DEF AcceptCall, Start, Knows, Making, Status
<1>4. CASE RejectCall(w, u, c)
  BY <1>4, <1>t DEF RejectCall, Start, Knows, Making, Status
<1>5. CASE EndCall(w, u, c)
  BY <1>5, <1>t DEF EndCall, Start, Knows, Making, Status, Open
<1>6. CASE GetLiveKitToken(w, u, c)
  BY <1>6, <1>t DEF GetLiveKitToken, Start, Knows, Making, Status
<1>7. QED
  BY <1>1, <1>2, <1>3, <1>4, <1>5, <1>6

LEMMA KnowsContinue ==
  ASSUME IInv, NEW w \in Workers, Continue(w)
  PROVE  Knows(w)'
<1> DEFINE r == req[w]
<1>t. /\ Knows(w) /\ TypeOK
      /\ calls \in [CallIds -> Row] /\ req \in [Workers -> Request]
      /\ r \in Request
  BY DEF IInv, TypeOK
<1>c. ~At(w, "idle") => r.call \in CallIds /\ calls[r.call] \in Row
  BY <1>t DEF Knows, At
<1>1. CASE CreateRoom(w)
  <2>1. CASE Done(w)
    BY <1>t, <2>1, KnowsDone
  <2>2. CASE Goto(w, "insert")
    BY <1>1, <1>t, <2>2 DEF CreateRoom, Goto, At, Knows, Making, Status, Request
  <2>3. QED
    BY <1>1, <2>1, <2>2 DEF CreateRoom
<1>2. CASE InsertCall(w)
  BY <1>2, <1>t, <1>c
  DEF InsertCall, Wrote, Goto, At, Knows, Making, Status, Request
<1>3. CASE JoinCall(w)
  BY <1>3, <1>t, <1>c
  DEF JoinCall, Wrote, Goto, At, Knows, Making, Status, Request, Row
<1>4. CASE ActivateCall(w)
  BY <1>4, <1>t, <1>c
  DEF ActivateCall, Wrote, Goto, At, Knows, Making, Status, Request, Row
<1>5. CASE DeclineCall(w)
  BY <1>5, <1>t, <1>c
  DEF DeclineCall, Wrote, Goto, At, Knows, Making, Status, Request, Row
<1>6. CASE FinishCall(w)
  BY <1>6, <1>t, <1>c
  DEF FinishCall, Wrote, Goto, At, Knows, Making, Status, Request, Row
<1>7. CASE RegisterParticipant(w) \/ DeleteRoom(w)
  BY <1>7, <1>t, KnowsDone DEF RegisterParticipant, DeleteRoom
<1>8. CASE Notify(w)
  <2>1. CASE Done(w)
    BY <1>t, <2>1, KnowsDone
  <2>2. CASE r.event = "ended" /\ Goto(w, "delete")
    BY <1>8, <1>t, <2>2 DEF Notify, Goto, At, Knows, Making, Status, Request
  <2>3. QED
    BY <1>8, <2>1, <2>2 DEF Notify
<1>9. QED
  BY <1>1, <1>2, <1>3, <1>4, <1>5, <1>6, <1>7, <1>8 DEF Continue

LEMMA KnowsStep == IInv /\ [Next]_vars => \A v \in Workers : Knows(v)'
<1> SUFFICES ASSUME IInv, [Next]_vars, NEW v \in Workers PROVE Knows(v)'
  OBVIOUS
<1>t. TypeOK
  BY DEF IInv
<1>1. CASE UNCHANGED req
  BY <1>1, KnowsFrame
<1>2. ASSUME NEW w \in Workers, Begin(w) \/ Continue(w) \/ Cancel(w)
      PROVE  Knows(v)'
  <2>1. CASE v # w
    BY <1>2, <1>t, <2>1, OnlyMover, KnowsFrame
  <2>2. CASE v = w
    BY <1>2, <1>t, <2>2, KnowsBegin, KnowsContinue, KnowsDone DEF Cancel
  <2>3. QED
    BY <2>1, <2>2
<1>3. QED
  BY <1>1, <1>2
  DEF Next, Environment, JoinChat, LeaveChat, RefuseCall, vars

\* A handler comes to make a call by drawing an id nobody has drawn.
LEMMA MakerStep ==
  ASSUME IInv, [Next]_vars, NEW v \in Workers, req'[v].pc \in Making
  PROVE  \/ req[v].pc \in Making /\ req'[v].call = req[v].call
         \/ /\ req'[v].call \notin used
            /\ \A w \in Workers : w # v => req'[w] = req[w]
<1> DEFINE Goal == \/ req[v].pc \in Making /\ req'[v].call = req[v].call
                   \/ /\ req'[v].call \notin used
                      /\ \A w \in Workers : w # v => req'[w] = req[w]
<1>t. TypeOK /\ req \in [Workers -> Request] /\ req[v] \in Request
  BY DEF IInv, TypeOK
<1>1. CASE req'[v] = req[v]
  BY <1>1
<1>2. CASE Begin(v)
  <2>1. PICK u \in Users, c \in CallIds :
          \/ StartCall(v, u, c) \/ AcceptCall(v, u, c)
          \/ RejectCall(v, u, c) \/ EndCall(v, u, c)
          \/ GetLiveKitToken(v, u, c)
    BY <1>2 DEF Begin
  <2>2. CASE StartCall(v, u, c)
    <3>1. req'[v].call = c /\ c \notin used
      BY <2>2, <1>t DEF StartCall, Start
    <3>2. QED
      BY <3>1, <1>2, <1>t, OnlyMover
  <2>3. CASE ~StartCall(v, u, c)
    BY <2>1, <2>3, <1>t
    DEF AcceptCall, RejectCall, EndCall, GetLiveKitToken, Start, Making
  <2>4. QED
    BY <2>2, <2>3
<1>3. CASE Continue(v) \/ Cancel(v)
  BY <1>3, <1>t
  DEF Continue, CreateRoom, InsertCall, JoinCall, ActivateCall, DeclineCall,
      FinishCall, RegisterParticipant, Notify, DeleteRoom, Wrote, Goto, Done,
      Idle, Cancel, At, Making, Request
<1>4. QED
  BY <1>1, <1>2, <1>3, <1>t, OnlyMover
  DEF Next, Environment, JoinChat, LeaveChat, RefuseCall, vars

LEMMA OneMakerStep == IInv /\ [Next]_vars => OneMaker'
<1> SUFFICES ASSUME IInv, [Next]_vars, NEW w \in Workers, NEW v \in Workers,
                    req'[w].pc \in Making, req'[v].pc \in Making,
                    req'[w].call = req'[v].call, w # v
             PROVE  FALSE
  BY DEF OneMaker
<1>1. OneMaker /\ Knows(w) /\ Knows(v)
  BY DEF IInv
<1>2. CASE req[w].pc \in Making /\ req'[w].call = req[w].call
           /\ req[v].pc \in Making /\ req'[v].call = req[v].call
  BY <1>1, <1>2 DEF OneMaker
<1>3. CASE req'[w].call \notin used /\ req'[v] = req[v]
  BY <1>1, <1>3 DEF Knows, Making
<1>4. CASE req'[v].call \notin used /\ req'[w] = req[w]
  BY <1>1, <1>4 DEF Knows, Making
<1>5. QED
  BY <1>2, <1>3, <1>4, MakerStep

LEMMA RowsStep == IInv /\ [Next]_vars => Drawn' /\ ParticipantsWereMembers'
<1> SUFFICES ASSUME IInv, [Next]_vars, NEW c \in CallIds
             PROVE  /\ calls'[c].status = "none" => calls'[c] = NoRow
                    /\ calls'[c].status # "none" => c \in used'
                    /\ calls'[c].participants \subseteq everMember'
  BY DEF Drawn, ParticipantsWereMembers, Status
<1>1. /\ calls[c].status = "none" => calls[c] = NoRow
      /\ calls[c].status # "none" => c \in used
      /\ calls[c].participants \subseteq everMember
      /\ calls[c] \in Row
  BY DEF IInv, TypeOK, Drawn, ParticipantsWereMembers, Status
<1>2. used \subseteq used' /\ everMember \subseteq everMember'
  BY HistoryStep
<1>3. CASE calls'[c] = calls[c]
  BY <1>1, <1>2, <1>3
<1>4. ASSUME NEW w \in Workers, Made(w, c) \/ Joined(w, c) \/ Written(w, c)
      PROVE  /\ calls'[c].status # "none" /\ c \in used
             /\ calls'[c].participants \subseteq everMember
  <2>1. Knows(w)
    BY DEF IInv
  <2>2. CASE Made(w, c)
    BY <2>1, <2>2 DEF Made, Knows, At, Making
  <2>3. CASE Joined(w, c)
    BY <1>1, <2>1, <2>3 DEF Joined, Knows, Making, Status, Row
  <2>4. CASE Written(w, c)
    BY <1>1, <2>1, <2>4 DEF Written, Knows, Making, Open, Closed
  <2>5. QED
    BY <1>4, <2>2, <2>3, <2>4
<1>5. QED
  BY <1>2, <1>3, <1>4, CallStep

LEMMA InvarianceStep == IInv /\ [Next]_vars => IInv'
  BY TypeStep, HistoryStep, RowsStep, OneMakerStep, KnowsStep DEF IInv

LEMMA InvarianceInit == Init => IInv
<1> SUFFICES ASSUME Init PROVE IInv
  OBVIOUS
<1>1. NoRow \in Row
  BY DEF NoRow, Row, Statuses
<1>2. TypeOK
  BY <1>1, IdleType DEF Init, TypeOK, Events
<1>3. /\ \A w \in Workers : req[w].pc = "idle"
      /\ \A c \in CallIds : calls[c] = NoRow /\ NoRow.status = "none"
      /\ member = everMember
  BY DEF Init, Idle, NoRow
<1>4. OneMaker /\ \A w \in Workers : Knows(w)
  BY <1>3 DEF OneMaker, Knows, Making
<1>5. Drawn
  BY <1>3 DEF Drawn, Status
<1>6. ParticipantsWereMembers
  BY <1>3 DEF ParticipantsWereMembers, NoRow
<1>7. QED
  BY <1>2, <1>3, <1>4, <1>5, <1>6 DEF IInv

LEMMA Invariance == Spec => []IInv
  BY InvarianceInit, InvarianceStep, PTL DEF Spec

-----------------------------------------------------------------------------
(***************************************************************************)
(* Theorems                                                                *)
(***************************************************************************)
\* Types of the call rows, the rooms and the handlers of call.py in flight.
THEOREM TypeCorrect == Spec => []TypeOK
<1>1. IInv => TypeOK
  BY DEF IInv
<1>2. QED
  BY <1>1, Invariance, PTL

\* Whoever is stored as a participant was a member of the chat, however the
\* check of AcceptCall or GetLiveKitToken and the insert are interleaved with
\* him leaving.
THEOREM ParticipantsWereMembersHolds == Spec => []ParticipantsWereMembers
<1>1. IInv => ParticipantsWereMembers
  BY DEF IInv
<1>2. QED
  BY <1>1, Invariance, PTL

\* A handler says that it will write the status of a call only while it finds
\* the call open.
LEMMA NewWriter ==
  ASSUME IInv, [Next]_vars, NEW w \in Workers, NEW c \in CallIds,
         Writing(w, c)', ~Writing(w, c)
  PROVE  Status(c) \notin Closed
<1> DEFINE Goal == Status(c) \notin Closed
<1>t. TypeOK /\ Knows(w) /\ req \in [Workers -> Request] /\ req[w] \in Request
  BY DEF IInv, TypeOK
<1>1. CASE req'[w] = req[w]
  BY <1>1 DEF Writing
<1>2. CASE Begin(w)
  <2>1. PICK u \in Users, d \in CallIds :
          \/ StartCall(w, u, d) \/ AcceptCall(w, u, d)
          \/ RejectCall(w, u, d) \/ EndCall(w, u, d)
          \/ GetLiveKitToken(w, u, d)
    BY <1>2 DEF Begin
  <2>2. CASE StartCall(w, u, d) \/ GetLiveKitToken(w, u, d)
    BY <1>t, <2>2 DEF StartCall, GetLiveKitToken, Start, Writing
  <2>3. CASE AcceptCall(w, u, d) \/ RejectCall(w, u, d) \/ EndCall(w, u, d)
    <3>1. req'[w].call = d /\ Status(d) \in Open
      BY <1>t, <2>3 DEF AcceptCall, RejectCall, EndCall, Start, Open
    <3>2. QED
      BY <3>1 DEF Writing, Open, Closed
  <2>4. QED
    BY <2>1, <2>2, <2>3
<1>3. CASE CreateRoom(w)
  BY <1>t, <1>3
  DEF CreateRoom, Goto, Done, Idle, At, Writing, Request, Knows, Making, Closed
<1>4. CASE (Continue(w) /\ ~CreateRoom(w)) \/ Cancel(w)
  BY <1>t, <1>4
  DEF Continue, InsertCall, JoinCall, ActivateCall, DeclineCall,
      FinishCall, RegisterParticipant, Notify, DeleteRoom, Wrote, Goto, Done,
      Idle, Cancel, At, Writing, Request
<1>5. QED
  BY <1>1, <1>2, <1>3, <1>4, <1>t, OnlyMover
  DEF Next, Environment, JoinChat, LeaveChat, RefuseCall, vars

\* A call that is closed, and that no handler is still to write, keeps its
\* outcome whatever answers, rejections, ends and token requests come late.
THEOREM SettledForGoodHolds == Spec => SettledForGood
<1>1. ASSUME IInv, [Next]_vars, NEW c \in CallIds, Settled(c)
      PROVE  Settled(c)' /\ Status(c)' = Status(c)
  <2>1. /\ Status(c) \in Closed /\ calls[c] \in Row
        /\ \A w \in Workers : ~Writing(w, c)
    BY <1>1 DEF Settled, IInv, TypeOK
  <2>2. ASSUME NEW w \in Workers, Joined(w, c) PROVE Status(c)' = Status(c)
    BY <2>1, <2>2 DEF Joined, Row, Status
  <2>3. ASSUME NEW w \in Workers PROVE ~Made(w, c) /\ ~Written(w, c)
    BY <2>1 DEF Made, Written, Writing, At
  <2>4. Status(c)' = Status(c)
    BY <1>1, <2>2, <2>3, CallStep DEF Status
  <2>5. ASSUME NEW w \in Workers PROVE ~Writing(w, c)'
    BY <1>1, <2>1, NewWriter
  <2>6. QED
    BY <2>1, <2>4, <2>5 DEF Settled
<1> DEFINE Kept == \A c \in CallIds :
                     Settled(c) => Settled(c)' /\ Status(c)' = Status(c)
<1>2. IInv /\ [Next]_vars => [Kept]_vars
  BY <1>1
<1>3. QED
  BY <1>2, Invariance, PTL DEF Spec, SettledForGood

\* A room is deleted by an EndCall that has written the end of its call.
LEMMA RoomStep ==
  ASSUME IInv, [Next]_vars, NEW c \in CallIds, c \in rooms, c \notin rooms'
  PROVE  calls[c].ended
<1>1. ASSUME NEW w \in Workers, Begin(w) PROVE FALSE
  BY <1>1
  DEF Begin, StartCall, AcceptCall, RejectCall, EndCall, GetLiveKitToken, Start
<1>2. ASSUME NEW w \in Workers, Continue(w)
      PROVE  DeleteRoom(w) /\ req[w].call = c
  <2>1. DeleteRoom(w)
    BY <1>2
    DEF Continue, CreateRoom, InsertCall, JoinCall, ActivateCall, DeclineCall,
        FinishCall, RegisterParticipant, Notify, Wrote
  <2>2. QED
    BY <2>1 DEF DeleteRoom
<1>3. PICK w \in Workers : DeleteRoom(w) /\ req[w].call = c
  BY <1>1, <1>2
  DEF Next, Environment, Cancel, JoinChat, LeaveChat, RefuseCall, vars
<1>4. QED
  BY <1>3 DEF DeleteRoom, At, IInv, Knows

\* A LiveKit room goes only when the end of its call is on record.
THEOREM RoomOutlivesCallHolds == Spec => RoomOutlivesCall
<1> DEFINE Ended == \A c \in CallIds : c \in rooms /\ c \notin rooms' => calls[c].ended
<1>1. IInv /\ [Next]_vars => [Ended]_vars
  BY RoomStep
<1>2. QED
  BY <1>1, Invariance, PTL DEF Spec, RoomOutlivesCall

-----------------------------------------------------------------------------
(***************************************************************************)
(* Handlers that overlap                                                   *)
(***************************************************************************)
\* Which handler writes the status of a call, and what it writes.
StatusKept(c) == /\ calls'[c].status = calls[c].status
                 /\ calls'[c].ended = calls[c].ended
Inserted(w, c) == /\ At(w, "insert") /\ req[w].call = c
                  /\ calls'[c].status = "pending" /\ calls'[c].ended = FALSE
                  /\ req'[w].pc = "notify" /\ req'[w].call = c
Activated(w, c) == /\ At(w, "activate") /\ req[w].call = c
                   /\ calls'[c].status = "active" /\ calls'[c].ended = calls[c].ended
                   /\ req'[w].pc = "notify" /\ req'[w].call = c
Finished(w, c) == /\ req[w].pc \in {"decline", "end"} /\ req[w].call = c
                  /\ calls'[c].status \in Closed /\ calls'[c].ended = TRUE
                  /\ At(w, "decline") => calls'[c].status = "declined"
                  /\ req'[w].pc = "notify" /\ req'[w].call = c

LEMMA StatusStep ==
  ASSUME IInv, [Next]_vars, NEW c \in CallIds
  PROVE  \/ StatusKept(c)
         \/ \E w \in Workers : Inserted(w, c) \/ Activated(w, c) \/ Finished(w, c)
<1> DEFINE Goal == \/ StatusKept(c)
                   \/ \E w \in Workers :
                        Inserted(w, c) \/ Activated(w, c) \/ Finished(w, c)
<1>t. calls \in [CallIds -> Row] /\ calls[c] \in Row
  BY DEF IInv, TypeOK
<1>g. ASSUME NEW w \in Workers, Wrote(w, "notify")
      PROVE  req'[w].pc = "notify" /\ req'[w].call = req[w].call
  BY <1>g DEF IInv, TypeOK, Request, Wrote, Goto
<1>1. CASE UNCHANGED calls
  BY <1>1 DEF StatusKept
<1>2. ASSUME NEW w \in Workers, Continue(w) PROVE Goal
  <2>1. CASE InsertCall(w)
    BY <2>1, <1>t, <1>g DEF InsertCall, StatusKept, Inserted
  <2>2. CASE JoinCall(w) \/ RegisterParticipant(w)
    BY <2>2, <1>t DEF JoinCall, RegisterParticipant, StatusKept, Row
  <2>3. CASE ActivateCall(w)
    BY <2>3, <1>t, <1>g DEF ActivateCall, StatusKept, Activated, Row
  <2>4. CASE DeclineCall(w)
    BY <2>4, <1>t, <1>g DEF DeclineCall, StatusKept, Finished, At, Row, Closed
  <2>5. CASE FinishCall(w)
    BY <2>5, <1>t, <1>g DEF FinishCall, StatusKept, Finished, At, Row, Closed
  <2>6. QED
    BY <1>2, <1>1, <2>1, <2>2, <2>3, <2>4, <2>5
    DEF Continue, CreateRoom, Notify, DeleteRoom
<1>3. ASSUME NEW w \in Workers, Begin(w) PROVE UNCHANGED calls
  BY <1>3 DEF Begin, StartCall, AcceptCall, RejectCall, EndCall,
              GetLiveKitToken, Start
<1>4. QED
  BY <1>1, <1>2, <1>3
  DEF Next, Environment, Cancel, JoinChat, LeaveChat, RefuseCall, vars

\* The event of a handler follows from where it is waiting.
Says(w) ==
  LET r == req[w] IN
  /\ r.pc \in Making => r.event = "incoming"
  /\ r.pc \in {"join", "activate"} => r.event = "updated"
  /\ r.pc = "decline" => r.event = "declined"
  /\ r.pc = "end" => r.event = "ended"
  /\ r.pc = "notify" => r.event \in {"incoming", "updated", "declined", "ended"}

\* The event that tells the status of a call.
Matches(event, status) ==
  \/ event = "incoming" /\ status = "pending"
  \/ event = "updated" /\ status = "active"
  \/ event = "declined" /\ status = "declined"
  \/ event = "ended" /\ status \in Closed

\* What a handler found when it began is still so, unless it was crossed.
Still(w) ==
  LET r == req[w] IN
  /\ r.pc \in Making =>
       \A c \in OpenCalls : c \in crossed \/ r.call \in crossed
  /\ r.pc \in {"join", "activate"} =>
       Status(r.call) \in Open \/ r.call \in crossed
  /\ r.pc = "notify" => Matches(r.event, Status(r.call)) \/ r.call \in crossed

HInv == /\ IInv
        /\ Crossing \subseteq crossed
        /\ \A w \in Workers : Says(w) /\ Still(w)

\* Handlers at odds have crossed.
LEMMA OddsCross ==
  ASSUME Crossing \subseteq crossed, NEW w \in Workers, NEW v \in Workers, AtOdds(w, v)
  PROVE  req[w].call \in crossed
BY DEF Crossing

\* The history only grows, and misses no crossing.
LEMMA CrossedStep ==
  ASSUME HInv, [OverlapNext]_hvars
  PROVE  [Next]_vars /\ crossed \subseteq crossed' /\ Crossing' \subseteq crossed'
<1>1. CASE OverlapNext
  BY <1>1 DEF OverlapNext
<1>2. CASE UNCHANGED hvars
  <2>1. UNCHANGED vars /\ req' = req /\ crossed' = crossed
    BY <1>2 DEF hvars, vars
  <2>2. Crossing' = Crossing
    BY <2>1 DEF Crossing, AtOdds
  <2>3. QED
    BY <2>1, <2>2 DEF HInv
<1>3. QED
  BY <1>1, <1>2

LEMMA SaysStep ==
  ASSUME IInv, [Next]_vars, NEW v \in Workers, Says(v)
  PROVE  Says(v)'
<1>t. TypeOK /\ req \in [Workers -> Request] /\ req[v] \in Request
  BY DEF IInv, TypeOK
<1>1. CASE req'[v] = req[v]
  BY <1>1 DEF Says
<1>2. CASE Begin(v)
  <2>1. PICK u \in Users, c \in CallIds :
          \/ StartCall(v, u, c) \/ AcceptCall(v, u, c)
          \/ RejectCall(v, u, c) \/ EndCall(v, u, c)
          \/ GetLiveKitToken(v, u, c)
    BY <1>2 DEF Begin
  <2>2. QED
    BY <1>t, <2>1
    DEF StartCall, AcceptCall, RejectCall, EndCall, GetLiveKitToken, Start, Says, Making
<1>3. CASE CreateRoom(v) \/ InsertCall(v) \/ JoinCall(v)
  BY <1>t, <1>3
  DEF CreateRoom, InsertCall, JoinCall, Wrote, Goto, Done, Idle, At, Says, Making, Request
<1>4. CASE ActivateCall(v) \/ DeclineCall(v) \/ FinishCall(v)
  BY <1>t, <1>4
  DEF ActivateCall, DeclineCall, FinishCall, Wrote, Goto, At, Says, Making, Request
<1>5. CASE RegisterParticipant(v) \/ Notify(v) \/ DeleteRoom(v) \/ Cancel(v)
  BY <1>t, <1>5
  DEF RegisterParticipant, Notify, DeleteRoom, Cancel, Goto, Done, Idle, Says, Making,
      Request
<1>6. QED
  BY <1>1, <1>2, <1>3, <1>4, <1>5, <1>t, OnlyMover
  DEF Continue, Next, Environment, JoinChat, LeaveChat, RefuseCall, vars

\* A call is opened by a handler that had just been told it could, or was
\* crossed.
LEMMA OpenStep ==
  ASSUME HInv, [Next]_vars, NEW e \in CallIds,
         calls'[e].status \in Open, Status(e) \notin Open
  PROVE  e \in crossed \/ \E w \in Workers : Inserted(w, e)
<1>1. CASE StatusKept(e)
  BY <1>1 DEF StatusKept, Status
<1>2. ASSUME NEW w \in Workers, Activated(w, e) PROVE e \in crossed
  BY <1>2 DEF Activated, HInv, Still, At
<1>3. ASSUME NEW w \in Workers, Finished(w, e) PROVE FALSE
  BY <1>3 DEF Finished, Open, Closed
<1>4. QED
  BY <1>1, <1>2, <1>3, StatusStep DEF HInv

\* A handler that does not move: whoever spoils what it found crosses it.
LEMMA StillFrame ==
  ASSUME HInv, [Next]_vars, crossed \subseteq crossed', NEW v \in Workers, req'[v] = req[v]
  PROVE  Still(v)'
<1> DEFINE r == req[v]
<1>0. PICK c : c = r.call
  OBVIOUS
<1>t. /\ IInv /\ Knows(v) /\ Says(v) /\ Still(v) /\ Crossing \subseteq crossed
      /\ r.pc # "idle" => c \in CallIds
  BY <1>0 DEF HInv, IInv, Knows
<1>1. ASSUME r.pc \in Making, NEW e \in CallIds, calls'[e].status \in Open
      PROVE  e \in crossed \/ c \in crossed
  <2>1. CASE Status(e) \in Open
    BY <1>0, <1>1, <1>t, <2>1 DEF Still, OpenCalls
  <2>2. CASE Status(e) \notin Open
    <3>1. ASSUME NEW w \in Workers, Inserted(w, e) PROVE e \in crossed
      <4>1. w # v
        BY <3>1, <1>1 DEF Inserted, Making
      <4>2. AtOdds(w, v)
        BY <4>1, <3>1, <1>1 DEF Inserted, Making, At, AtOdds
      <4>3. QED
        BY <3>1, <4>2, <1>t, OddsCross DEF Inserted
    <3>2. QED
      BY <1>1, <2>2, <3>1, OpenStep
  <2>3. QED
    BY <2>1, <2>2
<1>2. ASSUME r.pc \in {"join", "activate"}, c \notin crossed
      PROVE  calls'[c].status \in Open
  <2>0. Status(c) \in Open /\ r.event = "updated" /\ c \in CallIds
    BY <1>0, <1>2, <1>t DEF Still, Says
  <2>1. CASE StatusKept(c)
    BY <2>0, <2>1 DEF StatusKept, Status
  <2>2. ASSUME NEW w \in Workers, Inserted(w, c) \/ Activated(w, c)
        PROVE  calls'[c].status \in Open
    BY <2>2 DEF Inserted, Activated, Open
  <2>3. ASSUME NEW w \in Workers, Finished(w, c) PROVE FALSE
    <3>1. Says(w) /\ req[w].call = c /\ req[w].event \in {"declined", "ended"}
      BY <2>3 DEF HInv, Says, Finished
    <3>2. w # v
      BY <2>0, <3>1
    <3>3. AtOdds(v, w)
      BY <1>0, <2>0, <3>1, <3>2 DEF AtOdds
    <3>4. QED
      BY <1>0, <1>2, <1>t, <3>3, OddsCross
  <2>4. QED
    BY <1>t, <2>0, <2>1, <2>2, <2>3, StatusStep
<1>3. ASSUME r.pc = "notify", c \notin crossed
      PROVE  Matches(r.event, calls'[c].status)
  <2>0. /\ Matches(r.event, Status(c)) /\ c \in CallIds /\ Status(c) # "none"
        /\ r.event \in {"incoming", "updated", "declined", "ended"}
    BY <1>0, <1>3, <1>t DEF Still, Says, Knows, Making
  <2>1. CASE StatusKept(c)
    BY <2>0, <2>1 DEF StatusKept, Status
  <2>2. ASSUME NEW w \in Workers, Inserted(w, c) PROVE FALSE
    BY <2>0, <2>2, <1>t DEF Inserted, IInv, Knows, At, Making
  <2>3. ASSUME NEW w \in Workers, Activated(w, c) \/ Finished(w, c)
        PROVE  /\ req[w].event = r.event
               /\ Matches(req[w].event, calls'[c].status)
    <3>1. /\ Says(w) /\ req[w].call = c
          /\ req[w].event \in {"updated", "declined", "ended"}
          /\ Matches(req[w].event, calls'[c].status)
      BY <2>3 DEF HInv, Says, Activated, Finished, Matches, At
    <3>2. CASE req[w].event # r.event
      <4>1. AtOdds(v, w)
        BY <1>0, <2>0, <3>1, <3>2 DEF AtOdds
      <4>2. QED
        BY <1>0, <1>3, <1>t, <4>1, OddsCross
    <3>3. QED
      BY <3>1, <3>2
  <2>4. QED
    BY <1>t, <2>0, <2>1, <2>2, <2>3, StatusStep
<1>4. QED
  BY <1>0, <1>1, <1>2, <1>3 DEF Still, OpenCalls, Status

\* A handler that moves writes what its next wait relies on.
LEMMA StillMove ==
  ASSUME HInv, crossed \subseteq crossed', NEW w \in Workers,
         Begin(w) \/ Continue(w) \/ Cancel(w)
  PROVE  Still(w)'
<1> DEFINE r == req[w]
<1>0. PICK c : c = r.call
  OBVIOUS
<1>t. /\ req \in [Workers -> Request] /\ r \in Request
      /\ calls \in [CallIds -> Row] /\ Knows(w) /\ Says(w) /\ Still(w)
  BY DEF HInv, IInv, TypeOK
<1>c. r.pc # "idle" => c \in CallIds /\ calls[c] \in Row
  BY <1>0, <1>t DEF Knows
<1>g. ASSUME NEW pc, Goto(w, pc)
      PROVE  req'[w].pc = pc /\ req'[w].call = c /\ req'[w].event = r.event
  BY <1>0, <1>g, <1>t DEF Goto, Request
<1>d. ASSUME Done(w) PROVE Still(w)'
  BY <1>d, <1>t DEF Done, Idle, Still, Making
<1>n. ASSUME Goto(w, "notify"), Matches(r.event, calls'[c].status) PROVE Still(w)'
  BY <1>g, <1>n DEF Still, Making, Status
<1>1. CASE Begin(w)
  <2>1. PICK u \in Users, d \in CallIds :
          \/ StartCall(w, u, d) \/ AcceptCall(w, u, d)
          \/ RejectCall(w, u, d) \/ EndCall(w, u, d)
          \/ GetLiveKitToken(w, u, d)
    BY <1>1 DEF Begin
  <2>2. CASE StartCall(w, u, d)
    BY <1>t, <2>2 DEF StartCall, Start, Still, OpenCalls, Status, Making
  <2>3. CASE AcceptCall(w, u, d)
    BY <1>t, <2>3 DEF AcceptCall, Start, Still, Status, Making, Open
  <2>4. CASE RejectCall(w, u, d) \/ EndCall(w, u, d) \/ GetLiveKitToken(w, u, d)
    BY <1>t, <2>4 DEF RejectCall, EndCall, GetLiveKitToken, Start, Still, Making
  <2>5. QED
    BY <2>1, <2>2, <2>3, <2>4
<1>2. CASE CreateRoom(w)
  <2>1. CASE Done(w)
    BY <1>d, <2>1
  <2>2. CASE Goto(w, "insert")
    <3>1. /\ req'[w].pc = "insert" /\ req'[w].call = c /\ calls' = calls
          /\ \A d \in OpenCalls : d \in crossed \/ c \in crossed
      BY <1>0, <1>2, <1>g, <1>t, <2>2 DEF CreateRoom, At, Still, Making
    <3>2. QED
      BY <3>1 DEF Still, Making, OpenCalls, Status
  <2>3. QED
    BY <1>2, <2>1, <2>2 DEF CreateRoom
<1>3. CASE InsertCall(w)
  BY <1>0, <1>3, <1>t, <1>c, <1>n DEF InsertCall, Wrote, At, Says, Making, Matches
<1>4. CASE JoinCall(w)
  <2>1. /\ req'[w].pc = "activate" /\ req'[w].call = c
        /\ calls'[c].status = calls[c].status
        /\ Status(c) \in Open \/ c \in crossed
    BY <1>0, <1>4, <1>g, <1>t, <1>c DEF JoinCall, Wrote, At, Still, Row
  <2>2. QED
    BY <2>1 DEF Still, Making, Status
<1>5. CASE ActivateCall(w)
  BY <1>0, <1>5, <1>t, <1>c, <1>n DEF ActivateCall, Wrote, At, Says, Making, Matches, Row
<1>6. CASE DeclineCall(w)
  BY <1>0, <1>6, <1>t, <1>c, <1>n DEF DeclineCall, Wrote, At, Says, Making, Matches, Row
<1>7. CASE FinishCall(w)
  BY <1>0, <1>7, <1>t, <1>c, <1>n
  DEF FinishCall, Wrote, At, Says, Making, Matches, Row, Closed
<1>8. CASE RegisterParticipant(w) \/ DeleteRoom(w) \/ Cancel(w)
  BY <1>8, <1>d DEF RegisterParticipant, DeleteRoom, Cancel
<1>9. CASE Notify(w)
  <2>1. CASE Done(w)
    BY <1>d, <2>1
  <2>2. CASE Goto(w, "delete")
    BY <1>g, <2>2 DEF Still, Making
  <2>3. QED
    BY <1>9, <2>1, <2>2 DEF Notify
<1>10. QED
  BY <1>1, <1>2, <1>3, <1>4, <1>5, <1>6, <1>7, <1>8, <1>9 DEF Continue

LEMMA HStep == HInv /\ [OverlapNext]_hvars => HInv'
<1> SUFFICES ASSUME HInv, [OverlapNext]_hvars PROVE HInv'
  OBVIOUS
<1>1. [Next]_vars /\ crossed \subseteq crossed' /\ Crossing' \subseteq crossed'
  BY CrossedStep
<1>2. IInv' /\ \A v \in Workers : Says(v)'
  BY <1>1, InvarianceStep, SaysStep DEF HInv
<1>3. ASSUME NEW v \in Workers PROVE Still(v)'
  <2>1. CASE Begin(v) \/ Continue(v) \/ Cancel(v)
    BY <1>1, <2>1, StillMove
  <2>2. CASE ~(Begin(v) \/ Continue(v) \/ Cancel(v))
    <3>1. req'[v] = req[v]
      BY <1>1, <2>2, OnlyMover
      DEF HInv, IInv, Next, Environment, JoinChat, LeaveChat, RefuseCall, vars
    <3>2. QED
      BY <1>1, <3>1, StillFrame
  <2>3. QED
    BY <2>1, <2>2
<1>4. QED
  BY <1>1, <1>2, <1>3 DEF HInv

LEMMA HInit == OverlapInit => HInv
<1> SUFFICES ASSUME OverlapInit PROVE HInv
  OBVIOUS
<1>1. IInv
  BY InvarianceInit DEF OverlapInit
<1>2. \A w \in Workers : req[w].pc = "idle" /\ req[w].event = "none"
  BY DEF OverlapInit, Init, Idle
<1>3. Crossing = {}
  BY <1>2 DEF Crossing, AtOdds, Making
<1>4. ASSUME NEW w \in Workers PROVE Says(w) /\ Still(w)
  BY <1>2 DEF Says, Still, Making
<1>5. QED
  BY <1>1, <1>3, <1>4 DEF HInv

LEMMA HInvariance == OverlapSpec => []HInv
  BY HInit, HStep, PTL DEF OverlapSpec

LEMMA OneOpenStep ==
  ASSUME HInv, OneOpenCall, [OverlapNext]_hvars
  PROVE  OneOpenCall'
<1> SUFFICES ASSUME NEW c \in CallIds, NEW d \in CallIds, c # d,
                    calls'[c].status \in Open, calls'[d].status \in Open
             PROVE  c \in crossed' \/ d \in crossed'
  BY DEF OneOpenCall, OpenCalls, Status
<1>t. [Next]_vars /\ crossed \subseteq crossed' /\ Crossing \subseteq crossed
  BY CrossedStep DEF HInv
<1>1. CASE Status(c) \in Open /\ Status(d) \in Open
  BY <1>t, <1>1 DEF OneOpenCall, OpenCalls
<1>2. ASSUME NEW x \in CallIds, NEW y \in CallIds, x # y, Status(x) \notin Open,
             calls'[x].status \in Open, calls'[y].status \in Open
      PROVE  x \in crossed \/ y \in crossed
  <2>1. ASSUME NEW w \in Workers, Inserted(w, x) PROVE x \in crossed \/ y \in crossed
    <3>1. CASE Status(y) \in Open
      BY <2>1, <3>1 DEF Inserted, At, HInv, Still, Making, OpenCalls
    <3>2. CASE Status(y) \notin Open
      <4>1. ASSUME NEW v \in Workers, Inserted(v, y) PROVE x \in crossed
        <5>1. w # v
          BY <1>2, <2>1, <4>1 DEF Inserted
        <5>2. AtOdds(w, v)
          BY <2>1, <4>1, <5>1 DEF Inserted, At, AtOdds, Making
        <5>3. QED
          BY <1>t, <2>1, <5>2, OddsCross DEF Inserted
      <4>2. QED
        BY <1>t, <1>2, <3>2, <4>1, OpenStep
    <3>3. QED
      BY <3>1, <3>2
  <2>2. QED
    BY <1>t, <1>2, <2>1, OpenStep
<1>3. QED
  BY <1>t, <1>1, <1>2

\* However many handlers of call.py overlap, and wherever they are cancelled, two
\* calls are open at once only if the handlers of one of them were at odds: two
\* StartCalls in flight together, or an answer overtaken by the end of its call.
THEOREM OneOpenCallHolds == OverlapSpec => []OneOpenCall
<1>1. OverlapInit => OneOpenCall
  BY DEF OverlapInit, Init, NoRow, OneOpenCall, OpenCalls, Status, Open
<1>2. HInv /\ OneOpenCall /\ [OverlapNext]_hvars => OneOpenCall'
  BY OneOpenStep
<1>3. QED
  BY <1>1, <1>2, HInvariance, PTL DEF OverlapSpec

\* A call is inserted when its room is there.
HasRoom == \A w \in Workers : At(w, "insert") => req[w].call \in rooms

LEMMA HasRoomStep ==
  ASSUME IInv, HasRoom, [Next]_vars
  PROVE  HasRoom'
<1> SUFFICES ASSUME NEW w \in Workers, req'[w].pc = "insert"
             PROVE  req'[w].call \in rooms'
  BY DEF HasRoom, At
<1>t. /\ TypeOK /\ req \in [Workers -> Request] /\ req[w] \in Request
      /\ Knows(w) /\ Drawn
  BY DEF IInv, TypeOK
<1>1. CASE req'[w] = req[w]
  <2>1. /\ req[w].call \in rooms /\ req[w].call \in CallIds
        /\ ~calls[req[w].call].ended
    BY <1>1, <1>t DEF HasRoom, At, Knows, Making, Drawn, NoRow
  <2>2. QED
    BY <1>1, <2>1, RoomStep
<1>2. CASE Begin(w)
  BY <1>2, <1>t DEF Begin, StartCall, AcceptCall, RejectCall, EndCall,
                    GetLiveKitToken, Start
<1>3. CASE CreateRoom(w)
  BY <1>3, <1>t DEF CreateRoom, Goto, Done, Idle, Request
<1>4. CASE (Continue(w) /\ ~CreateRoom(w)) \/ Cancel(w)
  BY <1>t, <1>4
  DEF Continue, InsertCall, JoinCall, ActivateCall, DeclineCall, FinishCall,
      RegisterParticipant, Notify, DeleteRoom, Wrote, Goto, Done, Idle, Cancel,
      At, Request
<1>5. QED
  BY <1>1, <1>2, <1>3, <1>4, <1>t, OnlyMover
  DEF Next, Environment, JoinChat, LeaveChat, RefuseCall, vars

LEMMA WholeStep ==
  ASSUME HInv, HasRoom, OpenCallIsWhole, [OverlapNext]_hvars
  PROVE  OpenCallIsWhole'
<1> SUFFICES ASSUME NEW c \in CallIds, c \notin crossed'
             PROVE  /\ calls'[c].ended <=> calls'[c].status \in Closed
                    /\ calls'[c].status \in Open => c \in rooms'
  BY DEF OpenCallIsWhole, OpenCalls, Status
<1>t. [Next]_vars /\ c \notin crossed /\ IInv
  BY CrossedStep DEF HInv
<1>1. /\ calls[c].ended \in BOOLEAN /\ Drawn
      /\ calls[c].ended <=> calls[c].status \in Closed
      /\ calls[c].status \in Open => c \in rooms
  BY <1>t DEF IInv, TypeOK, Row, OpenCallIsWhole, OpenCalls, Status
<1>2. c \in rooms => c \in rooms' \/ calls[c].ended
  BY <1>t, RoomStep
<1>3. CASE StatusKept(c)
  BY <1>1, <1>2, <1>3 DEF StatusKept, Open, Closed
<1>4. ASSUME NEW w \in Workers, Inserted(w, c)
      PROVE  /\ calls'[c].ended <=> calls'[c].status \in Closed
             /\ calls'[c].status \in Open => c \in rooms'
  <2>1. c \in rooms
    BY <1>4 DEF Inserted, HasRoom
  <2>2. Knows(w)
    BY <1>t DEF IInv
  <2>3. ~calls[c].ended
    BY <1>1, <1>4, <2>2 DEF Inserted, At, Knows, Making, Drawn, NoRow
  <2>4. QED
    BY <1>2, <1>4, <2>1, <2>3 DEF Inserted, Closed
<1>5. ASSUME NEW w \in Workers, Activated(w, c)
      PROVE  /\ calls'[c].ended <=> calls'[c].status \in Closed
             /\ calls'[c].status \in Open => c \in rooms'
  <2>1. calls[c].status \in Open
    BY <1>5, <1>t DEF Activated, At, HInv, Still, Status
  <2>2. QED
    BY <1>1, <1>2, <1>5, <2>1 DEF Activated, Open, Closed
<1>6. ASSUME NEW w \in Workers, Finished(w, c)
      PROVE  /\ calls'[c].ended <=> calls'[c].status \in Closed
             /\ calls'[c].status \in Open => c \in rooms'
  BY <1>6 DEF Finished, Open, Closed
<1>7. QED
  BY <1>t, <1>3, <1>4, <1>5, <1>6, StatusStep

\* However many handlers overlap, and wherever they are cancelled: of a call whose
\* own handlers were never at odds, ended_at is set exactly when it is closed, and
\* its LiveKit room exists while it is open.
THEOREM OpenCallIsWholeHolds == OverlapSpec => []OpenCallIsWhole
<1>1. OverlapInit => HasRoom /\ OpenCallIsWhole
  BY DEF OverlapInit, Init, Idle, NoRow, HasRoom, At, OpenCallIsWhole, OpenCalls,
         Status, Open, Closed
<1>2. HInv /\ HasRoom /\ OpenCallIsWhole /\ [OverlapNext]_hvars
        => HasRoom' /\ OpenCallIsWhole'
  BY HasRoomStep, WholeStep, CrossedStep DEF HInv
<1>3. QED
  BY <1>1, <1>2, HInvariance, PTL DEF OverlapSpec

-----------------------------------------------------------------------------
(***************************************************************************)
(* What the members are shown                                              *)
(***************************************************************************)
\* Nobody has been shown anything of a call that is not on record.
Silent == \A c \in CallIds : Status(c) = "none" => \A u \in Users : shown[c][u] = "none"
Stayed == /\ stayed \in [CallIds -> SUBSET Users]
          /\ \A c \in CallIds : stayed[c] \subseteq member
Outcome == Silent /\ Stayed /\ MembersSeeOutcome

\* What the members should see follows the status alone.
LEMMA ShowsStatus ==
  ASSUME NEW c \in CallIds
  PROVE  /\ Status(c) = "none" => Shows(c) = "none"
         /\ Status(c) = "pending" => Shows(c) = "incoming"
         /\ Status(c) = "active" => Shows(c) = "updated"
         /\ Status(c) \in Closed => Shows(c) = "ended"
         /\ calls'[c].status = calls[c].status => Shows(c)' = Shows(c)
BY DEF Shows, Status, Closed

\* What the members are shown of a call changes by its own events only.
LEMMA ShownStep ==
  ASSUME IInv, [Next]_vars, NEW c \in CallIds,
         \A w \in Workers : ~(Notify(w) /\ req[w].call = c)
  PROVE  shown'[c] = shown[c]
<1>1. ASSUME NEW w \in Workers, Notify(w) PROVE shown'[c] = shown[c]
  BY <1>1 DEF Notify, IInv, TypeOK
<1>2. ASSUME NEW w \in Workers, Begin(w) PROVE shown' = shown
  BY <1>2 DEF Begin, StartCall, AcceptCall, RejectCall, EndCall,
              GetLiveKitToken, Start
<1>3. ASSUME NEW w \in Workers, Continue(w), ~Notify(w) PROVE shown' = shown
  BY <1>3
  DEF Continue, CreateRoom, InsertCall, JoinCall, ActivateCall, DeclineCall,
      FinishCall, RegisterParticipant, DeleteRoom, Wrote
<1>4. QED
  BY <1>1, <1>2, <1>3
  DEF Next, Environment, Cancel, JoinChat, LeaveChat, RefuseCall, vars

\* An event of c, and whom it is shown to.
LEMMA NotifyStep ==
  ASSUME IInv, NEW w \in Workers, Notify(w), NEW c, c = req[w].call
  PROVE  /\ c \in CallIds /\ c \in used /\ Status(c) # "none" /\ At(w, "notify")
         /\ calls' = calls /\ member' = member
         /\ req[w].event # "declined" =>
              \A u \in member : shown'[c][u] = req[w].event
<1>1. Knows(w) /\ At(w, "notify")
  BY DEF IInv, Notify
<1>2. c \in CallIds /\ c \in used /\ Status(c) # "none"
  BY <1>1 DEF Knows, At, Making
<1>3. /\ member \subseteq Users /\ shown \in [CallIds -> [Users -> Events]]
  BY DEF IInv, TypeOK
<1>4. shown'[c] = [u \in Users |-> IF u \in member /\ NamesChat(req[w].event)
                                 THEN req[w].event ELSE shown[c][u]]
  BY <1>2, <1>3 DEF Notify
<1>5. QED
  BY <1>1, <1>2, <1>3, <1>4 DEF Notify, NamesChat

LEMMA StayedStep ==
  ASSUME IInv, Stayed, [OverlapNext]_hvars
  PROVE  /\ Stayed'
         /\ \A c \in used : stayed'[c] \subseteq stayed[c]
<1>0. used \subseteq CallIds
  BY DEF IInv, TypeOK
<1>1. CASE OverlapNext
  <2>1. member' \subseteq Users
    BY <1>1, InvarianceStep DEF OverlapNext, IInv, TypeOK
  <2>2. stayed' = [c \in CallIds |-> IF c \in used THEN stayed[c] \cap member'
                                                   ELSE member']
    BY <1>1 DEF OverlapNext
  <2>3. QED
    BY <1>0, <2>1, <2>2 DEF Stayed
<1>2. CASE UNCHANGED hvars
  BY <1>0, <1>2 DEF hvars, vars, Stayed
<1>3. QED
  BY <1>1, <1>2

LEMMA SilentStep ==
  ASSUME IInv, Silent, [Next]_vars
  PROVE  Silent'
<1> SUFFICES ASSUME NEW c \in CallIds, calls'[c].status = "none"
             PROVE  \A u \in Users : shown'[c][u] = "none"
  BY DEF Silent, Status
<1>1. Status(c) = "none" /\ calls'[c].status = calls[c].status
  <2>1. ASSUME NEW w \in Workers, Inserted(w, c) \/ Activated(w, c) \/ Finished(w, c)
        PROVE  FALSE
    BY <2>1 DEF Inserted, Activated, Finished, Closed
  <2>2. QED
    BY <2>1, StatusStep DEF StatusKept, Status
<1>2. ASSUME NEW w \in Workers, Notify(w), req[w].call = c PROVE FALSE
  BY <1>1, <1>2, NotifyStep
<1>3. QED
  BY <1>1, <1>2, ShownStep DEF Silent

LEMMA SeenStep ==
  ASSUME HInv, Outcome, [OverlapNext]_hvars
  PROVE  MembersSeeOutcome'
<1> SUFFICES ASSUME NEW c \in CallIds, c \notin crossed', c \notin unsaid',
                    Announced(c)', Status(c)' # "declined",
                    NEW u \in stayed'[c]
             PROVE  shown'[c][u] = Shows(c)'
  BY DEF MembersSeeOutcome
<1>t. /\ IInv /\ [Next]_vars /\ c \notin crossed
      /\ Stayed' /\ \A d \in used : stayed'[d] \subseteq stayed[d]
      /\ Silent'
  BY CrossedStep, StayedStep, SilentStep DEF HInv, Outcome
<1>u. u \in member' /\ u \in Users
  BY <1>t, InvarianceStep DEF Stayed, IInv, TypeOK
<1>1. ASSUME NEW w \in Workers, Notify(w), req[w].call = c
      PROVE  shown'[c][u] = Shows(c)'
  <2>1. /\ At(w, "notify") /\ calls' = calls /\ member' = member
        /\ req[w].event # "declined" =>
             \A x \in member : shown'[c][x] = req[w].event
    BY <1>t, <1>1, NotifyStep
  <2>2. Matches(req[w].event, Status(c))
    BY <1>t, <1>1, <2>1 DEF HInv, Still, At
  <2>3. Status(c)' = Status(c) /\ Shows(c)' = Shows(c)
    BY <2>1 DEF Status, Shows
  <2>4. req[w].event # "declined"
    BY <2>2, <2>3 DEF Matches
  <2>5. shown'[c][u] = req[w].event
    BY <1>u, <2>1, <2>4
  <2>6. req[w].event = Shows(c)
    BY <2>2, <2>4, ShowsStatus DEF Matches
  <2>7. QED
    BY <2>3, <2>5, <2>6
<1>2. ASSUME \A w \in Workers : ~(Notify(w) /\ req[w].call = c)
      PROVE  shown'[c][u] = Shows(c)'
  <2>1. shown'[c] = shown[c]
    BY <1>t, <1>2, ShownStep
  <2>2. calls'[c].status = calls[c].status
    <3>1. ASSUME NEW w \in Workers,
                 Inserted(w, c) \/ Activated(w, c) \/ Finished(w, c)
          PROVE  FALSE
      BY <3>1 DEF Inserted, Activated, Finished, Announced, At
    <3>2. QED
      BY <1>t, <3>1, StatusStep DEF StatusKept
  <2>3. Status(c)' = Status(c) /\ Shows(c)' = Shows(c)
    BY <2>2, ShowsStatus DEF Status
  <2>4. CASE Status(c) = "none"
    BY <1>u, <2>3, <2>4, <1>t, ShowsStatus DEF Silent
  <2>5. CASE Status(c) # "none"
    <3>1. u \in stayed[c]
      BY <1>t, <2>5 DEF IInv, Drawn
    <3>2. CASE UNCHANGED hvars
      <4>1. c \notin unsaid /\ Announced(c)
        BY <3>2 DEF hvars, vars, Announced, At
      <4>2. QED
        BY <1>t, <2>1, <2>3, <3>1, <4>1 DEF Outcome, MembersSeeOutcome
    <3>3. CASE OverlapNext
      <4>1. c \notin unsaid /\ c \notin CutOff
        BY <1>2, <3>3 DEF OverlapNext, Published
      <4>2. ASSUME NEW w \in Workers, At(w, "notify"), req[w].call = c PROVE FALSE
        <5>1. ~Cancel(w)
          BY <4>1, <4>2 DEF CutOff
        <5>2. ~Begin(w) /\ ~Continue(w)
          BY <1>2, <4>2
          DEF Begin, StartCall, AcceptCall, RejectCall, EndCall, GetLiveKitToken,
              Start, Continue, CreateRoom, InsertCall, JoinCall, ActivateCall,
              DeclineCall, FinishCall, RegisterParticipant, DeleteRoom, At
        <5>3. req'[w] = req[w]
          BY <1>t, <5>1, <5>2, OnlyMover
          DEF IInv, Next, Environment, JoinChat, LeaveChat, RefuseCall, vars
        <5>4. QED
          BY <4>2, <5>3 DEF Announced, At
      <4>3. Announced(c)
        BY <4>2 DEF Announced
      <4>4. QED
        BY <1>t, <2>1, <2>3, <3>1, <4>1, <4>3 DEF Outcome, MembersSeeOutcome
    <3>4. QED
      BY <3>2, <3>3
  <2>6. QED
    BY <2>4, <2>5
<1>3. QED
  BY <1>1, <1>2

\* However many handlers overlap: whoever has been a member since a call began has
\* been shown the status it has, unless the call's own handlers were at odds, an event
\* of it is about to be published, or was cut off; a declined call is the exception,
\* because RejectCall's event names no chat.
THEOREM MembersSeeOutcomeHolds == OverlapSpec => []MembersSeeOutcome
<1>1. ASSUME OverlapInit PROVE Outcome
  <2>1. /\ \A c \in CallIds : /\ Status(c) = "none"
                              /\ \A u \in Users : shown[c][u] = "none"
        /\ member \subseteq Users
        /\ stayed = [c \in CallIds |-> member]
    BY <1>1 DEF OverlapInit, Init, NoRow, Status
  <2>2. Silent /\ Stayed
    BY <2>1 DEF Silent, Stayed
  <2>3. MembersSeeOutcome
    BY <2>1, ShowsStatus DEF MembersSeeOutcome
  <2>4. QED
    BY <2>2, <2>3 DEF Outcome
<1>2. HInv /\ Outcome /\ [OverlapNext]_hvars => Outcome'
  BY CrossedStep, StayedStep, SilentStep, SeenStep DEF HInv, Outcome
<1>3. Outcome => MembersSeeOutcome
  BY DEF Outcome
<1>4. QED
  BY <1>1, <1>2, <1>3, HInvariance, PTL DEF OverlapSpec
=============================================================================
