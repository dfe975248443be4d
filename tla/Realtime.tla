------------------------------ MODULE Realtime ------------------------------
(***************************************************************************)
(* Delivery of one chat's events to its members by the WebSocket service   *)
(* (websocketSide/router.py, manager.py, redis_c.py, main.py).  One task   *)
(* per connection and one that listens to Redis share an event loop; every *)
(* Redis command is one step and any task may run between two of them.     *)
(*                                                                         *)
(* All Users are members of the chat.  An event is its number in the order *)
(* of publication.  The online set and the offline queues are in Redis and *)
(* outlive the service; what Redis has published and the service has not   *)
(* read yet does not.                                                      *)
(***************************************************************************)
EXTENDS Integers, Sequences

CONSTANTS Users, Conns,
          NoUser,
          MaxEvents      \* bound: events published

ASSUME NoUserAssumption == NoUser \notin Users
ASSUME MaxEventsAssumption == MaxEvents \in Nat \ {0}

VARIABLES
  published,  \* 0..MaxEvents                events published so far
  bus,        \* Seq(Event)                  published, not read by the listener
  online,     \* SUBSET Users                ws:online_users
  queue,      \* [Users -> Seq(Event)]       ws:offline:<user>
  sockets,    \* [Users -> SUBSET Conns]     manager._connections
  conn,       \* [Conns -> Connection]       the task of each connection
  listener,   \* Listener                    the task that reads the bus
  got,        \* [Conns -> Seq(Delivery)]    what each client received
  lost        \* SUBSET (Users \X Event)     what a step dropped for a user

vars == <<published, bus, online, queue, sockets, conn, listener, got, lost>>

Event == 1..MaxEvents
Delivery == [ev: Event, live: BOOLEAN]

\* pc is "open" while the heartbeat task runs and "late" once that has ended.  A
\* connection is "gone" after the finally block, "ended" without most of it.
\* stalled: the client is there and does not read.
Connection == [pc: {"free", "accepted", "online", "delete", "drain", "open", "late",
                    "left", "gone", "ended", "killed"},
               user: Users \cup {NoUser}, alive: BOOLEAN, stalled: BOOLEAN,
               batch: Seq(Event)]
NoConnection == [pc |-> "free", user |-> NoUser, alive |-> FALSE, stalled |-> FALSE,
                 batch |-> <<>>]

\* kept: the set of sockets being sent to is still the one in sockets.
Listener == [pc: {"idle", "each", "send", "sending", "enqueue"}, ev: 0..MaxEvents,
             todo: SUBSET Users, user: Users \cup {NoUser},
             targets: SUBSET Conns, dead: SUBSET Conns, kept: BOOLEAN]
Listening == [pc |-> "idle", ev |-> 0, todo |-> {}, user |-> NoUser,
              targets |-> {}, dead |-> {}, kept |-> FALSE]

TypeOK == /\ published \in 0..MaxEvents
          /\ bus \in Seq(Event)
          /\ online \in SUBSET Users
          /\ queue \in [Users -> Seq(Event)]
          /\ sockets \in [Users -> SUBSET Conns]
          /\ conn \in [Conns -> Connection]
          /\ listener \in Listener
          /\ got \in [Conns -> Seq(Delivery)]
          /\ lost \in SUBSET (Users \X Event)

Init == /\ published = 0
        /\ bus = <<>>
        /\ online = {}
        /\ queue = [u \in Users |-> <<>>]
        /\ sockets = [u \in Users |-> {}]
        /\ conn = [c \in Conns |-> NoConnection]
        /\ listener = Listening
        /\ got = [c \in Conns |-> <<>>]
        /\ lost = {}

At(c, pc) == conn[c].pc = pc
Goto(c, pc) == conn' = [conn EXCEPT ![c].pc = pc]

\* Users us will not get the events of the sequence s.
In(s) == {s[i] : i \in DOMAIN s}
Lose(us, evs) == lost' = lost \cup (us \X evs)

(***************************************************************************)
(* The connection: accept, SADD, LRANGE, DEL, send what was queued, and    *)
(* then read from the client until that fails.                             *)
(***************************************************************************)
Accept(c, u) ==
  /\ At(c, "free")
  /\ conn' = [conn EXCEPT ![c] = [pc |-> "accepted", user |-> u, alive |-> TRUE,
                                  stalled |-> FALSE, batch |-> <<>>]]
  /\ sockets' = [sockets EXCEPT ![u] = @ \cup {c}]
  /\ UNCHANGED <<published, bus, online, queue, listener, got, lost>>

\* Mutant: an error of SADD is logged and the connection goes on.
AddOnlineOrNot(c) ==
  /\ At(c, "accepted")
  /\ online' \in {online, online \cup {conn[c].user}}
  /\ Goto(c, "online")
  /\ UNCHANGED <<published, bus, queue, sockets, listener, got, lost>>

AddOnline(c) ==
  /\ At(c, "accepted")
  /\ online' = online \cup {conn[c].user}
  /\ Goto(c, "online")
  /\ UNCHANGED <<published, bus, queue, sockets, listener, got, lost>>

\* Errors while the queue is read, deleted or sent are logged, and the connection
\* goes on to open with nothing in hand.
ReadQueue(c) ==
  LET waiting == queue[conn[c].user] IN
  /\ At(c, "online")
  /\ \/ conn' = [conn EXCEPT ![c].batch = waiting,
                             ![c].pc = IF waiting = <<>> THEN "open" ELSE "delete"]
     \/ Goto(c, "open")
  /\ UNCHANGED <<published, bus, online, queue, sockets, listener, got, lost>>

\* An error of DEL comes before or after Redis has deleted the key.
DeleteQueue(c) ==
  LET u == conn[c].user
      dropped == [conn EXCEPT ![c].batch = <<>>, ![c].pc = "open"]
  IN
  /\ At(c, "delete")
  /\ \/ /\ queue' = [queue EXCEPT ![u] = <<>>]
        /\ \/ Goto(c, "drain") /\ Lose({u}, In(queue[u]) \ In(conn[c].batch))
           \/ conn' = dropped /\ Lose({u}, In(queue[u]) \cup In(conn[c].batch))
     \/ conn' = dropped /\ UNCHANGED <<queue, lost>>
  /\ UNCHANGED <<published, bus, online, sockets, listener, got>>

\* A send to a client that is gone may raise, which drops the rest.
SendQueued(c) ==
  LET batch == conn[c].batch IN
  /\ At(c, "drain")
  /\ ~conn[c].stalled
  /\ IF batch # <<>> /\ conn[c].alive
     THEN /\ got' = [got EXCEPT ![c] = Append(@, [ev |-> Head(batch), live |-> FALSE])]
          /\ conn' = [conn EXCEPT ![c].batch = Tail(batch)]
          /\ UNCHANGED lost
     ELSE /\ conn' = [conn EXCEPT ![c].batch = <<>>, ![c].pc = "open"]
          /\ Lose({conn[c].user}, In(batch))
          /\ UNCHANGED got
  /\ UNCHANGED <<published, bus, online, queue, sockets, listener>>

\* The client leaves or the network fails.
HangUp(c) ==
  /\ conn[c].alive
  /\ conn' = [conn EXCEPT ![c].alive = FALSE, ![c].stalled = FALSE]
  /\ UNCHANGED <<published, bus, online, queue, sockets, listener, got, lost>>

\* A client stops reading, which matters when something is sent to it, or goes on.
Stall(c) ==
  /\ conn[c].alive
  /\ At(c, "drain") \/ c \in listener.targets
  /\ conn' = [conn EXCEPT ![c].stalled = ~@]
  /\ UNCHANGED <<published, bus, online, queue, sockets, listener, got, lost>>

\* heartbeat_checker closes the socket of a client that has sent no ping, and ends.
HeartbeatTimeout(c) ==
  /\ At(c, "open")
  /\ conn' = [conn EXCEPT ![c].pc = "late", ![c].alive = FALSE, ![c].stalled = FALSE]
  /\ UNCHANGED <<published, bus, online, queue, sockets, listener, got, lost>>

\* Nothing can be read from the client, or an error of the database or of the answer
\* to a request: the finally block cancels the heartbeat task and awaits it, and the
\* CancelledError, which is no Exception, ends the block there.
End(c) ==
  /\ At(c, "open")
  /\ conn' = [conn EXCEPT ![c].pc = "ended", ![c].alive = FALSE, ![c].stalled = FALSE]
  /\ UNCHANGED <<published, bus, online, queue, sockets, listener, got, lost>>

\* The finally block of a connection whose heartbeat task was not started, because
\* the set-up failed, or has ended: manager.disconnect, which pops an empty set,
\* then SREM whoever else is connected.
Disconnect(c) ==
  LET u == conn[c].user
      rest == sockets[u] \ {c}
  IN
  /\ conn[c].pc \in {"accepted", "online", "late"}
  /\ sockets' = [sockets EXCEPT ![u] = rest]
  /\ listener' = [listener EXCEPT !.kept = @ /\ ~(listener.user = u /\ rest = {})]
  /\ Goto(c, "left")
  /\ UNCHANGED <<published, bus, online, queue, got, lost>>

\* An error of SREM is suppressed.
RemoveOnline(c) ==
  /\ At(c, "left")
  /\ online' \in {online \ {conn[c].user}, online}
  /\ conn' = [conn EXCEPT ![c].pc = "gone", ![c].alive = FALSE, ![c].stalled = FALSE]
  /\ UNCHANGED <<published, bus, queue, sockets, listener, got, lost>>

(***************************************************************************)
(* handle_redis_event: for each member SISMEMBER, then send or RPUSH.      *)
(***************************************************************************)
Publish ==
  /\ published < MaxEvents
  /\ published' = published + 1
  /\ bus' = Append(bus, published + 1)
  /\ UNCHANGED <<online, queue, sockets, conn, listener, got, lost>>

TakeEvent ==
  /\ listener.pc = "idle"
  /\ bus # <<>>
  /\ bus' = Tail(bus)
  /\ listener' = [Listening EXCEPT !.pc = "each", !.ev = Head(bus), !.todo = Users]
  /\ UNCHANGED <<published, online, queue, sockets, conn, got, lost>>

\* Mutant: a member who is not online is passed over.
CheckOnlineOrSkip(u) ==
  /\ listener.pc = "each"
  /\ u \in listener.todo
  /\ listener' = IF u \in online
                 THEN [listener EXCEPT !.pc = "send", !.todo = @ \ {u}, !.user = u]
                 ELSE [listener EXCEPT !.todo = @ \ {u}]
  /\ UNCHANGED <<published, bus, online, queue, sockets, conn, got, lost>>

\* An error of get_message: redis-py subscribes again, and what was published in
\* between is not read.
PubsubFails ==
  /\ listener.pc = "idle"
  /\ bus' = <<>>
  /\ Lose(Users, In(bus))
  /\ UNCHANGED <<published, online, queue, sockets, conn, listener, got>>

CheckOnline(u) ==
  /\ listener.pc = "each"
  /\ u \in listener.todo
  /\ listener' = [listener EXCEPT !.pc = IF u \in online THEN "send" ELSE "enqueue",
                                  !.todo = @ \ {u}, !.user = u]
  /\ UNCHANGED <<published, bus, online, queue, sockets, conn, got, lost>>

NextMember ==
  listener' = IF listener.todo = {} THEN Listening
              ELSE [Listening EXCEPT !.pc = "each", !.ev = listener.ev,
                                     !.todo = listener.todo]

\* manager.send_to_user takes the set of the user's sockets and walks a copy.
TakeSockets ==
  /\ listener.pc = "send"
  /\ IF sockets[listener.user] = {}
     THEN /\ NextMember
          /\ Lose({listener.user}, {listener.ev})
     ELSE /\ listener' = [listener EXCEPT !.pc = "sending", !.kept = TRUE,
                                          !.targets = sockets[listener.user]]
          /\ UNCHANGED lost
  /\ UNCHANGED <<published, bus, online, queue, sockets, conn, got>>

\* Mutant: an event that misses a device is queued.
SendToOrQueue(c) ==
  /\ listener.pc = "sending"
  /\ c \in listener.targets
  /\ listener' = [listener EXCEPT !.targets = @ \ {c}]
  /\ IF conn[c].alive
     THEN /\ got' = [got EXCEPT ![c] = Append(@, [ev |-> listener.ev, live |-> TRUE])]
          /\ UNCHANGED queue
     ELSE /\ queue' = [queue EXCEPT ![listener.user] = Append(@, listener.ev)]
          /\ UNCHANGED got
  /\ UNCHANGED <<published, bus, online, sockets, conn, lost>>

\* A send to a client that is gone may raise or be swallowed; it raises once the
\* service has noticed.  A send to a client that does not read waits.
Noticed == {"late", "gone", "ended"}

\* Mutant: a device that raised stays in the walk.
SendToAgain(c) ==
  /\ listener.pc = "sending"
  /\ c \in listener.targets
  /\ ~conn[c].stalled
  /\ IF conn[c].alive
     THEN /\ got' = [got EXCEPT ![c] = Append(@, [ev |-> listener.ev, live |-> TRUE])]
          /\ listener' = [listener EXCEPT !.targets = @ \ {c}]
          /\ UNCHANGED lost
     ELSE /\ listener' = [listener EXCEPT !.dead = @ \cup {c}]
          /\ Lose({listener.user}, {listener.ev})
          /\ UNCHANGED got
  /\ UNCHANGED <<published, bus, online, queue, sockets, conn>>

SendTo(c) ==
  /\ listener.pc = "sending"
  /\ c \in listener.targets
  /\ ~conn[c].stalled
  /\ IF conn[c].alive
     THEN /\ got' = [got EXCEPT ![c] = Append(@, [ev |-> listener.ev, live |-> TRUE])]
          /\ listener' = [listener EXCEPT !.targets = @ \ {c}]
          /\ UNCHANGED lost
     ELSE /\ \E raised \in SUBSET {c} :
               /\ conn[c].pc \in Noticed => raised = {c}
               /\ listener' = [listener EXCEPT !.targets = @ \ {c},
                                               !.dead = @ \cup raised]
          /\ Lose({listener.user}, {listener.ev})
          /\ UNCHANGED got
  /\ UNCHANGED <<published, bus, online, queue, sockets, conn>>

\* The sockets that raised leave the set.  When the set is empty the user's
\* entry is popped, even when it is another set by now: that of a connection
\* accepted after the last one of the set disconnected.
EndSend ==
  /\ listener.pc = "sending"
  /\ listener.targets = {}
  /\ sockets' = [sockets EXCEPT ![listener.user] =
                   IF listener.kept THEN @ \ listener.dead ELSE {}]
  /\ NextMember
  /\ UNCHANGED <<published, bus, online, queue, conn, got, lost>>

\* Mutants: the recipient pushed instead of the event; LPUSH.
EnqueueRecipient ==
  /\ listener.pc = "enqueue"
  /\ queue' = [queue EXCEPT ![listener.user] = Append(@, listener.user)]
  /\ NextMember
  /\ UNCHANGED <<published, bus, online, sockets, conn, got, lost>>
EnqueueLeft ==
  /\ listener.pc = "enqueue"
  /\ queue' = [queue EXCEPT ![listener.user] = <<listener.ev>> \o @]
  /\ NextMember
  /\ UNCHANGED <<published, bus, online, sockets, conn, got, lost>>

Enqueue ==
  /\ listener.pc = "enqueue"
  /\ queue' = [queue EXCEPT ![listener.user] = Append(@, listener.ev)]
  /\ NextMember
  /\ UNCHANGED <<published, bus, online, sockets, conn, got, lost>>

\* Users who have not been served the event in hand.
Unserved == IF listener = Listening THEN {} ELSE listener.todo \cup {listener.user}

\* An error of Redis or the database ends the event for the members not served; an
\* RPUSH may have been applied before its error.
FailEvent ==
  /\ \/ /\ listener.pc \in {"each", "enqueue"}
        /\ Lose(Unserved \ {NoUser}, {listener.ev})
        /\ UNCHANGED queue
     \/ /\ listener.pc = "enqueue"
        /\ queue' = [queue EXCEPT ![listener.user] = Append(@, listener.ev)]
        /\ Lose(listener.todo, {listener.ev})
  /\ listener' = Listening
  /\ UNCHANGED <<published, bus, online, sockets, conn, got>>

\* The service is killed and started again; nothing in Redis is reset.
Restart ==
  /\ bus' = <<>>
  /\ sockets' = [u \in Users |-> {}]
  /\ conn' = [c \in Conns |->
                IF conn[c].pc \in {"free", "gone", "ended"} THEN conn[c] ELSE
                [conn[c] EXCEPT !.pc = "killed", !.alive = FALSE, !.stalled = FALSE,
                                !.batch = <<>>]]
  /\ listener' = Listening
  /\ lost' = lost \cup (Users \X In(bus))
                  \cup ((Unserved \ {NoUser}) \X {listener.ev})
                  \cup UNION {{conn[c].user} \X In(conn[c].batch) : c \in Conns}
  /\ UNCHANGED <<published, online, queue, got>>

Connect(c) == AddOnline(c) \/ ReadQueue(c) \/ DeleteQueue(c) \/ SendQueued(c)
Client(c) == HangUp(c) \/ Stall(c)
Leave(c) == HeartbeatTimeout(c) \/ End(c) \/ Disconnect(c) \/ RemoveOnline(c)
Listen == \/ TakeEvent \/ TakeSockets \/ EndSend \/ Enqueue
          \/ \E u \in Users : CheckOnline(u)
          \/ \E c \in Conns : SendTo(c)
Fail == PubsubFails \/ FailEvent \/ Restart

Next == \/ \E c \in Conns : \/ \E u \in Users : Accept(c, u)
                            \/ Connect(c) \/ Client(c) \/ Leave(c)
        \/ Publish \/ Listen \/ Fail

Spec == Init /\ [][Next]_vars

\* The listener waits for a device it sends to that does not read.
HeldUp == listener.pc = "sending" /\ \E c \in listener.targets : conn[c].stalled

\* The event loop resumes the listener, unless that waits for a client.
FairSpec == Spec /\ WF_vars(~HeldUp /\ Listen)

-----------------------------------------------------------------------------
(***************************************************************************)
(* Safety                                                                  *)
(***************************************************************************)
Deliveries == UNION {{<<c, i>> : i \in DOMAIN got[c]} : c \in Conns}
Received(d) == got[d[1]][d[2]]

\* An event reaches a user live or from the queue, never both, whichever of his
\* devices it reaches, and it reaches no device twice: not even from a queue
\* that two devices read before either deletes it.
OnePath ==
  \A d, e \in Deliveries :
    conn[d[1]].user = conn[e[1]].user /\ Received(d).ev = Received(e).ev =>
      /\ Received(d).live = Received(e).live
      /\ d[1] = e[1] => d = e

\* What a device receives live, and what it receives from the queue, it receives
\* in the order of publication.  (Live events may overtake the queue while that
\* is being sent.)
InOrder ==
  \A c \in Conns : \A i, j \in DOMAIN got[c] :
    i < j /\ got[c][i].live = got[c][j].live => got[c][i].ev < got[c][j].ev

\* A device that is set up is in presence and, while its client is there, in the
\* table, so that events find it, whatever other devices and the listener do in the
\* meantime: only another connection of the user whose finally block has run can hide
\* it.
Shown == {"online", "delete", "drain", "open", "late"}
NoneLeft(u) == \A c \in Conns : conn[c].user = u => conn[c].pc \notin {"left", "gone"}
Reachable ==
  \A c \in Conns : conn[c].pc \in Shown /\ NoneLeft(conn[c].user) =>
    /\ conn[c].user \in online
    /\ conn[c].alive => c \in sockets[conn[c].user]

\* Nothing gets lost on the way but by the steps that say so: until the listener
\* has dealt with it an event is on the bus or in hand for every user, and then it
\* is in his queue, in what a device of his took from it, or received.
Held(u, e) == \/ e \in In(bus)
              \/ listener.ev = e /\ u \in Unserved
              \/ e \in In(queue[u])
              \/ \E c \in Conns : /\ conn[c].user = u
                                  /\ \/ e \in In(conn[c].batch)
                                     \/ \E d \in In(got[c]) : d.ev = e
Accounted == \A u \in Users, e \in 1..published : <<u, e>> \in lost \/ Held(u, e)

(***************************************************************************)
(* Liveness                                                                *)
(***************************************************************************)
\* Every event published is handled, although one listener serves every member and
\* device in turn and any of them may fail, unless devices that are there and do not
\* read hold it up again and again: nothing else does.
EventsAreHandled == []<>(bus = <<>> /\ listener = Listening) \/ []<>HeldUp

(***************************************************************************)
(* Statements of the docs that the code does not keep                      *)
(***************************************************************************)
\* README 5.1, "login from several devices", and 6.15, "online/offline
\* presence": a user with an open connection is online.
OpenIsOnline ==
  \A c \in Conns : conn[c].alive /\ conn[c].pc = "open" => conn[c].user \in online

\* README 5.6, "storage of offline messages until the user's next login": an event
\* for a user all of whose connections have ended is queued.
EndedGetsQueued ==
  [][\A u \in Users : listener.pc = "each" /\ listener'.pc = "send" /\ listener'.user = u
       => \E c \in Conns : conn[c].user = u /\ conn[c].pc # "ended"]_vars
=============================================================================
